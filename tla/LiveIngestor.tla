---------------------------- MODULE LiveIngestor ----------------------------
(***************************************************************************)
(* The polling ingestor (src/scripts/run_live_ingestor.py, LiveRunner) and *)
(* its reducer (src/scripts/espn_ingestor.py, CollectorState), between the *)
(* ESPN draft detail they read and the DraftSession they feed.             *)
(*                                                                         *)
(* Every poll returns the whole board.  The runner posts the picks that    *)
(* its checkpoint does not have, in parts of MaxPart, and backfills what   *)
(* an acknowledgement calls missing; only then is the checkpoint replaced. *)
(* A request may be lost, answered in vain, or outlive its timeout; the    *)
(* runner retries it or dies, and is started again; the session may be     *)
(* reset under it.                                                         *)
(*                                                                         *)
(* ESPN is external: it fills slots, nearly in order, declares the draft   *)
(* over, and may take a pick back.  It lists every slot of the draft, the  *)
(* empty ones too, so a snapshot's totalPicks is the draft's.  Every       *)
(* attempt carries its own nonce, so the nonce table is left out, and with *)
(* it the clock; revisions only grow while the session is not reset, and a *)
(* reset session refuses every ingest, so the revision floor never bites.  *)
(***************************************************************************)
EXTENDS Integers, Sequences, FiniteSets

CONSTANTS
  TheDraft,      \* the initializer in the ingestor's init file
  NoDraft,
  Candidates,    \* the players ESPN may show at a slot
  MaxPart,       \* events per request (max_events = 100)
  MaxHoles,      \* bound on empty slots before a filled one
  MaxTakeBacks,  \* bound on picks ESPN takes back
  MaxFailures,   \* bound on runs killed, or failed by network or disk
  MaxResets,     \* bound on resets of the session
  MaxLate        \* bound on requests outliving their timeout

Total == TheDraft.totalPickSlots
SlotTeam == TheDraft.draftSlotTeamIds
Slots == 1..Total

ASSUME DraftAssumption ==
  /\ Total \in Nat \ {0}
  /\ Candidates \in [Slots -> SUBSET TheDraft.catalog]
  /\ NoDraft # TheDraft

ASSUME BoundsAssumption ==
  /\ MaxPart \in Nat \ {0}
  /\ MaxHoles \in Nat /\ MaxTakeBacks \in Nat /\ MaxFailures \in Nat
  /\ MaxResets \in Nat /\ MaxLate \in Nat

VARIABLES
  espn,       \* ESPN's board: the filled slots and their players
  stage,      \* ESPN's flags: "pre_draft", "live" (inProgress), "drafted"
  takebacks,  \* picks ESPN has taken back
  pc,         \* where LiveRunner.run is
  snap,       \* the snapshot being delivered
  snapPhase,  \* its phase, as the Worker names it
  parts,      \* the requests still to be acknowledged, in order
  saved,      \* the checkpoint's picks, which are CollectorState's as well
  failures,   \* runs killed, or failed by network or disk
  late,       \* requests that will reach the session after their timeout
  opened,     \* the session has a draft_meta row
  resets,     \* resets of the session
  board,      \* the session's picks table
  cursor,     \* its source_cursor_last_overall_pick
  phase,      \* its status
  disputed    \* its conflict_count is positive

source == <<espn, stage, takebacks>>
runner == <<pc, snap, snapPhase, parts, saved, failures>>
session == <<opened, resets, board, cursor, phase, disputed>>
vars == <<source, runner, late, session>>

EventIds == Slots \X TheDraft.catalog \X (0..MaxFailures)
Events == [overall : Slots, team : {SlotTeam[o] : o \in Slots},
           player : TheDraft.catalog, eventId : EventIds]

Session == INSTANCE DraftSession
  WITH Teams          <- {SlotTeam[o] : o \in Slots},
       Players        <- TheDraft.catalog,
       Nonces         <- {},
       DraftInits     <- {TheDraft},
       Offers         <- Events,
       MaxBatch       <- MaxPart,
       StaleAfter     <- 1,
       DeadAfter      <- 1,
       NonceTtl       <- 1,
       MaxDelay       <- 0,
       MaxNow         <- 0,
       MaxConflicts   <- 1,
       context        <- IF opened THEN TheDraft ELSE NoDraft,
       status         <- phase,
       revision       <- 0,
       announced      <- 0,
       last_ingest_at <- 0,
       now            <- 0,
       source_cursor  <- cursor,
       conflict_count <- IF disputed THEN 1 ELSE 0,
       picks          <- board,
       seen_nonces    <- {}

(* "first" parts recover the gaps they reveal; of the parts of a recovery, *)
(* only the one that "closes" it must leave nothing recoverable.           *)
Roles == {"first", "backfill", "closes"}

Part == [slots : SUBSET Slots, cursor : 0..Total, role : Roles]

Phases == {"pre_draft", "live", "complete"}

BoardOf(b) == DOMAIN b \subseteq Slots /\ \A o \in DOMAIN b : b[o] \in TheDraft.catalog

TypeOK ==
  /\ BoardOf(espn) /\ BoardOf(snap) /\ BoardOf(saved)
  /\ stage \in {"pre_draft", "live", "drafted"}
  /\ takebacks \in 0..MaxTakeBacks
  /\ pc \in {"down", "initialize", "poll", "deliver", "checkpoint", "done"}
  /\ snapPhase \in Phases
  /\ \A i \in DOMAIN parts : parts[i] \in Part
  /\ failures \in 0..MaxFailures /\ resets \in 0..MaxResets
  /\ opened \in BOOLEAN /\ disputed \in BOOLEAN
  /\ board \subseteq Events
  /\ cursor \in 0..Total
  /\ phase \in Phases \cup {"uninitialized"}

Nothing == [o \in {} |-> TRUE]     \* the empty dict

Init ==
  /\ espn = Nothing /\ stage = "pre_draft" /\ takebacks = 0
  /\ pc = "down" /\ snap = Nothing /\ snapPhase = "pre_draft" /\ parts = <<>>
  /\ saved = Nothing /\ failures = 0
  /\ late = {}
  /\ opened = FALSE /\ resets = 0
  /\ board = {} /\ cursor = 0 /\ phase = "uninitialized" /\ disputed = FALSE

-----------------------------------------------------------------------------
(* ESPN's draft (external).                                                *)

HolesBefore(o, filled) == (1..(o - 1)) \ filled

EspnStarts ==
  /\ stage = "pre_draft"
  /\ stage' = "live"
  /\ UNCHANGED <<espn, takebacks, runner, late, session>>

EspnFills(o) ==
  /\ stage # "drafted"
  /\ o \notin DOMAIN espn
  /\ Cardinality(HolesBefore(o, DOMAIN espn)) <= MaxHoles
  /\ \E p \in Candidates[o] \ {espn[q] : q \in DOMAIN espn} :
       espn' = [q \in DOMAIN espn \cup {o} |-> IF q = o THEN p ELSE espn[q]]
  /\ UNCHANGED <<stage, takebacks, runner, late, session>>

(* The draft ends, with empty slots or without.                            *)
EspnEnds ==
  /\ stage = "live"
  /\ Cardinality(Slots \ DOMAIN espn) <= MaxHoles
  /\ stage' = "drafted"
  /\ UNCHANGED <<espn, takebacks, runner, late, session>>

(* The commissioner undoes a pick; the slot can be filled again.           *)
EspnTakesBack(o) ==
  /\ takebacks < MaxTakeBacks
  /\ o \in DOMAIN espn
  /\ takebacks' = takebacks + 1
  /\ espn' = [q \in DOMAIN espn \ {o} |-> espn[q]]
  /\ stage' = IF stage = "drafted" THEN "live" ELSE stage
  /\ UNCHANGED <<runner, late, session>>

-----------------------------------------------------------------------------
(* The runner's life.                                                      *)

(* Any exception that leaves run ends the process.                         *)
Dies ==
  /\ pc' = "down"
  /\ snap' = Nothing /\ snapPhase' = "pre_draft" /\ parts' = <<>>

(* It is killed, or the network or the disk fails it.                      *)
Fails ==
  /\ failures < MaxFailures
  /\ failures' = failures + 1
  /\ Dies

Survives == UNCHANGED <<pc, snap, snapPhase, parts, failures>>

(* __init__ loads the checkpoint, run begins with initialize.              *)
Start ==
  /\ pc = "down"
  /\ pc' = "initialize"
  /\ UNCHANGED <<source, snap, snapPhase, parts, saved, failures, late, session>>

Crash ==
  /\ pc \notin {"down", "done"}
  /\ Fails
  /\ UNCHANGED <<source, saved, late, session>>

(* The initialize request is created or found created.                     *)
OpenSession ==
  /\ opened' = TRUE
  /\ phase' = IF opened THEN phase ELSE "pre_draft"
  /\ UNCHANGED <<resets, board, cursor, disputed>>

Initialized ==
  /\ pc = "initialize"
  /\ OpenSession
  /\ pc' = "poll"
  /\ UNCHANGED <<source, snap, snapPhase, parts, saved, failures, late>>

(* No answer: it is retried, or max_retries is reached.                    *)
InitializeUnanswered ==
  /\ pc = "initialize"
  /\ OpenSession \/ UNCHANGED session
  /\ Fails \/ Survives
  /\ UNCHANGED <<source, saved, late>>

-----------------------------------------------------------------------------
(* A poll: normalize_draft_detail, CollectorState.apply, build_batch.      *)

(* declared_complete or board_complete, else in_progress.                  *)
EspnPhase ==
  IF stage = "drafted" \/ DOMAIN espn = Slots THEN "complete" ELSE stage

(* Mutant: a changed pick passes for an unchanged one.                     *)
CorrectedNever == FALSE

(* apply reports a saved pick that is gone or different as pick.corrected, *)
(* and build_batch raises espn_pick_correction_requires_review.            *)
Corrected ==
  ~ \A o \in DOMAIN saved : o \in DOMAIN espn /\ espn[o] = saved[o]

(* pick.inserted events.                                                   *)
Inserted == DOMAIN espn \ DOMAIN saved

LastOf(slots) ==
  IF slots = {} THEN 0 ELSE CHOOSE o \in slots : \A q \in slots : q <= o

(* Mutant: the cursor names the pick on the clock.                         *)
BatchCursorNext == LastOf(DOMAIN espn) + 1

(* Mutant: a completed draft ends at its last filled slot.                 *)
BatchCursorFilled == LastOf(DOMAIN espn)

BatchCursor == IF EspnPhase = "complete" THEN Total ELSE LastOf(DOMAIN espn)

(* split_batch: parts in order, of which only the last has the full cursor;*)
(* a batch without events is one empty part.                               *)
Split(slots, full, early, final) ==
  LET Rank(o) == Cardinality({q \in slots : q <= o})
      Count == IF slots = {} THEN 1 ELSE (Cardinality(slots) + MaxPart - 1) \div MaxPart
      Slice(i) == {o \in slots : (Rank(o) - 1) \div MaxPart = i - 1}
  IN  [i \in 1..Count |->
         [slots |-> Slice(i),
          cursor |-> IF i = Count THEN full ELSE LastOf(Slice(i)),
          role |-> IF i = Count THEN final ELSE early]]

Poll ==
  /\ pc = "poll" /\ ~Corrected
  /\ snap' = espn
  /\ snapPhase' = EspnPhase
  /\ parts' = Split(Inserted, BatchCursor, "first", "first")
  /\ pc' = "deliver"
  /\ UNCHANGED <<source, saved, failures, late, session>>

PollCorrected ==
  /\ pc = "poll" /\ Corrected
  /\ Dies
  /\ UNCHANGED <<source, saved, failures, late, session>>

-----------------------------------------------------------------------------
(* A request and the session's handling of it.                             *)

(* Mutant: an event id of this run.                                        *)
EventIdOfRun(o) == <<o, snap[o], failures>>

(* worker_event_id: a digest of draft, slot, team and player.              *)
EventId(o) == <<o, snap[o], 0>>

Event(o) ==
  [overall |-> o, team |-> SlotTeam[o], player |-> snap[o], eventId |-> EventId(o)]

(* Every part keeps the draftState of the whole batch.                     *)
Envelope(part) ==
  [totalPickSlots |-> Total, cursor |-> part.cursor, phase |-> snapPhase,
   events |-> {Event(o) : o \in part.slots}]

(* validateIngest: no event lies beyond the cursor.                        *)
WellFormed(e) == \A ev \in e.events : ev.overall <= e.cursor

Commits(e) ==
  /\ opened
  /\ WellFormed(e)
  /\ Session!EnvelopeFits(e)
  /\ \A ev \in e.events : ~Session!Conflicts(ev)

SessionCommit(e) ==
  /\ Commits(e)
  /\ board' = Session!StoredAfter(e)
  /\ cursor' = Session!CursorAfter(e)
  /\ phase' = e.phase
  /\ UNCHANGED <<opened, resets, disputed>>

SessionRefusal(e) ==
  /\ ~Commits(e)
  /\ disputed' = (disputed \/ (/\ opened /\ WellFormed(e)
                               /\ Session!EnvelopeFits(e)
                               /\ \E ev \in e.events : Session!Conflicts(ev)))
  /\ UNCHANGED <<opened, resets, board, cursor, phase>>

(* The acknowledgement's missing picks that the snapshot has.              *)
Recoverable == (Session!MissingOverallPicks)' \cap DOMAIN snap

(* Mutant: a gap is left to the next poll.                                 *)
BackfillLater(part, missing) == <<>>

(* post_one: a recovery is split from the part that revealed the gap, with *)
(* that part's cursor.                                                     *)
Backfill(part, missing) ==
  IF part.role = "first" /\ missing # {}
  THEN Split(missing, part.cursor, "backfill", "closes")
  ELSE <<>>

(* worker_ingest_gap_recovery_failed otherwise.                            *)
Closed(part, missing) == part.role = "closes" => missing = {}

(* The part is acknowledged: recover, go on, or be done with the batch.    *)
Acked ==
  /\ pc = "deliver"
  /\ SessionCommit(Envelope(Head(parts)))
  /\ Closed(Head(parts), Recoverable)
  /\ parts' = Backfill(Head(parts), Recoverable) \o Tail(parts)
  /\ pc' = IF parts' = <<>> THEN "checkpoint" ELSE "deliver"
  /\ UNCHANGED <<source, snap, snapPhase, saved, failures, late>>

(* The last part of a recovery is acknowledged, and a gap remains.         *)
NotClosed ==
  /\ pc = "deliver"
  /\ SessionCommit(Envelope(Head(parts)))
  /\ ~Closed(Head(parts), Recoverable)
  /\ Dies
  /\ UNCHANGED <<source, saved, failures, late>>

(* No or no valid answer: the session may have committed, or may get the   *)
(* request later; the runner retries the part or gives up.                 *)
Unanswered ==
  /\ pc = "deliver"
  /\ LET e == Envelope(Head(parts))
     IN  \/ SessionCommit(e) /\ UNCHANGED late
         \/ UNCHANGED <<session, late>>
         \/ Cardinality(late) < MaxLate /\ late' = late \cup {e} /\ UNCHANGED session
  /\ Fails \/ Survives
  /\ UNCHANGED <<source, saved>>

(* A 400, 404 or 409 is not transient.                                     *)
Refused ==
  /\ pc = "deliver"
  /\ SessionRefusal(Envelope(Head(parts)))
  /\ Dies
  /\ UNCHANGED <<source, saved, failures, late>>

LateArrives ==
  \E e \in late :
    /\ late' = late \ {e}
    /\ SessionCommit(e) \/ SessionRefusal(e)
    /\ UNCHANGED <<source, runner>>

-----------------------------------------------------------------------------
(* The checkpoint replaces the last one; a completed draft ends the run.   *)

Checkpoint ==
  /\ pc = "checkpoint"
  /\ saved' = snap
  /\ pc' = IF snapPhase = "complete" THEN "done" ELSE "poll"
  /\ snap' = Nothing /\ snapPhase' = "pre_draft"
  /\ UNCHANGED <<source, parts, failures, late, session>>

(* atomic_write_checkpoint raises, before os.replace or after it.          *)
CheckpointFails ==
  /\ pc = "checkpoint"
  /\ saved' \in {saved, snap}
  /\ Fails
  /\ UNCHANGED <<source, late, session>>

(* An operator empties the session while the ingestor is at work.          *)
SessionReset ==
  /\ resets < MaxResets
  /\ opened /\ pc # "done"
  /\ resets' = resets + 1
  /\ opened' = FALSE
  /\ board' = {} /\ cursor' = 0 /\ phase' = "uninitialized" /\ disputed' = FALSE
  /\ UNCHANGED <<source, runner, late>>

Next ==
  \/ EspnStarts \/ EspnEnds
  \/ \E o \in Slots : EspnFills(o) \/ EspnTakesBack(o)
  \/ Start \/ Crash \/ Initialized \/ InitializeUnanswered
  \/ Poll \/ PollCorrected
  \/ Acked \/ NotClosed \/ Unanswered \/ Refused \/ LateArrives
  \/ Checkpoint \/ CheckpointFails
  \/ SessionReset

Spec == Init /\ [][Next]_vars

(* The ingestor is started whenever it has died, and none of its requests, *)
(* polls and writes fails every single time.                               *)
Fairness ==
  /\ WF_vars(Start) /\ SF_vars(Initialized)
  /\ SF_vars(Poll) /\ SF_vars(Checkpoint)
  /\ WF_vars(PollCorrected) /\ WF_vars(Refused) /\ WF_vars(NotClosed)
  /\ SF_vars(Acked /\ Head(parts).slots = {})
  /\ \A o \in Slots : SF_vars(Acked /\ o \in Head(parts).slots)

FairSpec == Spec /\ Fairness

-----------------------------------------------------------------------------
(* Properties.                                                             *)

Stored(o, p) == \E row \in board : row.overall = o /\ row.player = p

(* A poll is committed only when every pick of its snapshot is stored as   *)
(* it is there: after lost answers, deaths, and corrections or resets      *)
(* (docs/cloudflare-architecture.md:107).  With a correction and a reset,  *)
(* a request from before both can put the old player on the new board, and *)
(* heartbeats compare only slots: then every filled slot is stored.        *)
CommitMeansStored ==
  [][pc # "checkpoint" /\ pc' = "checkpoint" =>
       \A o \in DOMAIN snap :
         \E row \in board' :
           row.overall = o /\ (row.player = snap[o] \/ (takebacks > 0 /\ resets > 0))]_vars

(* The checkpoint is common ground: while the session is not reset it has  *)
(* every pick of the checkpoint, and it is never rewritten by a corrected  *)
(* board (run_live_ingestor.py:162).                                       *)
CheckpointIsAcked ==
  resets = 0 => \A o \in DOMAIN saved : Stored(o, saved[o])

(* Replays after lost answers, deaths, late requests and resets are never  *)
(* taken for a conflict: only a pick ESPN took back can cause one.         *)
OnlyCorrectionsConflict == disputed => takebacks > 0

(* A run ends by itself only when the session, unless it is reset, can     *)
(* account for every slot of the draft: stored, or known to be missing.    *)
DoneMeansAccounted ==
  pc = "done" /\ resets = 0 =>
    \A o \in Slots : (\E row \in board : row.overall = o) \/ o \in Session!MissingOverallPicks

(* Every pick ESPN shows reaches the board: the ingestor "must immediately *)
(* backfill" what the session misses (docs/cloudflare-architecture.md:107).*)
FilledSlotsReachBoard ==
  \A o \in Slots :
    o \in DOMAIN espn ~> (\E row \in board : row.overall = o) \/ takebacks > 0
=============================================================================
