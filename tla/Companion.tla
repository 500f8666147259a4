----------------------------- MODULE Companion ------------------------------
(***************************************************************************)
(* The laptop companion (companion/src/draft_companion/runtime.py, with    *)
(* the delivery client of worker.py and the frame source of cdp.py),       *)
(* between the ESPN draft room it watches and the DraftSession it feeds.   *)
(*                                                                         *)
(* The room and its page are external: picks are made in slot order, and   *)
(* the page's socket carries one INIT frame with the picks so far when it  *)
(* opens, then one SELECTED frame per pick.  The network loses, delays and *)
(* cuts requests and answers; the process crashes, is stopped, and starts  *)
(* again; the device is revoked and enabled.                               *)
(*                                                                         *)
(* The session's side of a delivery is DraftSession itself, instantiated   *)
(* over this module's variables: its checks, its conflict rule and its     *)
(* updates.  A post carries a fresh UUID and timestamp each time, so the   *)
(* nonce table never refuses one and is left out; the revision is not      *)
(* used by the companion.  The age of the last ingest is one bit, fresh.   *)
(***************************************************************************)
EXTENDS Integers, Sequences, FiniteSets

CONSTANTS
  TheDraft,      \* the initializer the session and the companion share
  NoDraft,
  Truth,         \* the player ESPN records at every slot
  MaxPart,       \* events per request (100)
  Reloads,       \* the values of reload_on_attach that occur
  Decodes,       \* whether a frame decodes: the outcomes that occur
  MayFail,       \* the page, the tab, the network and the disk fail
  MayStop,       \* the user stops the service
  MayRevoke,     \* the dashboard revokes and enables the device
  MaxCrashes,    \* bound on crashes and restarts
  MaxFrames,     \* bound on frames waiting to be read
  MaxLate        \* bound on requests outliving their timeout

Total == TheDraft.totalPickSlots
SlotTeam == TheDraft.draftSlotTeamIds
Slots == 1..Total

ASSUME DraftAssumption ==
  /\ Total \in Nat \ {0}
  /\ Truth \in [Slots -> TheDraft.catalog]
  /\ \A a, b \in Slots : Truth[a] = Truth[b] => a = b
  /\ NoDraft # TheDraft

ASSUME BoundsAssumption ==
  /\ MaxPart \in Nat \ {0}
  /\ Reloads \subseteq BOOLEAN /\ Reloads # {}
  /\ Decodes \subseteq BOOLEAN /\ MayFail \in BOOLEAN /\ MayStop \in BOOLEAN /\ MayRevoke \in BOOLEAN
  /\ MaxCrashes \in Nat /\ MaxFrames \in Nat \ {0} /\ MaxLate \in Nat

VARIABLES
  room,       \* ESPN: the number of picks made
  page,       \* the page's draft-room socket: "open" or "down"
  pc,         \* where Companion.run is
  picks,      \* Companion.picks: slot -> player
  changed,    \* frames of this read changed the picks (changed_at)
  part,       \* the part of the board being posted
  frames,     \* frames recorded by the FrameSource and not yet read
  tracked,    \* the FrameSource saw the page's current socket created
  saved,      \* the checkpoint file
  health,     \* the state in the health file
  crashes,    \* restarts so far
  late,       \* requests that will reach the session after their timeout
  revoked,    \* the registry has this device revoked
  board,      \* the session's picks table
  cursor,     \* its source_cursor_last_overall_pick
  phase,      \* its status
  disputed,   \* its conflict_count is positive
  fresh       \* its last ingest is less than 45 seconds old

client == <<pc, picks, changed, part, frames, tracked, saved, health, crashes>>
session == <<board, cursor, phase, disputed, fresh>>
vars == <<room, page, client, late, revoked, session>>

EventIds == Slots \X TheDraft.catalog \X (0..MaxCrashes)
Events == [overall : Slots, team : {SlotTeam[o] : o \in Slots},
           player : TheDraft.catalog, eventId : EventIds]

Session == INSTANCE DraftSession
  WITH Teams          <- {SlotTeam[o] : o \in Slots},
       Players        <- TheDraft.catalog,
       Nonces         <- {},
       DraftInits     <- {TheDraft},
       Offers         <- Events,
       MaxBatch       <- MaxPart,
       StaleAfter     <- 1,
       DeadAfter      <- 2,
       NonceTtl       <- 2,
       MaxDelay       <- 0,
       MaxNow         <- 2,
       MaxConflicts   <- 1,
       context        <- TheDraft,
       status         <- phase,
       revision       <- 0,
       announced      <- 0,
       last_ingest_at <- 0,
       now            <- IF fresh THEN 0 ELSE 1,
       source_cursor  <- cursor,
       conflict_count <- IF disputed THEN 1 ELSE 0,
       picks          <- board,
       seen_nonces    <- {}

Posting == {"greet", "beat", "post"}
Attached == Posting \cup {"read", "checkpoint"}
Gone == {"down", "stopped", "done"}

Frame == [kind : {"INIT"}, upto : 0..Total] \cup [kind : {"SELECTED"}, slot : Slots]

TypeOK ==
  /\ room \in 0..Total
  /\ page \in {"open", "down"}
  /\ pc \in Attached \cup Gone \cup {"attach", "sleep"}
  /\ DOMAIN picks \subseteq Slots /\ \A o \in DOMAIN picks : picks[o] \in TheDraft.catalog
  /\ DOMAIN saved \subseteq Slots /\ \A o \in DOMAIN saved : saved[o] \in TheDraft.catalog
  /\ changed \in BOOLEAN /\ tracked \in BOOLEAN
  /\ part \in 0..Total
  /\ Len(frames) <= MaxFrames /\ \A i \in DOMAIN frames : frames[i] \in Frame
  /\ health \in {"none", "starting", "live", "reconnecting", "complete", "stopped", "revoked"}
  /\ crashes \in 0..MaxCrashes
  /\ revoked \in BOOLEAN /\ disputed \in BOOLEAN /\ fresh \in BOOLEAN
  /\ board \subseteq Events
  /\ cursor \in 0..Total
  /\ phase \in {"pre_draft", "live", "complete"}

Nothing == [o \in {} |-> TRUE]     \* the empty dict
Prefix(k) == [o \in 1..k |-> Truth[o]]

Init ==
  /\ room = 0 /\ page = "open"
  /\ pc = "down" /\ picks = Nothing /\ changed = FALSE /\ part = 0
  /\ frames = <<>> /\ tracked = FALSE
  /\ saved = Nothing /\ health = "none" /\ crashes = 0
  /\ late = {} /\ revoked = FALSE
  /\ board = {} /\ cursor = 0 /\ phase = "pre_draft"
  /\ disputed = FALSE /\ fresh = FALSE

-----------------------------------------------------------------------------
(* ESPN's draft room (external) and the frames the FrameSource records of  *)
(* it: only those of sockets it saw created (cdp.py _record).              *)

RoomPicks ==
  /\ room < Total
  /\ Len(frames) < MaxFrames
  /\ room' = room + 1
  /\ frames' = IF page = "open" /\ tracked
               THEN Append(frames, [kind |-> "SELECTED", slot |-> room + 1])
               ELSE frames
  /\ UNCHANGED <<page, pc, picks, changed, part, tracked, saved, health, crashes,
                 late, revoked, session>>

PageDrops ==
  /\ MayFail
  /\ page = "open"
  /\ page' = "down"
  /\ UNCHANGED <<room, client, late, revoked, session>>

PageConnects ==
  /\ page = "down"
  /\ Len(frames) < MaxFrames
  /\ page' = "open"
  /\ tracked' = (pc \in Attached)
  /\ frames' = IF pc \in Attached
               THEN Append(frames, [kind |-> "INIT", upto |-> room])
               ELSE frames
  /\ UNCHANGED <<room, pc, picks, changed, part, saved, health, crashes,
                 late, revoked, session>>

-----------------------------------------------------------------------------
(* The companion's loop.                                                   *)

(* Mutant: the checkpoint is written on the way out of a failed cycle.     *)
SavedOnFailureToo == picks

SavedOnFailure == saved

(* Any OSError, RuntimeError, DecodeError or ValueError: the source is     *)
(* closed, its unread frames are gone, and the loop sleeps.                *)
FailKeeping(file) ==
  /\ pc' = "sleep"
  /\ health' = "reconnecting"
  /\ changed' = FALSE
  /\ part' = 0
  /\ frames' = <<>>
  /\ tracked' = FALSE
  /\ saved' = file
  /\ UNCHANGED <<picks, crashes>>

Fail == FailKeeping(SavedOnFailure)

(* run: enroll, then load the checkpoint if it is this draft's.            *)
Start ==
  /\ pc = "down" /\ ~revoked
  /\ pc' = "attach"
  /\ picks' = saved
  /\ health' = "starting"
  /\ UNCHANGED <<room, page, changed, part, frames, tracked, saved, crashes,
                 late, revoked, session>>

(* Enrollment fails: run raises, and the service manager tries again.      *)
StartFails ==
  /\ pc = "down"
  /\ \/ revoked /\ health' = "revoked"
     \/ MayFail /\ health' = "reconnecting"
  /\ UNCHANGED <<room, page, pc, picks, changed, part, frames, tracked, saved, crashes,
                 late, revoked, session>>

(* The user starts a finished or stopped companion once more.              *)
Restart ==
  /\ pc \in {"stopped", "done"}
  /\ crashes < MaxCrashes
  /\ crashes' = crashes + 1
  /\ pc' = "down"
  /\ picks' = Nothing
  /\ UNCHANGED <<room, page, changed, part, frames, tracked, saved, health,
                 late, revoked, session>>

(* Mutant: attaching does not reload the page.                             *)
PageAfterAttachIgnoring(reload) == page

PageAfterAttach(reload) == IF reload THEN "down" ELSE page

(* Mutant: frames of a socket opened before the attach are recorded too.   *)
TrackedAtAttachOpen(reload) == page = "open" /\ ~reload

TrackedAtAttach(reload) == FALSE

(* FrameSource: a new debugger connection that has seen no socket created; *)
(* with reload_on_attach the page opens a new one.                         *)
Attach ==
  /\ pc = "attach"
  /\ \E reload \in Reloads :
       /\ page' = PageAfterAttach(reload)
       /\ tracked' = TrackedAtAttach(reload)
  /\ pc' = "greet"
  /\ UNCHANGED <<room, picks, changed, part, frames, saved, health, crashes,
                 late, revoked, session>>

(* No ESPN tab, or no debugger.                                            *)
AttachFails ==
  /\ MayFail
  /\ pc = "attach"
  /\ Fail
  /\ UNCHANGED <<room, page, late, revoked, session>>

(* An INIT frame replaces the board.                                       *)
ReadInit ==
  /\ pc = "read" /\ frames # <<>> /\ TRUE \in Decodes
  /\ Head(frames).kind = "INIT"
  /\ picks' = Prefix(Head(frames).upto)
  /\ changed' = TRUE
  /\ frames' = Tail(frames)
  /\ UNCHANGED <<room, page, pc, part, tracked, saved, health, crashes,
                 late, revoked, session>>

(* A SELECTED frame has no number: it fills the slot after the last one.   *)
NextSlot == Cardinality(DOMAIN picks) + 1

ReadSelected ==
  /\ pc = "read" /\ frames # <<>> /\ TRUE \in Decodes
  /\ Head(frames).kind = "SELECTED"
  /\ NextSlot <= Total
  /\ SlotTeam[Head(frames).slot] = SlotTeam[NextSlot]
  /\ picks' = [o \in DOMAIN picks \cup {NextSlot} |->
                 IF o = NextSlot THEN Truth[Head(frames).slot] ELSE picks[o]]
  /\ changed' = TRUE
  /\ frames' = Tail(frames)
  /\ UNCHANGED <<room, page, pc, part, tracked, saved, health, crashes,
                 late, revoked, session>>

(* A frame that does not decode, or a pick out of the draft order.         *)
ReadFails ==
  /\ pc = "read" /\ frames # <<>>
  /\ \/ FALSE \in Decodes
     \/ /\ Head(frames).kind = "SELECTED"
        /\ NextSlot > Total \/ SlotTeam[Head(frames).slot] # SlotTeam[NextSlot]
  /\ Fail
  /\ UNCHANGED <<room, page, late, revoked, session>>

(* The read returned frames: post the whole board.                         *)
Deliver ==
  /\ pc = "read" /\ changed
  /\ pc' = "post" /\ part' = 1
  /\ UNCHANGED <<room, page, picks, changed, frames, tracked, saved, health, crashes,
                 late, revoked, session>>

(* Nothing read for heartbeat_seconds.                                     *)
BeatDue ==
  /\ pc = "read" /\ frames = <<>> /\ ~changed
  /\ pc' = "beat"
  /\ UNCHANGED <<room, page, picks, changed, part, frames, tracked, saved, health, crashes,
                 late, revoked, session>>

(* SIGTERM, noticed at the head of either loop.                            *)
Stop ==
  /\ MayStop
  /\ pc \in {"attach", "read"} /\ ~changed
  /\ pc' = "stopped"
  /\ health' = IF Cardinality(DOMAIN picks) < Total THEN "stopped" ELSE "complete"
  /\ frames' = <<>> /\ tracked' = FALSE
  /\ UNCHANGED <<room, page, picks, changed, part, saved, crashes, late, revoked, session>>

Wake ==
  /\ pc = "sleep"
  /\ pc' = "attach"
  /\ UNCHANGED <<room, page, picks, changed, part, frames, tracked, saved, health, crashes,
                 late, revoked, session>>

(* The process is gone, and the service manager starts another.            *)
ProcessEnds ==
  /\ pc' = "down"
  /\ picks' = Nothing /\ changed' = FALSE /\ part' = 0
  /\ frames' = <<>> /\ tracked' = FALSE
  /\ UNCHANGED <<room, page, saved, health, late, revoked, session>>

(* A TypeError of the tab list or an exception of the websocket library,   *)
(* in attaching or reading, is none of those the loop catches.             *)
Uncaught ==
  /\ MayFail
  /\ pc \in {"attach", "read"} /\ ~changed
  /\ ProcessEnds
  /\ UNCHANGED crashes

Crash ==
  /\ pc \notin Gone
  /\ crashes < MaxCrashes
  /\ crashes' = crashes + 1
  /\ ProcessEnds

-----------------------------------------------------------------------------
(* What the companion posts (worker.py).                                   *)

(* Mutant: an event id of this run of the companion.                       *)
EventIdOfRun(o) == <<o, picks[o], crashes>>

(* Mutant: the digest leaves the player out.                               *)
EventIdOfSlot(o) == <<o, 0, 0>>

(* _events: the id is a digest of draft, slot, team and player.            *)
EventId(o) == <<o, picks[o], 0>>

Event(o) ==
  [overall |-> o, team |-> SlotTeam[o], player |-> picks[o], eventId |-> EventId(o)]

(* The sorted events in parts of MaxPart; an empty board is one empty part.*)
Parts(n) == IF n = 0 THEN 1 ELSE (n + MaxPart - 1) \div MaxPart

LastPart == part = Parts(Cardinality(DOMAIN picks))
Rank(o) == Cardinality({q \in DOMAIN picks : q <= o})
PartSlots == {o \in DOMAIN picks : (Rank(o) - 1) \div MaxPart = part - 1}

(* Mutant: the pick on the clock counts as made.                           *)
CompleteOneEarly == NextSlot >= Total

Complete == Cardinality(DOMAIN picks) = Total

PartCursor ==
  IF PartSlots = {} THEN 0 ELSE CHOOSE o \in PartSlots : \A q \in PartSlots : q <= o

PartEnvelope ==
  [totalPickSlots |-> Total,
   cursor |-> IF Complete /\ LastPart THEN Total ELSE PartCursor,
   phase |-> IF Complete /\ LastPart THEN "complete" ELSE "live",
   events |-> {Event(o) : o \in PartSlots}]

(* Mutant: the heartbeat reports the pick on the clock.                    *)
HeartbeatCursorNext == IF Complete THEN Total ELSE Cardinality(DOMAIN picks) + 1

HeartbeatCursor == Cardinality(DOMAIN picks)

HeartbeatEnvelope ==
  [totalPickSlots |-> Total, cursor |-> HeartbeatCursor, phase |-> "live", events |-> {}]

Envelope == IF pc = "post" THEN PartEnvelope ELSE HeartbeatEnvelope

-----------------------------------------------------------------------------
(* The session's handling of a request: the transaction of ingestBatch, a  *)
(* recorded conflict, or a refusal.                                        *)

Commits(e) ==
  /\ Session!EnvelopeFits(e)
  /\ \A ev \in e.events : ~Session!Conflicts(ev)
  /\ Session!DistinctEventIds(Session!Fresh(e.events))

SessionCommit(e) ==
  /\ Commits(e)
  /\ board' = Session!StoredAfter(e)
  /\ cursor' = Session!CursorAfter(e)
  /\ phase' = e.phase
  /\ fresh' = TRUE
  /\ UNCHANGED disputed

SessionRefusal(e) ==
  /\ ~Commits(e)
  /\ disputed' = (disputed \/ (Session!EnvelopeFits(e)
                                 /\ \E ev \in e.events : Session!Conflicts(ev)))
  /\ UNCHANGED <<board, cursor, phase, fresh>>

(* ingest's last check: the session misses none of the picks just posted.  *)
Recovered == (Session!MissingOverallPicks)' \cap DOMAIN picks = {}

(* The answer to a heartbeat or to a part arrives.                         *)
HeartbeatAcked ==
  /\ pc \in {"greet", "beat"} /\ ~revoked
  /\ SessionCommit(Envelope)
  /\ pc' = "read"
  /\ health' = "live"
  /\ UNCHANGED <<room, page, picks, changed, part, frames, tracked, saved, crashes,
                 late, revoked>>

PartAcked(i) ==
  /\ pc = "post" /\ part = i /\ ~revoked
  /\ SessionCommit(Envelope)
  /\ IF LastPart
     THEN Recovered /\ pc' = "checkpoint" /\ part' = 0
     ELSE pc' = "post" /\ part' = part + 1
  /\ UNCHANGED <<room, page, picks, changed, frames, tracked, saved, health, crashes,
                 late, revoked>>

(* The session commits, and the companion does not learn it: the answer is *)
(* lost, or tells of a posted pick the session misses.                     *)
AckLost ==
  /\ MayFail
  /\ pc \in Posting /\ ~revoked
  /\ SessionCommit(Envelope)
  /\ Fail
  /\ UNCHANGED <<room, page, late, revoked>>

(* A 403 from the registry, a 400 or a 409 from the session.               *)
Refused ==
  /\ pc \in Posting
  /\ \/ revoked /\ UNCHANGED session
     \/ ~revoked /\ SessionRefusal(Envelope)
  /\ Fail
  /\ UNCHANGED <<room, page, late, revoked>>

(* A network error or a timeout; the request may still be on its way.      *)
Unanswered ==
  /\ MayFail
  /\ pc \in Posting
  /\ \/ UNCHANGED late
     \/ Cardinality(late) < MaxLate /\ late' = late \cup {Envelope}
  /\ Fail
  /\ UNCHANGED <<room, page, revoked, session>>

LateArrives ==
  \E e \in late :
    /\ late' = late \ {e}
    /\ \/ ~revoked /\ (SessionCommit(e) \/ SessionRefusal(e))
       \/ UNCHANGED session
    /\ UNCHANGED <<room, page, client, revoked>>

(* The board is acknowledged: save it; a complete one ends the run.        *)
Checkpoint ==
  /\ pc = "checkpoint"
  /\ saved' = picks
  /\ changed' = FALSE
  /\ IF Complete
     THEN pc' = "done" /\ health' = "complete" /\ frames' = <<>> /\ tracked' = FALSE
     ELSE pc' = "read" /\ health' = "live" /\ UNCHANGED <<frames, tracked>>
  /\ UNCHANGED <<room, page, picks, part, crashes, late, revoked, session>>

(* Before the file was replaced, or after: in the evidence or the health   *)
(* file.                                                                   *)
CheckpointFails ==
  /\ MayFail
  /\ pc = "checkpoint"
  /\ Fail \/ FailKeeping(picks)
  /\ UNCHANGED <<room, page, late, revoked, session>>

-----------------------------------------------------------------------------
(* The session's clock and the registry.                                   *)

GoesStale ==
  /\ fresh
  /\ fresh' = FALSE
  /\ UNCHANGED <<room, page, client, late, revoked, board, cursor, phase, disputed>>

SetRevoked ==
  /\ MayRevoke
  /\ revoked' = ~revoked
  /\ UNCHANGED <<room, page, client, late, session>>

Next ==
  \/ RoomPicks \/ PageDrops \/ PageConnects
  \/ Start \/ StartFails \/ Restart \/ Attach \/ AttachFails
  \/ ReadInit \/ ReadSelected \/ ReadFails
  \/ Deliver \/ BeatDue \/ Stop \/ Wake \/ Uncaught \/ Crash
  \/ HeartbeatAcked \/ (\E i \in 1..Total : PartAcked(i))
  \/ AckLost \/ Refused \/ Unanswered \/ LateArrives
  \/ Checkpoint \/ CheckpointFails
  \/ GoesStale \/ SetRevoked

Spec == Init /\ [][Next]_vars

(* The process keeps running, every request ends by its timeout, and a     *)
(* frame that keeps waiting is read.  The page, the tab, the network and   *)
(* the disk may fail again and again, but not for ever at the same point:  *)
(* a socket while the companion is attached, a heartbeat while a frame     *)
(* waits, a given part, a checkpoint.  A session nobody talks to goes      *)
(* stale.                                                                  *)
Fairness ==
  /\ WF_vars(Start) /\ SF_vars(StartFails /\ health' = "revoked") /\ WF_vars(Wake)
  /\ SF_vars(PageConnects /\ pc \in Attached) /\ WF_vars(Deliver) /\ WF_vars(BeatDue)
  /\ WF_vars(Refused \/ Unanswered)
  /\ SF_vars(Attach) /\ SF_vars(ReadInit) /\ SF_vars(ReadSelected) /\ SF_vars(ReadFails)
  /\ SF_vars(HeartbeatAcked) /\ SF_vars(HeartbeatAcked /\ frames # <<>>)
  /\ \A i \in 1..Total : SF_vars(PartAcked(i))
  /\ SF_vars(Checkpoint)
  /\ WF_vars(GoesStale /\ pc \in Gone)

FairSpec == Spec /\ Fairness

-----------------------------------------------------------------------------
(* Properties.                                                             *)

(* Whatever is lost, replayed, reordered or restarted, the session's board *)
(* says only what ESPN's room said: SELECTED frames, which carry no pick   *)
(* number, are never counted from a wrong start (docs/architecture.md:8).  *)
BoardIsTrue ==
  \A row \in board : row.overall <= room /\ row.player = Truth[row.overall]

(* The session never believes more picks were made than were: a phantom    *)
(* gap would silence the advice until the room caught up.                  *)
CursorIsTrue == cursor <= room

(* The checkpoint holds only what the session acknowledged                 *)
(* (docs/architecture.md:52), so a restart resumes from common ground.     *)
CheckpointIsAcked ==
  \A o \in DOMAIN saved : \E row \in board : row.overall = o /\ row.player = saved[o]

(* Replays after lost answers, crashes and late requests never look like a *)
(* conflict, which would stop the advice for good (architecture.md:52).    *)
ReplayNeverConflicts == ~disputed

(* A run that ends by itself has delivered the whole draft.                *)
DoneMeansDelivered == pc = "done" => \A o \in Slots : \E row \in board : row.overall = o

(* Every pick made in the room reaches the board (docs/architecture.md:8). *)
PicksReachBoard ==
  \A o \in Slots : room >= o ~> (\E row \in board : row.overall = o)

(* An unexpected ESPN format marks guidance stale (laptop-companion.md:56):*)
(* reading a frame that does not decode is followed by advice that stops.  *)
UnrecognizedStopsAdvice ==
  (pc = "read" /\ frames # <<>> /\ TRUE \notin Decodes) ~> Session!Recommendable = {}
=============================================================================
