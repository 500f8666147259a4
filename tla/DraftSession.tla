---------------------------- MODULE DraftSession ----------------------------
(***************************************************************************)
(* The Durable Object that owns one draft: src/src/draft-session.ts, with  *)
(* the body validation src/src/validation.ts puts in front of it.          *)
(*                                                                         *)
(* Its SQLite tables are the variables.  Every RPC is one action: the      *)
(* runtime's input gate keeps a Durable Object call atomic between awaits, *)
(* and ingestBatch awaits nothing; initializeDraft awaits only the digest  *)
(* of its argument, before it reads any state.  The Worker stamps          *)
(* receivedAt before the call reaches the object, so calls can arrive      *)
(* late and out of order: receivedAt is any of the last MaxDelay ticks.    *)
(*                                                                         *)
(* Abstracted data: a pick event keeps the fields that identify the pick   *)
(* (its observation times are stored and never compared; round and         *)
(* roundPick are functions of the overall number; the Worker's routes let  *)
(* only source "espn" through); a batch, which validateIngest requires to  *)
(* be strictly ordered by overall number, is the set of its events; a      *)
(* fingerprint, the digest of an initializer, is the initializer; the      *)
(* draft key is fixed, because the object is addressed by it.              *)
(***************************************************************************)
EXTENDS Integers, FiniteSets

CONSTANTS
  Teams, Players, EventIds, Nonces,
  DraftInits,     \* the initializers validateInit lets through
  NoDraft,        \* no draft_meta row yet
  Offers,         \* the pick events ingestors put into envelopes
  MaxBatch,       \* events per envelope (100)
  StaleAfter,     \* INGESTOR_STALE_AFTER_SECONDS (45)
  DeadAfter,      \* INGESTOR_DEAD_AFTER_SECONDS (120)
  NonceTtl,       \* the 24 hours pruneNonces keeps a nonce
  MaxDelay,       \* bound: a call runs at most this long after receivedAt
  MaxNow,         \* bound on the clock
  MaxConflicts    \* bound on conflict_count

Never == -1       \* last_ingest_at IS NULL

(* The initializer's own fields: the catalog is a set of player ids, and   *)
(* draftSlotTeamIds names the team on the clock at every overall pick.     *)
WellFormedInit(c) ==
  /\ c.totalPickSlots \in Nat \ {0}
  /\ c.draftSlotTeamIds \in [1..c.totalPickSlots -> Teams]
  /\ c.managedTeamId \in Teams
  /\ c.catalog \subseteq Players

PickEvent ==
  [overall : Nat \ {0}, team : Teams, player : Players, eventId : EventIds]

ASSUME InitsAssumption ==
  /\ NoDraft \notin DraftInits
  /\ \A c \in DraftInits : WellFormedInit(c)

ASSUME OffersAssumption == Offers \subseteq PickEvent

ASSUME ClockAssumption ==
  /\ StaleAfter \in Nat \ {0}
  /\ DeadAfter \in Nat
  /\ StaleAfter <= DeadAfter
  /\ NonceTtl \in Nat
  /\ StaleAfter <= NonceTtl
  /\ MaxDelay \in Nat
  /\ MaxNow \in Nat
  /\ MaxConflicts \in Nat
  /\ MaxBatch \in Nat

VARIABLES
  context,         \* draft_meta's fixed columns, draft_context, catalog_players
  status,          \* draft_meta.status
  revision,        \* draft_meta.revision
  last_ingest_at,  \* draft_meta.last_ingest_at
  source_cursor,   \* draft_meta.source_cursor_last_overall_pick
  conflict_count,  \* draft_meta.conflict_count
  picks,           \* table picks: its rows, keyed by overall and by eventId
  seen_nonces,     \* table seen_nonces: rows [nonce, seen_at]
  announced,       \* revision in the last draft.updated message to the sockets
  now              \* the wall clock

vars == <<context, status, revision, last_ingest_at, source_cursor,
          conflict_count, picks, seen_nonces, announced, now>>

Phases == {"pre_draft", "live", "complete"}

NonceRow == [nonce : Nonces, seen_at : Nat]

TypeOK ==
  /\ context \in DraftInits \cup {NoDraft}
  /\ status \in Phases \cup {"uninitialized"}
  /\ revision \in Nat
  /\ last_ingest_at \in Nat \cup {Never}
  /\ source_cursor \in Nat
  /\ conflict_count \in Nat
  /\ picks \subseteq Offers
  /\ seen_nonces \subseteq NonceRow
  /\ announced \in Nat
  /\ now \in Nat

Initialized == context # NoDraft

-----------------------------------------------------------------------------
(* Envelopes: what validateIngest accepts.  phase is the pair inProgress,  *)
(* drafted, of which both true is rejected.  The cursor is not yet held    *)
(* against the draft: one past the end stands for all that are too large.  *)

Batches ==
  {b \in SUBSET Offers :
     /\ Cardinality(b) <= MaxBatch
     /\ \A x, y \in b : x.overall = y.overall => x = y}

Totals == {c.totalPickSlots : c \in DraftInits}

Envelopes ==
  {e \in [totalPickSlots : Totals,
          cursor : UNION {0..(n + 1) : n \in Totals},
          phase : Phases,
          events : Batches] :
     \A ev \in e.events : ev.overall <= e.totalPickSlots /\ ev.overall <= e.cursor}

(* Mutant: a player already on the board is not noticed.                   *)
EnvelopeFitsBatchOnly(e) ==
  /\ e.totalPickSlots = context.totalPickSlots
  /\ e.cursor <= context.totalPickSlots
  /\ \A ev \in e.events :
       /\ ev.overall <= context.totalPickSlots
       /\ ev.team = context.draftSlotTeamIds[ev.overall]
       /\ ev.player \in context.catalog
       /\ \A other \in e.events : other.player = ev.player => other.overall = ev.overall

(* validateEnvelopeAgainstDraft: the envelope is about this draft, and no  *)
(* player of it is drafted twice, in the batch or across the board.        *)
EnvelopeFits(e) ==
  /\ e.totalPickSlots = context.totalPickSlots
  /\ e.cursor <= context.totalPickSlots
  /\ \A ev \in e.events :
       /\ ev.overall <= context.totalPickSlots
       /\ ev.team = context.draftSlotTeamIds[ev.overall]
       /\ ev.player \in context.catalog
       /\ \A other \in e.events \cup picks :
            other.player = ev.player => other.overall = ev.overall

(* The event reuses a stored event id or overall number for another pick.  *)
Conflicts(ev) ==
  \E row \in picks :
    row # ev /\ (row.eventId = ev.eventId \/ row.overall = ev.overall)

Fresh(events) ==
  {ev \in events :
     \A row \in picks : row.eventId # ev.eventId /\ row.overall # ev.overall}

(* Mutant: the cursor is taken for the size of the board.                  *)
StoredAfterTruncating(e) == {row \in picks : row.overall <= e.cursor} \cup Fresh(e.events)

StoredAfter(e) == picks \cup Fresh(e.events)

(* Mutant: the cursor follows the envelope down.                           *)
CursorAfterLast(e) == e.cursor

(* MAX(source_cursor_last_overall_pick, ?).                                *)
CursorAfter(e) == IF e.cursor > source_cursor THEN e.cursor ELSE source_cursor

(* Mutant: a change of phase alone is not a change.                        *)
ChangedPicksOnly(e) == Fresh(e.events) # {}

Changed(e) == Fresh(e.events) # {} \/ status # e.phase

(* The primary key of picks: two fresh events of one batch with one event  *)
(* id fail the INSERT and roll the transaction back.                       *)
DistinctEventIds(events) ==
  \A x, y \in events : x.eventId = y.eventId => x = y

-----------------------------------------------------------------------------
(* claimNonce, then pruneNonces, inside the caller's transaction.          *)

NonceUnseen(n) == \A row \in seen_nonces : row.nonce # n

(* Mutant: a nonce of exactly the retention's age is pruned.               *)
RememberLess(n, receivedAt) ==
  seen_nonces' =
    {row \in seen_nonces \cup {[nonce |-> n, seen_at |-> receivedAt]} :
       row.seen_at > receivedAt - NonceTtl}

(* Mutant: the row is stamped with the cutoff.                             *)
RememberCutoff(n, receivedAt) ==
  seen_nonces' =
    {row \in seen_nonces \cup {[nonce |-> n, seen_at |-> receivedAt - NonceTtl]} :
       row.seen_at >= receivedAt - NonceTtl}

Remember(n, receivedAt) ==
  seen_nonces' =
    {row \in seen_nonces \cup {[nonce |-> n, seen_at |-> receivedAt]} :
       row.seen_at >= receivedAt - NonceTtl}

ReceivedAt == {t \in (now - MaxDelay)..now : t >= 0}

Init ==
  /\ context = NoDraft
  /\ status = "uninitialized"
  /\ revision = 0
  /\ last_ingest_at = Never
  /\ source_cursor = 0
  /\ conflict_count = 0
  /\ picks = {}
  /\ seen_nonces = {}
  /\ announced = 0
  /\ now = 0

(* initializeDraft when no draft_meta row exists.                          *)
InitializeCreate(c, n, receivedAt) ==
  /\ ~Initialized
  /\ NonceUnseen(n)
  /\ Remember(n, receivedAt)
  /\ context' = c
  /\ status' = "pre_draft"
  /\ UNCHANGED <<revision, last_ingest_at, source_cursor, conflict_count,
                 picks, announced, now>>

(* initializeDraft again with the same fingerprint: only the nonce is new. *)
InitializeAgain(c, n, receivedAt) ==
  /\ context = c
  /\ NonceUnseen(n)
  /\ Remember(n, receivedAt)
  /\ UNCHANGED <<context, status, revision, last_ingest_at, source_cursor,
                 conflict_count, picks, announced, now>>

(* draft_init_conflict or nonce_replay: thrown, and nothing is written.    *)
InitializeRefused(c, n) ==
  /\ (Initialized /\ context # c) \/ ~NonceUnseen(n)
  /\ UNCHANGED vars

(* ingestBatch up to its commit and broadcast.  The status is whatever the *)
(* envelope says; the cursor only grows; the revision counts the calls     *)
(* that changed the picks or the phase, and those are broadcast.           *)
IngestCommit(e, n, receivedAt) ==
  /\ Initialized
  /\ EnvelopeFits(e)
  /\ \A ev \in e.events : ~Conflicts(ev)
  /\ NonceUnseen(n)
  /\ DistinctEventIds(Fresh(e.events))
  /\ revision' = IF Changed(e) THEN revision + 1 ELSE revision
  /\ announced' = IF Changed(e) THEN revision + 1 ELSE announced
  /\ picks' = StoredAfter(e)
  /\ status' = e.phase
  /\ last_ingest_at' = receivedAt
  /\ source_cursor' = CursorAfter(e)
  /\ Remember(n, receivedAt)
  /\ UNCHANGED <<context, conflict_count, now>>

(* ingestBatch that meets a conflicting event: recordConflict runs before, *)
(* and outside, the transaction; the call then throws.                     *)
IngestConflict(e) ==
  /\ Initialized
  /\ EnvelopeFits(e)
  /\ \E ev \in e.events : Conflicts(ev)
  /\ conflict_count < MaxConflicts
  /\ conflict_count' = conflict_count + 1
  /\ UNCHANGED <<context, status, revision, last_ingest_at, source_cursor,
                 picks, seen_nonces, announced, now>>

(* ingestBatch that throws without writing: no draft, an envelope that     *)
(* does not fit it, a replayed nonce, or a transaction rolled back.        *)
IngestRefused(e, n) ==
  /\ \/ ~Initialized
     \/ Initialized /\ ~EnvelopeFits(e)
     \/ /\ Initialized /\ EnvelopeFits(e)
        /\ \A ev \in e.events : ~Conflicts(ev)
        /\ ~NonceUnseen(n) \/ ~DistinctEventIds(Fresh(e.events))
  /\ UNCHANGED vars

Tick ==
  /\ now < MaxNow
  /\ now' = now + 1
  /\ UNCHANGED <<context, status, revision, last_ingest_at, source_cursor,
                 conflict_count, picks, seen_nonces, announced>>

Next ==
  \/ \E c \in DraftInits, n \in Nonces :
       \/ \E t \in ReceivedAt : InitializeCreate(c, n, t)
       \/ \E t \in ReceivedAt : InitializeAgain(c, n, t)
       \/ InitializeRefused(c, n)
  \/ \E e \in Envelopes :
       \/ \E n \in Nonces, t \in ReceivedAt : IngestCommit(e, n, t)
       \/ IngestConflict(e)
       \/ \E n \in Nonces : IngestRefused(e, n)
  \/ Tick

Spec == Init /\ [][Next]_vars

-----------------------------------------------------------------------------
(* What getSnapshot and getHealth derive from the tables.                  *)

(* health: the source cursor or the last stored pick, whichever is later.  *)
LastOverallPick ==
  CHOOSE n \in {source_cursor} \cup {row.overall : row \in picks} :
    /\ n >= source_cursor
    /\ \A row \in picks : n >= row.overall

(* Mutant: only holes before the last stored pick are missing.             *)
MissingBeforeStored ==
  {o \in 1..LastOverallPick : \E row \in picks : row.overall > o} \ {row.overall : row \in picks}

MissingOverallPicks == (1..LastOverallPick) \ {row.overall : row \in picks}

HasGap == MissingOverallPicks # {}

(* health: a complete draft is healthy, one never heard of is not stale.   *)
Elapsed == IF now > last_ingest_at THEN now - last_ingest_at ELSE 0

IngestorStatus ==
  CASE status = "complete"        -> "healthy"
    [] status # "complete" /\ last_ingest_at = Never -> "never_seen"
    [] status # "complete" /\ last_ingest_at # Never /\ Elapsed >= DeadAfter -> "dead"
    [] status # "complete" /\ last_ingest_at # Never
         /\ Elapsed < DeadAfter /\ Elapsed >= StaleAfter -> "stale"
    [] OTHER -> "healthy"

(* Mutant: only a dead ingestor is stale.                                  *)
StaleWhenDead == IngestorStatus = "dead"

Stale == IngestorStatus \in {"stale", "dead"}

(* draftClock: the overall pick on the clock, past the end when it is null.*)
Clock == LastOverallPick + 1

(* rankAvailable's pool, and the players getSnapshot may recommend (the    *)
(* first three of the ranked pool: the order is the ranking's business).   *)
Available == context.catalog \ {row.player : row \in picks}

Recommendable ==
  IF ~Initialized \/ HasGap \/ conflict_count > 0 \/ Stale THEN {} ELSE Available

-----------------------------------------------------------------------------
(* Properties.                                                             *)

(* The stored board is a legal draft: one row per slot and per event id,   *)
(* nobody drafted twice, every pick made by the slot's team from the       *)
(* pinned catalog and inside the draft.  The table declares only the first *)
(* two; the rest is up to the checks ingestBatch makes over all batches.   *)
BoardLegal ==
  /\ \A a, b \in picks :
       (a.overall = b.overall \/ a.eventId = b.eventId \/ a.player = b.player)
         => a = b
  /\ \A row \in picks :
       /\ Initialized
       /\ row.overall <= context.totalPickSlots
       /\ row.team = context.draftSlotTeamIds[row.overall]
       /\ row.player \in context.catalog

(* The source cursor never lags the board nor leaves the draft: gap        *)
(* detection and the draft clock are computed from it.                     *)
CursorCoversBoard ==
  /\ \A row \in picks : row.overall <= source_cursor
  /\ Initialized => source_cursor <= context.totalPickSlots
  /\ ~Initialized => source_cursor = 0

(* Advice is given only when every pick before the clock is on the board,  *)
(* and none of those players is advised (docs/architecture.md:10).         *)
AdviceKnowsEveryPriorPick ==
  Recommendable # {} =>
    \A o \in 1..(Clock - 1) :
      \E row \in picks : row.overall = o /\ row.player \notin Recommendable

(* Advice during a draft rests on a signed ingest received less than       *)
(* StaleAfter ago, whose nonce is still on record: neither a refused call, *)
(* nor a conflict, nor a re-initialization keeps a silent session alive.   *)
FreshAdviceHasEvidence ==
  Recommendable # {} /\ status # "complete" /\ last_ingest_at # Never =>
    \E row \in seen_nonces :
      row.seen_at = last_ingest_at /\ now - row.seen_at < StaleAfter

(* A nonce is forgotten only when it is older than NonceTtl, although the  *)
(* cutoff is computed from the receivedAt of calls that can run late.      *)
NoncesOutliveTtl ==
  [][\A row \in seen_nonces : row \notin seen_nonces' => now - row.seen_at > NonceTtl]_vars

(* Nothing acknowledged is ever lost or replaced, and the configuration is *)
(* pinned: the board only grows (docs/architecture.md:89).                 *)
BoardWriteOnce ==
  [][/\ picks \subseteq picks'
     /\ Initialized => context' = context]_vars

(* The draft clock never runs backwards, whichever order delayed, replayed *)
(* or backfilling batches commit in.                                       *)
ClockNeverRewinds == [][Clock' >= Clock]_vars

(* A client that compares revisions misses nothing: a committed change of  *)
(* picks or phase carries a new revision, announced to the sockets, and no *)
(* other call disturbs them (docs/cloudflare-architecture.md:104,121).     *)
RevisionTracksBoard ==
  [][/\ Initialized /\ (picks' # picks \/ status' # status) => revision' = revision + 1
     /\ revision' # revision => announced' = revision' /\ (picks' # picks \/ status' # status)]_vars

(* The session implements the abstract board.                              *)
Board == INSTANCE DraftBoard
  WITH Slots    <- Nat \ {0},
       open     <- Initialized,
       board    <- {[slot |-> row.overall, player |-> row.player] : row \in picks},
       known    <- source_cursor,
       disputed <- conflict_count > 0

(* Every behaviour of the session is one of the abstract board: write-once *)
(* and injective, with a cursor that covers it, and poisoned for good by   *)
(* the first conflict (docs/architecture.md:89,138-141).                   *)
ImplementsBoard == Board!BoardSpec
=============================================================================
