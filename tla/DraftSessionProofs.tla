------------------------- MODULE DraftSessionProofs -------------------------
(***************************************************************************)
(* Theorems about DraftSession, for every draft, every set of offers and   *)
(* every threshold allowed by its assumptions.                             *)
(***************************************************************************)
EXTENDS DraftSession, TLAPS

(* What an uninitialized object looks like, and how the remembered nonces  *)
(* witness the last ingest: each accepted ingest left its row, which is    *)
(* pruned only once the ingest is more than NonceTtl old.                  *)
Pristine ==
  ~Initialized => picks = {} /\ source_cursor = 0 /\ last_ingest_at = Never

Witnessed ==
  /\ last_ingest_at <= now
  /\ \A row \in seen_nonces : row.seen_at <= now
  /\ \/ last_ingest_at = Never
     \/ \E row \in seen_nonces : row.seen_at = last_ingest_at
     \/ now - last_ingest_at > NonceTtl

IInv == TypeOK /\ Pristine /\ BoardLegal /\ CursorCoversBoard /\ Witnessed

-----------------------------------------------------------------------------

(* A call's receivedAt is a time no later than now.                        *)
LEMMA ReceivedAtRange ==
  ASSUME TypeOK, NEW t \in ReceivedAt
  PROVE  t \in Nat /\ t <= now
BY ClockAssumption DEF ReceivedAt, TypeOK

(* What validateIngest guarantees of an envelope, in one place.            *)
LEMMA EnvelopeTyped ==
  ASSUME NEW e \in Envelopes
  PROVE  /\ e.cursor \in Nat
         /\ e.phase \in Phases
         /\ e.events \subseteq Offers
         /\ \A x, y \in e.events : x.overall = y.overall => x = y
         /\ \A ev \in e.events : ev.overall <= e.cursor
BY InitsAssumption DEF Envelopes, Batches, Totals, WellFormedInit

(* Every offered pick event has its fields.                                *)
LEMMA OffersTyped ==
  ASSUME NEW ev \in Offers
  PROVE  /\ ev.overall \in Nat \ {0}
         /\ ev.player \in Players
BY OffersAssumption DEF PickEvent

(* A call's nonce rows keep their type and their place in the past.        *)
LEMMA RememberTyped ==
  ASSUME TypeOK, NEW n \in Nonces, NEW t \in ReceivedAt, Remember(n, t)
  PROVE  seen_nonces' \subseteq NonceRow
<1>1. [nonce |-> n, seen_at |-> t] \in NonceRow
  BY ReceivedAtRange DEF NonceRow
<1>2. QED
  BY <1>1 DEF Remember, TypeOK

(* Under the invariant the cursor is the last overall pick.                *)
LEMMA LastIsCursor ==
  ASSUME TypeOK, CursorCoversBoard
  PROVE  LastOverallPick = source_cursor
<1>1. \A row \in picks : row.overall \in Nat
  BY OffersTyped DEF TypeOK
<1>2. source_cursor \in Nat
  BY DEF TypeOK
<1> DEFINE Candidates == {source_cursor} \cup {row.overall : row \in picks}
<1> DEFINE IsLast(n) == n >= source_cursor /\ \A row \in picks : n >= row.overall
<1>3. source_cursor \in Candidates /\ IsLast(source_cursor)
  BY <1>1, <1>2 DEF CursorCoversBoard
<1>4. ASSUME NEW n \in Candidates, IsLast(n)
      PROVE  n = source_cursor
  BY <1>1, <1>2, <1>4 DEF CursorCoversBoard
<1>5. LastOverallPick = CHOOSE n \in Candidates : IsLast(n)
  BY DEF LastOverallPick
<1> HIDE DEF Candidates, IsLast
<1>6. QED
  BY <1>3, <1>4, <1>5

-----------------------------------------------------------------------------
(* The inductive step, one lemma per action that writes.                   *)

(* A fresh Durable Object satisfies the invariant.                         *)
LEMMA InitEstablishesIInv == Init => IInv
BY InitsAssumption, ClockAssumption
DEF Init, IInv, TypeOK, Pristine, BoardLegal, CursorCoversBoard, Witnessed,
    Initialized, Never

(* Claiming and pruning keep the last ingest witnessed.                    *)
LEMMA RememberKeepsWitness ==
  ASSUME TypeOK, Witnessed, NEW n \in Nonces, NEW t \in ReceivedAt,
         Remember(n, t), now' = now,
         last_ingest_at' = last_ingest_at \/ last_ingest_at' = t
  PROVE  Witnessed'
<1>1. t \in Nat /\ t <= now /\ now \in Nat /\ last_ingest_at \in Nat \cup {Never}
  BY ReceivedAtRange DEF TypeOK
<1>2. \A row \in seen_nonces : row.seen_at \in Nat
  BY DEF TypeOK, NonceRow
<1>3. \A row \in seen_nonces' : row.seen_at <= now'
  BY <1>1, <1>2 DEF Remember, Witnessed
<1>4. last_ingest_at' <= now'
  BY <1>1 DEF Witnessed
<1>5. CASE last_ingest_at' = t
  <2>1. [nonce |-> n, seen_at |-> t] \in seen_nonces'
    BY <1>1, ClockAssumption DEF Remember
  <2>2. \E row \in seen_nonces' : row.seen_at = last_ingest_at'
    BY <2>1, <1>5
  <2>3. QED
    BY <1>3, <1>4, <2>2 DEF Witnessed
<1>6. CASE last_ingest_at' = last_ingest_at
  <2>1. CASE last_ingest_at = Never
    BY <1>3, <1>4, <1>6, <2>1 DEF Witnessed
  <2>2. CASE now - last_ingest_at > NonceTtl
    BY <1>3, <1>4, <1>6, <2>2 DEF Witnessed
  <2>3. ASSUME NEW row \in seen_nonces, row.seen_at = last_ingest_at
        PROVE  Witnessed'
    <3>1. CASE row.seen_at >= t - NonceTtl
      <4>1. row \in seen_nonces'
        BY <3>1 DEF Remember
      <4>2. QED
        BY <4>1, <2>3, <1>3, <1>4, <1>6 DEF Witnessed
    <3>2. CASE ~(row.seen_at >= t - NonceTtl)
      <4>1. now - last_ingest_at > NonceTtl
        BY <3>2, <2>3, <1>1, <1>2, ClockAssumption
      <4>2. QED
        BY <4>1, <1>3, <1>4, <1>6 DEF Witnessed
    <3>3. QED
      BY <3>1, <3>2
  <2>4. QED
    BY <2>1, <2>2, <2>3 DEF Witnessed
<1>7. QED
  BY <1>5, <1>6

(* initializeDraft's first call keeps the invariant.                       *)
LEMMA InitializeCreateKeepsIInv ==
  ASSUME IInv, NEW c \in DraftInits, NEW n \in Nonces, NEW t \in ReceivedAt,
         InitializeCreate(c, n, t)
  PROVE  IInv'
<1> USE DEF IInv
<1>1. TypeOK'
  BY RememberTyped DEF InitializeCreate, TypeOK, Phases
<1>2. Witnessed'
  BY RememberKeepsWitness DEF InitializeCreate
<1>3. picks' = {} /\ source_cursor' = 0 /\ last_ingest_at' = Never
  BY DEF InitializeCreate, Pristine
<1>4. context' \in DraftInits
  BY DEF InitializeCreate
<1>5. BoardLegal' /\ CursorCoversBoard' /\ Pristine'
  BY <1>3, <1>4, InitsAssumption
  DEF BoardLegal, CursorCoversBoard, Pristine, Initialized, WellFormedInit
<1>6. QED
  BY <1>1, <1>2, <1>5

(* initializeDraft's repetition keeps the invariant.                       *)
LEMMA InitializeAgainKeepsIInv ==
  ASSUME IInv, NEW c \in DraftInits, NEW n \in Nonces, NEW t \in ReceivedAt,
         InitializeAgain(c, n, t)
  PROVE  IInv'
<1> USE DEF IInv
<1>1. TypeOK'
  BY RememberTyped DEF InitializeAgain, TypeOK
<1>2. Witnessed'
  BY RememberKeepsWitness DEF InitializeAgain
<1>3. BoardLegal' /\ CursorCoversBoard' /\ Pristine'
  BY DEF InitializeAgain, BoardLegal, CursorCoversBoard, Pristine, Initialized
<1>4. QED
  BY <1>1, <1>2, <1>3

(* The rows a commit adds are new in every key, fit the draft, and agree   *)
(* with each other and with the stored rows on who is drafted where.       *)
LEMMA CommitKeepsBoardLegal ==
  ASSUME IInv, NEW e \in Envelopes, NEW n \in Nonces, NEW t \in ReceivedAt,
         IngestCommit(e, n, t)
  PROVE  BoardLegal'
<1> USE DEF IInv
<1>1. picks' = picks \cup Fresh(e.events) /\ context' = context /\ Initialized
  BY DEF IngestCommit, StoredAfter
<1>2. \A ev \in Fresh(e.events) :
        /\ ev \in e.events
        /\ \A row \in picks : row.eventId # ev.eventId /\ row.overall # ev.overall
  BY DEF Fresh
<1>3. \A ev \in e.events :
        /\ ev.overall <= context.totalPickSlots
        /\ ev.team = context.draftSlotTeamIds[ev.overall]
        /\ ev.player \in context.catalog
        /\ \A other \in e.events \cup picks :
             other.player = ev.player => other.overall = ev.overall
  BY DEF IngestCommit, EnvelopeFits
<1>4. ASSUME NEW a \in picks', NEW b \in picks',
             a.overall = b.overall \/ a.eventId = b.eventId \/ a.player = b.player
      PROVE  a = b
  <2>1. CASE a \in picks /\ b \in picks
    BY <1>4, <2>1 DEF BoardLegal
  <2>2. CASE a \in Fresh(e.events) /\ b \in Fresh(e.events)
    <3>1. a \in e.events /\ b \in e.events
      BY <1>2, <2>2
    <3>2. a.player = b.player => a.overall = b.overall
      BY <1>3, <3>1
    <3>3. a.overall = b.overall => a = b
      BY <3>1, EnvelopeTyped
    <3>4. a.eventId = b.eventId => a = b
      BY <2>2 DEF IngestCommit, DistinctEventIds
    <3>5. QED
      BY <1>4, <3>2, <3>3, <3>4
  <2>3. CASE a \in Fresh(e.events) /\ b \in picks
    BY <1>2, <1>3, <1>4, <2>3
  <2>4. CASE a \in picks /\ b \in Fresh(e.events)
    BY <1>2, <1>3, <1>4, <2>4
  <2>5. QED
    BY <1>1, <2>1, <2>2, <2>3, <2>4
<1>5. ASSUME NEW row \in picks'
      PROVE  /\ Initialized'
             /\ row.overall <= context'.totalPickSlots
             /\ row.team = context'.draftSlotTeamIds[row.overall]
             /\ row.player \in context'.catalog
  <2>1. CASE row \in picks
    BY <1>1, <2>1 DEF BoardLegal, Initialized
  <2>2. CASE row \in Fresh(e.events)
    BY <1>1, <1>2, <1>3, <2>2 DEF Initialized
  <2>3. QED
    BY <1>1, <2>1, <2>2
<1>6. QED
  BY <1>4, <1>5 DEF BoardLegal

(* A commit moves the cursor past every row it adds, inside the draft.     *)
LEMMA CommitKeepsCursor ==
  ASSUME IInv, NEW e \in Envelopes, NEW n \in Nonces, NEW t \in ReceivedAt,
         IngestCommit(e, n, t)
  PROVE  CursorCoversBoard'
<1> USE DEF IInv
<1>1. /\ picks' = picks \cup Fresh(e.events)
      /\ context' = context
      /\ Initialized
      /\ source_cursor' = IF e.cursor > source_cursor THEN e.cursor ELSE source_cursor
      /\ e.cursor <= context.totalPickSlots
  BY DEF IngestCommit, StoredAfter, CursorAfter, EnvelopeFits
<1>2. e.cursor \in Nat /\ source_cursor \in Nat /\ context.totalPickSlots \in Nat
  BY <1>1, EnvelopeTyped, InitsAssumption DEF TypeOK, Initialized, WellFormedInit
<1>3. \A row \in picks' : row.overall \in Nat
  BY <1>1, EnvelopeTyped, OffersTyped DEF TypeOK, Fresh
<1>4. ASSUME NEW row \in picks'
      PROVE  row.overall <= source_cursor'
  <2>1. CASE row \in picks
    BY <1>1, <1>2, <1>3, <2>1 DEF CursorCoversBoard
  <2>2. CASE row \in e.events
    BY <1>1, <1>2, <1>3, <2>2, EnvelopeTyped
  <2>3. QED
    BY <1>1, <2>1, <2>2 DEF Fresh
<1>5. source_cursor' <= context'.totalPickSlots
  BY <1>1, <1>2 DEF CursorCoversBoard
<1>6. QED
  BY <1>1, <1>4, <1>5 DEF CursorCoversBoard, Initialized

(* ingestBatch's commit keeps the invariant.                               *)
LEMMA IngestCommitKeepsIInv ==
  ASSUME IInv, NEW e \in Envelopes, NEW n \in Nonces, NEW t \in ReceivedAt,
         IngestCommit(e, n, t)
  PROVE  IInv'
<1> USE DEF IInv
<1>1. TypeOK'
  <2>1. picks' \subseteq Offers
    BY EnvelopeTyped DEF IngestCommit, StoredAfter, Fresh, TypeOK
  <2>2. source_cursor' \in Nat
    BY EnvelopeTyped DEF IngestCommit, CursorAfter, TypeOK
  <2>3. revision' \in Nat /\ announced' \in Nat
    BY DEF IngestCommit, TypeOK
  <2>4. seen_nonces' \subseteq NonceRow
    BY RememberTyped DEF IngestCommit
  <2>5. last_ingest_at' \in Nat
    BY ReceivedAtRange DEF IngestCommit
  <2>6. QED
    BY <2>1, <2>2, <2>3, <2>4, <2>5, EnvelopeTyped DEF IngestCommit, TypeOK
<1>2. Witnessed'
  BY RememberKeepsWitness DEF IngestCommit
<1>3. Pristine'
  BY DEF IngestCommit, Pristine, Initialized
<1>4. QED
  BY <1>1, <1>2, <1>3, CommitKeepsBoardLegal, CommitKeepsCursor

(* Every step of the session keeps the invariant.                          *)
LEMMA NextKeepsIInv == IInv /\ [Next]_vars => IInv'
<1> SUFFICES ASSUME IInv, [Next]_vars
             PROVE  IInv'
  OBVIOUS
<1>1. ASSUME NEW e \in Envelopes, IngestConflict(e)
      PROVE  IInv'
  BY <1>1
  DEF IngestConflict, IInv, TypeOK, Pristine, BoardLegal, CursorCoversBoard,
      Witnessed, Initialized
<1>2. CASE Tick
  <2>1. now' = now + 1 /\ now \in Nat /\ last_ingest_at \in Nat \cup {Never}
    BY <1>2 DEF Tick, IInv, TypeOK
  <2>2. \A row \in seen_nonces : row.seen_at \in Nat
    BY DEF IInv, TypeOK, NonceRow
  <2>3. Witnessed'
    BY <1>2, <2>1, <2>2, ClockAssumption DEF Tick, IInv, Witnessed, Never
  <2>4. QED
    BY <1>2, <2>1, <2>3
    DEF Tick, IInv, TypeOK, Pristine, BoardLegal, CursorCoversBoard, Initialized
<1>3. CASE UNCHANGED vars
  BY <1>3
  DEF vars, IInv, TypeOK, Pristine, BoardLegal, CursorCoversBoard, Witnessed, Initialized
<1>4. QED
  BY <1>1, <1>2, <1>3, InitializeCreateKeepsIInv, InitializeAgainKeepsIInv,
     IngestCommitKeepsIInv
  DEF Next, InitializeRefused, IngestRefused

(* The inductive invariant holds in every reachable state.                 *)
THEOREM InvariantHolds == Spec => []IInv
BY InitEstablishesIInv, NextKeepsIInv, PTL DEF Spec

-----------------------------------------------------------------------------
(* Consequences.                                                           *)

(* Every table column keeps its type, for every draft and clock.           *)
THEOREM TypeCorrect == Spec => []TypeOK
<1>1. IInv => TypeOK
  BY DEF IInv
<1>2. QED
  BY <1>1, InvariantHolds, PTL

(* The stored board is a legal draft, whatever batches arrive in whatever  *)
(* order: the checks of ingestBatch suffice without a table constraint on  *)
(* the player.                                                             *)
THEOREM BoardIsLegal == Spec => []BoardLegal
<1>1. IInv => BoardLegal
  BY DEF IInv
<1>2. QED
  BY <1>1, InvariantHolds, PTL

(* The source cursor covers the board and stays inside the draft.          *)
THEOREM CursorCovers == Spec => []CursorCoversBoard
<1>1. IInv => CursorCoversBoard
  BY DEF IInv
<1>2. QED
  BY <1>1, InvariantHolds, PTL

(* Advice is given only over a board that has every pick before the clock. *)
THEOREM AdviceIsInformed == Spec => []AdviceKnowsEveryPriorPick
<1>1. ASSUME IInv, Recommendable # {}, NEW o \in 1..(Clock - 1)
      PROVE  \E row \in picks : row.overall = o /\ row.player \notin Recommendable
  <2>1. source_cursor \in Nat /\ LastOverallPick = source_cursor
    BY <1>1, LastIsCursor DEF IInv, TypeOK
  <2>2. MissingOverallPicks = {} /\ Recommendable = Available
    BY <1>1 DEF Recommendable, HasGap
  <2>3. o \in 1..LastOverallPick
    BY <2>1 DEF Clock
  <2>4. PICK row \in picks : row.overall = o
    BY <2>2, <2>3 DEF MissingOverallPicks
  <2>5. row.player \notin Recommendable
    BY <2>2 DEF Available
  <2>6. QED
    BY <2>4, <2>5
<1>2. IInv => AdviceKnowsEveryPriorPick
  BY <1>1 DEF AdviceKnowsEveryPriorPick
<1>3. QED
  BY <1>2, InvariantHolds, PTL

(* Advice during a draft rests on an ingest less than StaleAfter old whose *)
(* nonce is still remembered.                                              *)
THEOREM AdviceIsFresh == Spec => []FreshAdviceHasEvidence
<1>1. ASSUME IInv, Recommendable # {}, status # "complete", last_ingest_at # Never
      PROVE  \E row \in seen_nonces :
               row.seen_at = last_ingest_at /\ now - row.seen_at < StaleAfter
  <2>1. last_ingest_at \in Nat /\ now \in Nat /\ last_ingest_at <= now
    BY <1>1 DEF IInv, TypeOK, Witnessed
  <2>2. IngestorStatus \notin {"stale", "dead"}
    BY <1>1 DEF Recommendable, Stale
  <2>3. Elapsed < StaleAfter
    <3>1. Elapsed \in Nat
      BY <2>1 DEF Elapsed
    <3>2. ~(Elapsed >= DeadAfter)
      BY <1>1, <2>2 DEF IngestorStatus
    <3>3. ~(Elapsed < DeadAfter /\ Elapsed >= StaleAfter)
      BY <1>1, <2>2 DEF IngestorStatus
    <3>4. QED
      BY <3>1, <3>2, <3>3, ClockAssumption
  <2>4. now - last_ingest_at < StaleAfter
    BY <2>1, <2>3 DEF Elapsed
  <2>5. ~(now - last_ingest_at > NonceTtl)
    BY <2>1, <2>4, ClockAssumption
  <2>6. QED
    BY <1>1, <2>4, <2>5 DEF IInv, Witnessed
<1>2. IInv => FreshAdviceHasEvidence
  BY <1>1 DEF FreshAdviceHasEvidence
<1>3. QED
  BY <1>2, InvariantHolds, PTL

-----------------------------------------------------------------------------
(* Steps.                                                                  *)

(* Acknowledged picks and the configuration are never lost or replaced.    *)
THEOREM BoardOnlyGrows == Spec => BoardWriteOnce
<1>1. [Next]_vars =>
        [picks \subseteq picks' /\ (Initialized => context' = context)]_vars
  BY DEF Next, vars, InitializeCreate, InitializeAgain, InitializeRefused,
         IngestCommit, IngestConflict, IngestRefused, Tick, StoredAfter, Initialized
<1>2. QED
  BY <1>1, PTL DEF Spec, BoardWriteOnce

(* The clock is always one past the source cursor.                         *)
ClockIsCursor == Clock = source_cursor + 1

LEMMA ClockFollowsCursor == Spec => []ClockIsCursor
<1>1. IInv => ClockIsCursor
  BY LastIsCursor DEF IInv, Clock, ClockIsCursor
<1>2. QED
  BY <1>1, InvariantHolds, PTL

(* Adding one preserves the order of natural numbers.                      *)
LEMMA SuccessorMonotone ==
  \A a, b \in Nat : b >= a => b + 1 >= a + 1
OBVIOUS

(* The draft clock never rewinds.                                          *)
THEOREM ClockIsMonotone == Spec => ClockNeverRewinds
<1>1. IInv /\ IInv' /\ ClockIsCursor /\ ClockIsCursor' /\ [Next]_vars
        => [Clock' >= Clock]_vars
  <2> SUFFICES ASSUME IInv, IInv', ClockIsCursor, ClockIsCursor', Next
               PROVE  Clock' >= Clock
    OBVIOUS
  <2>1. source_cursor \in Nat /\ source_cursor' \in Nat
    BY DEF IInv, TypeOK
  <2>2. source_cursor' >= source_cursor
    BY <2>1, EnvelopeTyped
    DEF Next, InitializeCreate, InitializeAgain, InitializeRefused, IngestCommit,
        IngestConflict, IngestRefused, Tick, CursorAfter, vars
  <2>3. Clock = source_cursor + 1
    BY DEF ClockIsCursor
  <2>4. Clock' = source_cursor' + 1
    BY DEF ClockIsCursor
  <2>5. QED
    BY <2>1, <2>2, <2>3, <2>4, SuccessorMonotone
<1>2. QED
  BY <1>1, InvariantHolds, ClockFollowsCursor, PTL DEF Spec, ClockNeverRewinds

(* A nonce is forgotten only past its retention.                           *)
THEOREM NoncesAreKept == Spec => NoncesOutliveTtl
<1>1. ASSUME TypeOK, NEW n \in Nonces, NEW t \in ReceivedAt, Remember(n, t),
             NEW row \in seen_nonces, row \notin seen_nonces'
      PROVE  now - row.seen_at > NonceTtl
  <2>1. t \in Nat /\ t <= now /\ now \in Nat /\ row.seen_at \in Nat
    BY <1>1, ReceivedAtRange DEF TypeOK, NonceRow
  <2>2. ~(row.seen_at >= t - NonceTtl)
    BY <1>1 DEF Remember
  <2>3. QED
    BY <2>1, <2>2, ClockAssumption
<1>2. TypeOK /\ [Next]_vars =>
        [\A row \in seen_nonces :
           row \notin seen_nonces' => now - row.seen_at > NonceTtl]_vars
  <2> SUFFICES ASSUME TypeOK, Next, NEW row \in seen_nonces, row \notin seen_nonces'
               PROVE  now - row.seen_at > NonceTtl
    OBVIOUS
  <2>1. PICK n \in Nonces, t \in ReceivedAt : Remember(n, t)
    BY DEF Next, InitializeCreate, InitializeAgain, InitializeRefused, IngestCommit,
           IngestConflict, IngestRefused, Tick, vars
  <2>2. QED
    BY <1>1, <2>1
<1>3. QED
  BY <1>2, TypeCorrect, PTL DEF Spec, NoncesOutliveTtl

(* Every change of picks or phase has a revision of its own, announced.    *)
THEOREM RevisionIsFaithful == Spec => RevisionTracksBoard
<1>1. TypeOK /\ [Next]_vars =>
        [/\ Initialized /\ (picks' # picks \/ status' # status) => revision' = revision + 1
         /\ revision' # revision =>
              announced' = revision' /\ (picks' # picks \/ status' # status)]_vars
  <2> SUFFICES ASSUME TypeOK, Next
               PROVE  /\ Initialized /\ (picks' # picks \/ status' # status)
                            => revision' = revision + 1
                      /\ revision' # revision =>
                           announced' = revision' /\ (picks' # picks \/ status' # status)
    OBVIOUS
  <2>1. ASSUME NEW e \in Envelopes, NEW n \in Nonces, NEW t \in ReceivedAt,
               IngestCommit(e, n, t)
        PROVE  /\ picks' # picks \/ status' # status => revision' = revision + 1
               /\ revision' # revision =>
                    announced' = revision' /\ (picks' # picks \/ status' # status)
    <3>1. revision \in Nat
      BY DEF TypeOK
    <3>2. Fresh(e.events) # {} <=> picks' # picks
      BY <2>1 DEF IngestCommit, StoredAfter, Fresh
    <3>3. Changed(e) <=> (picks' # picks \/ status' # status)
      BY <2>1, <3>2 DEF IngestCommit, Changed
    <3>4. QED
      BY <2>1, <3>1, <3>3 DEF IngestCommit
  <2>2. QED
    BY <2>1
    DEF Next, InitializeCreate, InitializeAgain, InitializeRefused, IngestConflict,
        IngestRefused, Tick, vars, Initialized
<1>2. QED
  BY <1>1, TypeCorrect, PTL DEF Spec, RevisionTracksBoard

-----------------------------------------------------------------------------
(* The refinement: a commit is Learn, a conflict is Dispute, the creating  *)
(* initialize is Open, and everything else leaves the abstract board alone.*)

Filled == {[slot |-> row.overall, player |-> row.player] : row \in picks}

(* A commit is a Learn step of the abstract board.                         *)
LEMMA CommitLearns ==
  ASSUME IInv, IInv', NEW e \in Envelopes, NEW n \in Nonces, NEW t \in ReceivedAt,
         IngestCommit(e, n, t)
  PROVE  Board!Learn
<1> USE DEF IInv
<1>1. Initialized /\ Initialized' /\ picks \subseteq picks' /\ conflict_count' = conflict_count
  BY DEF IngestCommit, StoredAfter, Initialized
<1>2. Filled \subseteq Filled'
  BY <1>1 DEF Filled
<1>3. Filled' \subseteq [slot : Nat \ {0}, player : Players]
  BY OffersTyped DEF Filled, TypeOK
<1>4. Board!Injective(Filled')
  BY DEF Board!Injective, Filled, BoardLegal
<1>5. source_cursor \in Nat /\ source_cursor' \in Nat
  BY DEF TypeOK
<1>6. source_cursor' >= source_cursor
  BY <1>5, EnvelopeTyped DEF IngestCommit, CursorAfter
<1>7. \A entry \in Filled' : entry.slot <= source_cursor'
  BY DEF Filled, CursorCoversBoard
<1>8. QED
  BY <1>1, <1>2, <1>3, <1>4, <1>5, <1>6, <1>7
  DEF Board!Learn, Board!Entry, Filled

(* Every behaviour of the session is a behaviour of the abstract board.    *)
THEOREM SessionImplementsBoard == Spec => ImplementsBoard
<1>1. Init => Board!BoardInit
  BY DEF Init, Board!BoardInit, Initialized
<1>2. IInv /\ IInv' /\ [Next]_vars => [Board!BoardNext]_(Board!boardVars)
  <2> SUFFICES ASSUME IInv, IInv', [Next]_vars
               PROVE  Board!BoardNext \/ UNCHANGED Board!boardVars
    OBVIOUS
  <2>1. ASSUME NEW c \in DraftInits, NEW n \in Nonces, NEW t \in ReceivedAt,
               InitializeCreate(c, n, t)
        PROVE  Board!Open
    <3>1. ~Initialized /\ Initialized'
      BY <2>1, InitsAssumption DEF InitializeCreate, Initialized
    <3>2. picks' = picks /\ source_cursor' = source_cursor /\ conflict_count' = conflict_count
      BY <2>1 DEF InitializeCreate
    <3>3. QED
      BY <3>1, <3>2 DEF Board!Open
  <2>2. ASSUME NEW e \in Envelopes, IngestConflict(e)
        PROVE  Board!Dispute
    <3>1. conflict_count' > 0
      BY <2>2 DEF IngestConflict, IInv, TypeOK
    <3>2. Initialized /\ Initialized' /\ picks' = picks /\ source_cursor' = source_cursor
      BY <2>2 DEF IngestConflict, Initialized
    <3>3. QED
      BY <3>1, <3>2 DEF Board!Dispute
  <2>3. ASSUME NEW c \in DraftInits, NEW n \in Nonces, NEW t \in ReceivedAt,
               InitializeAgain(c, n, t)
        PROVE  UNCHANGED Board!boardVars
    BY <2>3 DEF InitializeAgain, Board!boardVars, Initialized
  <2>4. CASE Tick
    BY <2>4 DEF Tick, Board!boardVars, Initialized
  <2>5. CASE UNCHANGED vars
    BY <2>5 DEF vars, Board!boardVars, Initialized
  <2>6. QED
    BY <2>1, <2>2, <2>3, <2>4, <2>5, CommitLearns
    DEF Next, InitializeRefused, IngestRefused, Board!BoardNext
<1>3. QED
  BY <1>1, <1>2, InvariantHolds, PTL DEF Spec, ImplementsBoard, Board!BoardSpec
=============================================================================
