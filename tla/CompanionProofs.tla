--------------------------- MODULE CompanionProofs --------------------------
(***************************************************************************)
(* Theorems about Companion, for every draft, every order of drafted       *)
(* players, every part size and every bound.                               *)
(*                                                                         *)
(* Every view of the draft is a prefix of the room's picks: the board the  *)
(* companion holds, its checkpoint, what is on its way and what the        *)
(* session stored.  A SELECTED frame carries no pick number, so this rests *)
(* on FramesContinue: the frames waiting to be read carry on from the      *)
(* companion's own count, because a source only records sockets whose      *)
(* INIT frame it also records, and a failed cycle drops source and frames. *)
(***************************************************************************)
EXTENDS Companion, TLAPS, FiniteSetTheorems, SequenceTheorems

(* The row, and the event, of a pick the room made.                        *)
RoomPick(o) ==
  [overall |-> o, team |-> SlotTeam[o], player |-> Truth[o], eventId |-> <<o, Truth[o], 0>>]

RoomPicksUpto(k) == {RoomPick(o) : o \in 1..k}

(* A request that says only what the room said.                            *)
TrueEnvelope(e) ==
  /\ e.totalPickSlots = Total
  /\ e.cursor \in 0..room
  /\ e.phase \in {"live", "complete"}
  /\ e.events \subseteq RoomPicksUpto(e.cursor)

(* What the companion's count would be once i of the waiting frames are    *)
(* read.                                                                   *)
CountAfter(i) ==
  IF i = 0 THEN Cardinality(DOMAIN picks)
  ELSE IF frames[i].kind = "INIT" THEN frames[i].upto
  ELSE frames[i].slot

(* The board and the checkpoint are prefixes of the room's picks.          *)
ViewsArePrefixes ==
  /\ \E k \in 0..room : picks = Prefix(k)
  /\ \E k \in 0..room : saved = Prefix(k)

(* The frames to be read continue the companion's count, and while the     *)
(* page's socket is tracked they catch up with the room.                   *)
FramesContinue ==
  /\ frames \in Seq(Frame)
  /\ \A i \in 1..Len(frames) :
       /\ CountAfter(i) <= room
       /\ frames[i].kind = "SELECTED" => frames[i].slot = CountAfter(i - 1) + 1
  /\ page = "open" /\ tracked => CountAfter(Len(frames)) = room
  /\ pc \notin Attached => frames = <<>> /\ ~tracked

(* The session holds only the room's picks, up to its cursor.              *)
SessionIsTrue ==
  /\ cursor \in 0..room
  /\ board \subseteq RoomPicksUpto(cursor)
  /\ phase \in {"pre_draft", "live", "complete"}
  /\ disputed = FALSE

LateIsTrue == \A e \in late : TrueEnvelope(e)

(* What was acknowledged is on the board.                                  *)
AckedIsStored ==
  /\ \A o \in DOMAIN saved : RoomPick(o) \in board
  /\ pc = "checkpoint" => \A o \in DOMAIN picks : RoomPick(o) \in board
  /\ pc = "done" => RoomPicksUpto(Total) \subseteq board

PartInRange == pc = "post" => part \in 1..Parts(Cardinality(DOMAIN picks))

(* The rest of the state has its type.                                     *)
ControlTyped ==
  /\ room \in 0..Total
  /\ page \in {"open", "down"}
  /\ pc \in Attached \cup Gone \cup {"attach", "sleep"}
  /\ changed \in BOOLEAN /\ tracked \in BOOLEAN
  /\ part \in 0..Total
  /\ Len(frames) <= MaxFrames
  /\ health \in {"none", "starting", "live", "reconnecting", "complete", "stopped", "revoked"}
  /\ crashes \in 0..MaxCrashes
  /\ revoked \in BOOLEAN /\ fresh \in BOOLEAN

IInv ==
  /\ ControlTyped
  /\ ViewsArePrefixes
  /\ FramesContinue
  /\ SessionIsTrue
  /\ LateIsTrue
  /\ AckedIsStored
  /\ PartInRange

-----------------------------------------------------------------------------
(* Prefixes of the room's picks.                                           *)

(* A prefix is defined on its slots, and its size is its length.           *)
LEMMA PrefixFacts ==
  ASSUME NEW k \in Nat
  PROVE  /\ DOMAIN Prefix(k) = 1..k
         /\ Cardinality(DOMAIN Prefix(k)) = k
         /\ \A o \in 1..k : Prefix(k)[o] = Truth[o]
<1>1. DOMAIN Prefix(k) = 1..k
  BY DEF Prefix
<1>2. Cardinality(1..k) = k
  BY FS_Interval
<1>3. QED
  BY <1>1, <1>2 DEF Prefix

(* The empty dict is the empty prefix.                                     *)
LEMMA NothingIsPrefix == Nothing = Prefix(0)
BY DEF Nothing, Prefix

(* A pick of the room is an event the companion may send.                  *)
LEMMA RoomPickTyped ==
  ASSUME NEW o \in Slots
  PROVE  RoomPick(o) \in Events
<1>1. Truth[o] \in TheDraft.catalog
  BY DraftAssumption
<1>2. <<o, Truth[o], 0>> \in EventIds
  BY <1>1, BoundsAssumption DEF EventIds
<1>3. QED
  BY <1>1, <1>2 DEF RoomPick, Events

(* Two picks of the room that share anything are the same pick.            *)
LEMMA RoomPicksDistinct ==
  ASSUME NEW a \in Slots, NEW b \in Slots,
         \/ RoomPick(a).overall = RoomPick(b).overall
         \/ RoomPick(a).player = RoomPick(b).player
         \/ RoomPick(a).eventId = RoomPick(b).eventId
  PROVE  a = b
BY DraftAssumption DEF RoomPick

LEMMA UptoGrows ==
  ASSUME NEW j \in Nat, NEW k \in Nat, j <= k
  PROVE  RoomPicksUpto(j) \subseteq RoomPicksUpto(k)
BY DEF RoomPicksUpto

-----------------------------------------------------------------------------
(* Parts of the board.                                                     *)

LEMMA Quotient ==
  ASSUME NEW a \in Nat, NEW b \in Nat \ {0}
  PROVE  /\ a \div b \in Nat
         /\ (a \div b) * b <= a
         /\ a < (a \div b) * b + b
OBVIOUS

LEMMA QuotientUnique ==
  ASSUME NEW a \in Nat, NEW b \in Nat \ {0}, NEW q \in Nat,
         q * b <= a, a < q * b + b
  PROVE  a \div b = q
OBVIOUS

(* Every slot up to n lies in one of Parts(n) parts, n in the last one.    *)
LEMMA LastPartHoldsLast ==
  ASSUME NEW n \in Nat \ {0}
  PROVE  /\ Parts(n) \in 1..n
         /\ (n - 1) \div MaxPart = Parts(n) - 1
<1> DEFINE q == (n - 1) \div MaxPart
<1>0. MaxPart \in Nat \ {0} /\ n - 1 \in Nat
  BY BoundsAssumption
<1>1. q \in Nat /\ q * MaxPart <= n - 1 /\ n - 1 < q * MaxPart + MaxPart
  BY <1>0, Quotient
<1> HIDE DEF q
<1>2. (q + 1) * MaxPart = q * MaxPart + MaxPart
  BY <1>0, <1>1
<1>3. (n + MaxPart - 1) \div MaxPart = q + 1
  <2>1. n + MaxPart - 1 \in Nat /\ q + 1 \in Nat
    BY <1>0, <1>1
  <2>2. (q + 1) * MaxPart <= n + MaxPart - 1
    BY <1>0, <1>1, <1>2
  <2>3. n + MaxPart - 1 < (q + 1) * MaxPart + MaxPart
    BY <1>0, <1>1, <1>2
  <2>4. QED
    BY <1>0, <2>1, <2>2, <2>3, QuotientUnique
<1>4. Parts(n) = q + 1
  BY <1>3 DEF Parts
<1>5. q <= q * MaxPart
  BY <1>0, <1>1
<1>6. q + 1 <= n
  BY <1>0, <1>1, <1>5
<1>7. QED
  BY <1>1, <1>4, <1>6 DEF q

(* A part is never empty, and has a last slot.                             *)
LEMMA PartHasLast ==
  ASSUME NEW n \in Nat \ {0}, NEW p \in 1..Parts(n)
  PROVE  \E m \in {o \in 1..n : (o - 1) \div MaxPart = p - 1} :
           \A q \in {o \in 1..n : (o - 1) \div MaxPart = p - 1} : q <= m
<1> DEFINE S == {o \in 1..n : (o - 1) \div MaxPart = p - 1}
<1>0. MaxPart \in Nat \ {0} /\ Parts(n) \in 1..n /\ p \in 1..n /\ p - 1 \in Nat
  BY BoundsAssumption, LastPartHoldsLast
<1>1. (n - 1) \div MaxPart = Parts(n) - 1
  BY LastPartHoldsLast
<1>2. CASE p = Parts(n)
  <2>1. n \in S
    BY <1>1, <1>2
  <2>2. QED
    BY <2>1
<1>3. CASE p < Parts(n)
  <2> DEFINE m == p * MaxPart
  <2>1. m \in Nat /\ (p - 1) * MaxPart = m - MaxPart /\ m >= MaxPart
    BY <1>0
  <2>2. (Parts(n) - 1) * MaxPart <= n - 1
    BY <1>0, <1>1, Quotient
  <2>3. m <= (Parts(n) - 1) * MaxPart
    BY <1>0, <1>3
  <2> HIDE DEF m
  <2>4. m \in 1..n /\ m - 1 \in Nat
    BY <1>0, <2>1, <2>2, <2>3
  <2>5. (m - 1) \div MaxPart = p - 1
    BY <1>0, <2>1, <2>4, QuotientUnique
  <2>6. ASSUME NEW o \in S
        PROVE  o <= m
    <3>1. o - 1 \in Nat /\ (o - 1) \div MaxPart = p - 1
      OBVIOUS
    <3>2. o - 1 < (p - 1) * MaxPart + MaxPart
      BY <1>0, <3>1, Quotient
    <3>3. QED
      BY <1>0, <2>1, <3>1, <3>2
  <2>7. QED
    BY <2>4, <2>5, <2>6
<1>4. QED
  BY <1>0, <1>2, <1>3
-----------------------------------------------------------------------------
(* The session's side.                                                     *)

(* A true request is never refused: it fits the draft, conflicts with      *)
(* nothing stored and repeats no event id.                                 *)
LEMMA TrueEnvelopeCommits ==
  ASSUME room \in 0..Total, SessionIsTrue, NEW e, TrueEnvelope(e)
  PROVE  Commits(e)
<1>0. Total \in Nat /\ room \in Nat /\ e.cursor \in 0..Total /\ cursor \in 0..Total
  BY DraftAssumption DEF TrueEnvelope, SessionIsTrue
<1>1. \A ev \in e.events : \E o \in Slots : o <= e.cursor /\ ev = RoomPick(o)
  BY <1>0 DEF TrueEnvelope, RoomPicksUpto, Slots
<1>2. \A row \in board : \E o \in Slots : row = RoomPick(o)
  BY <1>0 DEF SessionIsTrue, RoomPicksUpto, Slots
<1>3. Session!EnvelopeFits(e)
  <2>1. e.totalPickSlots = TheDraft.totalPickSlots /\ e.cursor <= TheDraft.totalPickSlots
    BY <1>0 DEF TrueEnvelope, Total
  <2>2. ASSUME NEW ev \in e.events
        PROVE  /\ ev.overall <= TheDraft.totalPickSlots
               /\ ev.team = TheDraft.draftSlotTeamIds[ev.overall]
               /\ ev.player \in TheDraft.catalog
               /\ \A other \in e.events \cup board :
                    other.player = ev.player => other.overall = ev.overall
    <3>1. PICK o \in Slots : ev = RoomPick(o)
      BY <1>1
    <3>2. ev.overall = o /\ ev.team = SlotTeam[o] /\ ev.player = Truth[o]
      BY <3>1 DEF RoomPick
    <3>3. o \in Int /\ o <= Total /\ Truth[o] \in TheDraft.catalog
      BY <1>0, DraftAssumption DEF Slots
    <3>4. ASSUME NEW other \in e.events \cup board, other.player = ev.player
          PROVE  other.overall = ev.overall
      <4>1. PICK q \in Slots : other = RoomPick(q)
        BY <1>1, <1>2
      <4>2. QED
        BY <3>1, <3>4, <4>1, RoomPicksDistinct
    <3>5. QED
      BY <3>2, <3>3, <3>4 DEF Total, SlotTeam
  <2>3. QED
    BY <2>1, <2>2 DEF Session!EnvelopeFits
<1>4. ASSUME NEW ev \in e.events
      PROVE  ~Session!Conflicts(ev)
  <2>1. PICK o \in Slots : ev = RoomPick(o)
    BY <1>1
  <2>2. ASSUME NEW row \in board, row.eventId = ev.eventId \/ row.overall = ev.overall
        PROVE  row = ev
    <3>1. PICK q \in Slots : row = RoomPick(q)
      BY <1>2
    <3>2. QED
      BY <2>1, <2>2, <3>1, RoomPicksDistinct
  <2>3. QED
    BY <2>2 DEF Session!Conflicts
<1>5. Session!DistinctEventIds(Session!Fresh(e.events))
  <2>1. ASSUME NEW x \in e.events, NEW y \in e.events, x.eventId = y.eventId
        PROVE  x = y
    <3>1. PICK a \in Slots : x = RoomPick(a)
      BY <1>1
    <3>2. PICK b \in Slots : y = RoomPick(b)
      BY <1>1
    <3>3. QED
      BY <2>1, <3>1, <3>2, RoomPicksDistinct
  <2>2. QED
    BY <2>1 DEF Session!DistinctEventIds, Session!Fresh
<1>6. QED
  BY <1>3, <1>4, <1>5 DEF Commits

(* Committing a true request keeps the session true, and stores all of it. *)
LEMMA CommitKeepsSession ==
  ASSUME room \in 0..Total, SessionIsTrue, NEW e, TrueEnvelope(e), SessionCommit(e),
         room' \in room..Total
  PROVE  /\ SessionIsTrue'
         /\ board \subseteq board'
         /\ e.events \subseteq board'
         /\ e.cursor <= cursor'
         /\ fresh' \in BOOLEAN
<1>0. /\ Total \in Nat /\ room \in Nat /\ e.cursor \in 0..room /\ cursor \in 0..room
      /\ room' \in Nat /\ room <= room'
  BY DraftAssumption DEF TrueEnvelope, SessionIsTrue
<1>1. cursor' = IF e.cursor > cursor THEN e.cursor ELSE cursor
  BY DEF SessionCommit, Session!CursorAfter
<1>2. cursor' \in 0..room' /\ cursor <= cursor' /\ e.cursor <= cursor'
  BY <1>0, <1>1
<1>3. board' = board \cup Session!Fresh(e.events)
  BY DEF SessionCommit, Session!StoredAfter
<1>4. Session!Fresh(e.events) \subseteq e.events
  BY DEF Session!Fresh
<1>5. board' \subseteq RoomPicksUpto(cursor')
  <2>1. RoomPicksUpto(cursor) \subseteq RoomPicksUpto(cursor')
    BY <1>0, <1>2, UptoGrows
  <2>2. RoomPicksUpto(e.cursor) \subseteq RoomPicksUpto(cursor')
    BY <1>0, <1>2, UptoGrows
  <2>3. board \subseteq RoomPicksUpto(cursor) /\ e.events \subseteq RoomPicksUpto(e.cursor)
    BY DEF SessionIsTrue, TrueEnvelope
  <2>4. QED
    BY <1>3, <1>4, <2>1, <2>2, <2>3
<1>6. ASSUME NEW ev \in e.events
      PROVE  ev \in board'
  <2>1. CASE ev \in Session!Fresh(e.events)
    BY <2>1, <1>3
  <2>2. CASE ev \notin Session!Fresh(e.events)
    <3>1. PICK row \in board : row.eventId = ev.eventId \/ row.overall = ev.overall
      BY <2>2 DEF Session!Fresh
    <3>2. PICK q \in Slots : row = RoomPick(q)
      BY <1>0, <3>1 DEF SessionIsTrue, RoomPicksUpto, Slots
    <3>3. PICK o \in Slots : ev = RoomPick(o)
      BY <1>0, <1>6 DEF TrueEnvelope, RoomPicksUpto, Slots
    <3>4. row = ev
      BY <3>1, <3>2, <3>3, RoomPicksDistinct
    <3>5. QED
      BY <1>3, <3>4
  <2>3. QED
    BY <2>1, <2>2
<1>7. phase' \in {"pre_draft", "live", "complete"} /\ disputed' = FALSE
  BY DEF SessionCommit, TrueEnvelope, SessionIsTrue
<1>8. fresh' \in BOOLEAN
  BY DEF SessionCommit
<1>9. QED
  BY <1>2, <1>3, <1>5, <1>6, <1>7, <1>8 DEF SessionIsTrue

(* After a commit the session's last overall pick is its cursor, so a pick *)
(* up to the cursor that it does not report missing is stored.             *)
LEMMA NotMissingIsStored ==
  ASSUME SessionIsTrue', room' \in 0..Total,
         NEW o \in 1..cursor', o \notin (Session!MissingOverallPicks)'
  PROVE  RoomPick(o) \in board'
<1>0. cursor' \in Nat
  BY DraftAssumption DEF SessionIsTrue
<1>1. \A row \in board' : \E q \in 1..cursor' : row = RoomPick(q)
  BY DEF SessionIsTrue, RoomPicksUpto
<1>2. \A row \in board' : row.overall \in Nat /\ row.overall <= cursor'
  BY <1>0, <1>1 DEF RoomPick
<1> DEFINE Candidates == {cursor'} \cup {row.overall : row \in board'}
<1> DEFINE IsLast(n) == n >= cursor' /\ \A row \in board' : n >= row.overall
<1>3. (Session!LastOverallPick)' = cursor'
  <2>1. cursor' \in Candidates /\ IsLast(cursor')
    BY <1>0, <1>2
  <2>2. ASSUME NEW n \in Candidates, IsLast(n)
        PROVE  n = cursor'
    BY <1>0, <1>2, <2>2
  <2>3. (Session!LastOverallPick)' = CHOOSE n \in Candidates : IsLast(n)
    BY DEF Session!LastOverallPick
  <2> HIDE DEF Candidates, IsLast
  <2>4. QED
    BY <2>1, <2>2, <2>3
<1>4. o \in {row.overall : row \in board'}
  BY <1>3 DEF Session!MissingOverallPicks
<1>5. PICK row \in board' : row.overall = o
  BY <1>4
<1>6. PICK q \in 1..cursor' : row = RoomPick(q)
  BY <1>1
<1>7. q = o
  BY <1>5, <1>6 DEF RoomPick
<1>8. QED
  BY <1>5, <1>6, <1>7

-----------------------------------------------------------------------------
(* What the companion posts.                                               *)

(* The companion's count is the length of its prefix of the room.          *)
LEMMA ViewIsPrefix ==
  ASSUME room \in 0..Total, \E k \in 0..room : picks = Prefix(k)
  PROVE  /\ Cardinality(DOMAIN picks) \in 0..room
         /\ DOMAIN picks = 1..Cardinality(DOMAIN picks)
         /\ picks = Prefix(Cardinality(DOMAIN picks))
         /\ \A o \in DOMAIN picks : o \in Slots /\ picks[o] = Truth[o]
<1>1. PICK k \in 0..room : picks = Prefix(k)
  OBVIOUS
<1>2. k \in Nat /\ room \in Nat /\ Total \in Nat /\ k <= Total
  BY DraftAssumption
<1>3. DOMAIN picks = 1..k /\ Cardinality(DOMAIN picks) = k /\ \A o \in 1..k : picks[o] = Truth[o]
  BY <1>1, <1>2, PrefixFacts
<1>4. \A o \in 1..k : o \in Slots
  BY <1>2 DEF Slots
<1>5. QED
  BY <1>1, <1>3, <1>4

(* Every part of the board is a true request; the last one names the last  *)
(* pick of the companion's count.                                          *)
LEMMA PartIsTrue ==
  ASSUME room \in 0..Total, \E k \in 0..room : picks = Prefix(k),
         part \in 1..Parts(Cardinality(DOMAIN picks))
  PROVE  /\ TrueEnvelope(PartEnvelope)
         /\ LastPart => PartEnvelope.cursor = Cardinality(DOMAIN picks)
<1> DEFINE n == Cardinality(DOMAIN picks)
<1>0. /\ n \in 0..room /\ DOMAIN picks = 1..n
      /\ \A o \in 1..n : o \in Slots /\ picks[o] = Truth[o]
      /\ n \in Nat /\ room \in Nat /\ Total \in Nat /\ room <= Total
  BY ViewIsPrefix, DraftAssumption
<1>00. part \in 1..Parts(n) /\ (LastPart <=> part = Parts(n)) /\ (Complete <=> n = Total)
  BY DEF LastPart, Complete
<1> HIDE DEF n
<1>1. PartSlots = {o \in 1..n : (o - 1) \div MaxPart = part - 1}
  <2>1. ASSUME NEW o \in 1..n
        PROVE  Rank(o) = o
    <3>1. {q \in DOMAIN picks : q <= o} = 1..o
      BY <1>0
    <3>2. Cardinality(1..o) = o
      BY FS_Interval
    <3>3. QED
      BY <3>1, <3>2 DEF Rank
  <2>2. QED
    BY <1>0, <2>1 DEF PartSlots
<1>2. /\ PartCursor \in 0..n
      /\ \A o \in PartSlots : o <= PartCursor
      /\ LastPart => PartCursor = n
  <2>1. CASE n = 0
    <3>1. PartSlots = {}
      BY <1>1, <2>1
    <3>2. QED
      BY <1>0, <2>1, <3>1 DEF PartCursor
  <2>2. CASE n # 0
    <3>0. n \in Nat \ {0}
      BY <1>0, <2>2
    <3>1. PICK m \in PartSlots : \A q \in PartSlots : q <= m
      BY <1>00, <1>1, <3>0, PartHasLast
    <3>2. PartCursor = CHOOSE o \in PartSlots : \A q \in PartSlots : q <= o
      BY <3>1 DEF PartCursor
    <3>3. PartCursor \in PartSlots /\ \A q \in PartSlots : q <= PartCursor
      BY <3>1, <3>2
    <3>4. PartCursor \in 1..n
      BY <1>1, <3>3
    <3>5. ASSUME LastPart
          PROVE  PartCursor = n
      <4>1. n \in PartSlots
        BY <1>00, <1>1, <3>0, <3>5, LastPartHoldsLast
      <4>2. n <= PartCursor
        BY <3>3, <4>1
      <4>3. QED
        BY <1>0, <3>4, <4>2
    <3>6. QED
      BY <1>0, <3>3, <3>4, <3>5
  <2>3. QED
    BY <2>1, <2>2
<1>3. PartEnvelope.cursor \in 0..n /\ (LastPart => PartEnvelope.cursor = n)
  BY <1>0, <1>00, <1>2 DEF PartEnvelope
<1>4. PartCursor <= PartEnvelope.cursor
  BY <1>0, <1>00, <1>2 DEF PartEnvelope
<1>5. \A o \in PartSlots : Event(o) = RoomPick(o)
  BY <1>0, <1>1 DEF Event, EventId, RoomPick
<1>6. \A o \in PartSlots : o \in 1..PartEnvelope.cursor
  BY <1>0, <1>1, <1>2, <1>3, <1>4
<1>7. PartEnvelope.events \subseteq RoomPicksUpto(PartEnvelope.cursor)
  BY <1>5, <1>6 DEF PartEnvelope, RoomPicksUpto
<1>8. PartEnvelope.totalPickSlots = Total /\ PartEnvelope.phase \in {"live", "complete"}
  BY DEF PartEnvelope
<1>9. PartEnvelope.cursor \in 0..room
  BY <1>0, <1>3
<1>10. QED
  BY <1>3, <1>7, <1>8, <1>9 DEF TrueEnvelope, n

(* So is a heartbeat.                                                      *)
LEMMA HeartbeatIsTrue ==
  ASSUME room \in 0..Total, \E k \in 0..room : picks = Prefix(k)
  PROVE  TrueEnvelope(HeartbeatEnvelope)
<1>1. Cardinality(DOMAIN picks) \in 0..room
  BY ViewIsPrefix
<1>2. QED
  BY <1>1 DEF TrueEnvelope, HeartbeatEnvelope, HeartbeatCursor

(* Whatever the companion posts is true.                                   *)
LEMMA EnvelopeIsTrue ==
  ASSUME IInv
  PROVE  TrueEnvelope(Envelope)
<1>1. room \in 0..Total /\ \E k \in 0..room : picks = Prefix(k)
  BY DEF IInv, ControlTyped, ViewsArePrefixes
<1>2. CASE pc = "post"
  BY <1>1, <1>2, PartIsTrue DEF IInv, PartInRange, Envelope
<1>3. CASE pc # "post"
  BY <1>1, <1>3, HeartbeatIsTrue DEF Envelope
<1>4. QED
  BY <1>2, <1>3
-----------------------------------------------------------------------------
(* The inductive step: first what several actions leave alone.             *)

(* A fresh system satisfies the invariant.                                 *)
LEMMA InitEstablishesIInv == Init => IInv
<1> SUFFICES ASSUME Init
             PROVE  IInv
  OBVIOUS
<1>0. Total \in Nat \ {0} /\ MaxFrames \in Nat /\ MaxCrashes \in Nat
  BY DraftAssumption, BoundsAssumption
<1>1. ControlTyped
  <2>1. changed \in BOOLEAN /\ tracked \in BOOLEAN /\ revoked \in BOOLEAN /\ fresh \in BOOLEAN
    BY DEF Init
  <2>2. Len(frames) <= MaxFrames
    BY <1>0 DEF Init
  <2>3. QED
    BY <1>0, <2>1, <2>2 DEF Init, ControlTyped, Gone
<1>2. ViewsArePrefixes
  BY NothingIsPrefix DEF Init, ViewsArePrefixes
<1>3. FramesContinue
  <2>1. frames \in Seq(Frame) /\ Len(frames) = 0 /\ frames = <<>> /\ ~tracked
    BY DEF Init
  <2>2. QED
    BY <2>1 DEF FramesContinue
<1>4. SessionIsTrue /\ LateIsTrue /\ PartInRange
  BY DEF Init, SessionIsTrue, LateIsTrue, PartInRange
<1>5. DOMAIN saved = {}
  BY PrefixFacts, NothingIsPrefix DEF Init, Nothing
<1>6. AckedIsStored
  BY <1>5 DEF Init, AckedIsStored
<1>7. QED
  BY <1>1, <1>2, <1>3, <1>4, <1>6 DEF IInv

(* The room only moves on, so a true request stays true.                   *)
LEMMA LateStaysTrue ==
  ASSUME room \in 0..Total, LateIsTrue, late' \subseteq late, room' \in room..Total
  PROVE  LateIsTrue'
<1>1. 0..room \subseteq 0..room'
  BY DraftAssumption
<1>2. \A e \in late' : TrueEnvelope(e)'
  BY <1>1 DEF LateIsTrue, TrueEnvelope, RoomPicksUpto, RoomPick
<1>3. QED
  BY <1>2 DEF LateIsTrue

LEMMA SessionStaysTrue ==
  ASSUME room \in 0..Total, SessionIsTrue, room' \in room..Total,
         UNCHANGED <<board, cursor, phase, disputed>>
  PROVE  SessionIsTrue'
<1>1. 0..room \subseteq 0..room'
  BY DraftAssumption
<1>2. QED
  BY <1>1 DEF SessionIsTrue, RoomPicksUpto, RoomPick

LEMMA ViewsStayPrefixes ==
  ASSUME room \in 0..Total, ViewsArePrefixes, room' \in room..Total,
         picks' \in {picks, saved, Nothing}, saved' \in {picks, saved}
  PROVE  ViewsArePrefixes'
<1>1. 0..room \subseteq 0..room' /\ 0 \in 0..room'
  BY DraftAssumption
<1>2. PICK j \in 0..room', k \in 0..room' : picks = Prefix(j) /\ saved = Prefix(k)
  BY <1>1 DEF ViewsArePrefixes
<1>3. \E i \in 0..room' : picks' = Prefix(i)
  BY <1>1, <1>2, NothingIsPrefix
<1>4. \E i \in 0..room' : saved' = Prefix(i)
  BY <1>2
<1>5. QED
  BY <1>3, <1>4 DEF ViewsArePrefixes, Prefix

(* Without a source there are no frames to read.                           *)
LEMMA FramesDropped ==
  ASSUME frames' = <<>>, ~tracked'
  PROVE  FramesContinue'
<1>1. frames' \in Seq(Frame) /\ Len(frames') = 0
  OBVIOUS
<1>2. QED
  BY <1>1 DEF FramesContinue

(* A frame tells how many picks were made when it was sent.                *)
LEMMA FrameTyped ==
  ASSUME NEW f \in Frame
  PROVE  \/ f.kind = "INIT" /\ f.upto \in Int
         \/ f.kind = "SELECTED" /\ f.slot \in Int
BY DraftAssumption DEF Frame, Slots

LEMMA CountTyped ==
  ASSUME frames \in Seq(Frame), NEW i \in 1..Len(frames)
  PROVE  CountAfter(i) \in Int
<1>1. frames[i] \in Frame /\ i # 0
  BY ElementOfSeq
<1>2. QED
  BY <1>1, FrameTyped DEF CountAfter

LEMMA FramesUntouched ==
  ASSUME FramesContinue, UNCHANGED <<room, page, picks, frames, tracked>>,
         pc \in Attached => pc' \in Attached
  PROVE  FramesContinue'
<1>1. \A i \in 0..Len(frames) : CountAfter(i)' = CountAfter(i)
  BY DEF CountAfter
<1>2. Len(frames) \in Nat
  BY DEF FramesContinue
<1>3. CountAfter(Len(frames))' = CountAfter(Len(frames))
  BY <1>1, <1>2
<1>4. \A i \in 1..Len(frames) : CountAfter(i)' = CountAfter(i) /\ CountAfter(i - 1)' = CountAfter(i - 1)
  BY <1>1, <1>2
<1>5. QED
  BY <1>3, <1>4 DEF FramesContinue

(* What was stored stays stored.                                           *)
LEMMA AckedStaysStored ==
  ASSUME AckedIsStored, board \subseteq board',
         saved' = saved \/ (saved' = picks /\ pc = "checkpoint"),
         pc' = "checkpoint" => pc = "checkpoint" /\ picks' = picks,
         pc' = "done" => pc = "done"
  PROVE  AckedIsStored'
BY DEF AckedIsStored, RoomPicksUpto, RoomPick

(* A failed cycle closes the source and leaves the rest as it is, but for a*)
(* checkpoint that was already replaced.                                   *)
LEMMA FailKeepsIInv ==
  ASSUME IInv, Fail \/ (pc = "checkpoint" /\ FailKeeping(picks)), room' = room, page' = page,
         SessionIsTrue', LateIsTrue', board \subseteq board',
         revoked' \in BOOLEAN, fresh' \in BOOLEAN
  PROVE  IInv'
<1>0. /\ pc' = "sleep" /\ health' = "reconnecting" /\ changed' = FALSE /\ part' = 0
      /\ frames' = <<>> /\ tracked' = FALSE /\ picks' = picks /\ crashes' = crashes
      /\ saved' = saved \/ (saved' = picks /\ pc = "checkpoint")
  BY DEF Fail, FailKeeping, SavedOnFailure
<1>1. ControlTyped'
  <2>1. Len(frames') <= MaxFrames /\ part' \in 0..Total
    BY <1>0, BoundsAssumption, DraftAssumption
  <2>2. QED
    BY <1>0, <2>1 DEF IInv, ControlTyped
<1>2. ViewsArePrefixes'
  <2>1. room \in 0..Total /\ room \in room..Total
    BY DraftAssumption DEF IInv, ControlTyped
  <2>2. QED
    BY <1>0, <2>1, ViewsStayPrefixes DEF IInv, ControlTyped
<1>3. FramesContinue'
  BY <1>0, FramesDropped
<1>4. AckedIsStored'
  BY <1>0, AckedStaysStored DEF IInv
<1>5. PartInRange'
  BY <1>0 DEF PartInRange
<1>6. QED
  BY <1>1, <1>2, <1>3, <1>4, <1>5 DEF IInv

(* Nothing the session or the network holds moves, the room stands still.  *)
LEMMA SurroundingsStay ==
  ASSUME IInv, UNCHANGED <<room, late, session>>
  PROVE  SessionIsTrue' /\ LateIsTrue' /\ board \subseteq board' /\ fresh' \in BOOLEAN
<1>1. room \in 0..Total /\ room' \in room..Total
  BY DraftAssumption DEF IInv, ControlTyped
<1>2. SessionIsTrue'
  BY <1>1, SessionStaysTrue DEF IInv, session
<1>3. LateIsTrue'
  BY <1>1, LateStaysTrue DEF IInv
<1>4. QED
  BY <1>2, <1>3 DEF IInv, ControlTyped, session

-----------------------------------------------------------------------------
(* The inductive step, one lemma per action.                               *)

(* A pick is made: the tracked socket's next frame is the next pick.       *)
LEMMA RoomPicksKeepsIInv == IInv /\ RoomPicks => IInv'
<1> SUFFICES ASSUME IInv, RoomPicks
             PROVE  IInv'
  OBVIOUS
<1>0. /\ Total \in Nat /\ room \in 0..Total /\ room + 1 \in Slots
      /\ room' = room + 1 /\ room' \in room..Total /\ room' \in 0..Total
  BY DraftAssumption DEF IInv, ControlTyped, RoomPicks, Slots
<1> DEFINE f == [kind |-> "SELECTED", slot |-> room + 1]
<1>1. frames \in Seq(Frame) /\ f \in Frame /\ Len(frames) \in Nat /\ Len(frames) < MaxFrames
  BY <1>0 DEF IInv, FramesContinue, Frame, RoomPicks
<1>2. \A i \in 1..Len(frames) : CountAfter(i) <= room /\ CountAfter(i) \in Int
  BY <1>1, CountTyped DEF IInv, FramesContinue
<1>a. PICK n \in Nat : n = Len(frames)
  BY <1>1
<1>3. FramesContinue'
  <2>1. CASE page = "open" /\ tracked
    <3>1. frames' = Append(frames, f) /\ f.kind = "SELECTED" /\ f.slot = room + 1
      BY <2>1 DEF RoomPicks
    <3> HIDE DEF f
    <3>2. /\ frames' \in Seq(Frame) /\ Len(frames') = Len(frames) + 1
          /\ frames'[Len(frames) + 1] = f
          /\ \A i \in 1..Len(frames) : frames'[i] = frames[i]
      BY <1>1, <3>1, AppendProperties
    <3>3. \A i \in 0..Len(frames) : CountAfter(i)' = CountAfter(i)
      BY <1>1, <3>2 DEF CountAfter, RoomPicks
    <3>4. CountAfter(n + 1)' = room + 1
      <4>1. n + 1 # 0 /\ frames'[n + 1] = f
        BY <1>a, <3>2
      <4>2. QED
        BY <3>1, <4>1 DEF CountAfter
    <3>5. CountAfter(Len(frames)) = room
      BY <2>1 DEF IInv, FramesContinue
    <3>6. ASSUME NEW i \in 1..Len(frames')
          PROVE  /\ CountAfter(i)' <= room'
                 /\ frames'[i].kind = "SELECTED" => frames'[i].slot = CountAfter(i - 1)' + 1
      <4>1. CASE i \in 1..Len(frames)
        <5>1. i \in 0..Len(frames) /\ i - 1 \in 0..Len(frames)
          BY <1>1, <4>1
        <5>2. CountAfter(i)' = CountAfter(i) /\ CountAfter(i - 1)' = CountAfter(i - 1)
          BY <3>3, <5>1
        <5>3. frames[i].kind = "SELECTED" => frames[i].slot = CountAfter(i - 1) + 1
          BY <4>1 DEF IInv, FramesContinue
        <5>4. QED
          BY <1>0, <1>2, <3>2, <4>1, <5>2, <5>3
      <4>2. CASE i = Len(frames) + 1
        <5>1. i = n + 1 /\ i - 1 = n /\ n \in 0..Len(frames)
          BY <1>a, <4>2
        <5>2. CountAfter(i - 1)' = room
          <6>1. CountAfter(n)' = CountAfter(n) /\ CountAfter(n) = room
            BY <1>a, <3>3, <3>5, <5>1
          <6>2. QED
            BY <5>1, <6>1
        <5>3. CountAfter(i)' = room + 1 /\ frames'[i].slot = room + 1
          BY <3>1, <3>2, <3>4, <4>2, <5>1
        <5>4. QED
          BY <1>0, <5>2, <5>3
      <4>3. QED
        BY <1>1, <3>2, <4>1, <4>2
    <3>7. CountAfter(Len(frames))' = room'
      <4>1. Len(frames') = n + 1
        BY <1>a, <3>2
      <4>2. QED
        BY <1>0, <3>4, <4>1
    <3>8. pc' = pc /\ pc \in Attached
      BY <2>1 DEF IInv, FramesContinue, RoomPicks
    <3>9. QED
      BY <3>2, <3>6, <3>7, <3>8 DEF FramesContinue
  <2>2. CASE ~(page = "open" /\ tracked)
    <3>1. UNCHANGED <<frames, page, tracked, picks, pc>>
      BY <2>2 DEF RoomPicks
    <3>2. \A i \in 1..Len(frames) : CountAfter(i)' = CountAfter(i) /\ CountAfter(i - 1)' = CountAfter(i - 1)
      BY <3>1 DEF CountAfter
    <3>3. \A i \in 1..Len(frames) : CountAfter(i)' <= room'
      BY <1>0, <1>2, <3>2
    <3>4. QED
      BY <2>2, <3>1, <3>2, <3>3 DEF IInv, FramesContinue
  <2>3. QED
    BY <2>1, <2>2
<1>4. Len(frames') <= MaxFrames
  <2>1. Len(frames') = Len(frames) + 1 \/ Len(frames') = Len(frames)
    BY <1>1, AppendProperties DEF RoomPicks
  <2>2. QED
    BY <1>1, <2>1, BoundsAssumption
<1>5. ControlTyped'
  BY <1>0, <1>4 DEF IInv, ControlTyped, RoomPicks, session
<1>6. ViewsArePrefixes' /\ LateIsTrue' /\ SessionIsTrue'
  BY <1>0, ViewsStayPrefixes, LateStaysTrue, SessionStaysTrue DEF IInv, RoomPicks, session
<1>7. AckedIsStored'
  BY AckedStaysStored DEF IInv, RoomPicks, session
<1>8. PartInRange'
  BY DEF IInv, PartInRange, RoomPicks, Parts
<1>9. QED
  BY <1>3, <1>5, <1>6, <1>7, <1>8 DEF IInv

(* The page's socket opens: an INIT frame that knows every pick.           *)
LEMMA PageConnectsKeepsIInv == IInv /\ PageConnects => IInv'
<1> SUFFICES ASSUME IInv, PageConnects
             PROVE  IInv'
  OBVIOUS
<1>0. Total \in Nat /\ room \in 0..Total /\ room \in room..Total /\ room' = room
  BY DraftAssumption DEF IInv, ControlTyped, PageConnects
<1> DEFINE f == [kind |-> "INIT", upto |-> room]
<1>1. frames \in Seq(Frame) /\ f \in Frame /\ Len(frames) \in Nat /\ Len(frames) < MaxFrames
  BY <1>0 DEF IInv, FramesContinue, Frame, PageConnects
<1>a. PICK n \in Nat : n = Len(frames)
  BY <1>1
<1>2. FramesContinue'
  <2>1. CASE pc \in Attached
    <3>1. frames' = Append(frames, f) /\ f.kind = "INIT" /\ f.upto = room
      BY <2>1 DEF PageConnects
    <3> HIDE DEF f
    <3>2. /\ frames' \in Seq(Frame) /\ Len(frames') = Len(frames) + 1
          /\ frames'[Len(frames) + 1] = f
          /\ \A i \in 1..Len(frames) : frames'[i] = frames[i]
      BY <1>1, <3>1, AppendProperties
    <3>3. \A i \in 0..Len(frames) : CountAfter(i)' = CountAfter(i)
      BY <1>1, <3>2 DEF CountAfter, PageConnects
    <3>4. CountAfter(n + 1)' = room
      <4>1. n + 1 # 0 /\ frames'[n + 1] = f
        BY <1>a, <3>2
      <4>2. QED
        BY <3>1, <4>1 DEF CountAfter
    <3>5. ASSUME NEW i \in 1..Len(frames')
          PROVE  /\ CountAfter(i)' <= room'
                 /\ frames'[i].kind = "SELECTED" => frames'[i].slot = CountAfter(i - 1)' + 1
      <4>1. CASE i \in 1..Len(frames)
        <5>1. i \in 0..Len(frames) /\ i - 1 \in 0..Len(frames)
          BY <1>1, <4>1
        <5>2. CountAfter(i)' = CountAfter(i) /\ CountAfter(i - 1)' = CountAfter(i - 1)
          BY <3>3, <5>1
        <5>3. /\ CountAfter(i) <= room
              /\ frames[i].kind = "SELECTED" => frames[i].slot = CountAfter(i - 1) + 1
          BY <4>1 DEF IInv, FramesContinue
        <5>4. QED
          BY <1>0, <3>2, <4>1, <5>2, <5>3
      <4>2. CASE i = Len(frames) + 1
        <5>1. i = n + 1
          BY <1>a, <4>2
        <5>2. CountAfter(i)' = room /\ frames'[i].kind = "INIT"
          BY <3>1, <3>2, <3>4, <4>2, <5>1
        <5>3. QED
          BY <1>0, <5>2
      <4>3. QED
        BY <1>1, <3>2, <4>1, <4>2
    <3>6. CountAfter(Len(frames))' = room'
      <4>1. Len(frames') = n + 1
        BY <1>a, <3>2
      <4>2. QED
        BY <1>0, <3>4, <4>1
    <3>7. pc' \in Attached
      BY <2>1 DEF PageConnects
    <3>8. QED
      BY <3>2, <3>5, <3>6, <3>7 DEF FramesContinue
  <2>2. CASE pc \notin Attached
    <3>1. frames' = <<>> /\ ~tracked'
      BY <2>2 DEF IInv, FramesContinue, PageConnects
    <3>2. QED
      BY <3>1, FramesDropped
  <2>3. QED
    BY <2>1, <2>2
<1>3. Len(frames') <= MaxFrames
  <2>1. Len(frames') = Len(frames) + 1 \/ Len(frames') = Len(frames)
    BY <1>1, AppendProperties DEF PageConnects
  <2>2. QED
    BY <1>1, <2>1, BoundsAssumption
<1>4. ControlTyped'
  <2>1. tracked' \in BOOLEAN
    BY DEF PageConnects
  <2>2. QED
    BY <1>3, <2>1 DEF IInv, ControlTyped, PageConnects, session
<1>5. ViewsArePrefixes' /\ LateIsTrue' /\ SessionIsTrue'
  BY <1>0, ViewsStayPrefixes, LateStaysTrue, SessionStaysTrue DEF IInv, PageConnects, session
<1>6. AckedIsStored'
  BY AckedStaysStored DEF IInv, PageConnects, session
<1>7. PartInRange'
  BY DEF IInv, PartInRange, PageConnects, Parts
<1>8. QED
  BY <1>2, <1>4, <1>5, <1>6, <1>7 DEF IInv

LEMMA PageDropsKeepsIInv == IInv /\ PageDrops => IInv'
<1> SUFFICES ASSUME IInv, PageDrops
             PROVE  IInv'
  OBVIOUS
<1>1. SessionIsTrue' /\ LateIsTrue'
  BY SurroundingsStay DEF PageDrops
<1>2. ControlTyped'
  BY DEF IInv, ControlTyped, PageDrops, client, session
<1>3. ViewsArePrefixes' /\ AckedIsStored' /\ PartInRange'
  BY DEF IInv, PageDrops, client, session, ViewsArePrefixes, AckedIsStored, PartInRange, Parts,
         Prefix, RoomPicksUpto, RoomPick
<1>4. \A i \in 1..Len(frames) : CountAfter(i)' = CountAfter(i) /\ CountAfter(i - 1)' = CountAfter(i - 1)
  BY DEF CountAfter, PageDrops, client
<1>5. FramesContinue'
  BY <1>4 DEF IInv, PageDrops, client, FramesContinue
<1>6. QED
  BY <1>1, <1>2, <1>3, <1>5 DEF IInv
(* The checkpoint is loaded: it is a prefix too.                          *)
LEMMA StartKeepsIInv == IInv /\ Start => IInv'
<1> SUFFICES ASSUME IInv, Start
             PROVE  IInv'
  OBVIOUS
<1>0. room \in 0..Total /\ room \in room..Total
  BY DraftAssumption DEF IInv, ControlTyped
<1>1. SessionIsTrue' /\ LateIsTrue' /\ board \subseteq board'
  BY SurroundingsStay DEF Start
<1>2. ControlTyped'
  BY DEF IInv, ControlTyped, Start, session, Attached, Posting, Gone
<1>3. ViewsArePrefixes'
  BY <1>0, ViewsStayPrefixes DEF IInv, Start
<1>4. FramesContinue'
  <2>1. frames' = <<>> /\ ~tracked'
    BY DEF IInv, FramesContinue, Start, Attached, Posting, Gone
  <2>2. QED
    BY <2>1, FramesDropped
<1>5. AckedIsStored'
  BY <1>1, AckedStaysStored DEF IInv, Start
<1>6. PartInRange'
  BY DEF IInv, PartInRange, Start, Parts
<1>7. QED
  BY <1>1, <1>2, <1>3, <1>4, <1>5, <1>6 DEF IInv

LEMMA StartFailsKeepsIInv == IInv /\ StartFails => IInv'
<1> SUFFICES ASSUME IInv, StartFails
             PROVE  IInv'
  OBVIOUS
<1>0. room \in 0..Total /\ room \in room..Total
  BY DraftAssumption DEF IInv, ControlTyped
<1>1. SessionIsTrue' /\ LateIsTrue' /\ board \subseteq board'
  BY SurroundingsStay DEF StartFails
<1>2. ControlTyped'
  BY DEF IInv, ControlTyped, StartFails, session, Attached, Posting, Gone
<1>3. ViewsArePrefixes'
  BY <1>0, ViewsStayPrefixes DEF IInv, StartFails
<1>4. FramesContinue'
  BY FramesUntouched DEF IInv, StartFails, Attached, Posting
<1>5. AckedIsStored'
  BY <1>1, AckedStaysStored DEF IInv, StartFails
<1>6. PartInRange'
  BY DEF IInv, PartInRange, StartFails, Parts
<1>7. QED
  BY <1>1, <1>2, <1>3, <1>4, <1>5, <1>6 DEF IInv

LEMMA RestartKeepsIInv == IInv /\ Restart => IInv'
<1> SUFFICES ASSUME IInv, Restart
             PROVE  IInv'
  OBVIOUS
<1>0. room \in 0..Total /\ room \in room..Total
  BY DraftAssumption DEF IInv, ControlTyped
<1>1. SessionIsTrue' /\ LateIsTrue' /\ board \subseteq board'
  BY SurroundingsStay DEF Restart
<1>2. ControlTyped'
  <2>1. crashes' \in 0..MaxCrashes
    BY BoundsAssumption DEF IInv, ControlTyped, Restart
  <2>2. QED
    BY <2>1 DEF IInv, ControlTyped, Restart, session, Gone
<1>3. ViewsArePrefixes'
  BY <1>0, ViewsStayPrefixes DEF IInv, Restart
<1>4. FramesContinue'
  <2>1. frames' = <<>> /\ ~tracked'
    BY DEF IInv, FramesContinue, Restart, Attached, Posting, Gone
  <2>2. QED
    BY <2>1, FramesDropped
<1>5. AckedIsStored'
  BY <1>1, AckedStaysStored DEF IInv, Restart
<1>6. PartInRange'
  BY DEF IInv, PartInRange, Restart, Parts
<1>7. QED
  BY <1>1, <1>2, <1>3, <1>4, <1>5, <1>6 DEF IInv

(* The new source has seen no socket created: it has nothing to read.     *)
LEMMA AttachKeepsIInv == IInv /\ Attach => IInv'
<1> SUFFICES ASSUME IInv, Attach
             PROVE  IInv'
  OBVIOUS
<1>0. room \in 0..Total /\ room \in room..Total
  BY DraftAssumption DEF IInv, ControlTyped
<1>1. SessionIsTrue' /\ LateIsTrue' /\ board \subseteq board'
  BY SurroundingsStay DEF Attach
<1>2. ControlTyped'
  <2>1. tracked' \in BOOLEAN /\ page' \in {"open", "down"}
    BY DEF IInv, ControlTyped, Attach, TrackedAtAttach, PageAfterAttach
  <2>2. QED
    BY <2>1 DEF IInv, ControlTyped, Attach, session, Attached, Posting
<1>3. ViewsArePrefixes'
  BY <1>0, ViewsStayPrefixes DEF IInv, Attach
<1>4. FramesContinue'
  <2>1. frames' = <<>>
    BY DEF IInv, FramesContinue, Attach, Attached, Posting
  <2>2. ~tracked'
    BY BoundsAssumption DEF Attach, TrackedAtAttach
  <2>3. QED
    BY <2>1, <2>2, FramesDropped
<1>5. AckedIsStored'
  BY <1>1, AckedStaysStored DEF IInv, Attach
<1>6. PartInRange'
  BY DEF IInv, PartInRange, Attach, Parts
<1>7. QED
  BY <1>1, <1>2, <1>3, <1>4, <1>5, <1>6 DEF IInv

(* The first part of at least one.                                        *)
LEMMA DeliverKeepsIInv == IInv /\ Deliver => IInv'
<1> SUFFICES ASSUME IInv, Deliver
             PROVE  IInv'
  OBVIOUS
<1>0. room \in 0..Total /\ room \in room..Total
  BY DraftAssumption DEF IInv, ControlTyped
<1>1. SessionIsTrue' /\ LateIsTrue' /\ board \subseteq board'
  BY SurroundingsStay DEF Deliver
<1>2. ControlTyped'
  <2>1. part' \in 0..Total
    BY DraftAssumption DEF Deliver
  <2>2. QED
    BY <2>1 DEF IInv, ControlTyped, Deliver, session, Attached, Posting
<1>3. ViewsArePrefixes'
  BY <1>0, ViewsStayPrefixes DEF IInv, Deliver
<1>4. FramesContinue'
  BY FramesUntouched DEF IInv, Deliver, Attached, Posting
<1>5. AckedIsStored'
  BY <1>1, AckedStaysStored DEF IInv, Deliver
<1>6. PartInRange'
  <2>1. Cardinality(DOMAIN picks) \in Nat
    BY <1>0, ViewIsPrefix DEF IInv, ViewsArePrefixes
  <2>2. Parts(Cardinality(DOMAIN picks)) \in Nat \ {0}
    BY <2>1, LastPartHoldsLast DEF Parts
  <2>3. QED
    BY <2>2 DEF PartInRange, Deliver, Parts
<1>7. QED
  BY <1>1, <1>2, <1>3, <1>4, <1>5, <1>6 DEF IInv

LEMMA BeatDueKeepsIInv == IInv /\ BeatDue => IInv'
<1> SUFFICES ASSUME IInv, BeatDue
             PROVE  IInv'
  OBVIOUS
<1>0. room \in 0..Total /\ room \in room..Total
  BY DraftAssumption DEF IInv, ControlTyped
<1>1. SessionIsTrue' /\ LateIsTrue' /\ board \subseteq board'
  BY SurroundingsStay DEF BeatDue
<1>2. ControlTyped'
  BY DEF IInv, ControlTyped, BeatDue, session, Attached, Posting, Gone
<1>3. ViewsArePrefixes'
  BY <1>0, ViewsStayPrefixes DEF IInv, BeatDue
<1>4. FramesContinue'
  BY FramesUntouched DEF IInv, BeatDue, Attached, Posting
<1>5. AckedIsStored'
  BY <1>1, AckedStaysStored DEF IInv, BeatDue
<1>6. PartInRange'
  BY DEF IInv, PartInRange, BeatDue, Parts
<1>7. QED
  BY <1>1, <1>2, <1>3, <1>4, <1>5, <1>6 DEF IInv

LEMMA WakeKeepsIInv == IInv /\ Wake => IInv'
<1> SUFFICES ASSUME IInv, Wake
             PROVE  IInv'
  OBVIOUS
<1>0. room \in 0..Total /\ room \in room..Total
  BY DraftAssumption DEF IInv, ControlTyped
<1>1. SessionIsTrue' /\ LateIsTrue' /\ board \subseteq board'
  BY SurroundingsStay DEF Wake
<1>2. ControlTyped'
  BY DEF IInv, ControlTyped, Wake, session, Attached, Posting, Gone
<1>3. ViewsArePrefixes'
  BY <1>0, ViewsStayPrefixes DEF IInv, Wake
<1>4. FramesContinue'
  <2>1. frames' = <<>> /\ ~tracked'
    BY DEF IInv, FramesContinue, Wake, Attached, Posting, Gone
  <2>2. QED
    BY <2>1, FramesDropped
<1>5. AckedIsStored'
  BY <1>1, AckedStaysStored DEF IInv, Wake
<1>6. PartInRange'
  BY DEF IInv, PartInRange, Wake, Parts
<1>7. QED
  BY <1>1, <1>2, <1>3, <1>4, <1>5, <1>6 DEF IInv

LEMMA StopKeepsIInv == IInv /\ Stop => IInv'
<1> SUFFICES ASSUME IInv, Stop
             PROVE  IInv'
  OBVIOUS
<1>0. room \in 0..Total /\ room \in room..Total
  BY DraftAssumption DEF IInv, ControlTyped
<1>1. SessionIsTrue' /\ LateIsTrue' /\ board \subseteq board'
  BY SurroundingsStay DEF Stop
<1>2. ControlTyped'
  <2>1. Len(frames') <= MaxFrames
    BY BoundsAssumption DEF Stop
  <2>2. tracked' \in BOOLEAN
    BY DEF Stop
  <2>3. QED
    BY <2>1, <2>2 DEF IInv, ControlTyped, Stop, session, Gone
<1>3. ViewsArePrefixes'
  BY <1>0, ViewsStayPrefixes DEF IInv, Stop
<1>4. FramesContinue'
  <2>1. frames' = <<>> /\ ~tracked'
    BY DEF IInv, FramesContinue, Stop, Attached, Posting, Gone
  <2>2. QED
    BY <2>1, FramesDropped
<1>5. AckedIsStored'
  BY <1>1, AckedStaysStored DEF IInv, Stop
<1>6. PartInRange'
  BY DEF IInv, PartInRange, Stop, Parts
<1>7. QED
  BY <1>1, <1>2, <1>3, <1>4, <1>5, <1>6 DEF IInv

LEMMA EndKeepsIInv == IInv /\ (Uncaught \/ Crash) => IInv'
<1> SUFFICES ASSUME IInv, Uncaught \/ Crash
             PROVE  IInv'
  OBVIOUS
<1>0. room \in 0..Total /\ room \in room..Total
  BY DraftAssumption DEF IInv, ControlTyped
<1>1. ProcessEnds /\ crashes' \in 0..MaxCrashes
  BY BoundsAssumption DEF IInv, ControlTyped, Uncaught, Crash
<1>2. SessionIsTrue' /\ LateIsTrue' /\ board \subseteq board'
  BY <1>1, SurroundingsStay DEF ProcessEnds
<1>3. ControlTyped'
  <2>1. Len(frames') <= MaxFrames /\ part' \in 0..Total
    BY <1>1, DraftAssumption, BoundsAssumption DEF ProcessEnds
  <2>2. tracked' \in BOOLEAN /\ changed' \in BOOLEAN
    BY <1>1 DEF ProcessEnds
  <2>3. QED
    BY <1>1, <2>1, <2>2 DEF IInv, ControlTyped, ProcessEnds, session, Gone
<1>4. ViewsArePrefixes'
  BY <1>0, <1>1, ViewsStayPrefixes DEF IInv, ProcessEnds
<1>5. FramesContinue'
  BY <1>1, FramesDropped DEF ProcessEnds
<1>6. AckedIsStored'
  BY <1>1, <1>2, AckedStaysStored DEF IInv, ProcessEnds
<1>7. PartInRange'
  BY <1>1 DEF PartInRange, ProcessEnds
<1>8. QED
  BY <1>2, <1>3, <1>4, <1>5, <1>6, <1>7 DEF IInv

(* Reading a frame moves the count to where that frame was sent.           *)
LEMMA ReadKeepsFrames ==
  ASSUME IInv, frames # <<>>, frames' = Tail(frames),
         Cardinality(DOMAIN picks') = CountAfter(1),
         UNCHANGED <<room, page, pc, tracked>>, pc \in Attached
  PROVE  FramesContinue'
<1>1. frames \in Seq(Frame) /\ Len(frames) \in Nat \ {0}
  BY DEF IInv, FramesContinue
<1>2. /\ frames' \in Seq(Frame) /\ Len(frames') = Len(frames) - 1
      /\ \A i \in 1..Len(frames') : frames'[i] = frames[i + 1]
  BY <1>1, HeadTailProperties
<1>3. \A i \in 0..Len(frames') : CountAfter(i)' = CountAfter(i + 1)
  BY <1>1, <1>2 DEF CountAfter
<1>4. ASSUME NEW i \in 1..Len(frames')
      PROVE  /\ CountAfter(i)' <= room'
             /\ frames'[i].kind = "SELECTED" => frames'[i].slot = CountAfter(i - 1)' + 1
  <2>1. i + 1 \in 1..Len(frames) /\ i \in 0..Len(frames') /\ i - 1 \in 0..Len(frames')
    BY <1>1, <1>2
  <2>2. CountAfter(i)' = CountAfter(i + 1) /\ CountAfter(i - 1)' = CountAfter((i - 1) + 1)
    BY <1>3, <2>1
  <2>3. /\ CountAfter(i + 1) <= room
        /\ frames[i + 1].kind = "SELECTED" => frames[i + 1].slot = CountAfter((i + 1) - 1) + 1
    BY <2>1 DEF IInv, FramesContinue
  <2>4. (i - 1) + 1 = i /\ (i + 1) - 1 = i
    OBVIOUS
  <2>5. QED
    BY <1>2, <2>2, <2>3, <2>4
<1>5. page' = "open" /\ tracked' => CountAfter(Len(frames))' = room'
  <2>0. Len(frames') \in Nat
    BY <1>1, <1>2
  <2>1. PICK n \in Nat : n = Len(frames')
    BY <2>0
  <2>2. n + 1 = Len(frames) /\ n \in 0..Len(frames')
    BY <1>1, <1>2, <2>1
  <2>3. CountAfter(n)' = CountAfter(n + 1)
    BY <1>3, <2>2
  <2>4. page = "open" /\ tracked => CountAfter(Len(frames)) = room
    BY DEF IInv, FramesContinue
  <2>5. QED
    BY <2>1, <2>2, <2>3, <2>4
<1>6. QED
  BY <1>2, <1>4, <1>5 DEF FramesContinue

(* An INIT frame replaces the board by a prefix of the room's picks.       *)
LEMMA ReadInitKeepsIInv == IInv /\ ReadInit => IInv'
<1> SUFFICES ASSUME IInv, ReadInit
             PROVE  IInv'
  OBVIOUS
<1>0. room \in 0..Total /\ room \in Nat
  BY DraftAssumption DEF IInv, ControlTyped
<1>1. SessionIsTrue' /\ LateIsTrue' /\ board \subseteq board'
  BY SurroundingsStay DEF ReadInit
<1>2. frames \in Seq(Frame) /\ frames # <<>> /\ Len(frames) \in Nat \ {0}
  BY DEF IInv, FramesContinue, ReadInit
<1>3. Head(frames) = frames[1] /\ frames[1] \in Frame /\ frames[1].kind = "INIT"
  BY <1>2, ElementOfSeq DEF ReadInit
<1>4. CountAfter(1) = frames[1].upto /\ CountAfter(1) <= room
  BY <1>2, <1>3 DEF IInv, FramesContinue, CountAfter
<1>5. frames[1].upto \in 0..room
  <2>1. frames[1].upto \in 0..Total
    BY <1>3 DEF Frame
  <2>2. QED
    BY <1>0, <1>4, <2>1
<1>6. picks' = Prefix(frames[1].upto) /\ Cardinality(DOMAIN picks') = CountAfter(1)
  BY <1>0, <1>3, <1>4, <1>5, PrefixFacts DEF ReadInit
<1>7. ControlTyped'
  <2>1. Len(frames') <= MaxFrames
    BY <1>2, HeadTailProperties, BoundsAssumption DEF IInv, ControlTyped, ReadInit
  <2>2. changed' \in BOOLEAN
    BY DEF ReadInit
  <2>3. QED
    BY <2>1, <2>2 DEF IInv, ControlTyped, ReadInit, session
<1>8. ViewsArePrefixes'
  BY <1>5, <1>6 DEF IInv, ViewsArePrefixes, ReadInit, Prefix
<1>9. FramesContinue'
  BY <1>2, <1>6, ReadKeepsFrames DEF ReadInit, Attached
<1>10. AckedIsStored' /\ PartInRange'
  BY <1>1, AckedStaysStored DEF IInv, ReadInit, PartInRange
<1>11. QED
  BY <1>1, <1>7, <1>8, <1>9, <1>10 DEF IInv

(* A SELECTED frame, counted after the last pick, is the next pick.        *)
LEMMA ReadSelectedKeepsIInv == IInv /\ ReadSelected => IInv'
<1> SUFFICES ASSUME IInv, ReadSelected
             PROVE  IInv'
  OBVIOUS
<1>0. room \in 0..Total /\ room \in Nat
  BY DraftAssumption DEF IInv, ControlTyped
<1>1. SessionIsTrue' /\ LateIsTrue' /\ board \subseteq board'
  BY SurroundingsStay DEF ReadSelected
<1>2. frames \in Seq(Frame) /\ frames # <<>> /\ Len(frames) \in Nat \ {0}
  BY DEF IInv, FramesContinue, ReadSelected
<1>3. Head(frames) = frames[1] /\ frames[1] \in Frame /\ frames[1].kind = "SELECTED"
  BY <1>2, ElementOfSeq DEF ReadSelected
<1> DEFINE n == Cardinality(DOMAIN picks)
<1>4. n \in 0..room /\ DOMAIN picks = 1..n /\ \A o \in 1..n : picks[o] = Truth[o]
  BY <1>0, ViewIsPrefix DEF IInv, ViewsArePrefixes
<1>5. CountAfter(1) = n + 1 /\ frames[1].slot = n + 1 /\ n + 1 <= room
  <2>1. /\ CountAfter(1) <= room
        /\ frames[1].slot = CountAfter(1 - 1) + 1
    BY <1>2, <1>3 DEF IInv, FramesContinue
  <2>2. CountAfter(1) = frames[1].slot
    BY <1>3 DEF CountAfter
  <2>3. CountAfter(1 - 1) = n
    BY DEF CountAfter
  <2>4. QED
    BY <2>1, <2>2, <2>3
<1>6. NextSlot = n + 1
  BY DEF NextSlot
<1> HIDE DEF n
<1>7. picks' = Prefix(n + 1)
  <2>1. DOMAIN picks \cup {NextSlot} = 1..(n + 1)
    BY <1>0, <1>4, <1>6
  <2>2. picks' = [o \in 1..(n + 1) |-> IF o = n + 1 THEN Truth[n + 1] ELSE picks[o]]
    BY <1>3, <1>5, <1>6, <2>1 DEF ReadSelected
  <2>3. \A o \in 1..(n + 1) : o # n + 1 => picks[o] = Truth[o]
    BY <1>0, <1>4
  <2>4. QED
    BY <2>2, <2>3 DEF Prefix
<1>8. n + 1 \in 0..room /\ Cardinality(DOMAIN picks') = CountAfter(1)
  BY <1>0, <1>4, <1>5, <1>7, PrefixFacts
<1>9. ControlTyped'
  <2>1. Len(frames') <= MaxFrames
    BY <1>2, HeadTailProperties, BoundsAssumption DEF IInv, ControlTyped, ReadSelected
  <2>2. changed' \in BOOLEAN
    BY DEF ReadSelected
  <2>3. QED
    BY <2>1, <2>2 DEF IInv, ControlTyped, ReadSelected, session
<1>10. ViewsArePrefixes'
  BY <1>7, <1>8 DEF IInv, ViewsArePrefixes, ReadSelected, Prefix
<1>11. FramesContinue'
  BY <1>2, <1>8, ReadKeepsFrames DEF ReadSelected, Attached
<1>12. AckedIsStored' /\ PartInRange'
  BY <1>1, AckedStaysStored DEF IInv, ReadSelected, PartInRange
<1>13. QED
  BY <1>1, <1>9, <1>10, <1>11, <1>12 DEF IInv
LEMMA AttachFailsKeepsIInv == IInv /\ AttachFails => IInv'
<1> SUFFICES ASSUME IInv, AttachFails
             PROVE  IInv'
  OBVIOUS
<1>1. SessionIsTrue' /\ LateIsTrue' /\ board \subseteq board' /\ fresh' \in BOOLEAN
  BY SurroundingsStay DEF AttachFails
<1>2. QED
  BY <1>1, FailKeepsIInv DEF IInv, ControlTyped, AttachFails

(* A frame that is not understood is dropped with its source.             *)
LEMMA ReadFailsKeepsIInv == IInv /\ ReadFails => IInv'
<1> SUFFICES ASSUME IInv, ReadFails
             PROVE  IInv'
  OBVIOUS
<1>1. SessionIsTrue' /\ LateIsTrue' /\ board \subseteq board' /\ fresh' \in BOOLEAN
  BY SurroundingsStay DEF ReadFails
<1>2. QED
  BY <1>1, FailKeepsIInv DEF IInv, ControlTyped, ReadFails

LEMMA CheckpointFailsKeepsIInv == IInv /\ CheckpointFails => IInv'
<1> SUFFICES ASSUME IInv, CheckpointFails
             PROVE  IInv'
  OBVIOUS
<1>1. SessionIsTrue' /\ LateIsTrue' /\ board \subseteq board' /\ fresh' \in BOOLEAN
  BY SurroundingsStay DEF CheckpointFails
<1>2. QED
  BY <1>1, FailKeepsIInv DEF IInv, ControlTyped, CheckpointFails

-----------------------------------------------------------------------------
(* Deliveries.                                                             *)

(* A committed request of the companion keeps the surroundings true.       *)
LEMMA CommitKeepsSurroundings ==
  ASSUME IInv, SessionCommit(Envelope), UNCHANGED <<room, late>>
  PROVE  /\ SessionIsTrue' /\ LateIsTrue'
         /\ board \subseteq board' /\ Envelope.cursor <= cursor'
         /\ fresh' \in BOOLEAN
<1>1. room \in 0..Total /\ room' \in room..Total
  BY DraftAssumption DEF IInv, ControlTyped
<1>2. LateIsTrue'
  BY <1>1, LateStaysTrue DEF IInv
<1>3. QED
  BY <1>1, <1>2, EnvelopeIsTrue, CommitKeepsSession DEF IInv

LEMMA HeartbeatAckedKeepsIInv == IInv /\ HeartbeatAcked => IInv'
<1> SUFFICES ASSUME IInv, HeartbeatAcked
             PROVE  IInv'
  OBVIOUS
<1>0. room \in 0..Total /\ room \in room..Total
  BY DraftAssumption DEF IInv, ControlTyped
<1>1. SessionIsTrue' /\ LateIsTrue' /\ board \subseteq board' /\ fresh' \in BOOLEAN
  BY CommitKeepsSurroundings DEF HeartbeatAcked
<1>2. ControlTyped'
  BY <1>1 DEF IInv, ControlTyped, HeartbeatAcked, Attached
<1>3. ViewsArePrefixes'
  BY <1>0, ViewsStayPrefixes DEF IInv, HeartbeatAcked
<1>4. FramesContinue'
  BY FramesUntouched DEF IInv, HeartbeatAcked, Attached
<1>5. AckedIsStored' /\ PartInRange'
  BY <1>1, AckedStaysStored DEF IInv, HeartbeatAcked, PartInRange
<1>6. QED
  BY <1>1, <1>2, <1>3, <1>4, <1>5 DEF IInv

(* After the last part, and the check of the answer, every pick of the     *)
(* companion's board is stored.                                            *)
LEMMA LastPartStoresAll ==
  ASSUME IInv, pc = "post", SessionCommit(PartEnvelope), LastPart, Recovered,
         UNCHANGED <<room, picks>>, SessionIsTrue', PartEnvelope.cursor <= cursor'
  PROVE  \A o \in DOMAIN picks : RoomPick(o) \in board'
<1>0. /\ room \in 0..Total /\ room' \in 0..Total /\ \E k \in 0..room : picks = Prefix(k)
      /\ part \in 1..Parts(Cardinality(DOMAIN picks))
  BY DEF IInv, ControlTyped, ViewsArePrefixes, PartInRange
<1>1. PartEnvelope.cursor = Cardinality(DOMAIN picks)
  BY <1>0, PartIsTrue
<1>2. Cardinality(DOMAIN picks) \in Nat /\ DOMAIN picks = 1..Cardinality(DOMAIN picks)
  BY <1>0, ViewIsPrefix
<1>3. cursor' \in Nat
  BY <1>0, DraftAssumption DEF SessionIsTrue
<1>4. ASSUME NEW o \in DOMAIN picks
      PROVE  RoomPick(o) \in board'
  <2>1. o \in 1..cursor'
    BY <1>1, <1>2, <1>3
  <2>2. o \notin (Session!MissingOverallPicks)'
    BY DEF Recovered
  <2>3. QED
    BY <1>0, <2>1, <2>2, NotMissingIsStored
<1>5. QED
  BY <1>4

LEMMA PartAckedKeepsIInv ==
  ASSUME IInv, NEW i \in 1..Total, PartAcked(i)
  PROVE  IInv'
<1>0. room \in 0..Total /\ room \in room..Total /\ Total \in Nat
  BY DraftAssumption DEF IInv, ControlTyped
<1>1. pc = "post" /\ Envelope = PartEnvelope
  BY DEF PartAcked, Envelope
<1>2. /\ SessionIsTrue' /\ LateIsTrue' /\ board \subseteq board' /\ fresh' \in BOOLEAN
      /\ PartEnvelope.cursor <= cursor'
  BY <1>1, CommitKeepsSurroundings DEF PartAcked
<1> DEFINE n == Cardinality(DOMAIN picks)
<1>3. n \in 0..Total /\ Parts(n) \in 1..Total /\ part \in 1..Parts(n)
  <2>1. n \in 0..Total
    BY <1>0, ViewIsPrefix DEF IInv, ViewsArePrefixes
  <2>2. CASE n = 0
    BY <1>1, <2>2, DraftAssumption DEF IInv, PartInRange, Parts
  <2>3. CASE n # 0
    <3>1. n \in Nat \ {0}
      BY <2>1, <2>3
    <3>2. Parts(n) \in 1..n
      BY <3>1, LastPartHoldsLast
    <3>3. QED
      BY <1>0, <1>1, <2>1, <3>2 DEF IInv, PartInRange
  <2>4. QED
    BY <2>2, <2>3
<1>4. CASE LastPart
  <2>1. Recovered /\ pc' = "checkpoint" /\ part' = 0
    BY <1>4 DEF PartAcked
  <2>2. \A o \in DOMAIN picks : RoomPick(o) \in board'
    BY <1>1, <1>2, <1>4, <2>1, LastPartStoresAll DEF PartAcked
  <2>3. AckedIsStored'
    BY <1>2, <2>1, <2>2 DEF IInv, AckedIsStored, PartAcked, RoomPick
  <2>4. part' \in 0..Total /\ PartInRange'
    BY <1>0, <2>1 DEF PartInRange
  <2>5. pc' \in Attached
    BY <2>1 DEF Attached
  <2>6. QED
    BY <2>3, <2>4, <2>5, <1>0, <1>2, ViewsStayPrefixes, FramesUntouched
    DEF IInv, ControlTyped, PartAcked
<1>5. CASE ~LastPart
  <2>1. pc' = "post" /\ part' = part + 1 /\ part # Parts(n)
    BY <1>5 DEF PartAcked, LastPart
  <2>2. part' \in 0..Total /\ part' \in 1..Parts(n)
    <3>1. part \in Int /\ Parts(n) \in Int /\ part < Parts(n) /\ 1 <= part /\ Parts(n) <= Total
      BY <1>0, <1>3, <2>1
    <3>2. QED
      BY <1>0, <2>1, <3>1
  <2>3. PartInRange'
    BY <2>2 DEF PartInRange, Parts, PartAcked
  <2>4. AckedIsStored'
    BY <1>2, <2>1, AckedStaysStored DEF IInv, PartAcked
  <2>5. pc' \in Attached
    BY <2>1 DEF Attached, Posting
  <2>6. QED
    BY <2>2, <2>3, <2>4, <2>5, <1>0, <1>2, ViewsStayPrefixes, FramesUntouched
    DEF IInv, ControlTyped, PartAcked
<1>6. QED
  BY <1>4, <1>5

(* The answer is lost: the session is ahead, and a replay will find it so. *)
LEMMA AckLostKeepsIInv == IInv /\ AckLost => IInv'
<1> SUFFICES ASSUME IInv, AckLost
             PROVE  IInv'
  OBVIOUS
<1>1. SessionIsTrue' /\ LateIsTrue' /\ board \subseteq board' /\ fresh' \in BOOLEAN
  BY CommitKeepsSurroundings DEF AckLost
<1>2. QED
  BY <1>1, FailKeepsIInv DEF IInv, ControlTyped, AckLost

(* Only the registry refuses: the session has no reason to.                *)
LEMMA RefusedKeepsIInv == IInv /\ Refused => IInv'
<1> SUFFICES ASSUME IInv, Refused
             PROVE  IInv'
  OBVIOUS
<1>1. Commits(Envelope)
  BY EnvelopeIsTrue, TrueEnvelopeCommits DEF IInv, ControlTyped
<1>2. UNCHANGED session
  BY <1>1 DEF Refused, SessionRefusal
<1>3. SessionIsTrue' /\ LateIsTrue' /\ board \subseteq board' /\ fresh' \in BOOLEAN
  BY <1>2, SurroundingsStay DEF Refused
<1>4. QED
  BY <1>3, FailKeepsIInv DEF IInv, ControlTyped, Refused

(* A request outlives its timeout: it was true when it was sent.           *)
LEMMA UnansweredKeepsIInv == IInv /\ Unanswered => IInv'
<1> SUFFICES ASSUME IInv, Unanswered
             PROVE  IInv'
  OBVIOUS
<1>1. room \in 0..Total /\ room \in room..Total
  BY DraftAssumption DEF IInv, ControlTyped
<1>2. SessionIsTrue' /\ board' = board /\ fresh' \in BOOLEAN
  BY <1>1, SessionStaysTrue DEF IInv, ControlTyped, Unanswered, session
<1>3. TrueEnvelope(Envelope)
  BY EnvelopeIsTrue
<1>4. \A e \in late' : TrueEnvelope(e)
  BY <1>3 DEF IInv, LateIsTrue, Unanswered
<1>5. LateIsTrue'
  BY <1>4 DEF LateIsTrue, TrueEnvelope, RoomPicksUpto, RoomPick, Unanswered
<1>6. QED
  BY <1>2, <1>5, FailKeepsIInv DEF IInv, ControlTyped, Unanswered

(* It may arrive whenever it likes.                                        *)
LEMMA LateArrivesKeepsIInv == IInv /\ LateArrives => IInv'
<1> SUFFICES ASSUME IInv, LateArrives
             PROVE  IInv'
  OBVIOUS
<1>1. PICK e \in late :
        /\ late' = late \ {e}
        /\ \/ ~revoked /\ (SessionCommit(e) \/ SessionRefusal(e))
           \/ UNCHANGED session
        /\ UNCHANGED <<room, page, client, revoked>>
  BY DEF LateArrives
<1>2. room \in 0..Total /\ room' \in room..Total
  BY <1>1, DraftAssumption DEF IInv, ControlTyped
<1>3. TrueEnvelope(e) /\ Commits(e)
  BY <1>2, TrueEnvelopeCommits DEF IInv, LateIsTrue
<1>4. SessionIsTrue' /\ board \subseteq board' /\ fresh' \in BOOLEAN
  <2>1. CASE SessionCommit(e)
    BY <1>2, <1>3, <2>1, CommitKeepsSession DEF IInv
  <2>2. CASE UNCHANGED session
    BY <1>2, <2>2, SessionStaysTrue DEF IInv, ControlTyped, session
  <2>3. QED
    BY <1>1, <1>3, <2>1, <2>2 DEF SessionRefusal
<1>5. LateIsTrue'
  BY <1>1, <1>2, LateStaysTrue DEF IInv
<1>6. ControlTyped' /\ ViewsArePrefixes' /\ FramesContinue' /\ AckedIsStored' /\ PartInRange'
  BY <1>1, <1>2, <1>4, ViewsStayPrefixes, FramesUntouched, AckedStaysStored
  DEF IInv, ControlTyped, PartInRange, Parts, client
<1>7. QED
  BY <1>4, <1>5, <1>6 DEF IInv

(* What is saved was just acknowledged.                                    *)
LEMMA CheckpointKeepsIInv == IInv /\ Checkpoint => IInv'
<1> SUFFICES ASSUME IInv, Checkpoint
             PROVE  IInv'
  OBVIOUS
<1>0. room \in 0..Total /\ room \in room..Total /\ Total \in Nat
  BY DraftAssumption DEF IInv, ControlTyped
<1>1. SessionIsTrue' /\ LateIsTrue' /\ board' = board
  BY SurroundingsStay DEF Checkpoint, session
<1>2. ControlTyped'
  <2>1. tracked' \in BOOLEAN /\ changed' \in BOOLEAN
    BY DEF IInv, ControlTyped, Checkpoint
  <2>0. Len(frames') <= MaxFrames
    BY BoundsAssumption DEF IInv, ControlTyped, Checkpoint
  <2>2. pc' \in {"read", "done"} /\ health' \in {"live", "complete"}
    BY DEF Checkpoint
  <2>3. QED
    BY <2>0, <2>1, <2>2 DEF IInv, ControlTyped, Checkpoint, session, Attached, Gone
<1>3. ViewsArePrefixes'
  BY <1>0, ViewsStayPrefixes DEF IInv, Checkpoint
<1>4. FramesContinue'
  <2>1. CASE Complete
    BY <2>1, FramesDropped DEF Checkpoint
  <2>2. CASE ~Complete
    BY <2>2, FramesUntouched DEF IInv, Checkpoint, Attached
  <2>3. QED
    BY <2>1, <2>2
<1>5. \A o \in DOMAIN picks : RoomPick(o) \in board
  BY DEF IInv, AckedIsStored, Checkpoint
<1>6. pc' = "done" => RoomPicksUpto(Total) \subseteq board
  <2>1. pc' = "done" => Cardinality(DOMAIN picks) = Total
    BY DEF Checkpoint, Complete
  <2>2. DOMAIN picks = 1..Cardinality(DOMAIN picks)
    BY <1>0, ViewIsPrefix DEF IInv, ViewsArePrefixes
  <2>3. QED
    BY <1>5, <2>1, <2>2 DEF RoomPicksUpto
<1>7. AckedIsStored'
  BY <1>1, <1>5, <1>6 DEF AckedIsStored, Checkpoint, RoomPicksUpto, RoomPick
<1>8. PartInRange'
  BY DEF PartInRange, Checkpoint
<1>9. QED
  BY <1>1, <1>2, <1>3, <1>4, <1>7, <1>8 DEF IInv

(* Neither the session's clock nor the registry touches any of it.         *)
LEMMA SurroundingsKeepIInv ==
  ASSUME IInv, GoesStale \/ SetRevoked \/ UNCHANGED vars
  PROVE  IInv'
<1>0. /\ UNCHANGED <<room, page, client, late, board, cursor, phase, disputed>>
      /\ fresh' \in BOOLEAN /\ revoked' \in BOOLEAN
  BY DEF GoesStale, SetRevoked, vars, session, IInv, ControlTyped
<1>1. room \in 0..Total /\ room' \in room..Total
  BY <1>0, DraftAssumption DEF IInv, ControlTyped
<1>2. SessionIsTrue' /\ LateIsTrue'
  BY <1>0, <1>1, SessionStaysTrue, LateStaysTrue DEF IInv
<1>3. ControlTyped'
  BY <1>0 DEF IInv, ControlTyped, client
<1>4. ViewsArePrefixes' /\ FramesContinue' /\ AckedIsStored' /\ PartInRange'
  BY <1>0, <1>1, ViewsStayPrefixes, FramesUntouched, AckedStaysStored
  DEF IInv, PartInRange, Parts, client
<1>5. QED
  BY <1>2, <1>3, <1>4 DEF IInv

(* Every step keeps the invariant.                                         *)
LEMMA NextKeepsIInv == IInv /\ [Next]_vars => IInv'
<1> SUFFICES ASSUME IInv, [Next]_vars
             PROVE  IInv'
  OBVIOUS
<1>1. CASE RoomPicks \/ PageDrops \/ PageConnects
  BY <1>1, RoomPicksKeepsIInv, PageDropsKeepsIInv, PageConnectsKeepsIInv
<1>2. CASE Start \/ StartFails \/ Restart \/ Attach \/ AttachFails
  BY <1>2, StartKeepsIInv, StartFailsKeepsIInv, RestartKeepsIInv, AttachKeepsIInv,
     AttachFailsKeepsIInv
<1>3. CASE ReadInit \/ ReadSelected \/ ReadFails
  BY <1>3, ReadInitKeepsIInv, ReadSelectedKeepsIInv, ReadFailsKeepsIInv
<1>4. CASE Deliver \/ BeatDue \/ Stop \/ Wake \/ Uncaught \/ Crash
  BY <1>4, DeliverKeepsIInv, BeatDueKeepsIInv, StopKeepsIInv, WakeKeepsIInv, EndKeepsIInv
<1>5. CASE HeartbeatAcked \/ \E i \in 1..Total : PartAcked(i)
  BY <1>5, HeartbeatAckedKeepsIInv, PartAckedKeepsIInv
<1>6. CASE AckLost \/ Refused \/ Unanswered \/ LateArrives
  BY <1>6, AckLostKeepsIInv, RefusedKeepsIInv, UnansweredKeepsIInv, LateArrivesKeepsIInv
<1>7. CASE Checkpoint \/ CheckpointFails
  BY <1>7, CheckpointKeepsIInv, CheckpointFailsKeepsIInv
<1>8. CASE GoesStale \/ SetRevoked \/ UNCHANGED vars
  BY <1>8, SurroundingsKeepIInv
<1>9. QED
  BY <1>1, <1>2, <1>3, <1>4, <1>5, <1>6, <1>7, <1>8 DEF Next
-----------------------------------------------------------------------------
(* The theorems.                                                           *)

(* The companion's board, its checkpoint and the session's board stay true *)
(* prefixes of the room's picks through every loss, replay and restart.    *)
THEOREM InvariantHolds == Spec => []IInv
<1>1. Init => IInv
  BY InitEstablishesIInv
<1>2. IInv /\ [Next]_vars => IInv'
  BY NextKeepsIInv
<1>3. QED
  BY <1>1, <1>2, PTL DEF Spec

(* Every variable keeps the type Companion.TypeOK gives it.                *)
THEOREM TypeCorrect == Spec => []TypeOK
<1>1. IInv => TypeOK
  <2> SUFFICES ASSUME IInv
               PROVE  TypeOK
    OBVIOUS
  <2>0. Total \in Nat /\ room \in 0..Total
    BY DraftAssumption DEF IInv, ControlTyped
  <2>1. DOMAIN picks \subseteq Slots /\ \A o \in DOMAIN picks : picks[o] \in TheDraft.catalog
    BY <2>0, ViewIsPrefix, DraftAssumption DEF IInv, ViewsArePrefixes
  <2>2. DOMAIN saved \subseteq Slots /\ \A o \in DOMAIN saved : saved[o] \in TheDraft.catalog
    <3>1. PICK k \in 0..room : saved = Prefix(k)
      BY DEF IInv, ViewsArePrefixes
    <3>2. k \in Nat /\ 1..k \subseteq Slots
      BY <2>0 DEF Slots
    <3>3. DOMAIN saved = 1..k /\ \A o \in 1..k : saved[o] = Truth[o]
      BY <3>1, <3>2, PrefixFacts
    <3>4. QED
      BY <3>2, <3>3, DraftAssumption
  <2>3. \A i \in DOMAIN frames : frames[i] \in Frame
    BY DEF IInv, FramesContinue
  <2>4. board \subseteq Events /\ cursor \in 0..Total
    <3>1. cursor \in 0..room /\ board \subseteq RoomPicksUpto(cursor)
      BY DEF IInv, SessionIsTrue
    <3>2. \A o \in 1..cursor : o \in Slots
      BY <2>0, <3>1 DEF Slots
    <3>3. QED
      BY <2>0, <3>1, <3>2, RoomPickTyped DEF RoomPicksUpto
  <2>5. disputed \in BOOLEAN /\ phase \in {"pre_draft", "live", "complete"}
    BY DEF IInv, SessionIsTrue
  <2>6. QED
    BY <2>1, <2>2, <2>3, <2>4, <2>5 DEF IInv, ControlTyped, TypeOK
<1>2. QED
  BY <1>1, InvariantHolds, PTL

(* Every row of the session's board is a pick the room made.               *)
THEOREM BoardStaysTrue == Spec => []BoardIsTrue
<1>1. IInv => BoardIsTrue
  <2> SUFFICES ASSUME IInv, NEW row \in board
               PROVE  row.overall <= room /\ row.player = Truth[row.overall]
    BY DEF BoardIsTrue
  <2>1. room \in Nat /\ cursor \in 0..room
    BY DraftAssumption DEF IInv, ControlTyped, SessionIsTrue
  <2>2. PICK o \in 1..cursor : row = RoomPick(o)
    BY DEF IInv, SessionIsTrue, RoomPicksUpto
  <2>3. QED
    BY <2>1, <2>2 DEF RoomPick
<1>2. QED
  BY <1>1, InvariantHolds, PTL

(* The session's cursor never runs ahead of the room.                      *)
THEOREM CursorStaysTrue == Spec => []CursorIsTrue
<1>1. IInv => CursorIsTrue
  BY DraftAssumption DEF IInv, ControlTyped, SessionIsTrue, CursorIsTrue
<1>2. QED
  BY <1>1, InvariantHolds, PTL

(* What the checkpoint holds is on the session's board.                    *)
THEOREM CheckpointStaysAcked == Spec => []CheckpointIsAcked
<1>1. IInv => CheckpointIsAcked
  <2> SUFFICES ASSUME IInv, NEW o \in DOMAIN saved
               PROVE  \E row \in board : row.overall = o /\ row.player = saved[o]
    BY DEF CheckpointIsAcked
  <2>1. PICK k \in 0..room : saved = Prefix(k)
    BY DEF IInv, ViewsArePrefixes
  <2>2. k \in Nat
    BY DraftAssumption DEF IInv, ControlTyped
  <2>3. saved[o] = Truth[o]
    BY <2>1, <2>2, PrefixFacts
  <2>4. RoomPick(o) \in board
    BY DEF IInv, AckedIsStored
  <2>5. QED
    BY <2>3, <2>4 DEF RoomPick
<1>2. QED
  BY <1>1, InvariantHolds, PTL

(* No replay, restart or late request is ever recorded as a conflict.      *)
THEOREM ReplaysNeverConflict == Spec => []ReplayNeverConflicts
<1>1. IInv => ReplayNeverConflicts
  BY DEF IInv, SessionIsTrue, ReplayNeverConflicts
<1>2. QED
  BY <1>1, InvariantHolds, PTL

(* A companion that ends by itself leaves the whole draft on the board.    *)
THEOREM DoneIsDelivered == Spec => []DoneMeansDelivered
<1>1. IInv => DoneMeansDelivered
  <2> SUFFICES ASSUME IInv, pc = "done", NEW o \in Slots
               PROVE  \E row \in board : row.overall = o
    BY DEF DoneMeansDelivered
  <2>1. RoomPick(o) \in board
    BY DEF IInv, AckedIsStored, RoomPicksUpto, Slots
  <2>2. QED
    BY <2>1 DEF RoomPick
<1>2. QED
  BY <1>1, InvariantHolds, PTL

(* The session accepts whatever the companion posts, and whatever reaches  *)
(* it late: a 400 or a 409 never meets an enabled device of this code.     *)
EverythingCommits == Commits(Envelope) /\ \A e \in late : Commits(e)

THEOREM NothingIsRefused == Spec => []EverythingCommits
<1>1. IInv => EverythingCommits
  BY EnvelopeIsTrue, TrueEnvelopeCommits DEF IInv, ControlTyped, LateIsTrue, EverythingCommits
<1>2. QED
  BY <1>1, InvariantHolds, PTL
=============================================================================
