----------------------- MODULE DraftRoomIngestorProofs ----------------------
(***************************************************************************)
(* Theorems about LiveRunner with either source, for every draft, part     *)
(* size and bound.                                                         *)
(*                                                                         *)
(* Three arguments share one inductive invariant.  Until a pick is taken   *)
(* back, every view agrees with what ESPN shows: the local board, the      *)
(* snapshot, the checkpoint, the requests on their way and the session.    *)
(* Until the session is reset, a pick of the snapshot is stored or still   *)
(* in a part to be sent.  And the last part of a batch always carries the  *)
(* cursor of the whole snapshot, so that its acknowledgement reveals every *)
(* pick of it the session misses.                                          *)
(***************************************************************************)
EXTENDS DraftRoomIngestor, TLAPS, FiniteSetTheorems, SequenceTheorems,
        WellFoundedInduction

(* f says only what ESPN shows.                                            *)
Agrees(f) == \A o \in DOMAIN f : o \in DOMAIN Truth /\ f[o] = Truth[o]

(* The row, and the event, of a pick ESPN shows.                           *)
TrueRow(row) ==
  /\ row.overall \in DOMAIN Truth
  /\ row = [overall |-> row.overall, team |-> SlotTeam[row.overall],
            player |-> Truth[row.overall],
            eventId |-> <<row.overall, Truth[row.overall], 0>>]

Control ==
  /\ mode \in {"poll", "room", "reload"}
  /\ stage \in {"pre_draft", "live", "drafted"}
  /\ takebacks \in Nat /\ resets \in Nat
  /\ pc \in {"down", "initialize", "poll", "deliver", "checkpoint", "done"}

RecordedFrame ==
  [type : {"INIT"}, picks : Seq(TheDraft.catalog)]
  \cup [type : {"SELECTED"}, team : {SlotTeam[o] : o \in Slots}, player : TheDraft.catalog]

(* The local board is a prefix of the room, and c counts the picks known   *)
(* after each frame: the frames carry on from the local board, and those   *)
(* of a tracked socket catch up with the room.                             *)
Continues(c) ==
  /\ DOMAIN espn = 1..c[0] /\ \A o \in 1..c[0] : espn[o] = room[o]
  /\ \A i \in 1..Len(frames) :
       \/ /\ frames[i].type = "INIT"
          /\ DOMAIN frames[i].picks = 1..c[i]
          /\ \A o \in 1..c[i] : frames[i].picks[o] = room[o]
       \/ /\ frames[i].type = "SELECTED"
          /\ c[i] = c[i - 1] + 1
          /\ frames[i].player = room[c[i]]
  /\ socket = "tracked" => c[Len(frames)] = Len(room)

RoomIsFollowed ==
  /\ takebacks = 0 /\ stage # "drafted"
  /\ room \in Seq(TheDraft.catalog) /\ Len(room) <= Total
  /\ \E c \in [0..Len(frames) -> 0..Len(room)] : Continues(c)

SourceInv ==
  /\ DOMAIN espn \subseteq Slots
  /\ frames \in Seq(RecordedFrame)
  /\ mode = "poll" => ~attached
  /\ ~attached => frames = <<>> /\ socket # "tracked"
  /\ mode # "poll" => RoomIsFollowed

(* The parts are of the snapshot, and the last one reveals its gaps.       *)
RunnerInv ==
  /\ DOMAIN snap \subseteq Slots
  /\ parts \in Seq(Part)
  /\ \A i \in 1..Len(parts) : parts[i].slots \subseteq DOMAIN snap
  /\ pc = "deliver" <=> parts # <<>>
  /\ pc = "deliver" =>
       /\ parts[Len(parts)].role \in {"first", "closes"}
       /\ \A o \in DOMAIN snap : o <= parts[Len(parts)].cursor
       /\ snapPhase = "complete" => parts[Len(parts)].cursor = Total
  /\ takebacks = 0 => Agrees(snap) /\ Agrees(saved)
  /\ stage # "drafted" /\ takebacks = 0 =>
       \A i \in 1..Len(parts) : parts[i].cursor <= LastOf(DOMAIN Truth)

(* The session stores nothing beyond its cursor, and nothing untrue.       *)
SessionInv ==
  /\ cursor \in 0..Total
  /\ \A row \in board : row.overall \in 1..cursor
  /\ takebacks = 0 => disputed = FALSE /\ \A row \in board : TrueRow(row)
  /\ stage # "drafted" /\ takebacks = 0 => cursor <= LastOf(DOMAIN Truth)

Sound(e) ==
  /\ e.cursor \in 0..Total
  /\ \A ev \in e.events : ev.overall \in Slots
  /\ takebacks = 0 => \A ev \in e.events : TrueRow(ev)
  /\ stage # "drafted" /\ takebacks = 0 => e.cursor <= LastOf(DOMAIN Truth)

LateInv == \A e \in late : Sound(e)

(* While the session is not reset, what was acknowledged is stored.        *)
AckedInv ==
  resets = 0 =>
    /\ \A o \in DOMAIN saved : Stored(o, saved[o])
    /\ pc = "deliver" =>
         \A o \in DOMAIN snap :
           Stored(o, snap[o]) \/ \E i \in 1..Len(parts) : o \in parts[i].slots
    /\ pc = "checkpoint" =>
         /\ \A o \in DOMAIN snap : Stored(o, snap[o])
         /\ snapPhase = "complete" => cursor = Total
    /\ pc = "done" => cursor = Total

IInv == Control /\ SourceInv /\ RunnerInv /\ SessionInv /\ LateInv /\ AckedInv

-----------------------------------------------------------------------------
(* The last of a set of slots, and parts of such a set.                    *)

(* A set of slots that is not empty has a last one: the slots above one    *)
(* that is not the last form a smaller set, and set inclusion on finite    *)
(* sets is well-founded.                                                   *)
LEMMA LastExists ==
  ASSUME NEW T \in SUBSET Slots, T # {}
  PROVE  \E m \in T : \A q \in T : q <= m
<1> DEFINE Above(o) == {q \in T : q > o}
           Family == {Above(o) : o \in T}
<1>0. Total \in Nat
  BY DraftAssumption
<1>1. IsFiniteSet(Slots)
  BY <1>0, FS_Interval DEF Slots
<1>2. Family \subseteq FiniteSubsetsOf(Slots)
  <2>1. ASSUME NEW U \in SUBSET Slots
        PROVE  IsFiniteSet(U)
    BY <1>1, FS_Subset
  <2>2. QED
    BY <2>1 DEF FiniteSubsetsOf
<1>3. Family # {}
  OBVIOUS
<1>4. IsWellFoundedOn(StrictSubsetOrdering(Slots), FiniteSubsetsOf(Slots))
  BY FS_StrictSubsetOrderingWellFounded
<1> HIDE DEF Family
<1>5. PICK U \in Family : \A V \in Family : <<V, U>> \notin StrictSubsetOrdering(Slots)
  BY <1>2, <1>3, <1>4, WFMin
<1> USE DEF Family
<1>6. PICK m \in T : U = Above(m)
  OBVIOUS
<1>7. ASSUME NEW q \in T, ~(q <= m)
      PROVE  FALSE
  <2>1. q \in Int /\ m \in Int /\ \A r \in T : r \in Int
    BY DEF Slots
  <2>2. q \in U
    BY <1>6, <1>7, <2>1
  <2>3. Above(q) \subseteq U /\ q \notin Above(q)
    <3>1. ASSUME NEW r \in Above(q)
          PROVE  r \in Above(m)
      <4>1. r \in T /\ r > q /\ q > m /\ r \in Int
        BY <1>7, <2>1
      <4>2. r > m
        BY <2>1, <4>1
      <4>3. QED
        BY <4>1, <4>2
    <3>2. q \notin Above(q)
      BY <2>1
    <3>3. QED
      BY <1>6, <3>1, <3>2
  <2>4. <<Above(q), U>> \in StrictSubsetOrdering(Slots)
    BY <1>6, <2>2, <2>3 DEF StrictSubsetOrdering
  <2>5. QED
    BY <1>5, <2>4
<1>8. QED
  BY <1>7

(* LastOf is the last slot, 0 for none; it grows with the set.             *)
LEMMA LastOfFacts ==
  ASSUME NEW T \in SUBSET Slots
  PROVE  /\ LastOf(T) \in 0..Total
         /\ T # {} => LastOf(T) \in T
         /\ \A o \in T : o <= LastOf(T)
<1>0. Total \in Nat
  BY DraftAssumption
<1>1. CASE T = {}
  BY <1>0, <1>1 DEF LastOf
<1>2. CASE T # {}
  <2>1. PICK m \in T : \A q \in T : q <= m
    BY <1>2, LastExists
  <2>2. LastOf(T) = CHOOSE o \in T : \A q \in T : q <= o
    BY <1>2 DEF LastOf
  <2>3. LastOf(T) \in T /\ \A q \in T : q <= LastOf(T)
    BY <2>1, <2>2
  <2>4. LastOf(T) \in 1..Total
    BY <2>3 DEF Slots
  <2>5. QED
    BY <1>0, <2>3, <2>4
<1>3. QED
  BY <1>1, <1>2

LEMMA LastOfGrows ==
  ASSUME NEW U \in SUBSET Slots, NEW T \in SUBSET U
  PROVE  LastOf(T) <= LastOf(U)
<1>1. CASE T = {}
  <2>1. LastOf(T) = 0
    BY <1>1 DEF LastOf
  <2>2. LastOf(U) \in 0..Total
    BY LastOfFacts
  <2>3. QED
    BY <2>1, <2>2
<1>2. CASE T # {}
  BY <1>2, LastOfFacts
<1>3. QED
  BY <1>1, <1>2

LEMMA LastOfSlots == LastOf(Slots) = Total
<1>1. Total \in Slots
  BY DraftAssumption DEF Slots
<1>2. Total <= LastOf(Slots) /\ LastOf(Slots) \in 0..Total
  BY <1>1, LastOfFacts
<1>3. QED
  BY <1>2, DraftAssumption

LEMMA Quotient ==
  ASSUME NEW a \in Nat, NEW b \in Nat \ {0}
  PROVE  /\ a \div b \in Nat
         /\ (a \div b) * b <= a
         /\ a < (a \div b) * b + b
OBVIOUS

(* n things fill so many parts, and every thing has its part.              *)
LEMMA RankHasPart ==
  ASSUME NEW n \in Nat \ {0}, NEW r \in 1..n
  PROVE  /\ (n + MaxPart - 1) \div MaxPart \in Nat \ {0}
         /\ ((r - 1) \div MaxPart) + 1 \in 1..((n + MaxPart - 1) \div MaxPart)
<1> DEFINE a == (r - 1) \div MaxPart
           c == (n + MaxPart - 1) \div MaxPart
<1>0. MaxPart \in Nat \ {0} /\ r - 1 \in Nat /\ n + MaxPart - 1 \in Nat
  BY BoundsAssumption
<1>1. a \in Nat /\ a * MaxPart <= r - 1
  BY <1>0, Quotient
<1>2. c \in Nat /\ n + MaxPart - 1 < c * MaxPart + MaxPart
  BY <1>0, Quotient
<1> HIDE DEF a, c
<1>3. a * MaxPart < c * MaxPart
  BY <1>0, <1>1, <1>2
<1>4. a < c
  BY <1>0, <1>1, <1>2, <1>3
<1>5. QED
  BY <1>1, <1>2, <1>4 DEF a, c

(* Split cuts a set of slots into parts that cover it; the last one has    *)
(* the role and the cursor of the whole.                                   *)
LEMMA SplitFacts ==
  ASSUME NEW S \in SUBSET Slots, NEW full \in 0..Total, NEW early \in Roles, NEW final \in Roles
  PROVE  LET s == Split(S, full, early, final)
         IN  /\ s \in Seq(Part)
             /\ Len(s) >= 1
             /\ s[Len(s)].role = final /\ s[Len(s)].cursor = full
             /\ \A i \in 1..Len(s) : s[i].slots \subseteq S
             /\ \A i \in 1..Len(s) : s[i].cursor <= full \/ s[i].cursor <= LastOf(S)
             /\ \A o \in S : \E i \in 1..Len(s) : o \in s[i].slots
<1> DEFINE Rank(o) == Cardinality({q \in S : q <= o})
           Count == IF S = {} THEN 1 ELSE (Cardinality(S) + MaxPart - 1) \div MaxPart
           Slice(i) == {o \in S : (Rank(o) - 1) \div MaxPart = i - 1}
           P(i) == [slots |-> Slice(i),
                    cursor |-> IF i = Count THEN full ELSE LastOf(Slice(i)),
                    role |-> IF i = Count THEN final ELSE early]
           s == Split(S, full, early, final)
<1>1. s = [i \in 1..Count |-> P(i)]
  BY DEF Split
<1>2. IsFiniteSet(S)
  <2>1. IsFiniteSet(Slots)
    BY FS_Interval, DraftAssumption DEF Slots
  <2>2. QED
    BY <2>1, FS_Subset
<1>3. S # {} => Cardinality(S) \in Nat \ {0}
  BY <1>2, FS_EmptySet, FS_CardinalityType
<1>4. Count \in Nat \ {0}
  <2>1. CASE S = {}
    BY <2>1
  <2>2. CASE S # {}
    BY <1>3, <2>2, RankHasPart
  <2>3. QED
    BY <2>1, <2>2
<1>5. ASSUME NEW o \in S
      PROVE  \E i \in 1..Count : o \in Slice(i)
  <2> DEFINE B == {q \in S : q <= o}
  <2>1. Rank(o) \in 1..Cardinality(S)
    <3>1. B \in SUBSET S /\ o \in B
      BY DEF Slots
    <3>2. IsFiniteSet(B) /\ Cardinality(B) <= Cardinality(S)
      BY <1>2, <3>1, FS_Subset
    <3>3. Cardinality(B) \in Nat /\ Cardinality(B) # 0
      BY <3>1, <3>2, FS_EmptySet, FS_CardinalityType
    <3>4. QED
      BY <1>3, <3>2, <3>3
  <2> DEFINE i == ((Rank(o) - 1) \div MaxPart) + 1
  <2>2. i \in 1..Count
    BY <1>3, <2>1, RankHasPart
  <2>3. o \in Slice(i)
    <3>1. (Rank(o) - 1) \div MaxPart = i - 1
      <4>1. MaxPart \in Nat \ {0} /\ Rank(o) - 1 \in Nat
        BY <1>3, <2>1, BoundsAssumption
      <4>2. (Rank(o) - 1) \div MaxPart \in Int
        BY <4>1, Quotient
      <4>3. QED
        BY <4>2
    <3>2. QED
      BY <3>1
  <2>4. QED
    BY <2>2, <2>3
<1>6. \A i \in 1..Count : Slice(i) \in SUBSET S /\ Slice(i) \in SUBSET Slots
  OBVIOUS
<1> HIDE DEF Count, Slice
<1>7. ASSUME NEW i \in 1..Count
      PROVE  P(i) \in Part /\ (P(i).cursor <= full \/ P(i).cursor <= LastOf(S))
  <2>1. LastOf(Slice(i)) \in 0..Total /\ LastOf(Slice(i)) <= LastOf(S)
    BY <1>6, LastOfFacts, LastOfGrows
  <2>2. P(i).cursor \in 0..Total /\ P(i).slots \in SUBSET Slots /\ P(i).role \in Roles
    BY <1>6, <2>1
  <2>3. P(i) \in Part
    BY <2>2 DEF Part
  <2>4. P(i).cursor <= full \/ P(i).cursor <= LastOf(S)
    BY <2>1
  <2>5. QED
    BY <2>3, <2>4
<1>8. Len(s) = Count /\ DOMAIN s = 1..Count /\ s \in Seq(Part)
  <2>1. s \in [1..Count -> Part]
    BY <1>1, <1>7
  <2>2. QED
    BY <1>1, <1>4, <2>1
<1>9. \A i \in 1..Len(s) : s[i] = P(i)
  BY <1>1, <1>8
<1>10. \A i \in 1..Len(s) : s[i].slots = Slice(i)
  <2>1. \A i : P(i).slots = Slice(i)
    OBVIOUS
  <2> HIDE DEF P, s
  <2>2. QED
    BY <1>9, <2>1
<1>11. s[Len(s)].role = final /\ s[Len(s)].cursor = full
  BY <1>4, <1>8, <1>9
<1>12. \A i \in 1..Len(s) : s[i].cursor <= full \/ s[i].cursor <= LastOf(S)
  BY <1>7, <1>8, <1>9
<1>13. QED
  BY <1>4, <1>5, <1>6, <1>8, <1>10, <1>11, <1>12
-----------------------------------------------------------------------------
(* The session's side.                                                     *)

(* A committed request is stored whole, next to what was there.            *)
LEMMA CommitStores ==
  ASSUME NEW e, SessionCommit(e)
  PROVE  board \subseteq board' /\ e.events \subseteq board' /\ board' \subseteq board \cup e.events
<1>1. board' = board \cup Session!Fresh(e.events)
  BY DEF SessionCommit, Session!StoredAfter
<1>2. Session!Fresh(e.events) \subseteq e.events
  BY DEF Session!Fresh
<1>3. ASSUME NEW ev \in e.events, ev \notin Session!Fresh(e.events)
      PROVE  ev \in board
  <2>1. PICK row \in board : row.eventId = ev.eventId \/ row.overall = ev.overall
    BY <1>3 DEF Session!Fresh
  <2>2. ~Session!Conflicts(ev)
    BY DEF SessionCommit, Commits
  <2>3. QED
    BY <2>1, <2>2 DEF Session!Conflicts
<1>4. QED
  BY <1>1, <1>2, <1>3

(* Two true rows that share their slot or their event id are one.          *)
LEMMA TrueRowsAgree ==
  ASSUME NEW a, NEW b, TrueRow(a), TrueRow(b), a.overall = b.overall \/ a.eventId = b.eventId
  PROVE  a = b
<1> DEFINE Id(o) == <<o, Truth[o], 0>>
<1>1. a.eventId = Id(a.overall) /\ b.eventId = Id(b.overall)
  BY DEF TrueRow
<1>2. a.overall = b.overall
  BY <1>1
<1>3. QED
  BY <1>2 DEF TrueRow

(* Neither a commit nor a refusal of a sound request makes the session     *)
(* unsound, or forget anything.                                            *)
LEMMA RequestKeepsSession ==
  ASSUME SessionInv, NEW e, Sound(e), SessionCommit(e) \/ SessionRefusal(e),
         UNCHANGED <<stage, takebacks, Truth>>
  PROVE  SessionInv' /\ board \subseteq board' /\ cursor <= cursor' /\ resets' = resets
<1>0. Total \in Nat /\ cursor \in 0..Total /\ e.cursor \in 0..Total
  BY DraftAssumption DEF SessionInv, Sound
<1>1. CASE SessionCommit(e)
  <2>1. cursor' = IF e.cursor > cursor THEN e.cursor ELSE cursor
    BY <1>1 DEF SessionCommit, Session!CursorAfter
  <2>2. cursor' \in 0..Total /\ cursor <= cursor' /\ e.cursor <= cursor' /\ cursor' \in {cursor, e.cursor}
    BY <1>0, <2>1
  <2>3. board \subseteq board' /\ board' \subseteq board \cup e.events
    BY <1>1, CommitStores
  <2>4. \A ev \in e.events : ev.overall \in 1..e.cursor
    <3>1. \A ev \in e.events : ev.overall \in Slots /\ ev.overall <= e.cursor
      BY <1>1 DEF SessionCommit, Commits, WellFormed, Sound
    <3>2. QED
      BY <1>0, <3>1 DEF Slots
  <2>5. \A row \in board' : row.overall \in 1..cursor'
    <3>1. 1..cursor \subseteq 1..cursor' /\ 1..e.cursor \subseteq 1..cursor'
      BY <1>0, <2>2
    <3>2. QED
      BY <2>3, <2>4, <3>1 DEF SessionInv
  <2>6. takebacks' = 0 => disputed' = FALSE /\ \A row \in board' : TrueRow(row)'
    BY <1>1, <2>3 DEF SessionInv, Sound, SessionCommit, TrueRow
  <2>7. stage' # "drafted" /\ takebacks' = 0 => cursor' <= LastOf(DOMAIN Truth)'
    BY <2>2 DEF SessionInv, Sound, LastOf
  <2>8. QED
    BY <1>1, <2>2, <2>3, <2>5, <2>6, <2>7 DEF SessionInv, SessionCommit
<1>2. CASE SessionRefusal(e)
  <2>1. board' = board /\ cursor' = cursor /\ resets' = resets
    BY <1>2 DEF SessionRefusal
  <2>2. takebacks' = 0 => disputed' = FALSE
    <3> SUFFICES ASSUME takebacks' = 0
                 PROVE  disputed' = FALSE
      OBVIOUS
    <3>1. \A ev \in e.events : ~Session!Conflicts(ev)
      BY TrueRowsAgree DEF SessionInv, Sound, Session!Conflicts
    <3>2. disputed = FALSE
      BY DEF SessionInv
    <3>3. QED
      BY <1>2, <3>1, <3>2 DEF SessionRefusal
  <2>3. takebacks' = 0 => \A row \in board' : TrueRow(row)'
    BY <2>1 DEF SessionInv, TrueRow
  <2>4. stage' # "drafted" /\ takebacks' = 0 => cursor' <= LastOf(DOMAIN Truth)'
    BY <2>1 DEF SessionInv, LastOf
  <2>5. QED
    BY <1>0, <2>1, <2>2, <2>3, <2>4 DEF SessionInv
<1>3. QED
  BY <1>1, <1>2

(* With nothing stored beyond it the cursor is the last overall pick.      *)
LEMMA LastIsCursor ==
  ASSUME NEW c \in Nat, NEW B, \A row \in B : row.overall \in 1..c
  PROVE  c = CHOOSE n \in {c} \cup {row.overall : row \in B} :
               n >= c /\ \A row \in B : n >= row.overall
<1> DEFINE S == {c} \cup {row.overall : row \in B}
           IsLast(n) == n >= c /\ \A row \in B : n >= row.overall
<1>1. c \in S /\ IsLast(c)
  OBVIOUS
<1>2. \A n \in S : IsLast(n) => n = c
  OBVIOUS
<1> HIDE DEF S, IsLast
<1>3. c = CHOOSE n \in S : IsLast(n)
  BY <1>1, <1>2
<1>4. QED
  BY <1>3 DEF S, IsLast

(* A slot up to the cursor is stored or reported missing.                  *)
LEMMA StoredOrMissing ==
  ASSUME SessionInv, NEW o \in 1..cursor
  PROVE  (\E row \in board : row.overall = o) \/ o \in Session!MissingOverallPicks
<1>1. cursor \in Nat /\ \A row \in board : row.overall \in 1..cursor
  BY DraftAssumption DEF SessionInv
<1>2. Session!LastOverallPick = cursor
  BY <1>1, LastIsCursor DEF Session!LastOverallPick
<1>3. QED
  BY <1>2 DEF Session!MissingOverallPicks

LEMMA StoredOrMissingAfter ==
  ASSUME SessionInv', NEW o \in 1..cursor'
  PROVE  (\E row \in board' : row.overall = o) \/ o \in (Session!MissingOverallPicks)'
<1>1. cursor' \in Nat /\ \A row \in board' : row.overall \in 1..cursor'
  BY DraftAssumption DEF SessionInv
<1>2. (Session!LastOverallPick)' = cursor'
  BY <1>1, LastIsCursor DEF Session!LastOverallPick
<1>3. QED
  BY <1>2 DEF Session!MissingOverallPicks
-----------------------------------------------------------------------------
(* ESPN moves, or the runner's local board does; what it took stays true.  *)

(* What ESPN shows is in the draft, and the local board shows no more.     *)
LEMMA TruthInDraft ==
  ASSUME Control, SourceInv
  PROVE  DOMAIN Truth \subseteq Slots /\ DOMAIN espn \subseteq DOMAIN Truth /\ Agrees(espn)
<1>1. CASE mode = "poll"
  BY <1>1 DEF SourceInv, Truth, Agrees
<1>2. CASE mode # "poll"
  <2>1. room \in Seq(TheDraft.catalog) /\ Len(room) <= Total /\ Len(room) \in Nat
    BY <1>2 DEF SourceInv, RoomIsFollowed
  <2>2. Truth = [o \in 1..Len(room) |-> room[o]]
    BY <1>2, <2>1 DEF Truth, Prefix
  <2>3. 1..Len(room) \subseteq Slots
    BY <2>1, DraftAssumption DEF Slots
  <2>4. PICK c \in [0..Len(frames) -> 0..Len(room)] : Continues(c)
    BY <1>2 DEF SourceInv, RoomIsFollowed
  <2>5. Len(frames) \in Nat
    BY DEF SourceInv
  <2>6. c[0] \in 0..Len(room) /\ DOMAIN espn = 1..c[0] /\ \A o \in 1..c[0] : espn[o] = room[o]
    BY <2>4, <2>5 DEF Continues
  <2>7. 1..c[0] \subseteq 1..Len(room)
    BY <2>1, <2>6
  <2>8. QED
    BY <2>2, <2>3, <2>6, <2>7 DEF Agrees
<1>3. QED
  BY <1>1, <1>2

(* What agreed with a board that only grew still does.                     *)
LEMMA TruthGrows ==
  ASSUME Control, SourceInv, RunnerInv, SessionInv, LateInv, AckedInv,
         UNCHANGED <<runner, late, session>>,
         takebacks' = 0 =>
           takebacks = 0 /\ \A o \in DOMAIN Truth : o \in DOMAIN Truth' /\ Truth'[o] = Truth[o],
         stage' # "drafted" /\ takebacks' = 0 => stage # "drafted",
         DOMAIN Truth' \subseteq Slots
  PROVE  RunnerInv' /\ SessionInv' /\ LateInv' /\ AckedInv'
<1>0. UNCHANGED <<pc, snap, snapPhase, parts, saved, failures, late, opened, resets, board,
                  cursor, phase, disputed>>
  BY DEF runner, session
<1>1. stage' # "drafted" /\ takebacks' = 0 =>
        /\ stage # "drafted" /\ takebacks = 0
        /\ LastOf(DOMAIN Truth) <= LastOf(DOMAIN Truth')
        /\ LastOf(DOMAIN Truth) \in Int /\ LastOf(DOMAIN Truth') \in Int
  <2> SUFFICES ASSUME stage' # "drafted" /\ takebacks' = 0
               PROVE  /\ LastOf(DOMAIN Truth) <= LastOf(DOMAIN Truth')
                      /\ LastOf(DOMAIN Truth) \in Int /\ LastOf(DOMAIN Truth') \in Int
    OBVIOUS
  <2>1. DOMAIN Truth \in SUBSET DOMAIN Truth' /\ DOMAIN Truth' \in SUBSET Slots
    OBVIOUS
  <2>2. LastOf(DOMAIN Truth) <= LastOf(DOMAIN Truth')
    BY <2>1, LastOfGrows
  <2>3. LastOf(DOMAIN Truth) \in 0..Total /\ LastOf(DOMAIN Truth') \in 0..Total
    BY <2>1, LastOfFacts
  <2>4. QED
    BY <2>2, <2>3
<1>2. ASSUME NEW x \in Int, stage' # "drafted" /\ takebacks' = 0, x <= LastOf(DOMAIN Truth)
      PROVE  x <= LastOf(DOMAIN Truth')
  BY <1>1, <1>2
<1>3. ASSUME NEW f, takebacks' = 0, Agrees(f)
      PROVE  \A o \in DOMAIN f : o \in DOMAIN Truth' /\ f[o] = Truth'[o]
  BY <1>3 DEF Agrees
<1>4. ASSUME NEW row, takebacks' = 0, TrueRow(row)
      PROVE  /\ row.overall \in DOMAIN Truth'
             /\ row = [overall |-> row.overall, team |-> SlotTeam[row.overall],
                       player |-> Truth'[row.overall],
                       eventId |-> <<row.overall, Truth'[row.overall], 0>>]
  BY <1>4 DEF TrueRow
<1>5. LastOf(DOMAIN Truth)' = LastOf(DOMAIN Truth')
  BY DEF LastOf
<1>6. RunnerInv'
  <2>1. takebacks' = 0 => Agrees(snap)' /\ Agrees(saved)'
    BY <1>0, <1>3 DEF RunnerInv, Agrees
  <2>2. \A i \in 1..Len(parts) : parts[i].cursor \in Int
    <3>1. \A i \in 1..Len(parts) : parts[i] \in Part
      BY ElementOfSeq DEF RunnerInv
    <3>2. QED
      BY <3>1, DraftAssumption DEF Part
  <2>3. stage' # "drafted" /\ takebacks' = 0 =>
          \A i \in 1..Len(parts) : parts[i].cursor <= LastOf(DOMAIN Truth)'
    BY <1>1, <1>2, <1>5, <2>2 DEF RunnerInv
  <2>4. QED
    BY <1>0, <2>1, <2>3 DEF RunnerInv
<1>7. SessionInv'
  <2>1. takebacks' = 0 => disputed' = FALSE /\ \A row \in board' : TrueRow(row)'
    BY <1>0, <1>4 DEF SessionInv, TrueRow
  <2>2. stage' # "drafted" /\ takebacks' = 0 => cursor' <= LastOf(DOMAIN Truth)'
    BY <1>0, <1>1, <1>2, <1>5, DraftAssumption DEF SessionInv
  <2>3. QED
    BY <1>0, <2>1, <2>2 DEF SessionInv
<1>8. LateInv'
  <2>1. ASSUME NEW e \in late
        PROVE  Sound(e)'
    <3>1. takebacks' = 0 => \A ev \in e.events : TrueRow(ev)'
      BY <1>4 DEF LateInv, Sound, TrueRow
    <3>2. stage' # "drafted" /\ takebacks' = 0 => e.cursor <= LastOf(DOMAIN Truth)'
      BY <1>1, <1>2, <1>5, DraftAssumption DEF LateInv, Sound
    <3>3. QED
      BY <3>1, <3>2 DEF LateInv, Sound
  <2>2. QED
    BY <1>0, <2>1 DEF LateInv
<1>9. AckedInv'
  BY <1>0 DEF AckedInv, Stored
<1>10. QED
  BY <1>6, <1>7, <1>8, <1>9

(* Polled, ESPN may fill a slot, end the draft or take a pick back.        *)
LEMMA EspnKeepsIInv ==
  ASSUME IInv, mode = "poll", UNCHANGED roomVars,
         \/ EspnStarts \/ EspnEnds
         \/ \E o \in Slots : EspnFills(o) \/ EspnTakesBack(o)
  PROVE  IInv'
<1>0. Truth = espn /\ Truth' = espn' /\ DOMAIN espn \subseteq Slots
  BY DEF Truth, roomVars, IInv, SourceInv
<1>1. UNCHANGED <<runner, late, session, mode, room, socket, attached, frames, changed>>
  BY DEF roomVars, EspnStarts, EspnEnds, EspnFills, EspnTakesBack
<1>2. takebacks \in Nat /\ takebacks' \in Nat /\ stage' \in {"pre_draft", "live", "drafted"}
  <2>0. takebacks \in Nat /\ stage \in {"pre_draft", "live", "drafted"}
    BY DEF IInv, Control
  <2>1. CASE EspnStarts \/ EspnEnds
    BY <2>0, <2>1 DEF EspnStarts, EspnEnds
  <2>2. CASE \E o \in Slots : EspnFills(o)
    BY <2>0, <2>2 DEF EspnFills
  <2>3. CASE \E o \in Slots : EspnTakesBack(o)
    <3>1. takebacks' = takebacks + 1 /\ stage' \in {"live", stage}
      BY <2>3 DEF EspnTakesBack
    <3>2. QED
      BY <2>0, <3>1
  <2>4. QED
    BY <2>1, <2>2, <2>3
<1> DEFINE Grows ==
      /\ DOMAIN espn' \subseteq Slots
      /\ takebacks' = 0 => takebacks = 0 /\ \A o \in DOMAIN espn : o \in DOMAIN espn' /\ espn'[o] = espn[o]
      /\ stage' # "drafted" /\ takebacks' = 0 => stage # "drafted"
<1>3. Grows
  <2>1. CASE EspnStarts \/ EspnEnds
    BY <1>0, <2>1 DEF EspnStarts, EspnEnds
  <2>2. ASSUME NEW o \in Slots, EspnFills(o)
        PROVE  Grows
    BY <1>0, <2>2 DEF EspnFills
  <2>3. ASSUME NEW o \in Slots, EspnTakesBack(o)
        PROVE  Grows
    <3>1. takebacks' = takebacks + 1 /\ DOMAIN espn' = DOMAIN espn \ {o}
      BY <2>3 DEF EspnTakesBack
    <3>2. takebacks' # 0
      BY <1>2, <3>1
    <3>3. QED
      BY <1>0, <3>1, <3>2
  <2>4. QED
    BY <2>1, <2>2, <2>3
<1>4. RunnerInv' /\ SessionInv' /\ LateInv' /\ AckedInv'
  BY <1>0, <1>1, <1>3, TruthGrows DEF IInv
<1>5. Control' /\ SourceInv'
  BY <1>1, <1>2, <1>3 DEF IInv, Control, SourceInv, runner, session
<1>6. QED
  BY <1>4, <1>5 DEF IInv
(* In the room mode it is enough to follow a room that only grows.         *)
LEMMA RoomStepKeepsIInv ==
  ASSUME IInv, mode # "poll", UNCHANGED <<runner, late, session, mode, takebacks>>,
         stage' \in {"live", stage}, RoomIsFollowed', DOMAIN espn' \subseteq Slots,
         frames' \in Seq(RecordedFrame), ~attached' => frames' = <<>> /\ socket' # "tracked",
         Len(room) <= Len(room'), \A o \in 1..Len(room) : room'[o] = room[o]
  PROVE  IInv'
<1>1. /\ room \in Seq(TheDraft.catalog) /\ room' \in Seq(TheDraft.catalog) /\ Len(room') <= Total
      /\ Len(room) \in Nat /\ Len(room') \in Nat /\ Total \in Nat
  BY DraftAssumption DEF IInv, SourceInv, RoomIsFollowed
<1>2. Truth = [o \in 1..Len(room) |-> room[o]] /\ Truth' = [o \in 1..Len(room') |-> room'[o]]
  BY <1>1 DEF Truth, Prefix
<1>3. 1..Len(room) \subseteq 1..Len(room') /\ 1..Len(room') \subseteq Slots
  BY <1>1 DEF Slots
<1>4. takebacks = 0 /\ stage # "drafted"
  BY DEF IInv, SourceInv, RoomIsFollowed
<1>5. \A o \in DOMAIN Truth : o \in DOMAIN Truth' /\ Truth'[o] = Truth[o]
  BY <1>2, <1>3
<1>6. DOMAIN Truth' \subseteq Slots
  BY <1>2, <1>3
<1>7. RunnerInv' /\ SessionInv' /\ LateInv' /\ AckedInv'
  BY <1>4, <1>5, <1>6, TruthGrows DEF IInv
<1>8. Control' /\ SourceInv'
  BY DEF IInv, Control, SourceInv, runner, session
<1>9. QED
  BY <1>7, <1>8 DEF IInv

(* What a followed room looks like from outside.                           *)
LEMMA RoomTyped ==
  ASSUME IInv, mode # "poll"
  PROVE  /\ room \in Seq(TheDraft.catalog) /\ Len(room) \in 0..Total /\ Total \in Nat
         /\ frames \in Seq(RecordedFrame) /\ Len(frames) \in Nat
         /\ \E c \in [0..Len(frames) -> 0..Len(room)] : Continues(c)
         /\ ~attached => frames = <<>> /\ socket # "tracked"
         /\ takebacks = 0 /\ stage # "drafted" /\ DOMAIN espn \subseteq Slots
BY DraftAssumption DEF IInv, SourceInv, RoomIsFollowed

(* The frames up to i are those the counts c say, for a longer room too.   *)
LEMMA FramesOfRoom ==
  ASSUME NEW c \in [0..Len(frames) -> 0..Len(room)], Continues(c), frames \in Seq(RecordedFrame),
         room \in Seq(TheDraft.catalog), room' \in Seq(TheDraft.catalog), Len(room) <= Len(room'),
         \A o \in 1..Len(room) : room'[o] = room[o]
  PROVE  /\ c[0] \in 0..Len(room) /\ DOMAIN espn = 1..c[0] /\ \A o \in 1..c[0] : espn[o] = room'[o]
         /\ \A i \in 0..Len(frames) : c[i] \in 0..Len(room) /\ c[i] \in 0..Len(room')
         /\ \A i \in 1..Len(frames) :
              \/ /\ frames[i].type = "INIT"
                 /\ DOMAIN frames[i].picks = 1..c[i]
                 /\ \A o \in 1..c[i] : frames[i].picks[o] = room'[o]
              \/ /\ frames[i].type = "SELECTED"
                 /\ c[i] = c[i - 1] + 1
                 /\ frames[i].player = room'[c[i]]
         /\ socket = "tracked" => c[Len(frames)] = Len(room)
<1>0. Len(frames) \in Nat /\ Len(room) \in Nat /\ Len(room') \in Nat
  OBVIOUS
<1>1. \A i \in 0..Len(frames) : c[i] \in 0..Len(room) /\ c[i] \in 0..Len(room')
  <2>1. 0..Len(room) \subseteq 0..Len(room')
    BY <1>0
  <2>2. QED
    BY <2>1
<1>2. /\ DOMAIN espn = 1..c[0] /\ \A o \in 1..c[0] : espn[o] = room[o]
      /\ \A i \in 1..Len(frames) :
           \/ /\ frames[i].type = "INIT"
              /\ DOMAIN frames[i].picks = 1..c[i]
              /\ \A o \in 1..c[i] : frames[i].picks[o] = room[o]
           \/ /\ frames[i].type = "SELECTED"
              /\ c[i] = c[i - 1] + 1
              /\ frames[i].player = room[c[i]]
      /\ socket = "tracked" => c[Len(frames)] = Len(room)
  BY DEF Continues
<1>3. \A i \in 0..Len(frames) : \A o \in 1..c[i] : o \in 1..Len(room) /\ room'[o] = room[o]
  BY <1>0, <1>1
<1>4. ASSUME NEW i \in 1..Len(frames)
      PROVE  \/ /\ frames[i].type = "INIT"
                /\ DOMAIN frames[i].picks = 1..c[i]
                /\ \A o \in 1..c[i] : frames[i].picks[o] = room'[o]
             \/ /\ frames[i].type = "SELECTED"
                /\ c[i] = c[i - 1] + 1
                /\ frames[i].player = room'[c[i]]
  <2>1. i \in 0..Len(frames) /\ i - 1 \in 0..Len(frames)
    BY <1>0
  <2>2. \A o \in 1..c[i] : room'[o] = room[o]
    BY <1>3, <2>1
  <2>3. CASE frames[i].type = "INIT"
    BY <1>2, <2>2, <2>3
  <2>4. CASE frames[i].type # "INIT"
    <3>1. frames[i].type = "SELECTED" /\ c[i] = c[i - 1] + 1 /\ frames[i].player = room[c[i]]
      BY <1>2, <2>4
    <3>2. c[i] \in 1..c[i]
      <4>1. c[i] \in Nat /\ c[i - 1] \in Nat
        BY <1>0, <1>1, <2>1
      <4>2. QED
        BY <3>1, <4>1
    <3>3. QED
      BY <2>2, <3>1, <3>2
  <2>5. QED
    BY <2>3, <2>4
<1>5. \A o \in 1..c[0] : espn[o] = room'[o]
  BY <1>0, <1>2, <1>3
<1>6. c[0] \in 0..Len(room)
  BY <1>0, <1>1
<1>7. QED
  BY <1>1, <1>2, <1>4, <1>5, <1>6

(* A frame of the whole room, or of its last pick, is followed.            *)
LEMMA FrameIsFollowed ==
  ASSUME IInv, mode # "poll", UNCHANGED <<espn, stage, takebacks>>,
         room' \in Seq(TheDraft.catalog), Len(room) <= Len(room'), Len(room') <= Total,
         \A o \in 1..Len(room) : room'[o] = room[o],
         NEW f \in RecordedFrame, frames' = Append(frames, f),
         \/ f.type = "INIT" /\ f.picks = room'
         \/ /\ f.type = "SELECTED" /\ f.player = room'[Len(room')]
            /\ socket = "tracked" /\ Len(room') = Len(room) + 1
  PROVE  RoomIsFollowed' /\ frames' \in Seq(RecordedFrame)
<1>0. /\ room \in Seq(TheDraft.catalog) /\ Len(room) \in Nat /\ Len(room') \in Nat
      /\ frames \in Seq(RecordedFrame) /\ Len(frames) \in Nat
  BY RoomTyped
<1>1. PICK c \in [0..Len(frames) -> 0..Len(room)] : Continues(c)
  BY RoomTyped
<1>2. /\ c[0] \in 0..Len(room) /\ DOMAIN espn = 1..c[0] /\ \A o \in 1..c[0] : espn[o] = room'[o]
      /\ \A i \in 0..Len(frames) : c[i] \in 0..Len(room) /\ c[i] \in 0..Len(room')
      /\ \A i \in 1..Len(frames) :
           \/ /\ frames[i].type = "INIT"
              /\ DOMAIN frames[i].picks = 1..c[i]
              /\ \A o \in 1..c[i] : frames[i].picks[o] = room'[o]
           \/ /\ frames[i].type = "SELECTED"
              /\ c[i] = c[i - 1] + 1
              /\ frames[i].player = room'[c[i]]
      /\ socket = "tracked" => c[Len(frames)] = Len(room)
  BY <1>0, <1>1, FramesOfRoom
<1>3. /\ frames' \in Seq(RecordedFrame) /\ Len(frames') = Len(frames) + 1
      /\ \A i \in 1..Len(frames) : frames'[i] = frames[i]
      /\ frames'[Len(frames) + 1] = f
  BY <1>0, AppendProperties
<1>4. PICK d : d = [i \in 0..Len(frames') |-> IF i = Len(frames') THEN Len(room') ELSE c[i]]
  OBVIOUS
<1>5. d \in [0..Len(frames') -> 0..Len(room')]
  <2>1. ASSUME NEW i \in 0..Len(frames'), i # Len(frames')
        PROVE  c[i] \in 0..Len(room')
    <3>1. i \in 0..Len(frames)
      BY <1>0, <1>3, <2>1
    <3>2. QED
      BY <1>2, <3>1
  <2>2. Len(room') \in 0..Len(room')
    BY <1>0
  <2>3. QED
    BY <1>4, <2>1, <2>2
<1>6. (\A i \in 0..Len(frames) : d[i] = c[i]) /\ d[Len(frames')] = Len(room')
  BY <1>0, <1>3, <1>4
<1>7. ASSUME NEW i \in 1..Len(frames')
      PROVE  \/ /\ frames'[i].type = "INIT"
                /\ DOMAIN frames'[i].picks = 1..d[i]
                /\ \A o \in 1..d[i] : frames'[i].picks[o] = room'[o]
             \/ /\ frames'[i].type = "SELECTED"
                /\ d[i] = d[i - 1] + 1
                /\ frames'[i].player = room'[d[i]]
  <2>1. CASE i \in 1..Len(frames)
    <3>1. d[i] = c[i] /\ d[i - 1] = c[i - 1]
      BY <1>0, <1>6, <2>1
    <3>2. QED
      BY <1>2, <1>3, <2>1, <3>1
  <2>2. CASE i = Len(frames')
    <3>1. d[i] = Len(room') /\ d[i - 1] = c[Len(frames)] /\ frames'[i] = f
      BY <1>0, <1>3, <1>6, <2>2
    <3>2. CASE f.type = "INIT"
      BY <1>0, <3>1, <3>2
    <3>3. CASE f.type = "SELECTED"
      BY <1>2, <3>1, <3>3
    <3>4. QED
      BY <3>2, <3>3
  <2>3. QED
    BY <1>0, <1>3, <2>1, <2>2
<1>8. Continues(d)'
  <2>1. d[0] = c[0]
    BY <1>0, <1>6
  <2>2. QED
    BY <1>2, <1>6, <1>7, <2>1 DEF Continues
<1>9. takebacks' = 0 /\ stage' # "drafted"
  BY RoomTyped
<1>10. QED
  BY <1>3, <1>5, <1>8, <1>9 DEF RoomIsFollowed

(* So is a room that goes on unheard, or whose socket is gone.             *)
LEMMA UnheardIsFollowed ==
  ASSUME IInv, mode # "poll", UNCHANGED <<espn, stage, takebacks, frames>>, socket' # "tracked",
         room' \in Seq(TheDraft.catalog), Len(room) <= Len(room'), Len(room') <= Total,
         \A o \in 1..Len(room) : room'[o] = room[o]
  PROVE  RoomIsFollowed' /\ frames' \in Seq(RecordedFrame)
<1>0. /\ room \in Seq(TheDraft.catalog) /\ Len(room) \in Nat /\ Len(room') \in Nat
      /\ frames \in Seq(RecordedFrame) /\ Len(frames) \in Nat
  BY RoomTyped
<1>1. PICK c \in [0..Len(frames) -> 0..Len(room)] : Continues(c)
  BY RoomTyped
<1>2. /\ c[0] \in 0..Len(room) /\ DOMAIN espn = 1..c[0] /\ \A o \in 1..c[0] : espn[o] = room'[o]
      /\ \A i \in 0..Len(frames) : c[i] \in 0..Len(room) /\ c[i] \in 0..Len(room')
      /\ \A i \in 1..Len(frames) :
           \/ /\ frames[i].type = "INIT"
              /\ DOMAIN frames[i].picks = 1..c[i]
              /\ \A o \in 1..c[i] : frames[i].picks[o] = room'[o]
           \/ /\ frames[i].type = "SELECTED"
              /\ c[i] = c[i - 1] + 1
              /\ frames[i].player = room'[c[i]]
      /\ socket = "tracked" => c[Len(frames)] = Len(room)
  BY <1>0, <1>1, FramesOfRoom
<1>3. c \in [0..Len(frames') -> 0..Len(room')]
  BY <1>1, <1>2
<1>4. Continues(c)'
  BY <1>2 DEF Continues
<1>5. QED
  BY <1>0, <1>3, <1>4, RoomTyped DEF RoomIsFollowed

(* The room makes a pick; a tracked socket's frame for it comes last.      *)
LEMMA RoomPicksKeepsIInv == IInv /\ mode # "poll" /\ RoomPicks => IInv'
<1> SUFFICES ASSUME IInv, mode # "poll", RoomPicks
             PROVE  IInv'
  OBVIOUS
<1>0. /\ room \in Seq(TheDraft.catalog) /\ Len(room) \in Nat /\ Len(room) < Total /\ Total \in Nat
      /\ frames \in Seq(RecordedFrame) /\ Len(frames) \in Nat
  BY RoomTyped DEF RoomPicks
<1>1. PICK p \in Candidates[Len(room) + 1] :
        /\ room' = Append(room, p)
        /\ UNCHANGED socket
        /\ Record([type |-> "SELECTED", team |-> SlotTeam[Len(room')], player |-> p])
  BY DEF RoomPicks
<1>2. p \in TheDraft.catalog
  <2>1. Len(room) + 1 \in Slots
    BY <1>0 DEF Slots
  <2>2. QED
    BY <2>1, DraftAssumption
<1>3. /\ room' \in Seq(TheDraft.catalog) /\ Len(room') = Len(room) + 1
      /\ \A o \in 1..Len(room) : room'[o] = room[o]
      /\ room'[Len(room) + 1] = p
  BY <1>0, <1>1, <1>2, AppendProperties
<1>4. Len(room) <= Len(room') /\ Len(room') <= Total
  BY <1>0, <1>3
<1> DEFINE f == [type |-> "SELECTED", team |-> SlotTeam[Len(room')], player |-> p]
<1>5. f \in RecordedFrame /\ f.type = "SELECTED" /\ f.player = room'[Len(room')]
  <2>1. Len(room') \in Slots
    BY <1>0, <1>3 DEF Slots
  <2>2. QED
    BY <1>2, <1>3, <2>1 DEF RecordedFrame
<1>6. UNCHANGED <<espn, stage, takebacks, runner, late, session, mode, attached, changed>>
  BY DEF RoomPicks, vars, source
<1>7. RoomIsFollowed' /\ frames' \in Seq(RecordedFrame)
  <2>1. CASE socket = "tracked"
    <3>1. frames' = Append(frames, f)
      BY <1>1, <2>1 DEF Record
    <3> HIDE DEF f
    <3>2. QED
      BY <1>3, <1>4, <1>5, <1>6, <2>1, <3>1, FrameIsFollowed
  <2>2. CASE socket # "tracked"
    <3>1. frames' = frames /\ socket' # "tracked"
      BY <1>1, <2>2 DEF Record
    <3>2. QED
      BY <1>3, <1>4, <1>6, <3>1, UnheardIsFollowed
  <2>3. QED
    BY <2>1, <2>2
<1>8. ~attached' => frames' = <<>> /\ socket' # "tracked"
  BY <1>1, <1>6, RoomTyped DEF Record
<1>9. QED
  BY <1>3, <1>4, <1>6, <1>7, <1>8, RoomTyped, RoomStepKeepsIInv

LEMMA SocketDropsKeepsIInv == IInv /\ mode # "poll" /\ SocketDrops => IInv'
<1> SUFFICES ASSUME IInv, mode # "poll", SocketDrops
             PROVE  IInv'
  OBVIOUS
<1>1. /\ UNCHANGED <<espn, stage, takebacks, runner, late, session, mode, room, attached, frames, changed>>
      /\ socket' # "tracked"
  BY DEF SocketDrops, vars, source
<1>2. RoomIsFollowed' /\ frames' \in Seq(RecordedFrame)
  BY <1>1, RoomTyped, UnheardIsFollowed
<1>3. ~attached' => frames' = <<>> /\ socket' # "tracked"
  BY <1>1, RoomTyped
<1>4. QED
  BY <1>1, <1>2, <1>3, RoomTyped, RoomStepKeepsIInv

(* A new socket's first frame has the whole room.                          *)
LEMMA SocketConnectsKeepsIInv == IInv /\ mode # "poll" /\ SocketConnects => IInv'
<1> SUFFICES ASSUME IInv, mode # "poll", SocketConnects
             PROVE  IInv'
  OBVIOUS
<1>1. UNCHANGED <<espn, stage, takebacks, runner, late, session, mode, room, attached, changed>>
  BY DEF SocketConnects, vars, source
<1> DEFINE f == [type |-> "INIT", picks |-> room]
<1>2. f \in RecordedFrame /\ f.type = "INIT" /\ f.picks = room'
  BY <1>1, RoomTyped DEF RecordedFrame
<1>3. frames' = IF socket' = "tracked" THEN Append(frames, f) ELSE frames
  BY DEF SocketConnects, Record
<1>4. socket' = IF attached THEN "tracked" ELSE "untracked"
  BY DEF SocketConnects
<1> HIDE DEF f
<1>5. RoomIsFollowed' /\ frames' \in Seq(RecordedFrame)
  <2>1. CASE socket' = "tracked"
    BY <1>1, <1>2, <1>3, <2>1, RoomTyped, FrameIsFollowed
  <2>2. CASE socket' # "tracked"
    BY <1>1, <1>3, <2>2, RoomTyped, UnheardIsFollowed
  <2>3. QED
    BY <2>1, <2>2
<1>6. ~attached' => frames' = <<>> /\ socket' # "tracked"
  BY <1>1, <1>3, <1>4, RoomTyped
<1>7. QED
  BY <1>1, <1>5, <1>6, RoomTyped, RoomStepKeepsIInv

(* The local board begins empty, and a socket is not tracked yet.          *)
LEMMA AttachKeepsIInv == IInv /\ mode # "poll" /\ Attach => IInv'
<1> SUFFICES ASSUME IInv, mode # "poll", Attach
             PROVE  IInv'
  OBVIOUS
<1>1. /\ UNCHANGED <<takebacks, runner, late, session, mode, room, frames>>
      /\ attached' = TRUE /\ socket' # "tracked" /\ espn' = Nothing /\ stage' = "live"
      /\ ~attached
  BY DEF Attach, SocketAfterAttach
<1>2. DOMAIN espn' = {}
  BY <1>1 DEF Nothing
<1>3. RoomIsFollowed'
  <2>1. frames' = <<>> /\ Len(frames') = 0
    BY <1>1, RoomTyped
  <2>2. PICK d : d = [i \in 0..0 |-> 0]
    OBVIOUS
  <2>3. 0..0 = {0} /\ 1..0 = {}
    OBVIOUS
  <2>4. 0 \in 0..Len(room') /\ Len(room') <= Total
    BY <1>1, RoomTyped
  <2>5. d \in [0..Len(frames') -> 0..Len(room')] /\ d[0] = 0
    BY <2>1, <2>2, <2>3, <2>4
  <2>6. Continues(d)'
    BY <1>1, <1>2, <2>1, <2>3, <2>5 DEF Continues
  <2>7. QED
    BY <1>1, <2>4, <2>5, <2>6, RoomTyped DEF RoomIsFollowed
<1>4. QED
  BY <1>1, <1>2, <1>3, RoomTyped, RoomStepKeepsIInv

(* The frames that are left continue from the board the first one gave.    *)
LEMMA ReadIsFollowed ==
  ASSUME IInv, mode # "poll", frames # <<>>, frames' = Tail(frames),
         UNCHANGED <<stage, takebacks, room, socket>>,
         NEW c \in [0..Len(frames) -> 0..Len(room)], Continues(c),
         DOMAIN espn' = 1..c[1], \A o \in 1..c[1] : espn'[o] = room[o]
  PROVE  RoomIsFollowed' /\ frames' \in Seq(RecordedFrame) /\ DOMAIN espn' \subseteq Slots
<1>0. /\ frames \in Seq(RecordedFrame) /\ Len(frames) \in Nat \ {0}
      /\ Len(room) \in 0..Total /\ Total \in Nat
  BY RoomTyped, EmptySeq
<1>1. /\ frames' \in Seq(RecordedFrame) /\ Len(frames') = Len(frames) - 1
      /\ \A i \in 1..Len(frames') : frames'[i] = frames[i + 1]
  BY <1>0, HeadTailProperties
<1>2. PICK d : d = [i \in 0..Len(frames') |-> c[i + 1]]
  OBVIOUS
<1>3. \A i \in 0..Len(frames') : i + 1 \in 0..Len(frames) /\ d[i] = c[i + 1]
  BY <1>0, <1>1, <1>2
<1>4. d \in [0..Len(frames') -> 0..Len(room')]
  BY <1>2, <1>3
<1>5. \A i \in 1..Len(frames) :
           \/ /\ frames[i].type = "INIT"
              /\ DOMAIN frames[i].picks = 1..c[i]
              /\ \A o \in 1..c[i] : frames[i].picks[o] = room[o]
           \/ /\ frames[i].type = "SELECTED"
              /\ c[i] = c[i - 1] + 1
              /\ frames[i].player = room[c[i]]
  BY DEF Continues
<1>6. ASSUME NEW i \in 1..Len(frames')
      PROVE  \/ /\ frames'[i].type = "INIT"
                /\ DOMAIN frames'[i].picks = 1..d[i]
                /\ \A o \in 1..d[i] : frames'[i].picks[o] = room'[o]
             \/ /\ frames'[i].type = "SELECTED"
                /\ d[i] = d[i - 1] + 1
                /\ frames'[i].player = room'[d[i]]
  <2>1. i + 1 \in 1..Len(frames) /\ i \in 0..Len(frames') /\ i - 1 \in 0..Len(frames')
    BY <1>0, <1>1
  <2>2. d[i] = c[i + 1] /\ d[i - 1] = c[(i + 1) - 1] /\ frames'[i] = frames[i + 1]
    BY <1>1, <1>3, <2>1
  <2>3. QED
    BY <1>5, <2>1, <2>2
<1>7. 0 \in 0..Len(frames') /\ d[0] = c[1]
  BY <1>0, <1>1, <1>3
<1>8. socket' = "tracked" => d[Len(frames')] = Len(room')
  <2>1. Len(frames') \in 0..Len(frames') /\ Len(frames') + 1 = Len(frames)
    BY <1>0, <1>1
  <2>2. QED
    BY <1>3, <2>1 DEF Continues
<1>9. Continues(d)'
  BY <1>6, <1>7, <1>8 DEF Continues
<1>10. RoomIsFollowed'
  BY <1>4, <1>9, RoomTyped DEF RoomIsFollowed
<1>11. DOMAIN espn' \subseteq Slots
  <2>1. c[1] \in 0..Len(room)
    BY <1>0
  <2>2. QED
    BY <1>0, <2>1 DEF Slots
<1>12. QED
  BY <1>1, <1>10, <1>11

LEMMA ReadInitKeepsIInv == IInv /\ mode # "poll" /\ ReadInit => IInv'
<1> SUFFICES ASSUME IInv, mode # "poll", ReadInit
             PROVE  IInv'
  OBVIOUS
<1>1. /\ UNCHANGED <<stage, takebacks, runner, late, session, mode, room, socket, attached>>
      /\ frames # <<>> /\ frames' = Tail(frames) /\ Head(frames).type = "INIT"
      /\ espn' = Prefix(Head(frames).picks) /\ attached
  BY DEF ReadInit, Reads
<1>2. PICK c \in [0..Len(frames) -> 0..Len(room)] : Continues(c)
  BY RoomTyped
<1>3. Len(frames) \in Nat \ {0} /\ frames \in Seq(RecordedFrame)
  BY <1>1, RoomTyped, EmptySeq
<1>4. Head(frames) = frames[1]
  BY <1>1, <1>3
<1>5. DOMAIN frames[1].picks = 1..c[1] /\ \A o \in 1..c[1] : frames[1].picks[o] = room[o]
  <2>1. 1 \in 1..Len(frames) /\ frames[1].type # "SELECTED"
    BY <1>1, <1>3, <1>4
  <2>2. QED
    BY <1>2, <2>1 DEF Continues
<1>6. DOMAIN espn' = 1..c[1] /\ \A o \in 1..c[1] : espn'[o] = room[o]
  BY <1>1, <1>4, <1>5 DEF Prefix
<1>7. RoomIsFollowed' /\ frames' \in Seq(RecordedFrame) /\ DOMAIN espn' \subseteq Slots
  BY <1>1, <1>2, <1>6, ReadIsFollowed
<1>8. QED
  BY <1>1, <1>7, RoomTyped, RoomStepKeepsIInv

(* The number of picks is that of the last one, so the next has its number.*)
LEMMA ReadSelectedKeepsIInv == IInv /\ mode # "poll" /\ ReadSelected => IInv'
<1> SUFFICES ASSUME IInv, mode # "poll", ReadSelected
             PROVE  IInv'
  OBVIOUS
<1> DEFINE overall == Cardinality(DOMAIN espn) + 1
<1>1. /\ UNCHANGED <<stage, takebacks, runner, late, session, mode, room, socket, attached>>
      /\ frames # <<>> /\ frames' = Tail(frames) /\ Head(frames).type = "SELECTED" /\ attached
      /\ espn' = [o \in DOMAIN espn \cup {overall} |->
                    IF o = overall THEN Head(frames).player ELSE espn[o]]
  BY DEF ReadSelected, Reads
<1>2. PICK c \in [0..Len(frames) -> 0..Len(room)] : Continues(c)
  BY RoomTyped
<1>3. Len(frames) \in Nat \ {0} /\ frames \in Seq(RecordedFrame) /\ Len(room) \in Nat
  BY <1>1, RoomTyped, EmptySeq
<1>4. Head(frames) = frames[1]
  BY <1>1, <1>3
<1>5. c[1] = c[0] + 1 /\ frames[1].player = room[c[1]]
  <2>1. 1 \in 1..Len(frames) /\ frames[1].type # "INIT" /\ 1 - 1 = 0
    BY <1>1, <1>3, <1>4
  <2>2. c[1] = c[1 - 1] + 1 /\ frames[1].player = room[c[1]]
    BY <1>2, <2>1 DEF Continues
  <2>3. QED
    BY <2>1, <2>2
<1>6. c[0] \in Nat /\ DOMAIN espn = 1..c[0] /\ \A o \in 1..c[0] : espn[o] = room[o]
  <2>1. 0 \in 0..Len(frames)
    BY <1>3
  <2>2. c[0] \in 0..Len(room)
    BY <1>2, <2>1
  <2>3. QED
    BY <1>2, <1>3, <2>2 DEF Continues
<1>7. overall = c[1]
  <2>1. Cardinality(1..c[0]) = c[0]
    BY <1>6, FS_Interval
  <2>2. QED
    BY <1>5, <1>6, <2>1
<1> HIDE DEF overall
<1>8. 1..c[0] \cup {c[1]} = 1..c[1] /\ c[1] \notin 1..c[0]
  BY <1>5, <1>6
<1>9. DOMAIN espn' = 1..c[1] /\ \A o \in 1..c[1] : espn'[o] = room[o]
  BY <1>1, <1>4, <1>5, <1>6, <1>7, <1>8
<1>10. RoomIsFollowed' /\ frames' \in Seq(RecordedFrame) /\ DOMAIN espn' \subseteq Slots
  BY <1>1, <1>2, <1>9, ReadIsFollowed
<1>11. QED
  BY <1>1, <1>10, RoomTyped, RoomStepKeepsIInv

(* The runner's steps leave ESPN alone; when its process ends, so do the   *)
(* debugger session and the local board's frames.                          *)
LEMMA SourceStays ==
  ASSUME IInv, UNCHANGED <<source, mode, room>>,
         \/ UNCHANGED <<socket, attached, frames>>
         \/ mode # "poll" /\ DebuggerAfter
  PROVE  SourceInv' /\ UNCHANGED <<stage, takebacks, Truth>>
<1>1. UNCHANGED <<espn, stage, takebacks, mode, room>>
  BY DEF source
<1>2. UNCHANGED Truth
  BY <1>1 DEF Truth, Prefix
<1>3. CASE UNCHANGED <<socket, attached, frames>>
  <2>1. ASSUME NEW c, Continues(c)
        PROVE  Continues(c)'
    BY <1>1, <1>3, <2>1 DEF Continues
  <2>2. RoomIsFollowed => RoomIsFollowed'
    <3> SUFFICES ASSUME RoomIsFollowed
                 PROVE  RoomIsFollowed'
      OBVIOUS
    <3>1. PICK c \in [0..Len(frames) -> 0..Len(room)] : Continues(c)
      BY DEF RoomIsFollowed
    <3>2. Continues(c)' /\ c \in [0..Len(frames') -> 0..Len(room')]
      BY <1>1, <1>3, <2>1, <3>1
    <3>3. QED
      BY <1>1, <3>2 DEF RoomIsFollowed
  <2>3. QED
    <3>1. (DOMAIN espn \subseteq Slots)'
      BY <1>1 DEF IInv, SourceInv
    <3>2. (frames \in Seq(RecordedFrame))'
      BY <1>3 DEF IInv, SourceInv
    <3>3. (mode = "poll" => ~attached)'
      BY <1>1, <1>3 DEF IInv, SourceInv
    <3>4. (~attached => frames = <<>> /\ socket # "tracked")'
      BY <1>3 DEF IInv, SourceInv
    <3>5. (mode # "poll" => RoomIsFollowed)'
      BY <1>1, <2>2 DEF IInv, SourceInv
    <3>6. QED
      BY <1>1, <1>2, <3>1, <3>2, <3>3, <3>4, <3>5 DEF SourceInv
<1>4. CASE mode # "poll" /\ DebuggerAfter
  <2>0. /\ frames' = IF attached' THEN frames ELSE <<>>
        /\ socket' = IF socket = "tracked" /\ ~attached' THEN "untracked" ELSE socket
        /\ attached' => attached
        /\ mode' # "poll" /\ DOMAIN espn' \subseteq Slots
    BY <1>1, <1>4, RoomTyped DEF DebuggerAfter
  <2>1. PICK c \in [0..Len(frames) -> 0..Len(room)] : Continues(c)
    BY <1>4, RoomTyped
  <2>2. CASE attached'
    <3>1. UNCHANGED <<socket, frames>> /\ frames \in Seq(RecordedFrame)
      BY <1>4, <2>0, <2>2, RoomTyped
    <3>2. Continues(c)'
      BY <1>1, <2>1, <3>1 DEF Continues
    <3>3. RoomIsFollowed'
      BY <1>1, <1>4, <2>1, <3>1, <3>2, RoomTyped DEF RoomIsFollowed
    <3>4. QED
      BY <2>0, <2>2, <3>1, <3>3 DEF SourceInv
  <2>3. CASE ~attached'
    <3>1. frames' = <<>> /\ socket' # "tracked" /\ Len(frames') = 0
      BY <2>0, <2>3
    <3>2. Len(frames) \in Nat /\ 0 \in 0..Len(frames) /\ 0..0 = {0} /\ 1..0 = {}
      BY <1>4, RoomTyped
    <3>3. c[0] \in 0..Len(room)
      BY <2>1, <3>2
    <3>4. PICK d : d = [i \in 0..0 |-> c[0]]
      OBVIOUS
    <3>5. d \in [0..Len(frames') -> 0..Len(room')] /\ d[0] = c[0]
      BY <1>1, <3>1, <3>2, <3>3, <3>4
    <3>6. Continues(d)'
      BY <1>1, <2>1, <3>1, <3>2, <3>5 DEF Continues
    <3>7. RoomIsFollowed'
      BY <1>1, <1>4, <3>5, <3>6, RoomTyped DEF RoomIsFollowed
    <3>8. frames' \in Seq(RecordedFrame)
      BY <3>1
    <3>9. QED
      <4>1. (DOMAIN espn \subseteq Slots)'
        BY <2>0
      <4>2. (frames \in Seq(RecordedFrame))'
        BY <3>8
      <4>3. (mode = "poll" => ~attached)'
        BY <2>0
      <4>4. (~attached => frames = <<>> /\ socket # "tracked")'
        BY <3>1
      <4>5. QED
        BY <4>1, <4>2, <4>3, <4>4, <3>7 DEF SourceInv
  <2>4. QED
    BY <2>2, <2>3
<1>5. QED
  BY <1>1, <1>2, <1>3, <1>4
-----------------------------------------------------------------------------
(* The runner.                                                             *)

(* What ESPN shows, and what is left of the invariant in a runner's step.  *)
Rest == Control /\ RunnerInv /\ SessionInv /\ LateInv /\ AckedInv

Quiet == UNCHANGED <<source, mode, Truth>>

LEMMA SessionStays ==
  ASSUME SessionInv, UNCHANGED <<stage, takebacks, Truth, board, cursor, disputed>>
  PROVE  SessionInv'
BY DEF SessionInv, TrueRow, LastOf

LEMMA LateStays ==
  ASSUME LateInv, UNCHANGED <<stage, takebacks, Truth>>,
         \A e \in late' : e \in late \/ Sound(e)
  PROVE  LateInv'
BY DEF LateInv, Sound, TrueRow, LastOf

(* A run that ends forgets its snapshot, and its checkpoint stays stored.  *)
LEMMA DeathKeepsRunner ==
  ASSUME RunnerInv, AckedInv, UNCHANGED <<stage, takebacks, Truth>>, Dies,
         saved' = saved \/ (pc = "checkpoint" /\ saved' = snap),
         board \subseteq board', resets' = resets
  PROVE  RunnerInv' /\ AckedInv'
<1>1. pc' = "down" /\ parts' = <<>> /\ snap' = Nothing /\ DOMAIN snap' = {} /\ Len(parts') = 0
  BY DEF Dies, Nothing
<1>2. parts' \in Seq(Part) /\ 1..0 = {}
  BY <1>1
<1>3. takebacks' = 0 => Agrees(snap)' /\ Agrees(saved)'
  BY <1>1 DEF RunnerInv, Agrees
<1>4. RunnerInv'
  BY <1>1, <1>2, <1>3 DEF RunnerInv
<1>5. resets' = 0 => \A o \in DOMAIN saved' : Stored(o, saved[o])'
  BY DEF AckedInv, Stored
<1>6. AckedInv'
  BY <1>1, <1>5 DEF AckedInv
<1>7. QED
  BY <1>4, <1>6

(* A run that goes on holds on to what it has, while the session grows.    *)
LEMMA SurvivalKeepsRunner ==
  ASSUME RunnerInv, AckedInv, SessionInv, SessionInv', UNCHANGED <<stage, takebacks, Truth>>,
         UNCHANGED <<snap, snapPhase, parts, saved>>,
         pc' = pc \/ (pc \in {"down", "initialize"} /\ pc' \in {"initialize", "poll"}),
         board \subseteq board', cursor <= cursor', resets' = resets
  PROVE  RunnerInv' /\ AckedInv'
<1>1. takebacks' = 0 => Agrees(snap)' /\ Agrees(saved)'
  BY DEF RunnerInv, Agrees
<1>2. stage' # "drafted" /\ takebacks' = 0 =>
        \A i \in 1..Len(parts') : parts'[i].cursor <= LastOf(DOMAIN Truth)'
  BY DEF RunnerInv, LastOf
<1>3. RunnerInv'
  BY <1>1, <1>2 DEF RunnerInv
<1>4. \A o, p : Stored(o, p) => Stored(o, p)'
  BY DEF Stored
<1>5. cursor = Total => cursor' = Total
  BY DraftAssumption DEF SessionInv
<1>6. AckedInv'
  BY <1>4, <1>5 DEF AckedInv
<1>7. QED
  BY <1>3, <1>6

(* Every request to come is sound: its events are of the snapshot.         *)
LEMMA EnvelopeIsSound ==
  ASSUME RunnerInv, pc = "deliver"
  PROVE  /\ parts # <<>> /\ Len(parts) \in Nat \ {0} /\ Head(parts) = parts[1]
         /\ Head(parts) \in Part
         /\ Head(parts).slots \subseteq DOMAIN snap /\ DOMAIN snap \subseteq Slots
         /\ Envelope(Head(parts)).cursor = Head(parts).cursor
         /\ \A o \in Head(parts).slots : Event(o) \in Envelope(Head(parts)).events
         /\ Sound(Envelope(Head(parts)))
<1>1. parts # <<>> /\ parts \in Seq(Part) /\ Len(parts) \in Nat \ {0} /\ Head(parts) = parts[1]
  <2>1. parts # <<>> /\ parts \in Seq(Part)
    BY DEF RunnerInv
  <2>2. QED
    BY <2>1, EmptySeq
<1>2. Head(parts) \in Part /\ 1 \in 1..Len(parts)
  BY <1>1, ElementOfSeq
<1>3. Head(parts).slots \subseteq DOMAIN snap /\ DOMAIN snap \subseteq Slots
  BY <1>1, <1>2 DEF RunnerInv
<1> DEFINE e == Envelope(Head(parts))
<1>4. e.cursor = Head(parts).cursor /\ e.events = {Event(o) : o \in Head(parts).slots}
  BY DEF Envelope
<1> HIDE DEF e
<1>5. e.cursor \in 0..Total
  BY <1>2, <1>4 DEF Part
<1>6. \A o : Event(o).overall = o
  BY DEF Event
<1>7. \A ev \in e.events : ev.overall \in Slots
  BY <1>3, <1>4, <1>6
<1>8. ASSUME takebacks = 0, NEW o \in Head(parts).slots
      PROVE  TrueRow(Event(o))
  <2>1. o \in DOMAIN Truth /\ snap[o] = Truth[o]
    BY <1>3, <1>8 DEF RunnerInv, Agrees
  <2>2. Event(o) = [overall |-> o, team |-> SlotTeam[o], player |-> Truth[o],
                    eventId |-> <<o, Truth[o], 0>>]
    BY <2>1 DEF Event, EventId
  <2>3. QED
    BY <1>6, <2>1, <2>2 DEF TrueRow
<1>9. stage # "drafted" /\ takebacks = 0 => e.cursor <= LastOf(DOMAIN Truth)
  BY <1>1, <1>2, <1>4 DEF RunnerInv
<1>10. Sound(e)
  BY <1>4, <1>5, <1>7, <1>8, <1>9 DEF Sound
<1>11. QED
  BY <1>1, <1>2, <1>3, <1>4, <1>10 DEF e
-----------------------------------------------------------------------------
(* A process starts and ends.                                              *)

LEMMA StartKeepsRest == IInv /\ Quiet /\ Start => Rest'
<1> SUFFICES ASSUME IInv, Quiet, Start
             PROVE  Rest'
  OBVIOUS
<1>1. /\ UNCHANGED <<stage, takebacks, mode, Truth, snap, snapPhase, parts, saved, late>>
      /\ UNCHANGED <<opened, resets, board, cursor, phase, disputed>>
      /\ pc = "down" /\ pc' = "initialize"
  BY DEF Quiet, Start, source, session
<1>2. cursor <= cursor' /\ board \subseteq board'
  BY <1>1, DraftAssumption DEF IInv, SessionInv
<1>3. SessionInv'
  BY <1>1, SessionStays DEF IInv
<1>4. LateInv'
  BY <1>1, LateStays DEF IInv
<1>5. RunnerInv' /\ AckedInv'
  BY <1>1, <1>2, <1>3, SurvivalKeepsRunner DEF IInv
<1>6. Control'
  BY <1>1 DEF IInv, Control
<1>7. QED
  BY <1>3, <1>4, <1>5, <1>6 DEF Rest

(* A run that ends on its own or is killed, whatever the session took.     *)
LEMMA DeathKeepsRest ==
  ASSUME IInv, Quiet, Dies, saved' = saved \/ (pc = "checkpoint" /\ saved' = snap),
         SessionInv', LateInv', board \subseteq board', resets' = resets
  PROVE  Rest'
<1>1. UNCHANGED <<stage, takebacks, mode, Truth>>
  BY DEF Quiet, source
<1>2. RunnerInv' /\ AckedInv'
  BY <1>1, DeathKeepsRunner DEF IInv
<1>3. Control'
  BY <1>1 DEF IInv, Control, Dies
<1>4. QED
  BY <1>2, <1>3 DEF Rest

LEMMA IdleKeepsSession ==
  ASSUME IInv, Quiet, UNCHANGED <<board, cursor, disputed, resets, late>>
  PROVE  SessionInv' /\ LateInv' /\ board \subseteq board' /\ cursor <= cursor' /\ resets' = resets
<1>1. UNCHANGED <<stage, takebacks, mode, Truth>>
  BY DEF Quiet, source
<1>2. SessionInv' /\ LateInv'
  BY <1>1, SessionStays, LateStays DEF IInv
<1>3. cursor <= cursor'
  BY DraftAssumption DEF IInv, SessionInv
<1>4. QED
  BY <1>2, <1>3

LEMMA EndingsKeepRest ==
  IInv /\ Quiet
    /\ (Crash \/ PollCorrected \/ CheckpointFails
        \/ (Fails /\ UNCHANGED <<source, saved, late, session>>))
  => Rest'
<1> SUFFICES ASSUME IInv, Quiet,
                    Crash \/ PollCorrected \/ CheckpointFails
                      \/ (Fails /\ UNCHANGED <<source, saved, late, session>>)
             PROVE  Rest'
  OBVIOUS
<1>1. Dies /\ UNCHANGED <<late, session>> /\ (saved' = saved \/ (pc = "checkpoint" /\ saved' = snap))
  BY DEF Crash, PollCorrected, CheckpointFails, Fails
<1>2. UNCHANGED <<board, cursor, disputed, resets, late>>
  BY <1>1 DEF session
<1>3. SessionInv' /\ LateInv' /\ board \subseteq board' /\ cursor <= cursor' /\ resets' = resets
  BY <1>2, IdleKeepsSession
<1>4. QED
  BY <1>1, <1>3, DeathKeepsRest

(* A run goes on with what it has, and a later place in run.               *)
LEMMA SurvivalKeepsRest ==
  ASSUME IInv, Quiet, UNCHANGED <<snap, snapPhase, parts, saved>>,
         pc' = pc \/ (pc \in {"down", "initialize"} /\ pc' \in {"initialize", "poll"}),
         SessionInv', LateInv', board \subseteq board', cursor <= cursor', resets' = resets
  PROVE  Rest'
<1>1. UNCHANGED <<stage, takebacks, mode, Truth>>
  BY DEF Quiet, source
<1>2. RunnerInv' /\ AckedInv'
  BY <1>1, SurvivalKeepsRunner DEF IInv
<1>3. Control'
  BY <1>1 DEF IInv, Control
<1>4. QED
  BY <1>2, <1>3 DEF Rest

LEMMA InitializedKeepsRest == IInv /\ Quiet /\ (Initialized \/ InitializeUnanswered) => Rest'
<1> SUFFICES ASSUME IInv, Quiet, Initialized \/ InitializeUnanswered
             PROVE  Rest'
  OBVIOUS
<1>1. UNCHANGED <<board, cursor, disputed, resets, late>> /\ saved' = saved
  BY DEF Initialized, InitializeUnanswered, OpenSession, session
<1>2. SessionInv' /\ LateInv' /\ board \subseteq board' /\ cursor <= cursor' /\ resets' = resets
  BY <1>1, IdleKeepsSession
<1>3. CASE Dies
  BY <1>1, <1>2, <1>3, DeathKeepsRest
<1>4. CASE ~Dies
  <2>1. /\ UNCHANGED <<snap, snapPhase, parts, saved>>
        /\ pc' = pc \/ (pc \in {"down", "initialize"} /\ pc' \in {"initialize", "poll"})
    BY <1>4 DEF Initialized, InitializeUnanswered, Fails, Survives
  <2>2. QED
    BY <1>2, <2>1, SurvivalKeepsRest
<1>5. QED
  BY <1>3, <1>4

(* No answer: the request is committed, lost, or on its way.               *)
LEMMA UnansweredKeepsRest == IInv /\ Quiet /\ Unanswered => Rest'
<1> SUFFICES ASSUME IInv, Quiet, Unanswered
             PROVE  Rest'
  OBVIOUS
<1> DEFINE e == Envelope(Head(parts))
<1>0. UNCHANGED <<stage, takebacks, mode, Truth>>
  BY DEF Quiet, source
<1>1. Sound(e)
  BY EnvelopeIsSound DEF Unanswered, IInv
<1>2. /\ \/ SessionCommit(e) /\ UNCHANGED late
         \/ UNCHANGED <<session, late>>
         \/ late' = late \cup {e} /\ UNCHANGED session
      /\ Fails \/ Survives
      /\ saved' = saved
  BY DEF Unanswered
<1> HIDE DEF e
<1>3. LateInv'
  <2>1. \A x \in late' : x \in late \/ Sound(x)
    BY <1>1, <1>2
  <2>2. QED
    BY <1>0, <2>1, LateStays DEF IInv
<1>4. SessionInv' /\ board \subseteq board' /\ cursor <= cursor' /\ resets' = resets
  <2>1. CASE SessionCommit(e)
    BY <1>0, <1>1, <2>1, RequestKeepsSession DEF IInv
  <2>2. CASE UNCHANGED session
    <3>1. UNCHANGED <<board, cursor, disputed, resets>>
      BY <2>2 DEF session
    <3>2. SessionInv'
      BY <1>0, <3>1, SessionStays DEF IInv
    <3>3. cursor <= cursor'
      BY <3>1, DraftAssumption DEF IInv, SessionInv
    <3>4. QED
      BY <3>1, <3>2, <3>3
  <2>3. QED
    BY <1>2, <2>1, <2>2
<1>5. CASE Fails
  BY <1>2, <1>3, <1>4, <1>5, DeathKeepsRest DEF Fails
<1>6. CASE Survives
  <2>1. UNCHANGED <<snap, snapPhase, parts, saved, pc>>
    BY <1>2, <1>6 DEF Survives
  <2>2. QED
    BY <1>3, <1>4, <2>1, SurvivalKeepsRest
<1>7. QED
  BY <1>2, <1>5, <1>6

LEMMA RefusedKeepsRest == IInv /\ Quiet /\ (NotClosed \/ Refused) => Rest'
<1> SUFFICES ASSUME IInv, Quiet, NotClosed \/ Refused
             PROVE  Rest'
  OBVIOUS
<1> DEFINE e == Envelope(Head(parts))
<1>0. UNCHANGED <<stage, takebacks, mode, Truth>>
  BY DEF Quiet, source
<1>1. Sound(e)
  BY EnvelopeIsSound DEF NotClosed, Refused, IInv
<1>2. (SessionCommit(e) \/ SessionRefusal(e)) /\ Dies /\ saved' = saved /\ late' = late
  BY DEF NotClosed, Refused
<1> HIDE DEF e
<1>3. LateInv'
  BY <1>0, <1>2, LateStays DEF IInv
<1>4. SessionInv' /\ board \subseteq board' /\ resets' = resets
  BY <1>0, <1>1, <1>2, RequestKeepsSession DEF IInv
<1>5. QED
  BY <1>2, <1>3, <1>4, DeathKeepsRest

LEMMA LateArrivesKeepsRest == IInv /\ Quiet /\ LateArrives => Rest'
<1> SUFFICES ASSUME IInv, Quiet, LateArrives
             PROVE  Rest'
  OBVIOUS
<1>0. UNCHANGED <<stage, takebacks, mode, Truth>>
  BY DEF Quiet, source
<1>1. PICK e \in late : late' = late \ {e} /\ (SessionCommit(e) \/ SessionRefusal(e)) /\ UNCHANGED runner
  BY DEF LateArrives
<1>2. Sound(e)
  BY DEF IInv, LateInv
<1>3. LateInv'
  BY <1>0, <1>1, LateStays DEF IInv
<1>4. SessionInv' /\ board \subseteq board' /\ cursor <= cursor' /\ resets' = resets
  BY <1>0, <1>1, <1>2, RequestKeepsSession DEF IInv
<1>5. UNCHANGED <<snap, snapPhase, parts, saved, pc>>
  BY <1>1 DEF runner
<1>6. QED
  BY <1>3, <1>4, <1>5, SurvivalKeepsRest

(* The session is emptied; nothing was promised of a reset one.            *)
LEMMA SessionResetKeepsRest == IInv /\ Quiet /\ SessionReset => Rest'
<1> SUFFICES ASSUME IInv, Quiet, SessionReset
             PROVE  Rest'
  OBVIOUS
<1>0. UNCHANGED <<stage, takebacks, mode, Truth, pc, snap, snapPhase, parts, saved, late>>
  BY DEF Quiet, source, SessionReset, runner
<1>1. resets' = resets + 1 /\ board' = {} /\ cursor' = 0 /\ disputed' = FALSE
  BY DEF SessionReset
<1>2. resets \in Nat /\ resets' \in Nat /\ resets' # 0
  BY <1>1 DEF IInv, Control
<1>3. Control'
  BY <1>0, <1>2 DEF IInv, Control
<1>4. LateInv'
  BY <1>0, LateStays DEF IInv
<1>5. SessionInv'
  <2>1. 0 \in 0..Total
    BY DraftAssumption
  <2>2. LastOf(DOMAIN Truth)' \in 0..Total
    <3>1. LastOf(DOMAIN Truth) \in 0..Total
      BY TruthInDraft, LastOfFacts DEF IInv
    <3>2. QED
      BY <1>0, <3>1 DEF LastOf
  <2>3. cursor' <= LastOf(DOMAIN Truth)'
    BY <1>1, <2>2, DraftAssumption
  <2>4. QED
    BY <1>1, <2>1, <2>3 DEF SessionInv
<1>6. AckedInv'
  BY <1>2 DEF AckedInv
<1>7. RunnerInv'
  <2>1. takebacks' = 0 => Agrees(snap)' /\ Agrees(saved)'
    BY <1>0 DEF IInv, RunnerInv, Agrees
  <2>2. stage' # "drafted" /\ takebacks' = 0 =>
          \A i \in 1..Len(parts') : parts'[i].cursor <= LastOf(DOMAIN Truth)'
    BY <1>0 DEF IInv, RunnerInv, LastOf
  <2>3. QED
    BY <1>0, <2>1, <2>2 DEF IInv, RunnerInv
<1>8. QED
  BY <1>3, <1>4, <1>5, <1>6, <1>7 DEF Rest-----------------------------------------------------------------------------
(* A batch: polled, acknowledged part by part, and checkpointed.           *)

(* The cursor of a batch: no pick of the board is beyond it.               *)
LEMMA BatchCursorFacts ==
  ASSUME Control, SourceInv
  PROVE  /\ BatchCursor \in 0..Total
         /\ \A o \in DOMAIN espn : o <= BatchCursor
         /\ EspnPhase = "complete" => BatchCursor = Total
         /\ stage # "drafted" => BatchCursor <= LastOf(DOMAIN Truth)
<1>0. Total \in Nat /\ DOMAIN espn \in SUBSET Slots
  BY DraftAssumption DEF SourceInv
<1>1. LastOf(DOMAIN espn) \in 0..Total /\ \A o \in DOMAIN espn : o <= LastOf(DOMAIN espn)
  BY <1>0, LastOfFacts
<1>2. DOMAIN Truth \in SUBSET Slots /\ DOMAIN espn \in SUBSET DOMAIN Truth
  BY TruthInDraft
<1>3. LastOf(DOMAIN espn) <= LastOf(DOMAIN Truth)
  BY <1>2, LastOfGrows
<1>4. \A o \in DOMAIN espn : o <= Total
  BY <1>0 DEF Slots
<1>5. stage # "drafted" /\ EspnPhase = "complete" => LastOf(DOMAIN Truth) = Total
  <2>1. stage # "drafted" /\ EspnPhase = "complete" => DOMAIN espn = Slots
    BY DEF Control, EspnPhase
  <2>2. QED
    BY <1>2, <2>1, LastOfSlots
<1>6. CASE EspnPhase = "complete"
  BY <1>0, <1>4, <1>5, <1>6 DEF BatchCursor
<1>7. CASE EspnPhase # "complete"
  BY <1>1, <1>3, <1>7 DEF BatchCursor
<1>8. QED
  BY <1>6, <1>7

(* A saved pick is stored and unchanged, any other is in a part.           *)
LEMMA PollKeepsRest == IInv /\ Quiet /\ Poll => Rest'
<1> SUFFICES ASSUME IInv, Quiet, Poll
             PROVE  Rest'
  OBVIOUS
<1>0. /\ UNCHANGED <<stage, takebacks, mode, Truth, saved, late>>
      /\ UNCHANGED <<board, cursor, disputed, resets>>
      /\ pc = "poll" /\ pc' = "deliver" /\ snap' = espn /\ snapPhase' = EspnPhase
      /\ parts' = Split(Inserted, BatchCursor, "first", "first")
  BY DEF Quiet, source, session, Poll
<1>1. SessionInv' /\ LateInv'
  BY <1>0, IdleKeepsSession
<1>2. Control'
  BY <1>0 DEF IInv, Control
<1>3. /\ BatchCursor \in 0..Total /\ \A o \in DOMAIN espn : o <= BatchCursor
      /\ EspnPhase = "complete" => BatchCursor = Total
      /\ stage # "drafted" => BatchCursor <= LastOf(DOMAIN Truth)
  BY BatchCursorFacts DEF IInv
<1>4. DOMAIN Truth \in SUBSET Slots /\ DOMAIN espn \in SUBSET DOMAIN Truth /\ Agrees(espn)
  BY TruthInDraft DEF IInv
<1>5. Inserted \in SUBSET DOMAIN espn /\ Inserted \in SUBSET Slots /\ Inserted \in SUBSET DOMAIN Truth
  BY <1>4 DEF Inserted
<1>6. "first" \in Roles
  BY DEF Roles
<1>7. /\ parts' \in Seq(Part)
      /\ Len(parts') >= 1
      /\ parts'[Len(parts')].role = "first" /\ parts'[Len(parts')].cursor = BatchCursor
      /\ \A i \in 1..Len(parts') : parts'[i].slots \subseteq Inserted
      /\ \A i \in 1..Len(parts') : parts'[i].cursor <= BatchCursor \/ parts'[i].cursor <= LastOf(Inserted)
      /\ \A o \in Inserted : \E i \in 1..Len(parts') : o \in parts'[i].slots
  <2>1. ASSUME NEW S \in SUBSET Slots, NEW full \in 0..Total, NEW role \in Roles,
               parts' = Split(S, full, role, role)
        PROVE  /\ parts' \in Seq(Part)
               /\ Len(parts') >= 1
               /\ parts'[Len(parts')].role = role /\ parts'[Len(parts')].cursor = full
               /\ \A i \in 1..Len(parts') : parts'[i].slots \subseteq S
               /\ \A i \in 1..Len(parts') : parts'[i].cursor <= full \/ parts'[i].cursor <= LastOf(S)
               /\ \A o \in S : \E i \in 1..Len(parts') : o \in parts'[i].slots
    <3> DEFINE q == Split(S, full, role, role)
    <3>1. /\ q \in Seq(Part)
          /\ Len(q) >= 1
          /\ q[Len(q)].role = role /\ q[Len(q)].cursor = full
          /\ \A i \in 1..Len(q) : q[i].slots \subseteq S
          /\ \A i \in 1..Len(q) : q[i].cursor <= full \/ q[i].cursor <= LastOf(S)
          /\ \A o \in S : \E i \in 1..Len(q) : o \in q[i].slots
      BY SplitFacts
    <3>2. q = parts'
      BY <2>1
    <3> HIDE DEF q
    <3>3. QED
      BY <3>1, <3>2
  <2>2. PICK S \in SUBSET Slots, full \in 0..Total, role \in Roles :
          S = Inserted /\ full = BatchCursor /\ role = "first"
    BY <1>3, <1>5, <1>6
  <2>3. parts' = Split(S, full, role, role)
    BY <1>0, <2>2
  <2>4. QED
    BY <2>1, <2>2, <2>3
<1>8. parts' # <<>>
  BY <1>7
<1>9. LastOf(Inserted) <= LastOf(DOMAIN Truth) /\ LastOf(Inserted) \in 0..Total
      /\ LastOf(DOMAIN Truth) \in 0..Total
  BY <1>4, <1>5, LastOfGrows, LastOfFacts
<1>10. stage' # "drafted" =>
         \A i \in 1..Len(parts') : parts'[i].cursor <= LastOf(DOMAIN Truth)'
  <2> SUFFICES ASSUME stage # "drafted", NEW i \in 1..Len(parts')
               PROVE  parts'[i].cursor <= LastOf(DOMAIN Truth)
    BY <1>0 DEF LastOf
  <2>1. parts'[i] \in Part
    BY <1>7, ElementOfSeq
  <2>2. parts'[i].cursor \in Int /\ BatchCursor \in Int /\ LastOf(Inserted) \in Int
        /\ LastOf(DOMAIN Truth) \in Int
    BY <1>3, <1>9, <2>1, DraftAssumption DEF Part
  <2>3. parts'[i].cursor <= BatchCursor \/ parts'[i].cursor <= LastOf(Inserted)
    BY <1>7
  <2>4. BatchCursor <= LastOf(DOMAIN Truth)
    BY <1>3
  <2>5. QED
    BY <1>9, <2>2, <2>3, <2>4
<1>11. takebacks' = 0 => Agrees(snap)' /\ Agrees(saved)'
  BY <1>0, <1>4 DEF IInv, RunnerInv, Agrees
<1>12. \A i \in 1..Len(parts') : parts'[i].slots \subseteq DOMAIN snap'
  BY <1>0, <1>5, <1>7
<1>13. RunnerInv'
  BY <1>0, <1>3, <1>4, <1>7, <1>8, <1>10, <1>11, <1>12 DEF RunnerInv
<1>14. AckedInv'
  <2>1. \A o, p : Stored(o, p) => Stored(o, p)'
    BY <1>0 DEF Stored
  <2>2. ASSUME resets = 0, NEW o \in DOMAIN espn
        PROVE  \/ \E row \in board' : row.overall = o /\ row.player = espn[o]
               \/ \E i \in 1..Len(parts') : o \in parts'[i].slots
    <3>1. CASE o \in DOMAIN saved
      <4>1. espn[o] = saved[o]
        BY <3>1 DEF Poll, Corrected
      <4>2. Stored(o, saved[o])
        BY <2>2, <3>1 DEF IInv, AckedInv
      <4>3. QED
        BY <1>0, <4>1, <4>2 DEF Stored
    <3>2. CASE o \notin DOMAIN saved
      BY <1>7, <3>2 DEF Inserted
    <3>3. QED
      BY <3>1, <3>2
  <2>3. resets = 0 => \A o \in DOMAIN saved' : Stored(o, saved[o])'
    BY <1>0, <2>1 DEF IInv, AckedInv
  <2>4. resets = 0 => \A o \in DOMAIN snap' :
           Stored(o, snap[o])' \/ \E i \in 1..Len(parts') : o \in parts'[i].slots
    BY <1>0, <2>2 DEF Stored
  <2>5. QED
    BY <1>0, <2>3, <2>4 DEF AckedInv
<1>15. QED
  BY <1>1, <1>2, <1>13, <1>14 DEF Rest

(* What a sequence is made of when its head makes way for others.          *)
LEMMA HeadReplaced ==
  ASSUME NEW S, NEW s \in Seq(S), s # <<>>, NEW b \in Seq(S)
  PROVE  LET q == b \o Tail(s)
         IN  /\ q \in Seq(S) /\ Len(q) = Len(b) + Len(s) - 1
             /\ \A i \in 1..Len(b) : q[i] = b[i]
             /\ \A i \in 2..Len(s) : q[Len(b) + i - 1] = s[i]
<1> DEFINE t == Tail(s)
           q == b \o t
<1>1. Len(s) \in Nat \ {0} /\ Len(b) \in Nat
  BY EmptySeq
<1>2. t \in Seq(S) /\ Len(t) = Len(s) - 1 /\ \A i \in 1..Len(t) : t[i] = s[i + 1]
  BY HeadTailProperties
<1> HIDE DEF t
<1>3. /\ q \in Seq(S) /\ Len(q) = Len(b) + Len(t)
      /\ \A i \in 1..Len(b) + Len(t) : q[i] = IF i <= Len(b) THEN b[i] ELSE t[i - Len(b)]
  <2>1. t \in Seq(S)
    BY <1>2
  <2>2. QED
    BY <2>1, ConcatProperties
<1> HIDE DEF q
<1>4. ASSUME NEW i \in 1..Len(b)
      PROVE  q[i] = b[i]
  <2>1. i \in 1..Len(b) + Len(t) /\ i <= Len(b)
    BY <1>1, <1>2
  <2>2. QED
    BY <1>3, <2>1
<1>5. ASSUME NEW i \in 2..Len(s)
      PROVE  q[Len(b) + i - 1] = s[i]
  <2>1. /\ i - 1 \in 1..Len(t) /\ Len(b) + i - 1 \in 1..Len(q) /\ ~(Len(b) + i - 1 <= Len(b))
        /\ (Len(b) + i - 1) - Len(b) = i - 1 /\ (i - 1) + 1 = i
    BY <1>1, <1>2, <1>3
  <2>2. q[Len(b) + i - 1] = t[i - 1]
    BY <1>3, <2>1
  <2>3. QED
    BY <1>2, <2>1, <2>2
<1>6. Len(q) = Len(b) + Len(s) - 1
  BY <1>1, <1>2, <1>3
<1>7. QED
  BY <1>3, <1>4, <1>5, <1>6 DEF q, t
(* What a recovery puts in the place of the acknowledged part.             *)
LEMMA BackfillFacts ==
  ASSUME NEW part \in Part, NEW m \in SUBSET Slots
  PROVE  LET b == Backfill(part, m)
         IN  /\ b \in Seq(Part)
             /\ b = <<>> => part.role # "first" \/ m = {}
             /\ b # <<>> => b[Len(b)].role = "closes" /\ b[Len(b)].cursor = part.cursor
             /\ \A i \in 1..Len(b) : b[i].slots \subseteq m
             /\ \A i \in 1..Len(b) : b[i].cursor <= part.cursor \/ b[i].cursor <= LastOf(m)
<1>1. CASE part.role = "first" /\ m # {}
  <2> DEFINE b == Backfill(part, m)
  <2>1. b = Split(m, part.cursor, "backfill", "closes")
    BY <1>1 DEF Backfill
  <2>2. part.cursor \in 0..Total /\ "backfill" \in Roles /\ "closes" \in Roles
    BY DEF Part, Roles
  <2>3. PICK full \in 0..Total, early \in Roles, final \in Roles :
          full = part.cursor /\ early = "backfill" /\ final = "closes"
    BY <2>2
  <2> DEFINE q == Split(m, full, early, final)
  <2>4. /\ q \in Seq(Part)
        /\ Len(q) >= 1
        /\ q[Len(q)].role = final /\ q[Len(q)].cursor = full
        /\ \A i \in 1..Len(q) : q[i].slots \subseteq m
        /\ \A i \in 1..Len(q) : q[i].cursor <= full \/ q[i].cursor <= LastOf(m)
    BY SplitFacts
  <2>5. b = q
    BY <2>1, <2>3
  <2> HIDE DEF q, b
  <2>6. b # <<>>
    BY <2>4, <2>5
  <2>7. QED
    BY <2>3, <2>4, <2>5, <2>6 DEF b
<1>2. CASE ~(part.role = "first" /\ m # {})
  <2>1. Backfill(part, m) = <<>>
    BY <1>2 DEF Backfill
  <2>2. <<>> \in Seq(Part) /\ Len(<<>>) = 0 /\ 1..0 = {}
    OBVIOUS
  <2>3. QED
    BY <1>2, <2>1, <2>2
<1>3. QED
  BY <1>1, <1>2

(* q is what remains of the parts s after the first, and a recovery of m.  *)
Remains(q, s, m) ==
  /\ q \in Seq(Part)
  /\ \A i \in 1..Len(q) : q[i].slots \subseteq m \/ \E j \in 1..Len(s) : q[i] = s[j]
  /\ \A j \in 2..Len(s) : \E i \in 1..Len(q) : q[i] = s[j]
  /\ q # <<>> => /\ q[Len(q)].role \in {"first", "closes"}
                 /\ q[Len(q)].cursor = s[Len(s)].cursor
  /\ q = <<>> => Len(s) = 1 /\ m = {}
  /\ \A i \in 1..Len(q) : \/ \E j \in 1..Len(s) : q[i].cursor <= s[j].cursor
                          \/ q[i].cursor <= LastOf(m)

(* The rest of a batch after an acknowledgement.                           *)
LEMMA PartsAfter ==
  ASSUME NEW s \in Seq(Part), s # <<>>, NEW m \in SUBSET Slots,
         s[Len(s)].role \in {"first", "closes"},
         s[1].role = "closes" => m = {},
         NEW q, q = Backfill(s[1], m) \o Tail(s)
  PROVE  Remains(q, s, m)
<1> DEFINE b == Backfill(s[1], m)
<1>1. Len(s) \in Nat \ {0} /\ \A j \in 1..Len(s) : s[j] \in Part
  BY EmptySeq, ElementOfSeq
<1>2. s[1] \in Part
  BY <1>1
<1>3. /\ b \in Seq(Part)
      /\ b = <<>> => s[1].role # "first" \/ m = {}
      /\ b # <<>> => b[Len(b)].role = "closes" /\ b[Len(b)].cursor = s[1].cursor
      /\ \A i \in 1..Len(b) : b[i].slots \subseteq m
      /\ \A i \in 1..Len(b) : b[i].cursor <= s[1].cursor \/ b[i].cursor <= LastOf(m)
  BY <1>2, BackfillFacts
<1>4. q = b \o Tail(s)
  OBVIOUS
<1> HIDE DEF b
<1>5. /\ q \in Seq(Part) /\ Len(q) = Len(b) + Len(s) - 1
      /\ \A i \in 1..Len(b) : q[i] = b[i]
      /\ \A i \in 2..Len(s) : q[Len(b) + i - 1] = s[i]
  <2> DEFINE r == b \o Tail(s)
  <2>1. /\ r \in Seq(Part) /\ Len(r) = Len(b) + Len(s) - 1
        /\ \A i \in 1..Len(b) : r[i] = b[i]
        /\ \A i \in 2..Len(s) : r[Len(b) + i - 1] = s[i]
    BY <1>3, HeadReplaced
  <2>2. r = q
    BY <1>4
  <2> HIDE DEF r
  <2>3. QED
    BY <2>1, <2>2
<1>6. Len(b) \in Nat /\ Len(q) \in Nat
  BY <1>3, <1>5
<1>7. ASSUME NEW i \in 1..Len(q), i \notin 1..Len(b)
      PROVE  i - Len(b) + 1 \in 2..Len(s) /\ q[i] = s[i - Len(b) + 1]
  <2>1. i - Len(b) + 1 \in 2..Len(s) /\ Len(b) + (i - Len(b) + 1) - 1 = i
    BY <1>1, <1>5, <1>6, <1>7
  <2>2. QED
    BY <1>5, <2>1
<1>8. \A j \in 2..Len(s) : j \in 1..Len(s) /\ Len(b) + j - 1 \in 1..Len(q)
  BY <1>1, <1>5, <1>6
<1>9. \A i \in 1..Len(q) : q[i].slots \subseteq m \/ \E j \in 1..Len(s) : q[i] = s[j]
  BY <1>3, <1>5, <1>7, <1>8
<1>10. \A j \in 2..Len(s) : \E i \in 1..Len(q) : q[i] = s[j]
  BY <1>5, <1>8
<1>11. \A i \in 1..Len(q) : \/ \E j \in 1..Len(s) : q[i].cursor <= s[j].cursor
                            \/ q[i].cursor <= LastOf(m)
  <2>1. \A j \in 1..Len(s) : s[j].cursor <= s[j].cursor
    BY <1>1, DraftAssumption DEF Part
  <2>2. 1 \in 1..Len(s)
    BY <1>1
  <2>3. ASSUME NEW i \in 1..Len(q)
        PROVE  \/ \E j \in 1..Len(s) : q[i].cursor <= s[j].cursor
               \/ q[i].cursor <= LastOf(m)
    <3>1. CASE i \in 1..Len(b)
      BY <1>3, <1>5, <2>2, <3>1
    <3>2. CASE i \notin 1..Len(b)
      BY <1>7, <1>8, <2>1, <3>2
    <3>3. QED
      BY <3>1, <3>2
  <2>4. QED
    BY <2>3
<1>12. CASE Len(s) > 1
  <2>1. Len(s) \in 2..Len(s) /\ Len(b) + Len(s) - 1 = Len(q) /\ q # <<>>
    BY <1>1, <1>5, <1>6, <1>12
  <2>2. q[Len(q)] = s[Len(s)]
    BY <1>5, <2>1
  <2>3. QED
    BY <1>5, <1>9, <1>10, <1>11, <2>1, <2>2 DEF Remains
<1>13. CASE Len(s) = 1
  <2>1. Len(q) = Len(b)
    BY <1>5, <1>6, <1>13
  <2>2. CASE b = <<>>
    <3>1. Len(b) = 0 /\ Len(q) = 0
      BY <2>1, <2>2
    <3>2. q = <<>>
      BY <1>5, <3>1, EmptySeq
    <3>3. m = {}
      BY <1>3, <1>13, <2>2
    <3>4. QED
      BY <1>5, <1>9, <1>10, <1>11, <1>13, <3>2, <3>3 DEF Remains
  <2>3. CASE b # <<>>
    <3>1. Len(b) \in 1..Len(b) /\ Len(b) # 0
      BY <1>3, <1>6, <2>3, EmptySeq
    <3>2. q[Len(q)] = b[Len(b)] /\ q # <<>>
      BY <1>5, <2>1, <3>1, EmptySeq
    <3>3. QED
      BY <1>3, <1>5, <1>9, <1>10, <1>11, <1>13, <2>3, <3>2 DEF Remains
  <2>4. QED
    BY <2>2, <2>3
<1>14. Len(s) > 1 \/ Len(s) = 1
  <2>1. PICK n \in Nat \ {0} : n = Len(s)
    BY <1>1
  <2>2. n > 1 \/ n = 1
    OBVIOUS
  <2>3. QED
    BY <2>1, <2>2
<1>15. QED
  BY <1>12, <1>13, <1>14
(* What an acknowledgement leaves, and what it shows to be stored.         *)
LEMMA AckedFacts ==
  ASSUME IInv, Quiet, Acked
  PROVE  /\ UNCHANGED <<stage, takebacks, mode, Truth, snap, snapPhase, saved, late>>
         /\ SessionInv' /\ board \subseteq board' /\ cursor <= cursor' /\ resets' = resets
         /\ pc = "deliver" /\ parts # <<>> /\ Len(parts) \in Nat \ {0}
         /\ parts \in Seq(Part) /\ parts[1].cursor <= cursor'
         /\ \A o \in parts[1].slots : Stored(o, snap[o])'
         /\ \E m \in SUBSET DOMAIN snap :
              /\ m = Recoverable
              /\ parts[1].role = "closes" => m = {}
              /\ parts' = Backfill(parts[1], m) \o Tail(parts)
         /\ pc' = IF parts' = <<>> THEN "checkpoint" ELSE "deliver"
<1> DEFINE e == Envelope(Head(parts))
<1>1. /\ UNCHANGED <<stage, takebacks, mode, Truth, snap, snapPhase, saved, late>>
      /\ pc = "deliver" /\ SessionCommit(e)
      /\ Closed(Head(parts), Recoverable)
      /\ parts' = Backfill(Head(parts), Recoverable) \o Tail(parts)
      /\ pc' = IF parts' = <<>> THEN "checkpoint" ELSE "deliver"
  BY DEF Quiet, source, Acked
<1>2. /\ parts # <<>> /\ Len(parts) \in Nat \ {0} /\ Head(parts) = parts[1]
      /\ Head(parts) \in Part
      /\ e.cursor = Head(parts).cursor
      /\ \A o \in Head(parts).slots : Event(o) \in e.events
      /\ Sound(e)
  BY <1>1, EnvelopeIsSound DEF IInv
<1> HIDE DEF e
<1>3. SessionInv' /\ board \subseteq board' /\ cursor <= cursor' /\ resets' = resets
  BY <1>1, <1>2, RequestKeepsSession DEF IInv
<1>4. e.events \subseteq board'
  BY <1>1, CommitStores
<1>5. \A o \in parts[1].slots : Stored(o, snap[o])'
  <2>1. \A o : Event(o).overall = o /\ Event(o).player = snap[o]
    BY DEF Event
  <2>2. \A o \in parts[1].slots : Event(o) \in board'
    BY <1>2, <1>4
  <2>3. QED
    BY <1>1, <2>1, <2>2 DEF Stored
<1>6. parts[1].cursor <= cursor'
  <2>1. cursor' = IF e.cursor > cursor THEN e.cursor ELSE cursor
    BY <1>1 DEF SessionCommit, Session!CursorAfter
  <2>2. e.cursor \in Int /\ cursor \in Int
    BY <1>2, DraftAssumption DEF Part, IInv, SessionInv
  <2>3. QED
    BY <1>2, <2>1, <2>2
<1>7. Recoverable \in SUBSET DOMAIN snap
  BY DEF Recoverable
<1>8. PICK m \in SUBSET DOMAIN snap : m = Recoverable
  BY <1>7
<1>9. parts[1].role = "closes" => m = {}
  BY <1>1, <1>2, <1>8 DEF Closed
<1>10. parts' = Backfill(parts[1], m) \o Tail(parts)
  BY <1>1, <1>2, <1>8
<1>11. parts \in Seq(Part)
  BY DEF IInv, RunnerInv
<1>12. QED
  BY <1>1, <1>2, <1>3, <1>5, <1>6, <1>8, <1>9, <1>10, <1>11

(* When nothing is left to send, the last part's cursor reached every pick *)
(* of the snapshot, and none of them was called missing.                   *)
LEMMA BatchIsStored ==
  ASSUME IInv, Quiet, Acked, parts' = <<>>
  PROVE  /\ \A o \in DOMAIN snap :
              \E row \in board' :
                row.overall = o /\ (row.player = snap[o] \/ (takebacks > 0 /\ resets > 0))
         /\ resets = 0 => \A o \in DOMAIN snap : Stored(o, snap[o])'
         /\ snapPhase = "complete" => cursor' = Total
<1>1. /\ UNCHANGED <<stage, takebacks, mode, Truth, snap, snapPhase, saved, late>>
      /\ SessionInv' /\ board \subseteq board' /\ resets' = resets
      /\ pc = "deliver" /\ parts # <<>> /\ Len(parts) \in Nat \ {0}
      /\ parts \in Seq(Part) /\ parts[1].cursor <= cursor'
      /\ \A o \in parts[1].slots : Stored(o, snap[o])'
  BY AckedFacts
<1>2. PICK m \in SUBSET DOMAIN snap :
              /\ m = Recoverable
              /\ parts[1].role = "closes" => m = {}
              /\ parts' = Backfill(parts[1], m) \o Tail(parts)
  BY AckedFacts
<1>3. /\ DOMAIN snap \subseteq Slots
      /\ parts[Len(parts)].role \in {"first", "closes"}
      /\ \A o \in DOMAIN snap : o <= parts[Len(parts)].cursor
      /\ snapPhase = "complete" => parts[Len(parts)].cursor = Total
      /\ takebacks = 0 => Agrees(snap)
  BY <1>1 DEF IInv, RunnerInv
<1>4. Len(parts) = 1 /\ m = {}
  <2>1. m \in SUBSET Slots
    BY <1>3
  <2>2. PICK q : q = parts'
    OBVIOUS
  <2>3. q = Backfill(parts[1], m) \o Tail(parts) /\ q = <<>>
    BY <1>2, <2>2
  <2>4. PICK s \in Seq(Part) : s = parts
    BY <1>1
  <2>5. /\ s \in Seq(Part) /\ s # <<>> /\ s[Len(s)].role \in {"first", "closes"}
        /\ s[1].role = "closes" => m = {}
        /\ q = Backfill(s[1], m) \o Tail(s) /\ q = <<>>
    BY <1>1, <1>2, <1>3, <2>3, <2>4
  <2>6. Remains(q, s, m)
    BY <2>1, <2>5, PartsAfter
  <2>7. QED
    BY <2>4, <2>5, <2>6 DEF Remains
<1>5. cursor' \in 0..Total /\ parts[1].cursor \in Int /\ Total \in Nat
  <2>1. cursor' \in 0..Total
    BY <1>1 DEF SessionInv
  <2>2. parts[1] \in Part
    BY <1>1, <1>4, ElementOfSeq
  <2>3. QED
    BY <2>1, <2>2, DraftAssumption DEF Part
<1>6. snapPhase = "complete" => cursor' = Total
  BY <1>1, <1>3, <1>4, <1>5
<1>7. resets = 0 => \A o \in DOMAIN snap : Stored(o, snap[o])'
  <2> SUFFICES ASSUME resets = 0, NEW o \in DOMAIN snap
               PROVE  Stored(o, snap[o])'
    BY <1>1 DEF Stored
  <2>1. Stored(o, snap[o]) \/ \E i \in 1..Len(parts) : o \in parts[i].slots
    BY <1>1 DEF IInv, AckedInv
  <2>2. CASE Stored(o, snap[o])
    BY <1>1, <2>2 DEF Stored
  <2>3. CASE \E i \in 1..Len(parts) : o \in parts[i].slots
    BY <1>1, <1>4, <2>3
  <2>4. QED
    BY <2>1, <2>2, <2>3
<1>8. ASSUME NEW o \in DOMAIN snap
      PROVE  \E row \in board' : row.overall = o
  <2>1. o \in 1..cursor'
    BY <1>1, <1>3, <1>4, <1>5 DEF Slots
  <2>2. o \notin (Session!MissingOverallPicks)'
    BY <1>2, <1>4, <1>8 DEF Recoverable
  <2>3. QED
    BY <1>1, <2>1, <2>2, StoredOrMissingAfter
<1>9. ASSUME NEW o \in DOMAIN snap
      PROVE  \E row \in board' :
               row.overall = o /\ (row.player = snap[o] \/ (takebacks > 0 /\ resets > 0))
  <2>1. takebacks \in Nat /\ resets \in Nat
    BY DEF IInv, Control
  <2>2. CASE resets = 0
    BY <1>1, <1>7, <2>2 DEF Stored
  <2>3. CASE takebacks = 0
    <3>1. PICK row \in board' : row.overall = o
      BY <1>8
    <3>2. row.player = Truth[o]
      BY <1>1, <2>3, <3>1 DEF SessionInv, TrueRow
    <3>3. snap[o] = Truth[o]
      BY <1>3, <2>3 DEF Agrees
    <3>4. QED
      BY <3>1, <3>2, <3>3
  <2>4. CASE takebacks # 0 /\ resets # 0
    BY <1>8, <2>1, <2>4
  <2>5. QED
    BY <2>2, <2>3, <2>4
<1>10. QED
  BY <1>6, <1>7, <1>9

LEMMA AckedKeepsRest == IInv /\ Quiet /\ Acked => Rest'
<1> SUFFICES ASSUME IInv, Quiet, Acked
             PROVE  Rest'
  OBVIOUS
<1>1. /\ UNCHANGED <<stage, takebacks, mode, Truth, snap, snapPhase, saved, late>>
      /\ SessionInv' /\ board \subseteq board' /\ resets' = resets
      /\ pc = "deliver" /\ parts # <<>> /\ Len(parts) \in Nat \ {0}
      /\ parts \in Seq(Part)
      /\ \A o \in parts[1].slots : Stored(o, snap[o])'
      /\ pc' = IF parts' = <<>> THEN "checkpoint" ELSE "deliver"
  BY AckedFacts
<1>2. PICK m \in SUBSET DOMAIN snap :
              /\ m = Recoverable
              /\ parts[1].role = "closes" => m = {}
              /\ parts' = Backfill(parts[1], m) \o Tail(parts)
  BY AckedFacts
<1>3. /\ DOMAIN snap \subseteq Slots
      /\ parts[Len(parts)].role \in {"first", "closes"}
      /\ \A o \in DOMAIN snap : o <= parts[Len(parts)].cursor
      /\ snapPhase = "complete" => parts[Len(parts)].cursor = Total
      /\ takebacks = 0 => Agrees(snap) /\ Agrees(saved)
      /\ \A i \in 1..Len(parts) : parts[i].slots \subseteq DOMAIN snap
      /\ stage # "drafted" /\ takebacks = 0 =>
           \A i \in 1..Len(parts) : parts[i].cursor <= LastOf(DOMAIN Truth)
  BY <1>1 DEF IInv, RunnerInv
<1>4. /\ parts' \in Seq(Part)
      /\ \A i \in 1..Len(parts') : parts'[i].slots \subseteq m \/ \E j \in 1..Len(parts) : parts'[i] = parts[j]
      /\ \A j \in 2..Len(parts) : \E i \in 1..Len(parts') : parts'[i] = parts[j]
      /\ parts' # <<>> => /\ parts'[Len(parts')].role \in {"first", "closes"}
                          /\ parts'[Len(parts')].cursor = parts[Len(parts)].cursor
      /\ \A i \in 1..Len(parts') : \/ \E j \in 1..Len(parts) : parts'[i].cursor <= parts[j].cursor
                                   \/ parts'[i].cursor <= LastOf(m)
  <2>1. m \in SUBSET Slots
    BY <1>3
  <2>2. PICK q : q = parts'
    OBVIOUS
  <2>3. q = Backfill(parts[1], m) \o Tail(parts)
    BY <1>2, <2>2
  <2>4. /\ q \in Seq(Part)
        /\ \A i \in 1..Len(q) : q[i].slots \subseteq m \/ \E j \in 1..Len(parts) : q[i] = parts[j]
        /\ \A j \in 2..Len(parts) : \E i \in 1..Len(q) : q[i] = parts[j]
        /\ q # <<>> => /\ q[Len(q)].role \in {"first", "closes"}
                       /\ q[Len(q)].cursor = parts[Len(parts)].cursor
        /\ \A i \in 1..Len(q) : \/ \E j \in 1..Len(parts) : q[i].cursor <= parts[j].cursor
                                \/ q[i].cursor <= LastOf(m)
    <3>1. PICK s \in Seq(Part) : s = parts
      BY <1>1
    <3>2. /\ s \in Seq(Part) /\ s # <<>> /\ s[Len(s)].role \in {"first", "closes"}
          /\ s[1].role = "closes" => m = {}
          /\ q = Backfill(s[1], m) \o Tail(s)
      BY <1>1, <1>2, <1>3, <2>3, <3>1
    <3>3. Remains(q, s, m)
      BY <2>1, <3>2, PartsAfter
    <3>4. QED
      BY <3>1, <3>3 DEF Remains
  <2>5. QED
    BY <2>2, <2>4
<1>5. \A i \in 1..Len(parts') : parts'[i].slots \subseteq DOMAIN snap
  BY <1>3, <1>4
<1>6. stage # "drafted" /\ takebacks = 0 =>
        \A i \in 1..Len(parts') : parts'[i].cursor <= LastOf(DOMAIN Truth)
  <2> SUFFICES ASSUME stage # "drafted", takebacks = 0, NEW i \in 1..Len(parts')
               PROVE  parts'[i].cursor <= LastOf(DOMAIN Truth)
    OBVIOUS
  <2>1. DOMAIN Truth \in SUBSET Slots /\ m \in SUBSET DOMAIN Truth
    <3>1. DOMAIN Truth \in SUBSET Slots
      BY TruthInDraft DEF IInv
    <3>2. QED
      BY <1>3, <3>1 DEF Agrees
  <2>2. LastOf(m) <= LastOf(DOMAIN Truth) /\ LastOf(m) \in 0..Total /\ LastOf(DOMAIN Truth) \in 0..Total
    BY <2>1, LastOfGrows, LastOfFacts
  <2>3. parts'[i] \in Part /\ \A j \in 1..Len(parts) : parts[j] \in Part
    BY <1>1, <1>4, ElementOfSeq
  <2>4. /\ parts'[i].cursor \in Int /\ \A j \in 1..Len(parts) : parts[j].cursor \in Int
        /\ LastOf(m) \in Int /\ LastOf(DOMAIN Truth) \in Int
    BY <2>2, <2>3, DraftAssumption DEF Part
  <2>5. CASE \E j \in 1..Len(parts) : parts'[i].cursor <= parts[j].cursor
    <3>1. PICK j \in 1..Len(parts) : parts'[i].cursor <= parts[j].cursor
      BY <2>5
    <3>2. parts[j].cursor <= LastOf(DOMAIN Truth)
      BY <1>3
    <3>3. QED
      BY <2>4, <3>1, <3>2
  <2>6. CASE parts'[i].cursor <= LastOf(m)
    BY <2>2, <2>4, <2>6
  <2>7. QED
    BY <1>4, <2>5, <2>6
<1>7. RunnerInv'
  <2>1. stage' # "drafted" /\ takebacks' = 0 =>
          \A i \in 1..Len(parts') : parts'[i].cursor <= LastOf(DOMAIN Truth)'
    BY <1>1, <1>6 DEF LastOf
  <2>2. takebacks' = 0 => Agrees(snap)' /\ Agrees(saved)'
    BY <1>1, <1>3 DEF Agrees
  <2>3. QED
    BY <1>1, <1>3, <1>4, <1>5, <2>1, <2>2 DEF RunnerInv
<1>8. AckedInv'
  <2>1. \A o, p : Stored(o, p) => \E row \in board' : row.overall = o /\ row.player = p
    BY <1>1 DEF Stored
  <2>2. resets' = 0 => \A o \in DOMAIN saved' : Stored(o, saved[o])'
    BY <1>1, <2>1 DEF IInv, AckedInv, Stored
  <2>3. ASSUME resets = 0, NEW o \in DOMAIN snap
        PROVE  Stored(o, snap[o])' \/ \E i \in 1..Len(parts') : o \in parts'[i].slots
    <3>1. Stored(o, snap[o]) \/ \E i \in 1..Len(parts) : o \in parts[i].slots
      BY <1>1, <2>3 DEF IInv, AckedInv
    <3>2. CASE Stored(o, snap[o])
      BY <1>1, <2>1, <3>2 DEF Stored
    <3>3. CASE \E i \in 1..Len(parts) : o \in parts[i].slots
      <4>1. PICK i \in 1..Len(parts) : o \in parts[i].slots
        BY <3>3
      <4>2. CASE i = 1
        BY <1>1, <4>1, <4>2
      <4>3. CASE i # 1
        <5>1. i \in 2..Len(parts)
          BY <1>1, <4>3
        <5>2. QED
          BY <1>4, <4>1, <5>1
      <4>4. QED
        BY <4>2, <4>3
    <3>4. QED
      BY <3>1, <3>2, <3>3
  <2>4. resets' = 0 /\ pc' = "deliver" => \A o \in DOMAIN snap' :
          Stored(o, snap[o])' \/ \E i \in 1..Len(parts') : o \in parts'[i].slots
    BY <1>1, <2>3
  <2>5. resets' = 0 /\ pc' = "checkpoint" =>
          /\ \A o \in DOMAIN snap' : Stored(o, snap[o])'
          /\ snapPhase' = "complete" => cursor' = Total
    BY <1>1, BatchIsStored
  <2>6. pc' # "done"
    BY <1>1
  <2>7. QED
    BY <2>2, <2>4, <2>5, <2>6 DEF AckedInv
<1>9. LateInv' /\ Control'
  <2>1. LateInv'
    BY <1>1, LateStays DEF IInv
  <2>2. Control'
    BY <1>1 DEF IInv, Control
  <2>3. QED
    BY <2>1, <2>2
<1>10. QED
  BY <1>1, <1>7, <1>8, <1>9 DEF Rest

LEMMA CheckpointKeepsRest == IInv /\ Quiet /\ Checkpoint => Rest'
<1> SUFFICES ASSUME IInv, Quiet, Checkpoint
             PROVE  Rest'
  OBVIOUS
<1>0. /\ UNCHANGED <<stage, takebacks, mode, Truth, parts, late>>
      /\ UNCHANGED <<board, cursor, disputed, resets>>
      /\ pc = "checkpoint" /\ saved' = snap /\ snap' = Nothing
      /\ pc' = IF snapPhase = "complete" THEN "done" ELSE "poll"
  BY DEF Quiet, source, session, Checkpoint
<1>1. SessionInv' /\ LateInv'
  BY <1>0, IdleKeepsSession
<1>2. Control'
  BY <1>0 DEF IInv, Control
<1>3. DOMAIN snap' = {}
  BY <1>0 DEF Nothing
<1>4. parts = <<>> /\ parts' = <<>> /\ Len(parts) = 0 /\ 1..0 = {} /\ pc' # "deliver" /\ pc' # "checkpoint"
  BY <1>0 DEF IInv, RunnerInv
<1>5. takebacks' = 0 => Agrees(snap)' /\ Agrees(saved)'
  BY <1>0, <1>3 DEF IInv, RunnerInv, Agrees
<1>6. RunnerInv'
  BY <1>0, <1>3, <1>4, <1>5 DEF IInv, RunnerInv
<1>7. AckedInv'
  BY <1>0, <1>4 DEF IInv, AckedInv, Stored
<1>8. QED
  BY <1>1, <1>2, <1>6, <1>7 DEF Rest-----------------------------------------------------------------------------
(* The invariant.                                                          *)

RunnerMoves ==
  \/ Start \/ Crash \/ Initialized \/ InitializeUnanswered
  \/ Poll \/ PollCorrected
  \/ Acked \/ NotClosed \/ Unanswered \/ Refused \/ LateArrives
  \/ Checkpoint \/ CheckpointFails \/ SessionReset
  \/ (Fails /\ UNCHANGED <<source, saved, late, session>>)

LEMMA RunnerKeepsRest == IInv /\ Quiet /\ RunnerMoves => Rest'
BY StartKeepsRest, EndingsKeepRest, InitializedKeepsRest, PollKeepsRest, AckedKeepsRest,
   UnansweredKeepsRest, RefusedKeepsRest, LateArrivesKeepsRest, CheckpointKeepsRest,
   SessionResetKeepsRest DEF RunnerMoves

(* Whatever the runner does, and whichever source it has.                  *)
LEMMA RunnerKeepsIInv ==
  ASSUME IInv, RunnerMoves, UNCHANGED <<mode, room>>,
         UNCHANGED <<socket, attached, frames>> \/ (mode # "poll" /\ DebuggerAfter)
  PROVE  IInv'
<1>1. UNCHANGED source
  BY DEF RunnerMoves, Start, Crash, Initialized, InitializeUnanswered, Poll, PollCorrected,
         Acked, NotClosed, Unanswered, Refused, LateArrives, Checkpoint, CheckpointFails,
         SessionReset
<1>2. SourceInv' /\ UNCHANGED <<stage, takebacks, Truth>>
  BY <1>1, SourceStays
<1>3. Quiet
  BY <1>1, <1>2 DEF Quiet
<1>4. Rest'
  BY <1>3, RunnerKeepsRest
<1>5. QED
  BY <1>2, <1>4 DEF IInv, Rest

LEMMA InitEstablishes == RoomInit => IInv
<1> SUFFICES ASSUME RoomInit
             PROVE  IInv
  OBVIOUS
<1>1. /\ espn = Nothing /\ stage = "pre_draft" /\ takebacks = 0
      /\ pc = "down" /\ snap = Nothing /\ parts = <<>> /\ saved = Nothing
      /\ late = {} /\ resets = 0
      /\ board = {} /\ cursor = 0 /\ disputed = FALSE
      /\ mode \in {"poll", "room", "reload"}
      /\ room = <<>> /\ socket = "none" /\ attached = FALSE /\ frames = <<>>
  BY DEF RoomInit, Init
<1>2. DOMAIN espn = {} /\ DOMAIN snap = {} /\ DOMAIN saved = {}
  BY <1>1 DEF Nothing
<1>3. /\ frames \in Seq(RecordedFrame) /\ parts \in Seq(Part) /\ room \in Seq(TheDraft.catalog)
      /\ Len(room) = 0 /\ Len(frames) = 0 /\ Len(parts) = 0 /\ 0..0 = {0} /\ 1..0 = {}
  BY <1>1
<1>4. Total \in Nat /\ 0 \in 0..Total /\ Len(room) <= Total
  BY <1>3, DraftAssumption
<1>5. Control
  BY <1>1 DEF Control
<1>6. SourceInv
  <2>1. RoomIsFollowed
    <3>1. PICK d : d = [i \in 0..0 |-> 0]
      OBVIOUS
    <3>2. d \in [0..Len(frames) -> 0..Len(room)] /\ d[0] = 0
      BY <1>3, <3>1
    <3>3. Continues(d)
      BY <1>1, <1>2, <1>3, <3>2 DEF Continues
    <3>4. QED
      BY <1>1, <1>3, <1>4, <3>2, <3>3 DEF RoomIsFollowed
  <2>2. QED
    BY <1>1, <1>2, <1>3, <2>1 DEF SourceInv
<1>7. LastOf(DOMAIN Truth) \in 0..Total
  BY <1>5, <1>6, TruthInDraft, LastOfFacts
<1>8. RunnerInv
  BY <1>1, <1>2, <1>3 DEF RunnerInv, Agrees
<1>9. SessionInv
  BY <1>1, <1>4, <1>7 DEF SessionInv
<1>10. LateInv
  BY <1>1 DEF LateInv
<1>11. AckedInv
  BY <1>1, <1>2 DEF AckedInv
<1>12. QED
  BY <1>5, <1>6, <1>8, <1>9, <1>10, <1>11 DEF IInv

LEMMA NextKeeps == IInv /\ [RoomNext]_allVars => IInv'
<1> SUFFICES ASSUME IInv, [RoomNext]_allVars
             PROVE  IInv'
  OBVIOUS
<1>1. CASE mode = "poll" /\ Next /\ UNCHANGED roomVars
  <2>1. UNCHANGED <<mode, room, socket, attached, frames>>
    BY <1>1 DEF roomVars
  <2>2. CASE EspnStarts \/ EspnEnds \/ \E o \in Slots : EspnFills(o) \/ EspnTakesBack(o)
    BY <1>1, <2>2, EspnKeepsIInv
  <2>3. CASE RunnerMoves
    BY <2>1, <2>3, RunnerKeepsIInv
  <2>4. QED
    BY <1>1, <2>2, <2>3 DEF Next, RunnerMoves
<1>2. CASE mode # "poll" /\ (RoomPicks \/ SocketDrops \/ SocketConnects \/ Attach
                             \/ ReadInit \/ ReadSelected)
  BY <1>2, RoomPicksKeepsIInv, SocketDropsKeepsIInv, SocketConnectsKeepsIInv, AttachKeepsIInv,
     ReadInitKeepsIInv, ReadSelectedKeepsIInv
<1>3. CASE mode # "poll" /\ AttachFails
  BY <1>3, RunnerKeepsIInv DEF AttachFails, RunnerMoves, roomVars
<1>4. CASE mode # "poll" /\ ReadFails
  BY <1>4, RunnerKeepsIInv DEF ReadFails, RunnerMoves, DebuggerAfter
<1>5. CASE mode # "poll" /\ CommitRoom
  BY <1>5, RunnerKeepsIInv DEF CommitRoom, RunnerMoves
<1>6. CASE mode # "poll" /\ CommitRoomCorrected
  BY <1>6, RunnerKeepsIInv DEF CommitRoomCorrected, RunnerMoves, DebuggerAfter
<1>7. CASE mode # "poll" /\ RunnerSteps
  BY <1>7, RunnerKeepsIInv DEF RunnerSteps, RunnerMoves, DebuggerAfter
<1>8. CASE UNCHANGED allVars
  <2>1. UNCHANGED <<source, runner, late, session, mode, room, socket, attached, frames>>
    BY <1>8 DEF allVars, vars, roomVars
  <2>2. UNCHANGED <<stage, takebacks, resets, pc, snap, snapPhase, parts, saved, late, mode>>
        /\ UNCHANGED <<board, cursor, disputed>>
    BY <2>1 DEF source, runner, session
  <2>3. SourceInv' /\ UNCHANGED Truth
    BY <2>1, SourceStays
  <2>4. SessionInv'
    BY <2>2, <2>3, SessionStays DEF IInv
  <2>5. LateInv'
    BY <2>2, <2>3, LateStays DEF IInv
  <2>6. cursor <= cursor'
    BY <2>2, DraftAssumption DEF IInv, SessionInv
  <2>7. RunnerInv' /\ AckedInv'
    BY <2>2, <2>3, <2>4, <2>6, SurvivalKeepsRunner DEF IInv
  <2>8. Control'
    BY <2>2 DEF IInv, Control
  <2>9. QED
    BY <2>3, <2>4, <2>5, <2>7, <2>8 DEF IInv
<1>9. QED
  BY <1>1, <1>2, <1>3, <1>4, <1>5, <1>6, <1>7, <1>8 DEF RoomNext

(* The ingestor's inductive invariant, whichever source it reads.          *)
THEOREM InvariantHolds == RoomSpec => []IInv
<1>1. RoomInit => IInv
  BY InitEstablishes
<1>2. IInv /\ [RoomNext]_allVars => IInv'
  BY NextKeeps
<1>3. QED
  BY <1>1, <1>2, PTL DEF RoomSpec
-----------------------------------------------------------------------------
(* What follows from it.                                                   *)

(* While the session is not reset it has every pick of the checkpoint      *)
(* (run_live_ingestor.py:162).                                             *)
THEOREM CheckpointStaysAcked == RoomSpec => []CheckpointIsAcked
<1>1. IInv => CheckpointIsAcked
  BY DEF IInv, AckedInv, CheckpointIsAcked
<1>2. QED
  BY <1>1, InvariantHolds, PTL

(* Replays, whatever was lost, late or reset, are never a conflict: only a *)
(* pick that ESPN took back can cause one.                                 *)
THEOREM ReplaysNeverConflict == RoomSpec => []OnlyCorrectionsConflict
<1>1. IInv => OnlyCorrectionsConflict
  BY DEF IInv, Control, SessionInv, OnlyCorrectionsConflict
<1>2. QED
  BY <1>1, InvariantHolds, PTL

(* The session is never told of more picks than ESPN shows.                *)
THEOREM CursorStaysTrue == RoomSpec => []CursorIsTrue
<1>1. IInv => CursorIsTrue
  BY DEF IInv, SessionInv, CursorIsTrue
<1>2. QED
  BY <1>1, InvariantHolds, PTL

(* A run ends by itself only when the session, unless it was reset, can    *)
(* account for every slot of the draft.                                    *)
THEOREM DoneAccounts == RoomSpec => []DoneMeansAccounted
<1>1. IInv => DoneMeansAccounted
  <2> SUFFICES ASSUME IInv, pc = "done", resets = 0, NEW o \in Slots
               PROVE  (\E row \in board : row.overall = o) \/ o \in Session!MissingOverallPicks
    BY DEF DoneMeansAccounted
  <2>1. SessionInv /\ cursor = Total
    BY DEF IInv, AckedInv
  <2>2. o \in 1..cursor
    BY <2>1 DEF Slots
  <2>3. QED
    BY <2>1, <2>2, StoredOrMissing
<1>2. QED
  BY <1>1, InvariantHolds, PTL

(* What the session stores of the draft room is what was picked there, at  *)
(* its number (run_draft_room_ingestor.py:345-368).                        *)
THEOREM RoomBoardStaysTrue == RoomSpec => []RoomBoardIsTrue
<1>1. IInv => RoomBoardIsTrue
  <2> SUFFICES ASSUME IInv, mode # "poll", NEW row \in board
               PROVE  row.overall <= Len(room) /\ row.player = room[row.overall]
    BY DEF RoomBoardIsTrue
  <2>1. TrueRow(row)
    BY RoomTyped DEF IInv, SessionInv
  <2>2. Truth = [o \in 1..Len(room) |-> room[o]]
    BY RoomTyped DEF Truth, Prefix
  <2>3. row.overall \in 1..Len(room) /\ row.player = room[row.overall]
    BY <2>1, <2>2 DEF TrueRow
  <2>4. Len(room) \in Nat
    BY RoomTyped
  <2>5. QED
    BY <2>3, <2>4
<1>2. QED
  BY <1>1, InvariantHolds, PTL

(* A poll is committed only when every pick of its snapshot is stored as it*)
(* is there (docs/cloudflare-architecture.md:107).                         *)
THEOREM CommitsAreStored == RoomSpec => CommitMeansStored
<1> DEFINE A == pc # "checkpoint" /\ pc' = "checkpoint" =>
                  \A o \in DOMAIN snap :
                    \E row \in board' :
                      row.overall = o /\ (row.player = snap[o] \/ (takebacks > 0 /\ resets > 0))
<1>1. IInv /\ [RoomNext]_allVars => [A]_vars
  <2> SUFFICES ASSUME IInv, RoomNext, pc # "checkpoint", pc' = "checkpoint"
               PROVE  A
    BY DEF allVars
  <2>1. Acked
    BY DEF RoomNext, RunnerSteps, Next, RoomPicks, SocketDrops, SocketConnects, Attach,
           AttachFails, ReadInit, ReadSelected, ReadFails, CommitRoom, CommitRoomCorrected,
           EspnStarts, EspnEnds, EspnFills, EspnTakesBack, Start, Crash, Initialized,
           InitializeUnanswered, Poll, PollCorrected, NotClosed, Unanswered, Refused,
           LateArrives, Checkpoint, CheckpointFails, SessionReset, Fails, Dies, Survives,
           vars, runner
  <2>2. Quiet
    <3>1. UNCHANGED source
      BY <2>1 DEF Acked
    <3>2. UNCHANGED <<mode, room>>
      BY <2>1, <3>1 DEF RoomNext, RunnerSteps, RoomPicks, SocketDrops, SocketConnects, Attach,
           AttachFails, ReadInit, ReadSelected, ReadFails, CommitRoom, CommitRoomCorrected,
           DebuggerAfter, roomVars, vars, runner
    <3>3. QED
      BY <3>1, <3>2 DEF Quiet, Truth, Prefix, source
  <2>3. parts' = <<>>
    BY <2>1 DEF Acked
  <2>4. QED
    BY <2>1, <2>2, <2>3, BatchIsStored
<1>2. QED
  BY <1>1, InvariantHolds, PTL DEF RoomSpec, CommitMeansStored
=============================================================================
