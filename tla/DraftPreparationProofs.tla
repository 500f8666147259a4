------------------------ MODULE DraftPreparationProofs ------------------------
(* Theorems about the preparation of a draft, for every source, fixture, Sheet   *)
(* and league, however large.                                                    *)
(*                                                                               *)
(* The pick slots of an accepted league are counted by surjections between sets  *)
(* of the same size: a table that names every pick, or every team and every place*)
(* of every round, has no room to name one twice. What the loops of the programs *)
(* compute is found by induction on the rows, the entries or the shares they have*)
(* taken: a set of numbers without a least one is empty, since set inclusion on  *)
(* finite sets is well-founded. With that, each file keeps what its writer gave  *)
(* it, whichever command comes later.                                            *)
EXTENDS DraftPreparation, CatalogFetchProofs, FiniteSetTheorems, WellFoundedInduction, TLAPS

-------------------------------------------------------------------------------
(* Where a pick falls.                                                           *)

LEMMA Division ==
  ASSUME NEW a \in Nat, NEW b \in Nat, b > 0, NEW q \in Int, q = a \div b, NEW m \in Int, m = a % b
  PROVE  a = b * q + m
OBVIOUS

(* A pick's round and place determine its number, and the other way around.      *)
LEMMA RoundAndPlace ==
  ASSUME NEW size \in Nat, size > 0, NEW overall \in Nat, NEW round \in Nat \ {0}, NEW place \in 1..size
  PROVE  overall = size * (round - 1) + place <=>
         overall # 0 /\ round = RoundOf(overall, size) /\ place = RoundPickOf(overall, size)
<1>1. ASSUME overall = size * (round - 1) + place
      PROVE  overall # 0 /\ round = RoundOf(overall, size) /\ place = RoundPickOf(overall, size)
  BY <1>1 DEF RoundOf, RoundPickOf
<1>2. ASSUME overall # 0, round = RoundOf(overall, size), place = RoundPickOf(overall, size)
      PROVE  overall = size * (round - 1) + place
  <2>1. PICK before \in Nat : before = overall - 1
    BY <1>2
  <2>2. PICK q \in Int, m \in Int : q = before \div size /\ m = before % size
    OBVIOUS
  <2>3. before = size * q + m
    BY <2>2, Division
  <2>4. (before + size) \div size = before \div size + 1
    OBVIOUS
  <2>5. round = q + 1 /\ place = m + 1
    BY <1>2, <2>1, <2>2, <2>4 DEF RoundOf, RoundPickOf
  <2>6. q = round - 1 /\ m = place - 1
    BY <2>5
  <2>7. before = size * (round - 1) + (place - 1)
    BY <2>3, <2>6
  <2>8. PICK p \in Int : p = size * (round - 1)
    OBVIOUS
  <2>9. QED
    BY <2>1, <2>7, <2>8
<1>3. QED
  BY <1>1, <1>2

(* A number of the draft has a round and a place, and every round and place has a*)
(* number of the draft.                                                          *)
LEMMA PlaceOfNumber ==
  ASSUME NEW size \in Nat, size > 0, NEW rounds \in Nat, NEW overall \in 1..(size * rounds)
  PROVE  /\ RoundOf(overall, size) \in 1..rounds /\ RoundPickOf(overall, size) \in 1..size
         /\ overall = size * (RoundOf(overall, size) - 1) + RoundPickOf(overall, size)
<1>1. PICK before \in Nat : before = overall - 1
  OBVIOUS
<1>2. PICK q \in Int, m \in Int : q = before \div size /\ m = before % size
  OBVIOUS
<1>3. m \in 0..(size - 1) /\ q \in Nat
  BY <1>2
<1>4. before = size * q + m
  BY <1>2, Division
<1>5. (before + size) \div size = before \div size + 1
  OBVIOUS
<1>6. RoundOf(overall, size) = q + 1 /\ RoundPickOf(overall, size) = m + 1
  BY <1>1, <1>2, <1>5 DEF RoundOf, RoundPickOf
<1>7. q < rounds
  <2>1. SUFFICES ASSUME q >= rounds
                 PROVE  FALSE
    BY <1>3
  <2>2. size * q >= size * rounds
    BY <1>3, <2>1
  <2>3. before < size * rounds
    BY <1>1
  <2>4. PICK p \in Int : p = size * q
    OBVIOUS
  <2>5. QED
    BY <1>3, <1>4, <2>2, <2>3, <2>4
<1>8. (q + 1) - 1 = q
  BY <1>3
<1>9. overall = size * ((q + 1) - 1) + (m + 1)
  <2>1. PICK p \in Int : p = size * q
    OBVIOUS
  <2>2. overall = p + (m + 1)
    BY <1>1, <1>2, <1>4, <2>1
  <2>3. QED
    BY <1>8, <2>1, <2>2
<1>10. QED
  BY <1>3, <1>6, <1>7, <1>9

LEMMA NumberOfPlace ==
  ASSUME NEW size \in Nat, size > 0, NEW rounds \in Nat, NEW round \in 1..rounds, NEW place \in 1..size
  PROVE  size * (round - 1) + place \in 1..(size * rounds)
<1>1. PICK p \in Nat : p = size * (round - 1)
  OBVIOUS
<1>2. size * (round - 1) + size <= size * rounds
  OBVIOUS
<1>3. p + size <= size * rounds /\ size * rounds \in Int
  BY <1>1, <1>2
<1>4. p + place \in 1..(size * rounds)
  BY <1>3
<1>5. QED
  BY <1>1, <1>4

LEMMA Interval == \A n \in Nat : IsFiniteSet(1..n) /\ Cardinality(1..n) = n
<1> TAKE n \in Nat
<1>1. IsFiniteSet(1..n) /\ Cardinality(1..n) = IF 1 > n THEN 0 ELSE n - 1 + 1
  BY FS_Interval
<1>2. QED
  BY <1>1

(* Where as many things cover a set as it has members, each covers one of its    *)
(* own, and none lies outside.                                                   *)
LEMMA CoverIsExact ==
  ASSUME NEW S, NEW T, NEW f, IsFiniteSet(S), IsFiniteSet(T), Cardinality(S) = Cardinality(T),
         \A t \in T : \E s \in S : f[s] = t
  PROVE  /\ \A s \in S : f[s] \in T
         /\ \A s, r \in S : f[s] = f[r] => s = r
<1> DEFINE U == {f[s] : s \in S}
           g == [s \in S |-> f[s]]
<1>1. g \in Surjection(S, U)
  BY DEF Surjection
<1>2. IsFiniteSet(U) /\ Cardinality(U) <= Cardinality(S)
      /\ (Cardinality(U) = Cardinality(S) <=> g \in Injection(S, U))
  BY <1>1, FS_Surjection
<1>3. T \subseteq U
  OBVIOUS
<1>4. Cardinality(T) <= Cardinality(U) /\ (Cardinality(U) = Cardinality(T) => U = T)
  BY <1>2, <1>3, FS_Subset
<1>5. Cardinality(U) \in Nat /\ Cardinality(S) \in Nat /\ Cardinality(T) \in Nat
  BY <1>2, FS_CardinalityType
<1>6. Cardinality(U) = Cardinality(S) /\ U = T
  BY <1>2, <1>4, <1>5
<1>7. g \in Injection(S, U)
  BY <1>2, <1>6
<1>8. QED
  BY <1>6, <1>7 DEF Injection, IsInjective

(* As many as a set has, and no two alike, is all of a set's.                    *)
LEMMA OneEach ==
  ASSUME NEW S, NEW T, NEW f, IsFiniteSet(S),
         \A s \in S : f[s] \in T, \A t \in T : \E s \in S : f[s] = t,
         \A s, r \in S : f[s] = f[r] => s = r
  PROVE  Cardinality(S) = Cardinality(T)
<1> DEFINE g == [s \in S |-> f[s]]
<1>1. g \in Surjection(S, T)
  BY DEF Surjection
<1>2. g \in Injection(S, T)
  BY DEF Injection, IsInjective
<1>3. QED
  BY <1>1, <1>2, FS_Surjection
-------------------------------------------------------------------------------
(* The pick slots of a league.                                                   *)

InRound(answer, round) == {k \in DOMAIN answer.picks : answer.picks[k].round = round}

LEMMA LeagueFacts ==
  ASSUME NEW answer \in Leagues, LeaguePasses(answer)
  PROVE  /\ Len(answer.teams) \in Nat /\ Len(answer.teams) > 0
         /\ IsFiniteSet(ToSet(answer.teams)) /\ Cardinality(ToSet(answer.teams)) = Len(answer.teams)
         /\ RosterSize(answer) \in Nat /\ RosterSize(answer) > 0
         /\ Len(answer.picks) \in Nat /\ DOMAIN answer.picks = 1..Len(answer.picks)
         /\ IsFiniteSet(DOMAIN answer.picks) /\ Cardinality(DOMAIN answer.picks) = Len(answer.picks)
         /\ \A k \in DOMAIN answer.picks : /\ answer.picks[k].overall \in Nat
                                           /\ answer.picks[k].round \in Nat
                                           /\ answer.picks[k].roundPick \in Nat
<1>1. /\ Len(answer.teams) \in Nat /\ Len(answer.teams) > 0 /\ RosterSize(answer) \in 1..40
      /\ Cardinality(ToSet(answer.teams)) = Len(answer.teams)
  <2>1. /\ Len(answer.teams) \in 2..32 /\ RosterSize(answer) \in 1..40
        /\ Cardinality(ToSet(answer.teams)) = Len(answer.teams)
    BY Zenon DEF LeaguePasses
  <2>2. \A n \in 2..32 : n \in Nat /\ n > 0
    OBVIOUS
  <2>3. QED
    BY <2>1, <2>2
<1>2. answer.teams \in Seq(ToSet(answer.teams)) /\ answer.picks \in Seq(ToSet(answer.picks))
  BY LeagueAssumption
<1>3. IsFiniteSet(ToSet(answer.teams))
  <2>1. DOMAIN answer.teams = 1..Len(answer.teams)
    BY <1>2
  <2>2. IsFiniteSet(DOMAIN answer.teams)
    BY <1>1, <2>1, Interval
  <2>3. [k \in DOMAIN answer.teams |-> answer.teams[k]] \in Surjection(DOMAIN answer.teams, ToSet(answer.teams))
    BY DEF Surjection, ToSet
  <2>4. QED
    BY <2>2, <2>3, FS_Surjection
<1>4. Len(answer.picks) \in Nat /\ DOMAIN answer.picks = 1..Len(answer.picks)
  BY <1>2
<1>5. IsFiniteSet(DOMAIN answer.picks) /\ Cardinality(DOMAIN answer.picks) = Len(answer.picks)
  BY <1>4, Interval
<1>6. \A k \in DOMAIN answer.picks : answer.picks[k] \in ToSet(answer.picks)
  BY DEF ToSet
<1>7. \A k \in DOMAIN answer.picks : /\ answer.picks[k].overall \in Nat
                                     /\ answer.picks[k].round \in Nat
                                     /\ answer.picks[k].roundPick \in Nat
  BY <1>6, LeagueAssumption
<1>8. RosterSize(answer) \in Nat /\ RosterSize(answer) > 0
  <2>1. \A n \in 1..40 : n \in Nat /\ n > 0
    OBVIOUS
  <2>2. QED
    BY <1>1, <2>1
<1>9. QED
  BY <1>1, <1>3, <1>4, <1>5, <1>7, <1>8

LEMMA InRoundIsFinite ==
  ASSUME NEW answer \in Leagues, LeaguePasses(answer), NEW round
  PROVE  IsFiniteSet(InRound(answer, round))
BY LeagueFacts, FS_Subset DEF InRound

(* A table of slots that passes numbers each pick of the draft once, and places  *)
(* it where its number says.                                                     *)
LEMMA PassedSlots ==
  ASSUME NEW answer \in Leagues, LeaguePasses(answer), SlotsPass(answer)
  PROVE  /\ Len(answer.picks) = Len(answer.teams) * RosterSize(answer)
         /\ \A k \in DOMAIN answer.picks :
              /\ answer.picks[k].overall \in 1..Len(answer.picks)
              /\ answer.picks[k].team \in ToSet(answer.teams)
              /\ answer.picks[k].round \in 1..RosterSize(answer)
              /\ answer.picks[k].roundPick \in 1..Len(answer.teams)
              /\ answer.picks[k].overall =
                   Len(answer.teams) * (answer.picks[k].round - 1) + answer.picks[k].roundPick
         /\ \A n \in 1..Len(answer.picks) : \E k \in DOMAIN answer.picks : answer.picks[k].overall = n
         /\ \A k, j \in DOMAIN answer.picks :
              answer.picks[k].overall = answer.picks[j].overall => k = j
<1> DEFINE size == Len(answer.teams)
           rounds == RosterSize(answer)
           total == size * rounds
           picks == answer.picks
           number == [k \in DOMAIN picks |-> picks[k].overall]
<1>1. /\ Len(picks) = total /\ {pick.overall : pick \in ToSet(picks)} = 1..total
      /\ \A pick \in ToSet(picks) : pick.team \in ToSet(answer.teams) /\ MetadataFits(pick, size)
  BY DEF SlotsPass
<1>2. /\ size \in Nat /\ size > 0 /\ rounds \in Nat /\ Len(picks) \in Nat
      /\ DOMAIN picks = 1..Len(picks) /\ IsFiniteSet(DOMAIN picks)
  BY LeagueFacts
<1>3. \A k \in DOMAIN picks : picks[k] \in ToSet(picks)
  BY DEF ToSet
<1>4. \A n \in 1..Len(picks) : \E k \in DOMAIN picks : picks[k].overall = n
  BY <1>1 DEF ToSet
<1>5. \A k \in DOMAIN picks : picks[k].overall \in 1..Len(picks)
  BY <1>1, <1>3
<1>6. \A k, j \in DOMAIN picks : number[k] = number[j] => k = j
  <2>1. PICK f, S : f = number /\ S = 1..Len(picks)
    OBVIOUS
  <2>2. \A n \in S : \E k \in S : f[k] = n
    BY <1>2, <1>4, <2>1
  <2>3. IsFiniteSet(S)
    BY <1>2, <2>1
  <2>4. \A k, j \in S : f[k] = f[j] => k = j
    BY <2>2, <2>3, CoverIsExact
  <2>5. QED
    BY <1>2, <2>1, <2>4
<1>7. ASSUME NEW k \in DOMAIN picks
      PROVE  /\ picks[k].round \in 1..rounds /\ picks[k].roundPick \in 1..size
             /\ picks[k].overall = size * (picks[k].round - 1) + picks[k].roundPick
  <2>1. PICK n \in 1..(size * rounds) : n = picks[k].overall
    BY <1>1, <1>5
  <2>2. picks[k].round = RoundOf(n, size) /\ picks[k].roundPick = RoundPickOf(n, size)
    BY <1>1, <1>3, <2>1 DEF MetadataFits
  <2>3. size \in Nat /\ size > 0 /\ rounds \in Nat
    BY <1>2
  <2> HIDE DEF size, rounds, picks
  <2>4. /\ RoundOf(n, size) \in 1..rounds /\ RoundPickOf(n, size) \in 1..size
        /\ n = size * (RoundOf(n, size) - 1) + RoundPickOf(n, size)
    BY <2>1, <2>3, PlaceOfNumber
  <2>5. QED
    BY <2>1, <2>2, <2>4
<1>8. QED
  BY <1>1, <1>3, <1>4, <1>5, <1>6, <1>7

LEMMA PassedIsLegal ==
  ASSUME NEW answer \in Leagues, LeaguePasses(answer), SlotsPass(answer)
  PROVE  LegalSlots(answer)
<1> DEFINE size == Len(answer.teams)
           rounds == RosterSize(answer)
           picks == answer.picks
<1>1. /\ size \in Nat /\ size > 0 /\ rounds \in Nat /\ Len(picks) \in Nat
      /\ DOMAIN picks = 1..Len(picks)
      /\ \A k \in DOMAIN picks : picks[k].overall \in Nat /\ picks[k].round \in Nat
                                 /\ picks[k].roundPick \in Nat
  BY LeagueFacts
<1>0. size \in Nat /\ size > 0
  BY <1>1
<1>2. /\ Len(picks) = size * rounds
      /\ \A k \in DOMAIN picks :
           /\ picks[k].round \in 1..rounds /\ picks[k].roundPick \in 1..size
           /\ picks[k].overall = size * (picks[k].round - 1) + picks[k].roundPick
      /\ \A n \in 1..Len(picks) : \E k \in DOMAIN picks : picks[k].overall = n
      /\ \A k, j \in DOMAIN picks : picks[k].overall = picks[j].overall => k = j
  BY PassedSlots
<1>3. ASSUME NEW round \in 1..rounds
      PROVE  /\ \A team \in ToSet(answer.teams) : \E k \in InRound(answer, round) : picks[k].team = team
             /\ \A n \in 1..size : \E k \in InRound(answer, round) : picks[k].roundPick = n
             /\ Cardinality(InRound(answer, round)) = size
  <2>1. \A k : k \in InRound(answer, round) <=> k \in DOMAIN picks /\ picks[k].round = round
    BY DEF InRound
  <2>2. \A team \in ToSet(answer.teams) : \E k \in InRound(answer, round) : picks[k].team = team
    <3>1. {pick.team : pick \in {q \in ToSet(picks) : q.round = round}} = ToSet(answer.teams)
      BY DEF SlotsPass, RoundIsWhole
    <3>2. QED
      BY <2>1, <3>1 DEF ToSet
  <2>3. ASSUME NEW place \in 1..size
        PROVE  \E k \in InRound(answer, round) : picks[k].roundPick = place
    <3>1. PICK r \in 1..rounds, p \in 1..size : r = round /\ p = place
      OBVIOUS
    <3>2. PICK n \in 1..(size * rounds) : n = size * (r - 1) + p
      BY <1>1, NumberOfPlace
    <3>3. PICK k \in DOMAIN picks : picks[k].overall = n
      BY <1>2
    <3>4. picks[k].round = RoundOf(n, size) /\ picks[k].roundPick = RoundPickOf(n, size)
      <4>1. PICK s \in 1..rounds, q \in 1..size : s = picks[k].round /\ q = picks[k].roundPick
        BY <1>2
      <4>2. n \in Nat /\ s \in Nat \ {0}
        OBVIOUS
      <4>3. picks[k].overall = size * (picks[k].round - 1) + picks[k].roundPick
        BY <1>2
      <4> HIDE DEF size, rounds, picks
      <4>4. n = size * (s - 1) + q
        BY <3>3, <4>1, <4>3
      <4>5. s = RoundOf(n, size) /\ q = RoundPickOf(n, size)
        BY <1>0, <4>2, <4>4, RoundAndPlace
      <4>6. QED
        BY <4>1, <4>5
    <3>5. r = RoundOf(n, size) /\ p = RoundPickOf(n, size)
      <4>1. n \in Nat /\ r \in Nat \ {0}
        OBVIOUS
      <4> HIDE DEF size, rounds, picks
      <4>2. QED
        BY <1>0, <3>2, <4>1, RoundAndPlace
    <3>6. QED
      BY <2>1, <3>1, <3>4, <3>5
  <2>4. Cardinality(InRound(answer, round)) = size
    <3>1. PICK f, S, T : /\ f = [k \in DOMAIN picks |-> picks[k].roundPick]
                         /\ S = InRound(answer, round) /\ T = 1..size
      OBVIOUS
    <3>2. \A k \in S : k \in DOMAIN picks /\ f[k] = picks[k].roundPick /\ picks[k].round = round
      BY <2>1, <3>1
    <3>3. \A k \in S : f[k] \in T
      BY <1>2, <3>1, <3>2
    <3>4. \A t \in T : \E k \in S : f[k] = t
      BY <2>3, <3>1, <3>2
    <3>5. \A k, j \in S : f[k] = f[j] => k = j
      BY <1>2, <3>2
    <3>6. IsFiniteSet(S)
      BY <3>1, InRoundIsFinite
    <3>7. Cardinality(S) = Cardinality(T)
      BY <3>3, <3>4, <3>5, <3>6, OneEach
    <3>8. Cardinality(T) = size
      BY <1>1, <3>1, Interval
    <3>9. QED
      BY <3>1, <3>7, <3>8
  <2>5. QED
    BY <2>2, <2>3, <2>4
<1>4. Len(picks) <= 1000
  BY <1>2 DEF SlotsPass
<1>5. \A pick \in ToSet(picks) : pick.round \in 1..rounds
                                 /\ pick.overall = size * (pick.round - 1) + pick.roundPick
  BY <1>2 DEF ToSet
<1>6. QED
  BY <1>3, <1>4, <1>5 DEF LegalSlots, InRound

LEMMA LegalIsPassed ==
  ASSUME NEW answer \in Leagues, LeaguePasses(answer), LegalSlots(answer)
  PROVE  SlotsPass(answer)
<1> DEFINE size == Len(answer.teams)
           rounds == RosterSize(answer)
           picks == answer.picks
<1>1. /\ size \in Nat /\ size > 0 /\ rounds \in Nat /\ Len(picks) \in Nat
      /\ DOMAIN picks = 1..Len(picks)
      /\ IsFiniteSet(DOMAIN picks) /\ Cardinality(DOMAIN picks) = Len(picks)
      /\ IsFiniteSet(ToSet(answer.teams)) /\ Cardinality(ToSet(answer.teams)) = size
      /\ \A k \in DOMAIN picks : picks[k].overall \in Nat /\ picks[k].round \in Nat
                                 /\ picks[k].roundPick \in Nat
  BY LeagueFacts
<1>2. /\ Len(picks) <= 1000
      /\ \A k \in DOMAIN picks : /\ picks[k].round \in 1..rounds
                                 /\ picks[k].overall = size * (picks[k].round - 1) + picks[k].roundPick
  <2>1. \A k \in DOMAIN picks : picks[k] \in ToSet(picks)
    BY DEF ToSet
  <2>2. QED
    BY <2>1 DEF LegalSlots
<1>3. \A round \in 1..rounds :
        /\ \A team \in ToSet(answer.teams) : \E k \in InRound(answer, round) : picks[k].team = team
        /\ \A n \in 1..size : \E k \in InRound(answer, round) : picks[k].roundPick = n
        /\ Cardinality(InRound(answer, round)) = size
  BY DEF LegalSlots, InRound
<1>4. \A round, k : k \in InRound(answer, round) <=> k \in DOMAIN picks /\ picks[k].round = round
  BY DEF InRound
<1>5. ASSUME NEW round \in 1..rounds
      PROVE  /\ \A k \in InRound(answer, round) :
                  picks[k].roundPick \in 1..size /\ picks[k].team \in ToSet(answer.teams)
             /\ \A k, j \in InRound(answer, round) : picks[k].roundPick = picks[j].roundPick => k = j
  <2>1. PICK S, P, f, g : /\ S = InRound(answer, round) /\ P = 1..size
                          /\ f = [k \in DOMAIN picks |-> picks[k].roundPick]
                          /\ g = [k \in DOMAIN picks |-> picks[k].team]
    OBVIOUS
  <2>2. \A k \in S : f[k] = picks[k].roundPick /\ g[k] = picks[k].team
    BY <1>4, <2>1
  <2>3. /\ IsFiniteSet(S) /\ Cardinality(S) = size
        /\ IsFiniteSet(P) /\ Cardinality(P) = size
    BY <1>1, <1>3, <2>1, InRoundIsFinite, Interval
  <2>4. /\ \A t \in P : \E k \in S : f[k] = t
        /\ \A t \in ToSet(answer.teams) : \E k \in S : g[k] = t
    <3>1. \A t \in 1..size : \E k \in InRound(answer, round) : picks[k].roundPick = t
      BY <1>3
    <3>2. \A t \in ToSet(answer.teams) : \E k \in InRound(answer, round) : picks[k].team = t
      BY <1>3
    <3>3. ASSUME NEW t \in P
          PROVE  \E k \in S : f[k] = t
      <4>1. PICK k \in InRound(answer, round) : picks[k].roundPick = t
        BY <2>1, <3>1
      <4>2. k \in S
        BY <2>1
      <4>3. f[k] = t
        BY <2>2, <4>1, <4>2
      <4>4. QED
        BY <4>2, <4>3
    <3>4. ASSUME NEW t \in ToSet(answer.teams)
          PROVE  \E k \in S : g[k] = t
      <4>1. PICK k \in InRound(answer, round) : picks[k].team = t
        BY <3>2
      <4>2. k \in S
        BY <2>1
      <4>3. g[k] = t
        BY <2>2, <4>1, <4>2
      <4>4. QED
        BY <4>2, <4>3
    <3>5. QED
      BY <3>3, <3>4
  <2>5. /\ \A k \in S : f[k] \in P
        /\ \A k, j \in S : f[k] = f[j] => k = j
    BY <2>3, <2>4, CoverIsExact
  <2>6. \A k \in S : g[k] \in ToSet(answer.teams)
    <3>1. PICK T : T = ToSet(answer.teams)
      OBVIOUS
    <3>2. \A k \in S : g[k] \in T
      BY <1>1, <2>3, <2>4, <3>1, CoverIsExact
    <3>3. QED
      BY <3>1, <3>2
  <2>7. \A k \in S : picks[k].roundPick \in P /\ picks[k].team \in ToSet(answer.teams)
    BY <2>2, <2>5, <2>6
  <2>8. \A k, j \in S : picks[k].roundPick = picks[j].roundPick => k = j
    BY <2>2, <2>5
  <2>9. QED
    BY <2>1, <2>7, <2>8
<1>6. \A k \in DOMAIN picks : picks[k].roundPick \in 1..size /\ picks[k].team \in ToSet(answer.teams)
  BY <1>2, <1>4, <1>5
<1>7. ASSUME NEW k \in DOMAIN picks
      PROVE  MetadataFits(picks[k], size) /\ picks[k].overall \in 1..(size * rounds)
  <2>1. PICK n \in Nat, r \in 1..rounds, p \in 1..size :
          n = picks[k].overall /\ r = picks[k].round /\ p = picks[k].roundPick
    BY <1>1, <1>2, <1>6
  <2>2. n = size * (r - 1) + p /\ n \in Nat /\ r \in Nat \ {0}
    BY <1>2, <2>1
  <2> HIDE DEF size, rounds, picks
  <2>3. r = RoundOf(n, size) /\ p = RoundPickOf(n, size)
    <3>1. size \in Nat /\ size > 0
      BY <1>1
    <3>2. QED
      BY <2>2, <3>1, RoundAndPlace
  <2>4. n \in 1..(size * rounds)
    BY <1>1, <2>2, NumberOfPlace
  <2>5. QED
    BY <2>1, <2>3, <2>4 DEF MetadataFits
<1>8. ASSUME NEW n \in 1..(size * rounds)
      PROVE  \E k \in DOMAIN picks : picks[k].overall = n
  <2>1. PICK r \in 1..rounds, p \in 1..size : n = size * (r - 1) + p
    <3> HIDE DEF size, rounds, picks
    <3>1. QED
      BY <1>1, PlaceOfNumber
  <2>2. PICK k \in InRound(answer, r) : picks[k].roundPick = p
    BY <1>3
  <2>3. k \in DOMAIN picks /\ picks[k].round = r
    BY <1>4, <2>2
  <2>4. QED
    BY <1>2, <2>1, <2>2, <2>3
<1>9. \A k, j \in DOMAIN picks : picks[k].overall = picks[j].overall => k = j
  <2> SUFFICES ASSUME NEW k \in DOMAIN picks, NEW j \in DOMAIN picks,
                      picks[k].overall = picks[j].overall
               PROVE  k = j
    OBVIOUS
  <2>1. picks[k].round = picks[j].round /\ picks[k].roundPick = picks[j].roundPick
    BY <1>7 DEF MetadataFits
  <2>2. PICK round \in 1..rounds : round = picks[k].round
    BY <1>2
  <2>3. k \in InRound(answer, round) /\ j \in InRound(answer, round)
    BY <1>4, <2>1, <2>2
  <2>4. QED
    BY <1>5, <2>1, <2>3
<1>10. Len(picks) = size * rounds
  <2>1. PICK S, T, f : S = DOMAIN picks /\ T = 1..(size * rounds)
                       /\ f = [k \in DOMAIN picks |-> picks[k].overall]
    OBVIOUS
  <2>2. /\ IsFiniteSet(S) /\ \A k \in S : f[k] \in T
        /\ \A t \in T : \E k \in S : f[k] = t
        /\ \A k, j \in S : f[k] = f[j] => k = j
    BY <1>1, <1>7, <1>8, <1>9, <2>1
  <2>3. Cardinality(S) = Cardinality(T)
    BY <2>2, OneEach
  <2>4. size * rounds \in Nat
    BY <1>1
  <2>5. Cardinality(T) = size * rounds
    BY <2>1, <2>4, Interval
  <2>6. QED
    BY <1>1, <2>1, <2>3, <2>5
<1>11. {pick.overall : pick \in ToSet(picks)} = 1..(size * rounds)
  BY <1>7, <1>8 DEF ToSet
<1>12. \A pick \in ToSet(picks) : pick.team \in ToSet(answer.teams) /\ MetadataFits(pick, size)
  BY <1>6, <1>7 DEF ToSet
<1>13. \A round \in 1..rounds : RoundIsWhole(round, answer)
  <2> SUFFICES ASSUME NEW round \in 1..rounds
               PROVE  {pick.team : pick \in {q \in ToSet(picks) : q.round = round}} = ToSet(answer.teams)
    BY DEF RoundIsWhole
  <2>1. \A team \in ToSet(answer.teams) : \E k \in DOMAIN picks :
          picks[k].round = round /\ picks[k].team = team
    BY <1>3, <1>4
  <2>2. \A team \in ToSet(answer.teams) : \E pick \in ToSet(picks) :
          pick.round = round /\ pick.team = team
    BY <2>1 DEF ToSet
  <2>3. \A pick \in ToSet(picks) : pick.team \in ToSet(answer.teams)
    BY <1>6 DEF ToSet
  <2> HIDE DEF picks
  <2>4. QED
    BY <2>2, <2>3
<1>14. QED
  BY <1>2, <1>10, <1>11, <1>12, <1>13 DEF SlotsPass

(* The initializer lists the teams in the order of the passed slots.             *)
LEMMA SlotsInOrder ==
  ASSUME NEW answer \in Leagues, LeaguePasses(answer), SlotsPass(answer), NEW catalog
  PROVE  /\ \A pick \in ToSet(answer.picks) :
              DraftInit(answer, catalog).slots[pick.overall] = pick.team
         /\ DraftInit(answer, catalog).slots \in [1..Len(answer.picks) -> ToSet(answer.teams)]
<1> DEFINE picks == answer.picks
           ordered == [n \in DOMAIN picks |-> (CHOOSE pick \in ToSet(picks) : pick.overall = n).team]
<1>1. DraftInit(answer, catalog).slots = ordered
  BY DEF DraftInit
<1>2. /\ DOMAIN picks = 1..Len(picks)
      /\ \A k \in DOMAIN picks : picks[k].overall \in DOMAIN picks /\ picks[k].team \in ToSet(answer.teams)
      /\ \A n \in DOMAIN picks : \E k \in DOMAIN picks : picks[k].overall = n
      /\ \A k, j \in DOMAIN picks : picks[k].overall = picks[j].overall => k = j
  <2>1. DOMAIN picks = 1..Len(picks)
    BY LeagueFacts
  <2>2. /\ \A k \in DOMAIN picks :
             picks[k].overall \in 1..Len(picks) /\ picks[k].team \in ToSet(answer.teams)
        /\ \A n \in 1..Len(picks) : \E k \in DOMAIN picks : picks[k].overall = n
        /\ \A k, j \in DOMAIN picks : picks[k].overall = picks[j].overall => k = j
    BY PassedSlots
  <2>3. QED
    BY <2>1, <2>2
<1>3. /\ \A pick \in ToSet(picks) : pick.overall \in DOMAIN picks /\ pick.team \in ToSet(answer.teams)
      /\ \A n \in DOMAIN picks : \E pick \in ToSet(picks) : pick.overall = n
      /\ \A pick, other \in ToSet(picks) : pick.overall = other.overall => pick = other
  <2>1. /\ \A k \in DOMAIN picks : picks[k] \in ToSet(picks)
        /\ \A pick \in ToSet(picks) : \E k \in DOMAIN picks : pick = picks[k]
    BY DEF ToSet
  <2>2. \A pick \in ToSet(picks) : pick.overall \in DOMAIN picks /\ pick.team \in ToSet(answer.teams)
    BY <1>2, <2>1
  <2>3. \A n \in DOMAIN picks : \E pick \in ToSet(picks) : pick.overall = n
    BY <1>2, <2>1
  <2>4. ASSUME NEW pick \in ToSet(picks), NEW other \in ToSet(picks), pick.overall = other.overall
        PROVE  pick = other
    <3>1. PICK k \in DOMAIN picks : pick = picks[k]
      BY <2>1
    <3>2. PICK j \in DOMAIN picks : other = picks[j]
      BY <2>1
    <3>3. k = j
      BY <1>2, <2>4, <3>1, <3>2
    <3>4. QED
      BY <3>1, <3>2, <3>3
  <2>5. QED
    BY <2>2, <2>3, <2>4
<1>4. \A pick \in ToSet(picks) : ordered[pick.overall] = pick.team
  BY <1>3
<1>5. ordered \in [DOMAIN picks -> ToSet(answer.teams)]
  BY <1>3
<1>6. QED
  BY <1>1, <1>2, <1>4, <1>5

-------------------------------------------------------------------------------
(* Induction and folds.                                                          *)

(* The least of some numbers up to n: those below one that is not the least are  *)
(* fewer, and set inclusion on finite sets is well-founded.                      *)
LEMMA Least ==
  ASSUME NEW n \in Nat, NEW T, T \subseteq 0..n, T # {}
  PROVE  \E m \in T : \A k \in T : m <= k
<1>1. T # {}
  OBVIOUS
<1> DEFINE Below(k) == {q \in T : q < k}
           Family == {Below(k) : k \in T}
<1>2. Family \subseteq FiniteSubsetsOf(0..n)
  <2>1. IsFiniteSet(0..n)
    BY FS_Interval
  <2>2. ASSUME NEW U \in SUBSET (0..n)
        PROVE  IsFiniteSet(U)
    BY <2>1, FS_Subset
  <2>3. QED
    BY <2>2 DEF FiniteSubsetsOf
<1>3. Family # {}
  BY <1>1
<1>4. \E m \in T : \A k \in T : ~(k < m)
  <2>1. IsWellFoundedOn(StrictSubsetOrdering(0..n), FiniteSubsetsOf(0..n))
    <3>1. IsFiniteSet(0..n)
      BY FS_Interval
    <3>2. QED
      BY <3>1, FS_StrictSubsetOrderingWellFounded
  <2>2. PICK U \in Family : \A V \in Family : <<V, U>> \notin StrictSubsetOrdering(0..n)
    <3> HIDE DEF Family
    <3>1. QED
      BY <1>2, <1>3, <2>1, WFMin
  <2>3. PICK m \in T : U = Below(m)
    OBVIOUS
  <2>4. ASSUME NEW k \in T, k < m
        PROVE  FALSE
    <3>1. k \in Int /\ m \in Int /\ \A q \in T : q \in Int
      OBVIOUS
    <3>2. Below(k) \subseteq Below(m) /\ k \in Below(m) /\ k \notin Below(k)
      <4>1. \A q \in T : q < k => q < m
        BY <2>4, <3>1
      <4>2. ~(k < k)
        BY <3>1
      <4>3. QED
        BY <2>4, <4>1, <4>2
    <3>3. Below(k) \subseteq 0..n /\ Below(m) \subseteq 0..n
      OBVIOUS
    <3>4. <<Below(k), U>> \in StrictSubsetOrdering(0..n)
      BY <2>3, <3>2, <3>3 DEF StrictSubsetOrdering
    <3>5. QED
      BY <2>2, <3>4
  <2>5. QED
    BY <2>4
<1>5. \A k \in T : k \in Int
  OBVIOUS
<1>6. QED
  BY <1>4, <1>5

(* A set that holds 0, and with each number the next, holds all up to n.         *)
LEMMA Upwards ==
  ASSUME NEW n \in Nat, NEW S, 0 \in S, \A k \in 1..n : k - 1 \in S => k \in S
  PROVE  0..n \subseteq S
<1> DEFINE T == {k \in 0..n : k \notin S}
<1>1. SUFFICES ASSUME T # {}
               PROVE  FALSE
  OBVIOUS
<1>2. PICK m \in T : \A k \in T : m <= k
  <2>1. T \subseteq 0..n
    OBVIOUS
  <2> HIDE DEF T
  <2>2. QED
    BY <1>1, <2>1, Least
<1>3. m \in Nat /\ m <= n /\ m # 0
  OBVIOUS
<1>4. m - 1 \in S
  <2>1. SUFFICES ASSUME m - 1 \in T
                 PROVE  FALSE
    BY <1>3
  <2>2. QED
    BY <1>2, <1>3, <2>1
<1>5. QED
  BY <1>3, <1>4

(* The largest of some numbers up to n.                                          *)
LEMMA Largest ==
  ASSUME NEW n \in Nat, NEW T, T \subseteq 1..n, T # {}
  PROVE  Max(T) \in T /\ \A k \in T : k <= Max(T)
<1> DEFINE S == {k \in 0..n : \A U \in SUBSET (1..k) : U # {} => \E m \in U : \A j \in U : m >= j}
<1>1. 0 \in S
  <2>1. 1..0 = {}
    OBVIOUS
  <2>2. \A U \in SUBSET (1..0) : U = {}
    BY <2>1
  <2>3. \A U \in SUBSET (1..0) : U # {} => \E m \in U : \A j \in U : m >= j
    BY <2>2
  <2>4. 0 \in 0..n
    OBVIOUS
  <2> HIDE DEF S
  <2>5. QED
    BY <2>3, <2>4 DEF S
<1>2. \A k \in 1..n : k - 1 \in S => k \in S
  <2>1. SUFFICES ASSUME NEW k \in 1..n, k - 1 \in S, NEW U \in SUBSET (1..k), U # {}
                 PROVE  \E m \in U : \A j \in U : m >= j
    OBVIOUS
  <2>2. CASE k \in U
    BY <2>2
  <2>3. CASE k \notin U
    <3>1. U \in SUBSET (1..(k - 1))
      BY <2>3
    <3>2. QED
      BY <2>1, <3>1
  <2>4. QED
    BY <2>2, <2>3
<1>3. n \in S
  <2> HIDE DEF S
  <2>1. 0..n \subseteq S
    BY <1>1, <1>2, Upwards
  <2>2. QED
    BY <2>1
<1>4. \E m \in T : \A k \in T : m >= k
  BY <1>3
<1>5. Max(T) \in T /\ \A k \in T : Max(T) >= k
  BY <1>4 DEF Max
<1>6. QED
  BY <1>5

(* f starts at 0 and takes a step with each number.                              *)
Recurs(f, n, start, step) == f[0] = start /\ \A k \in 1..n : f[k] = step[k][f[k - 1]]

(* A recursion over numbers has a solution.                                      *)
LEMMA RecursionExists ==
  ASSUME NEW n \in Nat, NEW V, NEW start \in V, NEW step \in [1..n -> [V -> V]]
  PROVE  \E f \in [0..n -> V] : Recurs(f, n, start, step)
<1> DEFINE Solves(f, m) == f[0] = start /\ \A k \in 1..m : f[k] = step[k][f[k - 1]]
           S == {m \in 0..n : \E f \in [0..m -> V] : Solves(f, m)}
<1>1. 0 \in S
  <2>1. [k \in 0..0 |-> start] \in [0..0 -> V] /\ Solves([k \in 0..0 |-> start], 0)
    OBVIOUS
  <2>2. 0 \in 0..n
    OBVIOUS
  <2>3. \E f \in [0..0 -> V] : Solves(f, 0)
    <3> HIDE DEF Solves
    <3>1. QED
      BY <2>1
  <2>4. QED
    BY <2>2, <2>3
<1>2. \A m \in 1..n : m - 1 \in S => m \in S
  <2>1. SUFFICES ASSUME NEW m \in 1..n, m - 1 \in S
                 PROVE  m \in S
    OBVIOUS
  <2>2. PICK f \in [0..(m - 1) -> V] : Solves(f, m - 1)
    BY <2>1
  <2> DEFINE g == [k \in 0..m |-> IF k = m THEN step[m][f[m - 1]] ELSE f[k]]
  <2>3. g \in [0..m -> V]
    <3>1. m - 1 \in 0..(m - 1) /\ f[m - 1] \in V
      OBVIOUS
    <3>2. step[m] \in [V -> V]
      OBVIOUS
    <3>3. step[m][f[m - 1]] \in V
      BY <3>1, <3>2
    <3>4. \A k \in 0..m : k # m => k \in 0..(m - 1)
      OBVIOUS
    <3>5. QED
      BY <3>3, <3>4
  <2>4. g[0] = start
    BY <2>2
  <2>5. \A k \in 1..m : g[k] = step[k][g[k - 1]]
    <3>1. SUFFICES ASSUME NEW k \in 1..m
                   PROVE  g[k] = step[k][g[k - 1]]
      OBVIOUS
    <3>2. k - 1 \in 0..m /\ k - 1 # m /\ k \in 0..m /\ g[k - 1] = f[k - 1]
      OBVIOUS
    <3>3. CASE k = m
      BY <3>2, <3>3
    <3>4. CASE k # m
      <4>1. k \in 1..(m - 1)
        BY <3>4
      <4>2. QED
        BY <2>2, <3>2, <3>4, <4>1
    <3>5. QED
      BY <3>3, <3>4
  <2> HIDE DEF g
  <2>6. Solves(g, m) /\ g \in [0..m -> V] /\ m \in 0..n
    BY <2>3, <2>4, <2>5
  <2> HIDE DEF Solves
  <2>7. \E h \in [0..m -> V] : Solves(h, m)
    BY <2>6
  <2>8. QED
    BY <2>6, <2>7
<1>3. n \in S
  <2> HIDE DEF S
  <2>1. 0..n \subseteq S
    BY <1>1, <1>2, Upwards
  <2>2. QED
    BY <2>1
<1>4. QED
  BY <1>3 DEF Recurs

(* g folds the subsets of S, taking pick[s] last.                                *)
Folds(g, S, start, step, pick) ==
  \A s \in SUBSET S : g[s] = IF s = {} THEN start ELSE step[pick[s]][g[s \ {pick[s]}]]

ListFolds(g, n, start, step) ==
  \A s \in SUBSET (1..n) : g[s] = IF s = {} THEN start ELSE step[Max(s)][g[s \ {Max(s)}]]

(* A fold over a finite set has a solution: folding the sets of at most k        *)
(* elements first, then those of k + 1.                                          *)
LEMMA FoldExists ==
  ASSUME NEW S, IsFiniteSet(S), NEW V, NEW start \in V, NEW step \in [S -> [V -> V]],
         NEW pick \in [(SUBSET S) \ {{}} -> S], \A s \in (SUBSET S) \ {{}} : pick[s] \in s
  PROVE  \E g \in [SUBSET S -> V] : Folds(g, S, start, step, pick)
<1> DEFINE Small(k) == {s \in SUBSET S : Cardinality(s) <= k}
           Value(g, s) == IF s = {} THEN start ELSE step[pick[s]][g[s \ {pick[s]}]]
           Solved == {k \in 0..Cardinality(S) : \E g \in [SUBSET S -> V] :
                        \A s \in Small(k) : g[s] = Value(g, s)}
<1>0. Cardinality(S) \in Nat
  BY FS_CardinalityType
<1>1. \A s \in SUBSET S : IsFiniteSet(s) /\ Cardinality(s) \in Nat /\ Cardinality(s) <= Cardinality(S)
  BY FS_Subset, FS_CardinalityType
<1>2. \A s \in (SUBSET S) \ {{}} :
        /\ Cardinality(s) > 0
        /\ s \ {pick[s]} \in SUBSET S /\ Cardinality(s \ {pick[s]}) = Cardinality(s) - 1
  <2>1. SUFFICES ASSUME NEW s \in (SUBSET S) \ {{}}
                 PROVE  /\ Cardinality(s) > 0
                        /\ s \ {pick[s]} \in SUBSET S /\ Cardinality(s \ {pick[s]}) = Cardinality(s) - 1
    OBVIOUS
  <2>2. IsFiniteSet(s) /\ Cardinality(s) \in Nat
    BY <1>1
  <2>3. PICK x \in s : x = pick[s]
    OBVIOUS
  <2>4. Cardinality(s \ {x}) = Cardinality(s) - 1
    BY <2>2, FS_RemoveElement
  <2>5. Cardinality(s) # 0
    BY <2>2, FS_EmptySet
  <2>6. QED
    BY <2>2, <2>3, <2>4, <2>5
<1>3. 0 \in Solved
  <2>1. [s \in SUBSET S |-> start] \in [SUBSET S -> V]
    OBVIOUS
  <2>2. \A s \in Small(0) : s = {}
    <3>1. SUFFICES ASSUME NEW s \in Small(0), s # {}
                   PROVE  FALSE
      OBVIOUS
    <3>2. Cardinality(s) > 0 /\ Cardinality(s) \in Nat /\ Cardinality(s) <= 0
      BY <1>1, <1>2, <3>1
    <3>3. QED
      BY <3>2
  <2> DEFINE h == [s \in SUBSET S |-> start]
  <2>3. \A s \in Small(0) : h[s] = Value(h, s)
    BY <2>2
  <2>4. 0 \in 0..Cardinality(S)
    BY <1>0
  <2> HIDE DEF Value, Small, h
  <2>5. h \in [SUBSET S -> V]
    BY <2>1 DEF h
  <2>6. QED
    BY <2>3, <2>4, <2>5
<1>4. \A k \in 1..Cardinality(S) : k - 1 \in Solved => k \in Solved
  <2>1. SUFFICES ASSUME NEW k \in 1..Cardinality(S), k - 1 \in Solved
                 PROVE  k \in Solved
    OBVIOUS
  <2>2. PICK g \in [SUBSET S -> V] : \A s \in Small(k - 1) : g[s] = Value(g, s)
    BY <2>1
  <2> DEFINE h == [s \in SUBSET S |-> Value(g, s)]
  <2>3. h \in [SUBSET S -> V]
    <3>1. SUFFICES ASSUME NEW s \in SUBSET S, s # {}
                   PROVE  Value(g, s) \in V
      OBVIOUS
    <3>2. s \ {pick[s]} \in SUBSET S /\ pick[s] \in S
      BY <1>2, <3>1
    <3>3. g[s \ {pick[s]}] \in V /\ step[pick[s]] \in [V -> V]
      BY <3>2
    <3>4. QED
      BY <3>1, <3>3
  <2>4. \A s \in Small(k) : h[s] = Value(h, s)
    <3>1. SUFFICES ASSUME NEW s \in Small(k), s # {}
                   PROVE  h[s] = Value(h, s)
      OBVIOUS
    <3>2. s \ {pick[s]} \in SUBSET S /\ Cardinality(s \ {pick[s]}) = Cardinality(s) - 1
          /\ Cardinality(s) \in Nat
      BY <1>1, <1>2, <3>1
    <3>3. s \ {pick[s]} \in Small(k - 1)
      BY <1>0, <3>1, <3>2
    <3>4. h[s \ {pick[s]}] = g[s \ {pick[s]}]
      BY <2>2, <3>2, <3>3
    <3>5. QED
      BY <3>1, <3>4
  <2> HIDE DEF Value, Small, h
  <2>5. k \in 0..Cardinality(S)
    BY <1>0
  <2>6. QED
    BY <2>3, <2>4, <2>5
<1>5. Cardinality(S) \in Solved
  <2> HIDE DEF Solved
  <2>1. 0..Cardinality(S) \subseteq Solved
    BY <1>0, <1>3, <1>4, Upwards
  <2>2. QED
    BY <1>0, <2>1
<1>6. PICK g \in [SUBSET S -> V] : \A s \in Small(Cardinality(S)) : g[s] = Value(g, s)
  BY <1>5
<1>7. \A s \in SUBSET S : s \in Small(Cardinality(S))
  BY <1>1
<1>8. QED
  BY <1>6, <1>7 DEF Folds

(* A prefix of the numbers, without its largest, is the prefix before.           *)
LEMMA NextUpTo ==
  ASSUME NEW k \in Nat, k > 0, NEW S, S = 1..k, NEW m, m = Max(S)
  PROVE  m = k /\ S \ {m} = 1..(k - 1)
<1>1. 1..k # {} /\ k \in 1..k
  OBVIOUS
<1>2. m \in 1..k /\ \A j \in 1..k : j <= m
  BY <1>1, Largest
<1>3. m = k
  BY <1>1, <1>2
<1>4. S \ {m} = 1..(k - 1)
  BY <1>3
<1>5. QED
  BY <1>3, <1>4

(* A fold that takes the largest number first has a solution.                    *)
LEMMA ListFoldExists ==
  ASSUME NEW n \in Nat, NEW V, NEW start \in V, NEW step \in [1..n -> [V -> V]]
  PROVE  \E g \in [SUBSET (1..n) -> V] : ListFolds(g, n, start, step)
<1> DEFINE S == 1..n
           pick == [s \in (SUBSET S) \ {{}} |-> Max(s)]
<1>1. \A s \in (SUBSET S) \ {{}} : Max(s) \in s
  BY Largest
<1>2. IsFiniteSet(S)
  BY FS_Interval
<1>3. pick \in [(SUBSET S) \ {{}} -> S]
  BY <1>1
<1>31. \A s \in (SUBSET S) \ {{}} : pick[s] \in s
  BY <1>1
<1>32. \A s \in (SUBSET S) \ {{}} : pick[s] = Max(s)
  OBVIOUS
<1>4. step \in [S -> [V -> V]]
  OBVIOUS
<1> HIDE DEF pick, S
<1>5. PICK g \in [SUBSET S -> V] : Folds(g, S, start, step, pick)
  BY <1>2, <1>3, <1>31, <1>4, FoldExists
<1>6. \A s \in SUBSET S : g[s] = IF s = {} THEN start ELSE step[Max(s)][g[s \ {Max(s)}]]
  BY <1>32, <1>5 DEF Folds
<1>7. QED
  BY <1>6 DEF S, ListFolds

(* The records of normalize_players, one row after the other.                    *)
WithRow(catalog, row, data) ==
  IF Usable(row) /\ row.player \notin IdsOf(catalog)
  THEN catalog \cup {PlayerRecord(row, data)} ELSE catalog

(* h[k] is the catalog after k rows.                                             *)
Normalizes(h, rows, data) ==
  /\ h[0] = {}
  /\ \A k \in 1..Len(rows) : h[k] = WithRow(h[k - 1], rows[k], data)
  /\ NormalizePlayers(data) = h[Len(rows)]

LEMMA NormalizeSteps ==
  ASSUME NEW data, NEW rows, rows = data[1], rows \in Seq(ToSet(rows))
  PROVE  \E h : Normalizes(h, rows, data)
<1> DEFINE n == Len(rows)
           V == SUBSET {PlayerRecord(rows[j], data) : j \in 1..n}
           step == [k \in 1..n |-> [catalog \in V |-> WithRow(catalog, rows[k], data)]]
           Fold(g) == [s \in SUBSET DOMAIN rows |->
                         IF s = {} THEN {} ELSE WithRow(g[s \ {Max(s)}], rows[Max(s)], data)]
<1>1. n \in Nat /\ DOMAIN rows = 1..n
  OBVIOUS
<1>2. NormalizePlayers(data) = (CHOOSE g : g = Fold(g))[DOMAIN rows]
  BY Zenon DEF NormalizePlayers, FoldLeft, MapThenFoldSet, WithRow
<1>3. \E g : g = Fold(g)
  <2>1. {} \in V
    OBVIOUS
  <2>2. step \in [1..n -> [V -> V]]
    <3>1. ASSUME NEW k \in 1..n, NEW catalog \in V
          PROVE  WithRow(catalog, rows[k], data) \in V
      <4>1. PICK record : record = PlayerRecord(rows[k], data)
        OBVIOUS
      <4>2. record \in {PlayerRecord(rows[j], data) : j \in 1..n}
        BY <4>1
      <4>3. catalog \cup {record} \in V
        BY <4>2
      <4>4. WithRow(catalog, rows[k], data) = catalog \/ WithRow(catalog, rows[k], data) = catalog \cup {record}
        BY <4>1 DEF WithRow
      <4>5. QED
        BY <4>3, <4>4
    <3> HIDE DEF n, V
    <3>2. QED
      BY <3>1
  <2>3. PICK g \in [SUBSET (1..n) -> V] : ListFolds(g, n, {}, step)
    <3> HIDE DEF V, step, n
    <3>1. QED
      BY <1>1, <2>1, <2>2, ListFoldExists
  <2>4. ASSUME NEW s \in SUBSET (1..n)
        PROVE  g[s] = IF s = {} THEN {} ELSE WithRow(g[s \ {Max(s)}], rows[Max(s)], data)
    <3>1. CASE s = {}
      BY <2>3, <3>1 DEF ListFolds
    <3>2. CASE s # {}
      <4>1. Max(s) \in 1..n
        BY <1>1, <3>2, Largest
      <4>2. g[s \ {Max(s)}] \in V
        OBVIOUS
      <4>3. step[Max(s)][g[s \ {Max(s)}]] = WithRow(g[s \ {Max(s)}], rows[Max(s)], data)
        <5> HIDE DEF V, n
        <5>1. QED
          BY <4>1, <4>2
      <4>4. QED
        BY <2>3, <3>2, <4>3 DEF ListFolds
    <3>3. QED
      BY <3>1, <3>2
  <2>5. g = [s \in SUBSET (1..n) |-> g[s]]
    OBVIOUS
  <2>6. g = Fold(g)
    <3> HIDE DEF n, V
    <3>1. QED
      BY <1>1, <2>4, <2>5
  <2>7. QED
    BY <2>6
<1>4. PICK g : g = Fold(g) /\ NormalizePlayers(data) = g[DOMAIN rows]
  <2> HIDE DEF Fold
  <2>1. QED
    BY <1>2, <1>3
<1> DEFINE h == [k \in 0..n |-> g[1..k]]
<1>5. \A s \in SUBSET (1..n) :
        g[s] = IF s = {} THEN {} ELSE WithRow(g[s \ {Max(s)}], rows[Max(s)], data)
  BY <1>1, <1>4
<1>6. h[0] = {}
  <2>1. 1..0 = {} /\ {} \in SUBSET (1..n)
    OBVIOUS
  <2>2. g[{}] = {}
    BY <1>5, <2>1
  <2>3. QED
    BY <1>1, <2>1, <2>2
<1>7. ASSUME NEW k \in 1..n
      PROVE  h[k] = WithRow(h[k - 1], rows[k], data)
  <2>0. n \in Nat /\ k \in Nat /\ k > 0 /\ k <= n
    BY <1>1
  <2>1. 1..k \in SUBSET (1..n) /\ 1..k # {} /\ k \in 0..n /\ k - 1 \in 0..n
    <3> HIDE DEF n
    <3>1. k \in 0..n /\ k - 1 \in 0..n
      BY <2>0
    <3>2. \A i \in 1..k : i \in 1..n
      BY <2>0
    <3>3. k \in 1..k
      BY <2>0
    <3>4. QED
      BY <3>1, <3>2, <3>3
  <2>2. PICK S, m : S = 1..k /\ m = Max(S)
    OBVIOUS
  <2>3. m = k /\ S \ {m} = 1..(k - 1)
    BY <2>0, <2>2, NextUpTo
  <2>4. g[S] = WithRow(g[S \ {m}], rows[m], data)
    BY <1>5, <2>1, <2>2
  <2>5. g[1..k] = WithRow(g[1..(k - 1)], rows[k], data)
    BY <2>2, <2>3, <2>4
  <2>6. QED
    BY <2>1, <2>5
<1>8. NormalizePlayers(data) = h[n]
  BY <1>1, <1>4
<1>9. Normalizes(h, rows, data)
  BY <1>6, <1>7, <1>8 DEF Normalizes
<1>10. QED
  BY <1>9

(* The usable rows that are the first of their player.                           *)
Firsts(rows) ==
  {j \in 1..Len(rows) :
     /\ Usable(rows[j])
     /\ \A i \in 1..(j - 1) : Usable(rows[i]) => rows[i].player # rows[j].player}

LEMMA RecordPlayer ==
  ASSUME NEW row, NEW data
  PROVE  PlayerRecord(row, data).player = row.player
BY DEF PlayerRecord

FirstRecords(rows, data) == {PlayerRecord(rows[j], data) : j \in Firsts(rows)}

(* The catalog holds one record per player, that of his first usable row.        *)
LEMMA NormalizedRows ==
  ASSUME NEW data, NEW rows, rows = data[1], rows \in Seq(ToSet(rows))
  PROVE  NormalizePlayers(data) = FirstRecords(rows, data)
<1> DEFINE n == Len(rows)
           Record(j) == PlayerRecord(rows[j], data)
           Read(k) == {Record(j) : j \in {f \in Firsts(rows) : f <= k}}
           Known(k) == {rows[j].player : j \in {u \in 1..k : Usable(rows[u])}}
<1>1. n \in Nat
  OBVIOUS
<1>20. PICK h : Normalizes(h, rows, data)
  BY NormalizeSteps
<1>2. /\ h[0] = {}
      /\ \A k \in 1..n : h[k] = WithRow(h[k - 1], rows[k], data)
      /\ NormalizePlayers(data) = h[n]
  BY <1>20 DEF Normalizes
<1> DEFINE S == {k \in 0..n : h[k] = Read(k) /\ IdsOf(h[k]) = Known(k)}
<1>3. 0 \in S
  <2>1. \A f \in Firsts(rows) : ~(f <= 0)
    BY DEF Firsts
  <2>2. Read(0) = {}
    BY <2>1
  <2>3. 1..0 = {}
    OBVIOUS
  <2>4. Known(0) = {}
    BY <2>3
  <2>5. IdsOf({}) = {}
    BY DEF IdsOf
  <2>6. 0 \in 0..n
    BY <1>1
  <2> HIDE DEF Read, Known, n
  <2>7. QED
    BY <1>2, <2>2, <2>4, <2>5, <2>6
<1>4. \A k \in 1..n : k - 1 \in S => k \in S
  <2>1. SUFFICES ASSUME NEW k \in 1..n, k - 1 \in S
                 PROVE  k \in S
    OBVIOUS
  <2> DEFINE row == rows[k]
             before == h[k - 1]
  <2>2. before = Read(k - 1) /\ IdsOf(before) = Known(k - 1)
    BY <2>1
  <2>3. h[k] = WithRow(before, row, data)
    BY <1>2
  <2>4. k \in Nat /\ k > 0 /\ k <= n /\ k \in 0..n
    BY <1>1
  <2>5. k \in Firsts(rows) <=> Usable(row) /\ row.player \notin Known(k - 1)
    BY <2>4 DEF Firsts
  <2>6. CASE k \in Firsts(rows)
    <3>1. h[k] = before \cup {Record(k)}
      BY <2>2, <2>3, <2>5, <2>6 DEF WithRow
    <3>2. \A f \in Firsts(rows) : f <= k <=> f <= k - 1 \/ f = k
      BY <2>4 DEF Firsts
    <3>3. {f \in Firsts(rows) : f <= k} = {f \in Firsts(rows) : f <= k - 1} \cup {k}
      BY <2>4, <2>6, <3>2
    <3>4. Read(k) = Read(k - 1) \cup {Record(k)}
      BY <3>3
    <3>5. IdsOf(h[k]) = IdsOf(before) \cup {row.player}
      BY <3>1, RecordPlayer DEF IdsOf
    <3>6. {u \in 1..k : Usable(rows[u])} = {u \in 1..(k - 1) : Usable(rows[u])} \cup {k}
      BY <2>4, <2>5, <2>6
    <3>7. Known(k) = Known(k - 1) \cup {row.player}
      BY <3>6
    <3> HIDE DEF Read, Known, before, row, Record
    <3>8. QED
      BY <2>2, <2>4, <3>1, <3>4, <3>5, <3>7
  <2>7. CASE k \notin Firsts(rows)
    <3>1. h[k] = before
      BY <2>2, <2>3, <2>5, <2>7 DEF WithRow
    <3>2. {f \in Firsts(rows) : f <= k} = {f \in Firsts(rows) : f <= k - 1}
      BY <2>4, <2>7 DEF Firsts
    <3>3. Read(k) = Read(k - 1)
      BY <3>2
    <3>4. Known(k) = Known(k - 1)
      <4>1. CASE Usable(row)
        <5>1. {u \in 1..k : Usable(rows[u])} = {u \in 1..(k - 1) : Usable(rows[u])} \cup {k}
          BY <2>4, <4>1
        <5>2. Known(k) = Known(k - 1) \cup {row.player}
          BY <5>1
        <5>3. row.player \in Known(k - 1)
          BY <2>5, <2>7, <4>1
        <5> HIDE DEF Known, row
        <5>4. QED
          BY <5>2, <5>3
      <4>2. CASE ~Usable(row)
        <5>1. {u \in 1..k : Usable(rows[u])} = {u \in 1..(k - 1) : Usable(rows[u])}
          BY <2>4, <4>2
        <5>2. QED
          BY <5>1
      <4>3. QED
        BY <4>1, <4>2
    <3> HIDE DEF Read, Known, before
    <3>5. QED
      BY <2>2, <2>4, <3>1, <3>3, <3>4
  <2>8. QED
    BY <2>6, <2>7
<1>5. n \in S
  <2> HIDE DEF S, n
  <2>1. 0..n \subseteq S
    BY <1>1, <1>3, <1>4, Upwards
  <2>2. QED
    BY <1>1, <2>1
<1>6. {f \in Firsts(rows) : f <= n} = Firsts(rows)
  BY <1>1 DEF Firsts
<1>7. Read(n) = {Record(j) : j \in Firsts(rows)}
  BY <1>6
<1>8. NormalizePlayers(data) = Read(n)
  BY <1>2, <1>5
<1>9. QED
  BY <1>7, <1>8 DEF FirstRecords

(* The depth chart, one listing after the other.                                 *)
WithEntry(depth, entry) ==
  IF Better(entry, depth) THEN Placed(entry, depth) ELSE depth

Extracts(h, list, chart) ==
  /\ h[0] = <<>>
  /\ \A k \in 1..Len(list) : h[k] = WithEntry(h[k - 1], list[k])
  /\ ExtractDepth(chart) = h[Len(list)]

LEMMA ExtractSteps ==
  ASSUME NEW chart, NEW list, list = Listings(chart), list \in Seq(ToSet(list))
  PROVE  \E h : Extracts(h, list, chart)
<1> DEFINE n == Len(list)
           X == ToSet(list)
           Players == {entry.player : entry \in X}
           V == UNION {[P -> X] : P \in SUBSET Players}
           step == [k \in 1..n |-> [depth \in V |-> WithEntry(depth, list[k])]]
           Fold(g) == [s \in SUBSET DOMAIN list |->
                         IF s = {} THEN <<>> ELSE WithEntry(g[s \ {Max(s)}], list[Max(s)])]
<1>1. n \in Nat /\ DOMAIN list = 1..n /\ \A k \in 1..n : list[k] \in X
  OBVIOUS
<1>2. ExtractDepth(chart) = (CHOOSE g : g = Fold(g))[DOMAIN list]
  BY Zenon DEF ExtractDepth, FoldLeft, MapThenFoldSet, WithEntry
<1>3. \E g : g = Fold(g)
  <2>1. <<>> \in V
    <3>1. {} \in SUBSET Players
      OBVIOUS
    <3>2. <<>> \in [{} -> X]
      OBVIOUS
    <3> HIDE DEF X, Players
    <3>3. QED
      BY <3>1, <3>2
  <2>2. step \in [1..n -> [V -> V]]
    <3>1. ASSUME NEW k \in 1..n, NEW depth \in V
          PROVE  WithEntry(depth, list[k]) \in V
      <4>1. PICK P \in SUBSET Players : depth \in [P -> X]
        OBVIOUS
      <4>2. PICK entry \in X : entry = list[k]
        BY <1>1
      <4>3. PICK told : told = Placed(entry, depth)
        OBVIOUS
      <4>4. told = [p \in P \cup {entry.player} |-> IF p = entry.player THEN entry ELSE depth[p]]
        BY <4>1, <4>3 DEF Placed
      <4>5. told \in [P \cup {entry.player} -> X]
        BY <4>1, <4>4
      <4>6. P \cup {entry.player} \in SUBSET Players
        BY <4>2
      <4>7. told \in V
        BY <4>5, <4>6
      <4>8. QED
        BY <4>2, <4>3, <4>7 DEF WithEntry
    <3> HIDE DEF V
    <3>2. QED
      BY <3>1
  <2>3. PICK g \in [SUBSET (1..n) -> V] : ListFolds(g, n, <<>>, step)
    <3> HIDE DEF V, step, n
    <3>1. QED
      BY <1>1, <2>1, <2>2, ListFoldExists
  <2>4. ASSUME NEW s \in SUBSET (1..n)
        PROVE  g[s] = IF s = {} THEN <<>> ELSE WithEntry(g[s \ {Max(s)}], list[Max(s)])
    <3>1. CASE s = {}
      BY <2>3, <3>1 DEF ListFolds
    <3>2. CASE s # {}
      <4>1. Max(s) \in 1..n
        BY <1>1, <3>2, Largest
      <4>2. g[s \ {Max(s)}] \in V
        <5> HIDE DEF V
        <5>1. QED
          OBVIOUS
      <4>3. step[Max(s)][g[s \ {Max(s)}]] = WithEntry(g[s \ {Max(s)}], list[Max(s)])
        <5> HIDE DEF V, n
        <5>1. QED
          BY <4>1, <4>2
      <4>4. QED
        BY <2>3, <3>2, <4>3 DEF ListFolds
    <3>3. QED
      BY <3>1, <3>2
  <2>5. g = [s \in SUBSET (1..n) |-> g[s]]
    <3> HIDE DEF V
    <3>1. QED
      OBVIOUS
  <2>6. g = Fold(g)
    <3> HIDE DEF n, V
    <3>1. QED
      BY <1>1, <2>4, <2>5
  <2>7. QED
    BY <2>6
<1>4. PICK g : g = Fold(g) /\ ExtractDepth(chart) = g[DOMAIN list]
  <2> HIDE DEF Fold
  <2>1. QED
    BY <1>2, <1>3
<1> DEFINE h == [k \in 0..n |-> g[1..k]]
<1>5. \A s \in SUBSET (1..n) :
        g[s] = IF s = {} THEN <<>> ELSE WithEntry(g[s \ {Max(s)}], list[Max(s)])
  BY <1>1, <1>4
<1>6. h[0] = <<>>
  <2>1. 1..0 = {} /\ {} \in SUBSET (1..n)
    OBVIOUS
  <2>2. g[{}] = <<>>
    BY <1>5, <2>1
  <2>3. QED
    BY <1>1, <2>1, <2>2
<1>7. ASSUME NEW k \in 1..n
      PROVE  h[k] = WithEntry(h[k - 1], list[k])
  <2>0. n \in Nat /\ k \in Nat /\ k > 0 /\ k <= n
    BY <1>1
  <2>1. 1..k \in SUBSET (1..n) /\ 1..k # {} /\ k \in 0..n /\ k - 1 \in 0..n
    <3> HIDE DEF n, Fold, h, V, X, step
    <3>1. 1..k \subseteq 1..n
      BY <2>0
    <3>2. k \in 1..k /\ k \in 0..n /\ k - 1 \in 0..n
      BY <2>0
    <3>3. QED
      BY <3>1, <3>2
  <2>2. PICK S, m : S = 1..k /\ m = Max(S)
    OBVIOUS
  <2>3. m = k /\ S \ {m} = 1..(k - 1)
    BY <2>0, <2>2, NextUpTo
  <2>4. g[S] = WithEntry(g[S \ {m}], list[m])
    BY <1>5, <2>1, <2>2
  <2>5. g[1..k] = WithEntry(g[1..(k - 1)], list[k])
    BY <2>2, <2>3, <2>4
  <2>6. QED
    BY <2>1, <2>5
<1>8. ExtractDepth(chart) = h[n]
  BY <1>1, <1>4
<1>9. Extracts(h, list, chart)
  BY <1>6, <1>7, <1>8 DEF Extracts
<1>10. QED
  BY <1>9

(* depth holds the best of the first k listings of each athlete.                 *)
HoldsBest(depth, list, k) ==
  /\ DOMAIN depth = {list[i].player : i \in 1..k}
  /\ \A i \in 1..k : depth[list[i].player].ordinal <= list[i].ordinal
  /\ \A p \in DOMAIN depth : \E i \in 1..k : depth[p] = list[i] /\ list[i].player = p

LEMMA NextListing ==
  ASSUME NEW list, NEW n \in Nat, \A i \in 1..n : list[i].ordinal \in Int,
         NEW k \in 1..n, NEW depth, HoldsBest(depth, list, k - 1),
         NEW after, after = WithEntry(depth, list[k])
  PROVE  HoldsBest(after, list, k)
<1> DEFINE entry == list[k]
<1>1. /\ DOMAIN depth = {list[i].player : i \in 1..(k - 1)}
      /\ \A i \in 1..(k - 1) : depth[list[i].player].ordinal <= list[i].ordinal
      /\ \A p \in DOMAIN depth : \E i \in 1..(k - 1) : depth[p] = list[i] /\ list[i].player = p
  BY DEF HoldsBest
<1>2. k \in 1..k /\ \A i \in 1..k : i # k => i \in 1..(k - 1)
  OBVIOUS
<1>3. \A i \in 1..(k - 1) : i \in 1..k
  OBVIOUS
<1>4. \A i \in 1..k : list[i].ordinal \in Int
  OBVIOUS
<1>5. \A p \in DOMAIN depth : depth[p].ordinal \in Int
  BY <1>1, <1>3, <1>4
<1>6. CASE Better(entry, depth)
  <2>1. after = [p \in DOMAIN depth \cup {entry.player} |->
                   IF p = entry.player THEN entry ELSE depth[p]]
    BY <1>6 DEF WithEntry, Placed
  <2>2. DOMAIN after = {list[i].player : i \in 1..k}
    <3>1. {list[i].player : i \in 1..k} = {list[i].player : i \in 1..(k - 1)} \cup {entry.player}
      BY <1>2, <1>3
    <3>2. DOMAIN after = DOMAIN depth \cup {entry.player}
      BY <2>1
    <3>3. QED
      BY <1>1, <3>1, <3>2
  <2>3. ASSUME NEW i \in 1..k
        PROVE  after[list[i].player].ordinal <= list[i].ordinal
    <3>1. CASE i = k
      <4>1. after[entry.player] = entry
        BY <2>1
      <4>2. QED
        BY <1>4, <3>1, <4>1
    <3>2. CASE i # k /\ list[i].player = entry.player
      <4>1. i \in 1..(k - 1)
        BY <3>2
      <4>2. depth[entry.player].ordinal <= list[i].ordinal /\ entry.player \in DOMAIN depth
        BY <1>1, <3>2, <4>1
      <4>3. entry.ordinal < depth[entry.player].ordinal
        BY <1>6, <4>2 DEF Better
      <4>4. after[list[i].player] = entry
        BY <2>1, <3>2
      <4>5. QED
        BY <1>4, <1>5, <4>2, <4>3, <4>4
    <3>3. CASE i # k /\ list[i].player # entry.player
      <4>1. i \in 1..(k - 1)
        BY <3>3
      <4>2. depth[list[i].player].ordinal <= list[i].ordinal /\ list[i].player \in DOMAIN depth
        BY <1>1, <4>1
      <4>3. after[list[i].player] = depth[list[i].player]
        BY <2>1, <3>3, <4>2
      <4>4. QED
        BY <4>2, <4>3
    <3>4. QED
      BY <3>1, <3>2, <3>3
  <2>4. ASSUME NEW p \in DOMAIN after
        PROVE  \E i \in 1..k : after[p] = list[i] /\ list[i].player = p
    <3>1. CASE p = entry.player
      BY <1>2, <2>1, <3>1
    <3>2. CASE p # entry.player
      <4>1. p \in DOMAIN depth /\ after[p] = depth[p]
        BY <2>1, <3>2
      <4>2. QED
        BY <1>1, <1>3, <4>1
    <3>3. QED
      BY <3>1, <3>2
  <2>5. QED
    BY <2>2, <2>3, <2>4 DEF HoldsBest
<1>7. CASE ~Better(entry, depth)
  <2>1. after = depth
    BY <1>7 DEF WithEntry
  <2>2. entry.player \in DOMAIN depth /\ ~(entry.ordinal < depth[entry.player].ordinal)
    BY <1>7 DEF Better
  <2>3. depth[entry.player].ordinal <= entry.ordinal
    BY <1>2, <1>4, <1>5, <2>2
  <2>4. DOMAIN depth = {list[i].player : i \in 1..k}
    BY <1>1, <1>2, <1>3, <2>2
  <2>5. \A i \in 1..k : depth[list[i].player].ordinal <= list[i].ordinal
    BY <1>1, <1>2, <2>3
  <2>6. QED
    BY <1>1, <1>3, <2>1, <2>4, <2>5 DEF HoldsBest
<1>8. QED
  BY <1>6, <1>7

(* Every athlete of a chart is placed by the best of his listings.               *)
LEMMA DepthHoldsBest ==
  ASSUME NEW chart, NEW list, list = Listings(chart), list \in Seq(ToSet(list)),
         \A i \in 1..Len(list) : list[i].ordinal \in Int
  PROVE  HoldsBest(ExtractDepth(chart), list, Len(list))
<1>1. PICK n \in Nat : n = Len(list)
  OBVIOUS
<1>2. PICK h : Extracts(h, list, chart)
  BY ExtractSteps
<1>3. /\ h[0] = <<>>
      /\ \A k \in 1..n : h[k] = WithEntry(h[k - 1], list[k])
      /\ ExtractDepth(chart) = h[n]
  BY <1>1, <1>2 DEF Extracts
<1> DEFINE S == {k \in 0..n : HoldsBest(h[k], list, k)}
<1>4. 0 \in S
  <2>1. 1..0 = {} /\ DOMAIN <<>> = {} /\ 0 \in 0..n
    OBVIOUS
  <2>2. HoldsBest(<<>>, list, 0)
    BY <2>1 DEF HoldsBest
  <2>3. QED
    BY <1>3, <2>1, <2>2
<1>5. \A k \in 1..n : k - 1 \in S => k \in S
  <2>1. SUFFICES ASSUME NEW k \in 1..n, HoldsBest(h[k - 1], list, k - 1)
                 PROVE  HoldsBest(h[k], list, k)
    OBVIOUS
  <2>2. \A i \in 1..n : list[i].ordinal \in Int
    BY <1>1
  <2>3. PICK depth, after : depth = h[k - 1] /\ after = h[k]
    OBVIOUS
  <2>4. after = WithEntry(depth, list[k])
    BY <1>3, <2>3
  <2>5. HoldsBest(depth, list, k - 1)
    BY <2>1, <2>3
  <2>6. HoldsBest(after, list, k)
    BY <2>2, <2>4, <2>5, NextListing
  <2>7. QED
    BY <2>3, <2>6
<1>6. n \in S
  <2> HIDE DEF S
  <2>1. 0..n \subseteq S
    BY <1>4, <1>5, Upwards
  <2>2. QED
    BY <2>1
<1>7. QED
  BY <1>1, <1>3, <1>6

(* Sequences put one after the other.                                            *)
LEMMA FlattenTyped ==
  ASSUME NEW X, NEW seqs \in Seq(Seq(X))
  PROVE  FlattenSeq(seqs) \in Seq(X)
<1> DEFINE n == Len(seqs)
           Flat(f) == [i \in 1..n |-> IF i = 1 THEN seqs[i] ELSE f[i - 1] \o seqs[i]]
<1>1. n \in Nat /\ \A i \in 1..n : seqs[i] \in Seq(X)
  OBVIOUS
<1>2. CASE n = 0
  <2>1. seqs = <<>>
    BY <1>2
  <2>2. FlattenSeq(seqs) = seqs
    BY <1>2 DEF FlattenSeq
  <2>3. seqs \in Seq(X)
    BY <2>1
  <2>4. QED
    BY <2>2, <2>3
<1>3. CASE n # 0
  <2>1. FlattenSeq(seqs) = (CHOOSE f : f = Flat(f))[n]
    BY <1>3 DEF FlattenSeq
  <2>2. \E f : f = Flat(f)
    <3> DEFINE step == [k \in 1..n |-> [s \in Seq(X) |-> s \o seqs[k]]]
    <3>1. step \in [1..n -> [Seq(X) -> Seq(X)]]
      <4>1. ASSUME NEW k \in 1..n, NEW s \in Seq(X)
            PROVE  s \o seqs[k] \in Seq(X)
        BY <1>1
      <4>2. QED
        BY <4>1
    <3>2. <<>> \in Seq(X)
      OBVIOUS
    <3>3. PICK f \in [0..n -> Seq(X)] : Recurs(f, n, <<>>, step)
      <4> HIDE DEF step, n
      <4>1. QED
        BY <1>1, <3>1, <3>2, RecursionExists
    <3>4. \A k \in 1..n : f[k] = f[k - 1] \o seqs[k]
      <4>1. SUFFICES ASSUME NEW k \in 1..n
                     PROVE  f[k] = f[k - 1] \o seqs[k]
        OBVIOUS
      <4>2. k - 1 \in 0..n
        BY <1>1
      <4>3. f[k - 1] \in Seq(X)
        BY <4>2
      <4>4. f[k] = step[k][f[k - 1]]
        BY <3>3 DEF Recurs
      <4>5. QED
        BY <4>3, <4>4
    <3>5. f[0] = <<>>
      BY <3>3 DEF Recurs
    <3> DEFINE g == [i \in 1..n |-> f[i]]
    <3>6. \A i \in 1..n : g[i] = IF i = 1 THEN seqs[i] ELSE g[i - 1] \o seqs[i]
      <4>1. SUFFICES ASSUME NEW i \in 1..n
                     PROVE  g[i] = IF i = 1 THEN seqs[i] ELSE g[i - 1] \o seqs[i]
        OBVIOUS
      <4>2. CASE i = 1
        <5>0. 1 \in 1..n /\ 1 - 1 = 0
          BY <1>1, <4>2
        <5>1. g[i] = f[0] \o seqs[1]
          <6>1. f[1] = f[1 - 1] \o seqs[1]
            BY <3>4, <5>0
          <6>2. QED
            BY <4>2, <5>0, <6>1
        <5>2. seqs[1] \in Seq(X)
          BY <1>1, <4>2
        <5>3. <<>> \o seqs[1] = seqs[1]
          BY <5>2
        <5>4. QED
          BY <3>5, <4>2, <5>1, <5>3
      <4>3. CASE i # 1
        <5>1. i - 1 \in 1..n
          BY <1>1, <4>3
        <5>2. QED
          BY <3>4, <4>3, <5>1
      <4>4. QED
        BY <4>2, <4>3
    <3>7. g = Flat(g)
      <4>1. g = [i \in 1..n |-> g[i]]
        OBVIOUS
      <4> HIDE DEF g, n
      <4>2. QED
        BY <3>6, <4>1
    <3>8. QED
      BY <3>7
  <2>3. PICK f : f = Flat(f) /\ FlattenSeq(seqs) = f[n]
    <3> HIDE DEF Flat
    <3>1. QED
      BY <2>1, <2>2
  <2>4. \A i \in 1..n : f[i] = IF i = 1 THEN seqs[i] ELSE f[i - 1] \o seqs[i]
    BY <2>3
  <2> DEFINE S == {k \in 0..n : k = 0 \/ f[k] \in Seq(X)}
  <2>5. 0 \in S
    BY <1>1
  <2>6. \A k \in 1..n : k - 1 \in S => k \in S
    <3>1. SUFFICES ASSUME NEW k \in 1..n, k - 1 = 0 \/ f[k - 1] \in Seq(X)
                   PROVE  f[k] \in Seq(X)
      OBVIOUS
    <3>2. seqs[k] \in Seq(X)
      BY <1>1
    <3>3. CASE k = 1
      BY <2>4, <3>2, <3>3
    <3>4. CASE k # 1
      <4>1. f[k - 1] \in Seq(X)
        BY <3>1, <3>4
      <4>2. f[k] = f[k - 1] \o seqs[k]
        BY <2>4, <3>4
      <4>3. QED
        BY <3>2, <4>1, <4>2
    <3>5. QED
      BY <3>3, <3>4
  <2>7. n \in S
    <3> HIDE DEF S, n
    <3>1. 0..n \subseteq S
      BY <1>1, <2>5, <2>6, Upwards
    <3>2. QED
      BY <1>1, <3>1
  <2>8. QED
    BY <1>3, <2>3, <2>7
<1>4. QED
  BY <1>2, <1>3

LEMMA OrdinalTyped ==
  ASSUME NEW group, NEW k \in Nat, k > 0, group.slot \in Nat \cup {NoNumber},
         group.athletes[k].rank \in Int \cup {NoNumber}
  PROVE  Ordinal(group, k) \in Nat
<1>1. CASE group.athletes[k].rank # NoNumber
  <2>1. PICK rank \in Int : rank = group.athletes[k].rank
    BY <1>1
  <2>2. Ordinal(group, k) = Larger(1, rank)
    BY <1>1, <2>1 DEF Ordinal
  <2>3. QED
    BY <2>2 DEF Larger
<1>2. CASE group.athletes[k].rank = NoNumber /\ group.slot # NoNumber
  <2>1. PICK slot \in Nat : slot = group.slot
    BY <1>2
  <2>2. Ordinal(group, k) = slot + k - 1
    BY <1>2, <2>1 DEF Ordinal
  <2>3. QED
    BY <2>2
<1>3. CASE group.athletes[k].rank = NoNumber /\ group.slot = NoNumber
  <2>1. Ordinal(group, k) = k
    BY <1>3 DEF Ordinal
  <2>2. QED
    BY <2>1
<1>4. QED
  BY <1>1, <1>2, <1>3

(* The listings of a chart, and their numbers.                                   *)
LEMMA ListingsTyped ==
  ASSUME NEW chart, IsChart(chart), NEW list, list = Listings(chart)
  PROVE  /\ list \in Seq(ToSet(list))
         /\ \A i \in 1..Len(list) : list[i].ordinal \in Nat
<1> DEFINE Entry(g, k) == [player |-> chart[g].athletes[k].player,
                           position |-> chart[g].position,
                           ordinal |-> Ordinal(chart[g], k)]
           X == UNION {{Entry(g, k) : k \in DOMAIN chart[g].athletes} : g \in DOMAIN chart}
           parts == [g \in DOMAIN chart |->
                       IF chart[g].position \notin DepthPositions THEN <<>>
                       ELSE [k \in DOMAIN chart[g].athletes |-> Entry(g, k)]]
<1>1. chart \in Seq(ToSet(chart)) /\ \A g \in DOMAIN chart : chart[g] \in ToSet(chart)
  BY DEF IsChart, ToSet
<1>2. ASSUME NEW g \in DOMAIN chart
      PROVE  /\ chart[g].slot \in Nat \cup {NoNumber}
             /\ chart[g].athletes \in Seq(ToSet(chart[g].athletes))
             /\ \A k \in DOMAIN chart[g].athletes : chart[g].athletes[k].rank \in Int \cup {NoNumber}
  <2>1. PICK group : group = chart[g] /\ group \in ToSet(chart)
    BY <1>1
  <2>2. /\ group.slot \in Nat \cup {NoNumber}
        /\ group.athletes \in Seq(ToSet(group.athletes))
        /\ \A athlete \in ToSet(group.athletes) : athlete.rank \in Int \cup {NoNumber}
    BY <2>1 DEF IsChart
  <2>3. \A k \in DOMAIN group.athletes : group.athletes[k] \in ToSet(group.athletes)
    BY DEF ToSet
  <2>4. QED
    BY <2>1, <2>2, <2>3
<1>3. parts \in Seq(Seq(X))
  <2>1. ASSUME NEW g \in DOMAIN chart
        PROVE  parts[g] \in Seq(X)
    <3>1. CASE chart[g].position \notin DepthPositions
      BY <3>1
    <3>2. CASE chart[g].position \in DepthPositions
      <4>1. PICK athletes, T : athletes = chart[g].athletes /\ T = ToSet(athletes)
        OBVIOUS
      <4>2. athletes \in Seq(T)
        BY <1>2, <4>1
      <4>3. DOMAIN athletes = 1..Len(athletes) /\ Len(athletes) \in Nat
        BY <4>2
      <4>4. \A k \in DOMAIN athletes : Entry(g, k) \in X
        BY <4>1
      <4>5. parts[g] = [k \in 1..Len(athletes) |-> Entry(g, k)]
        BY <3>2, <4>1, <4>3
      <4> HIDE DEF Entry, X, parts
      <4>6. QED
        BY <4>3, <4>4, <4>5
    <3>3. QED
      BY <3>1, <3>2
  <2>2. DOMAIN chart = 1..Len(chart) /\ Len(chart) \in Nat
    BY <1>1
  <2>3. DOMAIN parts = DOMAIN chart /\ parts = [g \in DOMAIN chart |-> parts[g]]
    OBVIOUS
  <2> HIDE DEF X, parts
  <2>4. QED
    BY <2>1, <2>2, <2>3
<1>4. list = FlattenSeq(parts)
  BY DEF Listings
<1>5. list \in Seq(X)
  <2> HIDE DEF X, parts
  <2>1. QED
    BY <1>3, <1>4, FlattenTyped
<1>6. \A entry \in X : entry.ordinal \in Nat
  <2>1. SUFFICES ASSUME NEW g \in DOMAIN chart, NEW k \in DOMAIN chart[g].athletes
                 PROVE  Entry(g, k).ordinal \in Nat
    OBVIOUS
  <2>2. PICK group : group = chart[g]
    OBVIOUS
  <2>3. k \in Nat /\ k > 0
    <3>1. PICK athletes, T : athletes = chart[g].athletes /\ T = ToSet(athletes)
      OBVIOUS
    <3>2. athletes \in Seq(T)
      BY <1>2, <3>1
    <3>3. k \in DOMAIN athletes
      BY <3>1
    <3>4. QED
      BY <3>2, <3>3
  <2>4. group.slot \in Nat \cup {NoNumber} /\ group.athletes[k].rank \in Int \cup {NoNumber}
    BY <1>2, <2>2
  <2>5. Ordinal(group, k) \in Nat
    BY <2>3, <2>4, OrdinalTyped
  <2>6. QED
    BY <2>2, <2>5
<1>7. DOMAIN list = 1..Len(list) /\ \A i \in 1..Len(list) : list[i] \in X
  <2> HIDE DEF X
  <2>1. QED
    BY <1>5
<1>8. list \in Seq(ToSet(list))
  <2>1. \A i \in 1..Len(list) : list[i] \in ToSet(list)
    BY <1>7 DEF ToSet
  <2>2. Len(list) \in Nat /\ list = [i \in 1..Len(list) |-> list[i]]
    <3> HIDE DEF X
    <3>1. QED
      BY <1>5
  <2>3. QED
    BY <2>1, <2>2
<1>9. QED
  BY <1>6, <1>7, <1>8

-------------------------------------------------------------------------------
(* The depth of a player.                                                        *)

(* What a build has loaded, or a fixture holds.                                  *)
IsData(data) ==
  /\ data \in Seq(ToSet(data)) /\ Len(data) = Len(Sources)
  /\ IsRows(data[1]) /\ \A n \in 2..Len(data) : IsChart(data[n])

(* A number that is least is the one CHOOSE takes.                               *)
LEMMA LeastChosen ==
  ASSUME NEW T, T \subseteq Int, NEW m \in T, \A k \in T : m <= k
  PROVE  (CHOOSE o \in T : \A other \in T : o <= other) = m
<1> DEFINE c == CHOOSE o \in T : \A other \in T : o <= other
<1>1. c \in T /\ \A other \in T : c <= other
  OBVIOUS
<1> HIDE DEF c
<1>2. c = m
  BY <1>1
<1>3. QED
  BY <1>2 DEF c

LEMMA DepthOfIsBest ==
  ASSUME NEW data, IsData(data), NEW row
  PROVE  /\ DepthOf(row, data).ordinal = BestListing(row, data)
         /\ DepthOf(row, data).ordinal \in Nat \cup {NoNumber}
<1> DEFINE chart == {n \in 2..Len(data) : Sources[n] = row.team}
           listings == UNION {ToSet(Listings(data[n])) : n \in chart}
           listed == {entry.ordinal : entry \in {e \in listings : e.player = row.player}}
<1>1. BestListing(row, data) =
        IF listed = {} THEN NoNumber ELSE CHOOSE o \in listed : \A other \in listed : o <= other
  BY Zenon DEF BestListing
<1>2. CASE chart = {}
  <2>1. listed = {}
    BY <1>2
  <2>2. DepthOf(row, data) = NoDepth
    BY <1>2 DEF DepthOf
  <2>3. NoDepth.ordinal = NoNumber
    BY DEF NoDepth
  <2> HIDE DEF listed
  <2>4. QED
    BY <1>1, <2>1, <2>2, <2>3
<1>3. CASE chart # {}
  <2>1. PICK m \in chart : m = CHOOSE n \in chart : TRUE
    BY <1>3
  <2>2. chart = {m}
    <3>1. ASSUME NEW n \in chart
          PROVE  n = m
      <4>1. Len(data) \in Nat /\ Len(data) = Len(Sources)
        BY DEF IsData
      <4>2. DOMAIN Sources = 1..Len(Sources)
        BY FetchAssumption
      <4>3. n \in DOMAIN Sources /\ m \in DOMAIN Sources /\ Sources[n] = Sources[m]
        BY <4>1, <4>2
      <4>4. QED
        BY <4>3, SourceAssumption
    <3>2. QED
      BY <3>1
  <2>3. PICK list, depth : list = Listings(data[m]) /\ depth = ExtractDepth(data[m])
    OBVIOUS
  <2>4. IsChart(data[m])
    BY DEF IsData
  <2>5. list \in Seq(ToSet(list)) /\ \A i \in 1..Len(list) : list[i].ordinal \in Nat
    <3>1. PICK c : c = data[m]
      OBVIOUS
    <3>2. IsChart(c) /\ list = Listings(c)
      BY <2>3, <2>4, <3>1
    <3>3. QED
      BY <3>2, ListingsTyped
  <2>6. HoldsBest(depth, list, Len(list))
    <3>1. \A i \in 1..Len(list) : list[i].ordinal \in Int
      BY <2>5
    <3>2. list \in Seq(ToSet(list))
      BY <2>5
    <3>3. QED
      BY <2>3, <3>1, <3>2, DepthHoldsBest
  <2>7. /\ DOMAIN depth = {list[i].player : i \in 1..Len(list)}
        /\ \A i \in 1..Len(list) : depth[list[i].player].ordinal <= list[i].ordinal
        /\ \A p \in DOMAIN depth : \E i \in 1..Len(list) : depth[p] = list[i] /\ list[i].player = p
    BY <2>6 DEF HoldsBest
  <2>8. ToSet(list) = {list[i] : i \in 1..Len(list)}
    BY <2>5 DEF ToSet
  <2>9. listings = ToSet(list)
    BY <2>2, <2>3
  <2>10. listed = {list[i].ordinal : i \in {j \in 1..Len(list) : list[j].player = row.player}}
    <3> HIDE DEF listings
    <3>1. QED
      BY <2>8, <2>9
  <2>11. DepthOf(row, data) = IF row.player \in DOMAIN depth THEN depth[row.player] ELSE NoDepth
    BY <1>3, <2>1, <2>3 DEF DepthOf
  <2>12. CASE row.player \in DOMAIN depth
    <3>1. PICK i \in 1..Len(list) : depth[row.player] = list[i] /\ list[i].player = row.player
      BY <2>7, <2>12
    <3>2. PICK T : T = listed
      OBVIOUS
    <3>3. T \subseteq Int
      <4>1. \A j \in 1..Len(list) : list[j].ordinal \in Int
        BY <2>5
      <4> HIDE DEF listed
      <4>2. T = {list[j].ordinal : j \in {k \in 1..Len(list) : list[k].player = row.player}}
        BY <2>10, <3>2
      <4>3. QED
        BY <4>1, <4>2
    <3>4. PICK o : o = list[i].ordinal
      OBVIOUS
    <3>5. o \in T /\ \A k \in T : o <= k
      <4>1. o \in T
        BY <2>10, <3>1, <3>2, <3>4
      <4>2. ASSUME NEW k \in T
            PROVE  o <= k
        <5>1. PICK j \in 1..Len(list) : list[j].player = row.player /\ k = list[j].ordinal
          BY <2>10, <3>2
        <5>2. depth[list[j].player].ordinal <= list[j].ordinal
          BY <2>7
        <5>3. QED
          BY <3>1, <3>4, <5>1, <5>2
      <4>3. QED
        BY <4>1, <4>2
    <3>6. (CHOOSE c \in T : \A other \in T : c <= other) = o
      BY <3>3, <3>5, LeastChosen
    <3> HIDE DEF listed
    <3>7. BestListing(row, data) = o
      BY <1>1, <3>2, <3>5, <3>6
    <3>8. DepthOf(row, data).ordinal = o
      BY <2>11, <2>12, <3>1, <3>4
    <3>9. o \in Nat
      BY <2>5, <3>4
    <3>10. QED
      BY <3>7, <3>8, <3>9
  <2>13. CASE row.player \notin DOMAIN depth
    <3>1. listed = {}
      <4>1. ASSUME NEW j \in 1..Len(list)
            PROVE  list[j].player # row.player
        BY <2>7, <2>13
      <4> HIDE DEF listed
      <4>2. QED
        BY <2>10, <4>1
    <3>2. DepthOf(row, data).ordinal = NoNumber
      BY <2>11, <2>13 DEF NoDepth
    <3> HIDE DEF listed
    <3>3. QED
      BY <1>1, <3>1, <3>2
  <2>14. QED
    BY <2>12, <2>13
<1>4. QED
  BY <1>2, <1>3

LEMMA RecordOrdinal ==
  ASSUME NEW row, NEW data
  PROVE  PlayerRecord(row, data).ordinal = DepthOf(row, data).ordinal
BY DEF PlayerRecord

(* A player is listed once, by his first usable row and the best of his listings.*)
LEMMA CatalogDepth ==
  ASSUME NEW data, IsData(data), NEW player, NEW first, first = FirstRow(player, data[1])
  PROVE  {p.ordinal : p \in {q \in NormalizePlayers(data) : q.player = player}} =
           IF first = Nothing THEN {} ELSE {BestListing(first, data)}
<1>1. PICK rows : rows = data[1]
  OBVIOUS
<1>2. IsRows(rows)
  BY <1>1 DEF IsData
<1>3. rows \in Seq(ToSet(rows)) /\ Nothing \notin ToSet(rows)
  BY <1>2 DEF IsRows
<1>4. PICK n \in Nat : n = Len(rows) /\ DOMAIN rows = 1..n /\ \A k \in 1..n : rows[k] # Nothing
  BY <1>3 DEF ToSet
<1>5. NormalizePlayers(data) = {PlayerRecord(rows[j], data) : j \in Firsts(rows)}
  <2>1. NormalizePlayers(data) = FirstRecords(rows, data)
    BY <1>1, <1>3, NormalizedRows
  <2>2. QED
    BY <2>1 DEF FirstRecords
<1> DEFINE mine == {k \in 1..n : Usable(rows[k]) /\ rows[k].player = player}
<1>6. first = IF mine = {} THEN Nothing ELSE rows[CHOOSE k \in mine : \A j \in mine : k <= j]
  <2>1. mine = {k \in DOMAIN rows : rows[k].player = player /\ Usable(rows[k])}
    BY <1>4
  <2> HIDE DEF mine
  <2>2. QED
    BY <1>1, <2>1 DEF FirstRow
<1>7. {q \in NormalizePlayers(data) : q.player = player} =
        {PlayerRecord(rows[j], data) : j \in Firsts(rows) \cap mine}
  <2>1. \A j \in Firsts(rows) : PlayerRecord(rows[j], data).player = player <=> j \in mine
    BY <1>4, RecordPlayer DEF Firsts
  <2> HIDE DEF mine
  <2>2. QED
    BY <1>5, <2>1
<1>8. CASE mine = {}
  <2>1. {q \in NormalizePlayers(data) : q.player = player} = {}
    BY <1>7, <1>8
  <2>2. first = Nothing
    BY <1>6, <1>8
  <2>3. QED
    BY <2>1, <2>2
<1>9. CASE mine # {}
  <2>1. PICK m \in mine : \A k \in mine : m <= k
    <3>1. mine \subseteq 0..n
      OBVIOUS
    <3> HIDE DEF mine
    <3>2. QED
      BY <1>9, <3>1, Least
  <2>2. (CHOOSE k \in mine : \A j \in mine : k <= j) = m
    <3>1. PICK T : T = mine
      OBVIOUS
    <3>2. T \subseteq Int /\ m \in T /\ \A k \in T : m <= k
      BY <2>1, <3>1
    <3>3. (CHOOSE k \in T : \A j \in T : k <= j) = m
      BY <3>2, LeastChosen
    <3> HIDE DEF mine
    <3>4. QED
      BY <3>1, <3>3
  <2>3. first = rows[m] /\ first # Nothing
    BY <1>4, <1>6, <1>9, <2>2
  <2>4. Firsts(rows) \cap mine = {m}
    <3>1. m \in Firsts(rows)
      <4>1. \A i \in 1..(m - 1) : Usable(rows[i]) => rows[i].player # rows[m].player
        BY <2>1
      <4>2. QED
        BY <1>4, <4>1 DEF Firsts
    <3>2. ASSUME NEW j \in Firsts(rows), j \in mine
          PROVE  j = m
      <4>1. j \in Nat /\ m \in Nat /\ m <= j /\ m > 0
        BY <2>1, <3>2
      <4>2. ~(m < j)
        <5>1. SUFFICES ASSUME m < j
                       PROVE  FALSE
          OBVIOUS
        <5>2. m \in 1..(j - 1)
          BY <4>1, <5>1
        <5>3. Usable(rows[m]) /\ rows[m].player = rows[j].player
          BY <3>2
        <5>4. QED
          BY <5>2, <5>3 DEF Firsts
      <4>3. QED
        BY <4>1, <4>2
    <3>3. QED
      BY <2>1, <3>1, <3>2
  <2>5. {q \in NormalizePlayers(data) : q.player = player} = {PlayerRecord(first, data)}
    <3> HIDE DEF mine
    <3>1. QED
      BY <1>7, <2>3, <2>4
  <2>6. PlayerRecord(first, data).ordinal = BestListing(first, data)
    BY RecordOrdinal, DepthOfIsBest
  <2>7. QED
    BY <2>3, <2>5, <2>6
<1>10. QED
  BY <1>8, <1>9
-------------------------------------------------------------------------------
(* Scores stay within 0..100.                                                    *)

LEMMA RankTyped ==
  ASSUME NEW row, row.ranks \in Seq(Int \cup {NoNumber})
  PROVE  ExtractRank(row) = NoNumber \/ (ExtractRank(row) \in Nat /\ ExtractRank(row) > 0)
<1>1. PICK ranks : ranks = row.ranks
  OBVIOUS
<1> DEFINE numbered == {k \in DOMAIN ranks : ranks[k] # NoNumber}
<1>2. ExtractRank(row) = IF numbered = {} THEN NoNumber ELSE Larger(1, ranks[Min(numbered)])
  BY <1>1 DEF ExtractRank
<1>3. CASE numbered = {}
  BY <1>2, <1>3
<1>4. CASE numbered # {}
  <2>1. ranks \in Seq(Int \cup {NoNumber})
    BY <1>1
  <2>2. PICK n \in Nat : DOMAIN ranks = 1..n /\ \A k \in 1..n : ranks[k] \in Int \cup {NoNumber}
    BY <2>1
  <2>3. numbered \subseteq 0..n
    BY <2>2
  <2>4. \E m \in numbered : \A k \in numbered : m <= k
    <3> HIDE DEF numbered
    <3>1. QED
      BY <1>4, <2>3, Least
  <2>5. Min(numbered) \in numbered
    <3> HIDE DEF numbered
    <3>1. QED
      BY <2>4 DEF Min
  <2>6. PICK r \in Int : r = ranks[Min(numbered)]
    BY <2>2, <2>5
  <2>7. ExtractRank(row) = Larger(1, r)
    BY <1>2, <1>4, <2>6
  <2>8. QED
    BY <2>7 DEF Larger
<1>5. QED
  BY <1>3, <1>4

LEMMA NormalizedScoreBounded ==
  ASSUME NEW rank, rank = NoNumber \/ (rank \in Nat /\ rank > 0)
  PROVE  NormalizedScore(rank) \in Nat /\ NormalizedScore(rank) <= 9000
<1>1. CASE rank = NoNumber
  BY <1>1 DEF NormalizedScore
<1>2. CASE rank # NoNumber
  <2>1. rank \in Nat /\ rank > 0
    BY <1>2
  <2>2. NormalizedScore(rank) = Larger(0, 9025 - rank * 25)
    BY <1>2 DEF NormalizedScore
  <2>3. 9025 - rank * 25 \in Int /\ 9025 - rank * 25 <= 9000
    BY <2>1
  <2>4. QED
    BY <2>2, <2>3 DEF Larger
<1>3. QED
  BY <1>1, <1>2

LEMMA DepthScoreBounded ==
  ASSUME NEW ordinal, ordinal \in Nat \cup {NoNumber}, ordinal # 0
  PROVE  DepthScore(ordinal) \in Nat /\ DepthScore(ordinal) <= 10000
<1>1. CASE ordinal = NoNumber
  BY <1>1 DEF DepthScore
<1>2. CASE ordinal # NoNumber
  <2>1. ordinal \in Nat /\ ordinal > 0
    BY <1>2
  <2>2. PICK b \in Nat : b = 2 * ordinal
    BY <2>1
  <2>3. PICK a \in Nat : a = 20000 + ordinal
    BY <2>1
  <2>4. b > 0 /\ DepthScore(ordinal) = a \div b
    BY <1>2, <2>1, <2>2, <2>3 DEF DepthScore
  <2>5. PICK q \in Int, m \in Int : q = a \div b /\ m = a % b
    BY <2>4
  <2>6. q \in Nat /\ m \in Nat
    BY <2>4, <2>5
  <2>7. a = b * q + m
    BY <2>4, <2>5, Division
  <2>8. q <= 10000
    <3>1. SUFFICES ASSUME q >= 10001
                   PROVE  FALSE
      BY <2>6
    <3>2. b * q >= b * 10001
      BY <2>4, <2>6, <3>1
    <3>3. PICK p \in Int : p = b * q
      BY <2>6
    <3>4. QED
      BY <2>1, <2>2, <2>3, <2>6, <2>7, <3>2, <3>3
  <2>9. QED
    BY <2>4, <2>5, <2>6, <2>8
<1>3. QED
  BY <1>1, <1>2

(* What every record of a catalog is, n explanations of a kind at most.          *)
Texts == {"none", "short", "wide", "long"}

(* The score of a first rank.                                                    *)
FirstScore == 9000

(* What the build leaves of the numbers.                                         *)
FactsKept(facts) ==
  \A fact \in Facts :
    /\ facts[fact] \in Int \cup {NoNumber}
    /\ fact # "projectedPoints" /\ facts[fact] # NoNumber => facts[fact] >= 0

IsRecord(p, n) ==
  /\ p \in [player: {p.player}, position: {p.position}, tier: {p.tier},
            opportunity: Nat, intrinsic: Nat, pickNow: Nat,
            reasons: Seq(Texts), risks: Seq(Texts), ordinal: Nat \cup {NoNumber},
            name: {p.name}, facts: {p.facts}, slots: Nat,
            workload: {p.workload}, flag: {p.flag}]
  /\ p.opportunity <= FullScore /\ p.intrinsic <= FirstScore /\ p.pickNow <= 100 * FullScore /\ FactsKept(p.facts)
  /\ Len(p.reasons) <= n /\ Len(p.risks) <= n

LEMMA Explained ==
  ASSUME NEW told, told = <<>> \/ told = <<"short">>,
         NEW more, more = <<>> \/ more = <<"short">>
  PROVE  told \o more \in Seq(Texts) /\ Len(told \o more) <= 2
<1>1. "short" \in Texts
  BY DEF Texts
<1>2. told \in Seq(Texts) /\ (Len(told) = 0 \/ Len(told) = 1)
  <2>1. CASE told = <<>>
    BY <2>1
  <2>2. CASE told = <<"short">>
    <3>1. PICK text \in Texts : text = "short"
      BY <1>1
    <3>2. <<text>> \in Seq(Texts) /\ Len(<<text>>) = 1
      OBVIOUS
    <3>3. QED
      BY <2>2, <3>1, <3>2
  <2>3. QED
    BY <2>1, <2>2
<1>5. more \in Seq(Texts) /\ (Len(more) = 0 \/ Len(more) = 1)
  <2>1. CASE more = <<>>
    BY <2>1
  <2>2. CASE more = <<"short">>
    <3>1. PICK text \in Texts : text = "short"
      BY <1>1
    <3>2. <<text>> \in Seq(Texts) /\ Len(<<text>>) = 1
      OBVIOUS
    <3>3. QED
      BY <2>2, <3>1, <3>2
  <2>3. QED
    BY <2>1, <2>2
<1>3. told \o more \in Seq(Texts) /\ Len(told \o more) = Len(told) + Len(more)
  BY <1>2, <1>5
<1>4. ASSUME NEW a \in Nat, NEW b \in Nat, a = Len(told), b = Len(more)
      PROVE  a + b <= 2
  BY <1>2, <1>4, <1>5
<1>6. Len(told) \in Nat /\ Len(more) \in Nat
  BY <1>2, <1>5
<1>7. Len(told) + Len(more) <= 2
  BY <1>4, <1>6
<1>8. QED
  BY <1>3, <1>7

LEMMA KeptFacts ==
  ASSUME NEW row, \A fact \in Facts : row.facts[fact] \in Int \cup {NoNumber}
  PROVE  FactsKept(Kept(row))
BY DEF FactsKept, Kept, Facts

LEMMA BaseRecord ==
  ASSUME NEW data, IsData(data), NEW row \in ToSet(data[1]), DepthOf(row, data).ordinal # 0
  PROVE  IsRecord(PlayerRecord(row, data), 2)
<1>1. PICK rank, ordinal, score, opportunity, offence :
        /\ rank = ExtractRank(row) /\ ordinal = DepthOf(row, data).ordinal
        /\ score = NormalizedScore(rank) /\ opportunity = DepthScore(ordinal)
        /\ offence = (row.position \notin {"K", "D/ST"})
  OBVIOUS
<1>20. /\ row.ranks \in Seq(Int \cup {NoNumber})
       /\ row.slots \in Nat
       /\ \A fact \in Facts : row.facts[fact] \in Int \cup {NoNumber}
  <2>1. PICK rows : rows = data[1]
    OBVIOUS
  <2>2. IsRows(rows) /\ row \in ToSet(rows)
    BY <2>1 DEF IsData
  <2>3. QED
    BY <2>2 DEF IsRows
<1>21. PICK facts, slots, name : facts = Kept(row) /\ slots = row.slots /\ name = row.name
  OBVIOUS
<1>22. FactsKept(facts) /\ slots \in Nat
  BY <1>20, <1>21, KeptFacts
<1>2. score \in Nat /\ score <= 9000
  <2>1. row.ranks \in Seq(Int \cup {NoNumber})
    BY <1>20
  <2>2. rank = NoNumber \/ (rank \in Nat /\ rank > 0)
    BY <1>1, <2>1, RankTyped
  <2>3. QED
    BY <1>1, <2>2, NormalizedScoreBounded
<1>3. ordinal \in Nat \cup {NoNumber} /\ ordinal # 0
  BY <1>1, DepthOfIsBest
<1>4. opportunity \in Nat /\ opportunity <= 10000
  BY <1>1, <1>3, DepthScoreBounded
<1>5. 78 * score + 12 * opportunity \in Nat /\ 78 * score + 12 * opportunity <= 1000000
  BY <1>2, <1>4
<1>6. PICK a, b, c, d :
        /\ a = IF rank # NoNumber THEN <<"short">> ELSE <<>>
        /\ b = IF ordinal # NoNumber THEN <<"short">> ELSE <<>>
        /\ c = IF rank = NoNumber THEN <<"short">> ELSE <<>>
        /\ d = IF ordinal = NoNumber /\ offence THEN <<"short">> ELSE <<>>
  OBVIOUS
<1>7. a \o b \in Seq(Texts) /\ Len(a \o b) <= 2
  BY <1>6, Explained
<1>8. c \o d \in Seq(Texts) /\ Len(c \o d) <= 2
  <2>1. (c = <<>> \/ c = <<"short">>) /\ (d = <<>> \/ d = <<"short">>)
    BY <1>6
  <2>2. QED
    BY <2>1, Explained
<1>9. PICK told, risky : told = a \o b /\ risky = c \o d
  OBVIOUS
<1>10. PlayerRecord(row, data) =
         [player |-> row.player, position |-> row.position, tier |-> TierNumber(rank),
          opportunity |-> opportunity, intrinsic |-> score,
          pickNow |-> 78 * score + 12 * opportunity, reasons |-> told, risks |-> risky,
          name |-> name, facts |-> facts, slots |-> slots,
          ordinal |-> ordinal, workload |-> Nothing, flag |-> Nothing]
  BY <1>1, <1>6, <1>9, <1>21 DEF PlayerRecord
<1>11. PICK now : now = 78 * score + 12 * opportunity
  OBVIOUS
<1>12. told \in Seq(Texts) /\ risky \in Seq(Texts) /\ Len(told) <= 2 /\ Len(risky) <= 2
       /\ now \in Nat /\ now <= 1000000
  BY <1>5, <1>7, <1>8, <1>9, <1>11
<1>13. score \in Nat /\ opportunity \in Nat /\ now \in Nat /\ ordinal \in Nat \cup {NoNumber}
  BY <1>2, <1>3, <1>4, <1>12
<1>14. score <= FirstScore /\ opportunity <= FullScore /\ now <= 100 * FullScore
  BY <1>2, <1>4, <1>12 DEF FirstScore, FullScore
<1>15. told \in Seq(Texts) /\ risky \in Seq(Texts) /\ Len(told) <= 2 /\ Len(risky) <= 2
  BY <1>12
<1>16. QED
  BY <1>10, <1>11, <1>13, <1>14, <1>15, <1>22 DEF IsRecord

(* What holds of the empty set, and of a set when it holds without one element,  *)
(* holds of every finite set.                                                    *)
LEMMA ByRemoval ==
  ASSUME NEW D, IsFiniteSet(D), NEW S, {} \in S, NEW pick,
         \A s \in (SUBSET D) \ {{}} : pick[s] \in s,
         \A s \in (SUBSET D) \ {{}} : s \ {pick[s]} \in S => s \in S
  PROVE  D \in S
<1> DEFINE K == {k \in 0..Cardinality(D) : \A s \in SUBSET D : Cardinality(s) <= k => s \in S}
<1>1. Cardinality(D) \in Nat
  BY FS_CardinalityType
<1>2. ASSUME NEW s \in SUBSET D
      PROVE  IsFiniteSet(s) /\ Cardinality(s) \in Nat /\ (s # {} => Cardinality(s) > 0)
  <2>1. IsFiniteSet(s)
    BY FS_Subset
  <2>2. Cardinality(s) \in Nat /\ (Cardinality(s) = 0 <=> s = {})
    BY <2>1, FS_CardinalityType, FS_EmptySet
  <2>3. QED
    BY <2>1, <2>2
<1>3. 0 \in K
  <2>1. \A s \in SUBSET D : Cardinality(s) <= 0 => s = {}
    <3>1. SUFFICES ASSUME NEW s \in SUBSET D, Cardinality(s) <= 0, s # {}
                   PROVE  FALSE
      OBVIOUS
    <3>2. Cardinality(s) \in Nat /\ Cardinality(s) > 0
      BY <1>2, <3>1
    <3>3. QED
      BY <3>1, <3>2
  <2>2. \A s \in SUBSET D : Cardinality(s) <= 0 => s \in S
    BY <2>1
  <2>3. 0 \in 0..Cardinality(D)
    BY <1>1
  <2>4. QED
    BY <2>2, <2>3
<1>4. \A k \in 1..Cardinality(D) : k - 1 \in K => k \in K
  <2>1. SUFFICES ASSUME NEW k \in 1..Cardinality(D), k - 1 \in K,
                        NEW s \in SUBSET D, Cardinality(s) <= k
                 PROVE  s \in S
    BY <1>1
  <2>2. CASE s = {}
    BY <2>2
  <2>3. CASE s # {}
    <3>1. PICK x \in s : x = pick[s]
      BY <2>3
    <3>2. IsFiniteSet(s) /\ Cardinality(s) \in Nat
      BY <1>2
    <3>3. Cardinality(s \ {x}) = Cardinality(s) - 1
      BY <3>2, FS_RemoveElement
    <3>4. Cardinality(s \ {x}) <= k - 1
      BY <2>1, <3>2, <3>3
    <3>5. s \ {x} \in S
      BY <2>1, <3>4
    <3>6. QED
      BY <2>3, <3>1, <3>5
  <2>4. QED
    BY <2>2, <2>3
<1>5. Cardinality(D) \in K
  <2> HIDE DEF K
  <2>1. 0..Cardinality(D) \subseteq K
    BY <1>1, <1>3, <1>4, Upwards
  <2>2. QED
    BY <1>1, <2>1
<1>6. QED
  BY <1>1, <1>5

(* The weights of a position add up to a hundred at most.                        *)
ShareNames == {"carry", "snap", "route", "target", "goal_line"}

WeightOf(weights, name) == IF name \in DOMAIN weights THEN weights[name] ELSE 0

LEMMA WeightsBounded ==
  ASSUME NEW position, NEW weights, weights = PositionWeights(position)
  PROVE  /\ DOMAIN weights \subseteq ShareNames
         /\ \A name \in ShareNames : WeightOf(weights, name) \in Nat
         /\ WeightOf(weights, "carry") + WeightOf(weights, "snap") + WeightOf(weights, "route")
            + WeightOf(weights, "target") + WeightOf(weights, "goal_line") <= 100
<1>1. CASE position = "RB"
  <2>1. weights = [carry |-> 30, snap |-> 20, route |-> 10, target |-> 10, goal_line |-> 20]
    BY <1>1 DEF PositionWeights, Weights
  <2>2. QED
    BY <2>1 DEF WeightOf, ShareNames
<1>2. CASE position \in {"WR", "TE"}
  <2>1. weights = [target |-> 35, route |-> 30, snap |-> 15, goal_line |-> 10]
    BY <1>2 DEF PositionWeights, Weights
  <2>2. QED
    BY <2>1 DEF WeightOf, ShareNames
<1>3. CASE position = "QB"
  <2>1. weights = [snap |-> 35, carry |-> 15, goal_line |-> 10]
    BY <1>3 DEF PositionWeights, Weights
  <2>2. QED
    BY <2>1 DEF WeightOf, ShareNames
<1>4. CASE position \notin {"RB", "WR", "TE", "QB"}
  <2>1. weights = <<>>
    BY <1>4 DEF PositionWeights, Weights
  <2>2. DOMAIN weights = {}
    BY <2>1
  <2>3. QED
    BY <2>2 DEF WeightOf, ShareNames
<1>5. QED
  BY <1>1, <1>2, <1>3, <1>4

(* What the names of s may contribute.                                           *)
Part(weights, name, s) == IF name \in s THEN WeightOf(weights, name) * 100 ELSE 0

Bound(weights, s) ==
  Part(weights, "carry", s) + Part(weights, "snap", s) + Part(weights, "route", s)
  + Part(weights, "target", s) + Part(weights, "goal_line", s)

LEMMA BoundGrows ==
  ASSUME NEW weights, \A name \in ShareNames : WeightOf(weights, name) \in Nat,
         NEW s, s \subseteq ShareNames, NEW x \in s
  PROVE  Bound(weights, s) = Bound(weights, s \ {x}) + WeightOf(weights, x) * 100
<1>1. \A name \in ShareNames : name # x => Part(weights, name, s) = Part(weights, name, s \ {x})
  BY DEF Part
<1>2. Part(weights, x, s) = WeightOf(weights, x) * 100 /\ Part(weights, x, s \ {x}) = 0
  BY DEF Part
<1>3. \A name \in ShareNames : Part(weights, name, s) \in Int /\ Part(weights, name, s \ {x}) \in Int
  BY DEF Part
<1>4. x \in ShareNames
  OBVIOUS
<1>5. QED
  BY <1>1, <1>2, <1>3, <1>4 DEF Bound, ShareNames

(* A sum over a finite set, in the order of pick, has a value.                   *)
Sums(g, S, amount, pick) ==
  \A s \in SUBSET S : g[s] = IF s = {} THEN 0 ELSE amount[pick[s]] + g[s \ {pick[s]}]

LEMMA SumExists ==
  ASSUME NEW S, IsFiniteSet(S), NEW amount \in [S -> Int],
         NEW pick \in [(SUBSET S) \ {{}} -> S], \A s \in (SUBSET S) \ {{}} : pick[s] \in s
  PROVE  \E g \in [SUBSET S -> Int] : Sums(g, S, amount, pick)
<1> DEFINE V == Int
           step == [x \in S |-> [sum \in V |-> amount[x] + sum]]
           start == 0
<1>1. step \in [S -> [V -> V]]
  OBVIOUS
<1>2. start \in V
  OBVIOUS
<1>3. \A x \in S, sum \in V : step[x][sum] = amount[x] + sum
  OBVIOUS
<1> HIDE DEF V, step, start
<1>4. PICK g \in [SUBSET S -> V] : Folds(g, S, start, step, pick)
  BY <1>1, <1>2, FoldExists
<1>5. \A s \in SUBSET S : g[s] = IF s = {} THEN start ELSE step[pick[s]][g[s \ {pick[s]}]]
  BY <1>4 DEF Folds
<1>6. \A s \in (SUBSET S) \ {{}} : step[pick[s]][g[s \ {pick[s]}]] = amount[pick[s]] + g[s \ {pick[s]}]
  <2>1. SUFFICES ASSUME NEW s \in (SUBSET S) \ {{}}
                 PROVE  step[pick[s]][g[s \ {pick[s]}]] = amount[pick[s]] + g[s \ {pick[s]}]
    OBVIOUS
  <2>2. pick[s] \in S /\ s \ {pick[s]} \in SUBSET S
    OBVIOUS
  <2>3. g[s \ {pick[s]}] \in V
    BY <2>2
  <2>4. QED
    BY <1>3, <2>2, <2>3
<1>7. \A s \in SUBSET S : g[s] = IF s = {} THEN start ELSE amount[pick[s]] + g[s \ {pick[s]}]
  BY <1>5, <1>6
<1>8. QED
  BY <1>7 DEF V, start, Sums

LEMMA Scaled ==
  ASSUME NEW w \in Nat, NEW m \in Nat, m <= 100
  PROVE  w * m \in Nat /\ w * m <= w * 100 /\ w * 100 \in Nat
OBVIOUS

(* What a role's midpoints are worth: their weighted sum, and never above 100.   *)
LEMMA OpportunityBounded ==
  ASSUME NEW row, NEW position, DOMAIN row.shares \subseteq DOMAIN PositionWeights(position),
         \A name \in DOMAIN row.shares : row.shares[name].mid \in Nat /\ row.shares[name].mid <= 100
  PROVE  Opportunity(row, position) \in Nat /\ Opportunity(row, position) <= 10000
<1>1. PICK D, weights, mid, pick : /\ D = DOMAIN row.shares /\ weights = PositionWeights(position)
                                   /\ mid = [name \in D |-> row.shares[name].mid]
                                   /\ pick = [s \in (SUBSET D) \ {{}} |-> CHOOSE x \in s : TRUE]
  OBVIOUS
<1>2. /\ DOMAIN weights \subseteq ShareNames
      /\ \A name \in ShareNames : WeightOf(weights, name) \in Nat
      /\ WeightOf(weights, "carry") + WeightOf(weights, "snap") + WeightOf(weights, "route")
         + WeightOf(weights, "target") + WeightOf(weights, "goal_line") <= 100
  BY <1>1, WeightsBounded
<1>3. D \subseteq ShareNames
  BY <1>1, <1>2
<1>4. \A x \in D : WeightOf(weights, x) = weights[x] /\ weights[x] \in Nat /\ mid[x] \in Nat /\ mid[x] <= 100
  BY <1>1, <1>2, <1>3 DEF WeightOf
<1>5. IsFiniteSet(D)
  <2>1. IsFiniteSet(ShareNames)
    <3>1. PICK c, s, r, t, g : c = "carry" /\ s = "snap" /\ r = "route" /\ t = "target" /\ g = "goal_line"
      OBVIOUS
    <3>2. ShareNames = {c, s} \cup {r, t} \cup {g}
      BY <3>1 DEF ShareNames
    <3>3. \A x, y : IsFiniteSet({x, y})
      <4>1. SUFFICES ASSUME NEW x, NEW y
                     PROVE  IsFiniteSet({x, y})
        OBVIOUS
      <4>2. IsFiniteSet({x})
        BY FS_Singleton
      <4>3. IsFiniteSet({x} \cup {y})
        BY <4>2, FS_AddElement
      <4>4. {x, y} = {x} \cup {y}
        OBVIOUS
      <4>5. QED
        BY <4>3, <4>4
    <3>4. IsFiniteSet({c, s} \cup {r, t})
      BY <3>3, FS_Union
    <3>5. IsFiniteSet(({c, s} \cup {r, t}) \cup {g})
      BY <3>4, FS_AddElement
    <3>6. QED
      BY <3>2, <3>5
  <2>2. QED
    BY <1>3, <2>1, FS_Subset
<1>6. pick \in [(SUBSET D) \ {{}} -> D] /\ \A s \in (SUBSET D) \ {{}} : pick[s] \in s
  BY <1>1
<1>7. PICK amount : amount = [x \in D |-> weights[x] * mid[x]]
  OBVIOUS
<1>8. \E g \in [SUBSET D -> Int] : Sums(g, D, amount, pick)
  <2>1. amount \in [D -> Int]
    BY <1>4, <1>7
  <2>2. QED
    BY <1>5, <1>6, <2>1, SumExists
<1> DEFINE body(g, s) == IF s = {} THEN 0
                         ELSE weights[CHOOSE x \in s : TRUE] * row.shares[CHOOSE x \in s : TRUE].mid
                              + g[s \ {CHOOSE x \in s : TRUE}]
<1>9. \E g : g = [s \in SUBSET D |-> body(g, s)]
  <2>1. PICK g \in [SUBSET D -> Int] : Sums(g, D, amount, pick)
    BY <1>8
  <2>2. ASSUME NEW s \in SUBSET D
        PROVE  g[s] = body(g, s)
    <3>1. CASE s = {}
      BY <2>1, <3>1 DEF Sums
    <3>2. CASE s # {}
      <4>1. PICK x \in s : x = pick[s] /\ x = CHOOSE y \in s : TRUE
        BY <1>1, <1>6, <3>2
      <4>2. g[s] = amount[x] + g[s \ {x}]
        BY <2>1, <3>2, <4>1 DEF Sums
      <4>3. g[s \ {x}] \in Int /\ x \in D
        OBVIOUS
      <4>4. g[s] = weights[x] * mid[x] + g[s \ {x}]
        BY <1>7, <4>2, <4>3
      <4>5. mid[x] = row.shares[x].mid
        BY <1>1, <4>3
      <4>6. QED
        BY <3>2, <4>1, <4>4, <4>5
    <3>3. QED
      BY <3>1, <3>2
  <2> HIDE DEF body
  <2>3. g = [s \in SUBSET D |-> body(g, s)]
    BY <2>2
  <2>4. QED
    BY <2>3
<1>10. PICK g : g = [s \in SUBSET D |-> body(g, s)] /\ Opportunity(row, position) = g[D]
  <2>1. Opportunity(row, position) = (CHOOSE g : g = [s \in SUBSET D |-> body(g, s)])[D]
    <3>1. Opportunity(row, position) =
            (CHOOSE g : g = [s \in SUBSET DOMAIN row.shares |->
                 IF s = {} THEN 0
                 ELSE PositionWeights(position)[CHOOSE x \in s : TRUE] * row.shares[CHOOSE x \in s : TRUE].mid
                      + g[s \ {CHOOSE x \in s : TRUE}]])[DOMAIN row.shares]
      BY Zenon DEF Opportunity, MapThenSumSet, MapThenFoldSet
    <3>2. QED
      BY <1>1, <3>1
  <2> HIDE DEF body
  <2>2. QED
    BY <1>9, <2>1
<1> DEFINE S == {s \in SUBSET D : g[s] \in Int /\ 0 <= g[s] /\ g[s] <= Bound(weights, s)}
<1>11. {} \in S
  <2>1. Bound(weights, {}) = 0
    BY DEF Bound, Part
  <2>2. g[{}] = 0
    BY <1>10
  <2>3. QED
    BY <2>1, <2>2
<1>12. ASSUME NEW s \in (SUBSET D) \ {{}}, s \ {pick[s]} \in S
       PROVE  s \in S
  <2>1. PICK x \in s : x = pick[s] /\ x = CHOOSE y \in s : TRUE
    BY <1>1, <1>6
  <2>2. x \in D /\ s \subseteq ShareNames /\ mid[x] = row.shares[x].mid
    BY <1>1, <1>3
  <2>3. g[s] = body(g, s)
    <3> HIDE DEF body
    <3>1. QED
      BY <1>10
  <2>4. g[s] = weights[x] * mid[x] + g[s \ {x}]
    <3>1. s # {}
      OBVIOUS
    <3>2. QED
      BY <2>1, <2>2, <2>3, <3>1
  <2>5. Bound(weights, s) = Bound(weights, s \ {x}) + WeightOf(weights, x) * 100
    BY <1>2, <2>2, BoundGrows
  <2> HIDE DEF S, body
  <2>6. PICK w \in Nat, m \in Nat : m <= 100 /\ w = weights[x] /\ m = mid[x] /\ w = WeightOf(weights, x)
    BY <1>4, <2>2
  <2>7. w * m \in Nat /\ w * m <= w * 100 /\ w * 100 \in Nat
    BY <2>6, Scaled
  <2>14. g[s \ {x}] \in Int /\ 0 <= g[s \ {x}] /\ g[s \ {x}] <= Bound(weights, s \ {x})
    BY <1>12, <2>1 DEF S
  <2>15. PICK p \in Int, q \in Int : p = w * m /\ q = w * 100
    BY <2>7
  <2>16. PICK a \in Int : a = g[s \ {x}]
    BY <2>14
  <2>8. PICK b : b = Bound(weights, s \ {x})
    OBVIOUS
  <2>9. b \in Int
    <3>1. \A name \in ShareNames : Part(weights, name, s \ {x}) \in Int
      BY <1>2 DEF Part
    <3>2. QED
      BY <2>8, <3>1 DEF Bound, ShareNames
  <2>10. 0 <= a /\ a <= b
    BY <2>8, <2>14, <2>16
  <2>11. g[s] = p + a /\ Bound(weights, s) = b + q /\ p \in Nat /\ p <= q
    BY <2>4, <2>5, <2>6, <2>7, <2>8, <2>15, <2>16
  <2>12. g[s] \in Int /\ 0 <= g[s] /\ g[s] <= Bound(weights, s)
    BY <2>8, <2>9, <2>10, <2>11
  <2>13. QED
    BY <2>12 DEF S
<1>13. D \in S
  <2> HIDE DEF S
  <2>1. QED
    BY <1>5, <1>6, <1>11, <1>12, ByRemoval
<1>14. Bound(weights, D) <= 10000
  <2>1. \A name \in ShareNames : Part(weights, name, D) \in Nat
                                 /\ Part(weights, name, D) <= WeightOf(weights, name) * 100
    BY <1>2 DEF Part
  <2>2. PICK a \in Nat, b \in Nat, c \in Nat, d \in Nat, e \in Nat :
          /\ a = WeightOf(weights, "carry") /\ b = WeightOf(weights, "snap")
          /\ c = WeightOf(weights, "route") /\ d = WeightOf(weights, "target")
          /\ e = WeightOf(weights, "goal_line")
    BY <1>2 DEF ShareNames
  <2>3. /\ Part(weights, "carry", D) <= a * 100 /\ Part(weights, "snap", D) <= b * 100
        /\ Part(weights, "route", D) <= c * 100 /\ Part(weights, "target", D) <= d * 100
        /\ Part(weights, "goal_line", D) <= e * 100
    BY <2>1, <2>2 DEF ShareNames
  <2>4. /\ Part(weights, "carry", D) \in Nat /\ Part(weights, "snap", D) \in Nat
        /\ Part(weights, "route", D) \in Nat /\ Part(weights, "target", D) \in Nat
        /\ Part(weights, "goal_line", D) \in Nat
    BY <2>1 DEF ShareNames
  <2>5. a + b + c + d + e <= 100
    BY <1>2, <2>2
  <2>6. QED
    BY <2>3, <2>4, <2>5 DEF Bound
<1>15. Bound(weights, D) \in Int
  <2>1. \A name \in ShareNames : Part(weights, name, D) \in Int
    BY <1>2 DEF Part
  <2>2. QED
    BY <2>1 DEF Bound, ShareNames
<1>16. QED
  BY <1>10, <1>13, <1>14, <1>15

-------------------------------------------------------------------------------
(* A compiled player.                                                            *)

(* Neither the role nor the flag says who a player is or how deep he stands.     *)
Same(p, q) ==
  q.player = p.player /\ q.position = p.position /\ q.ordinal = p.ordinal

(* A record changes in the field that is written.                                *)
LEMMA Others ==
  ASSUME NEW p, NEW n, IsRecord(p, n), NEW value
  PROVE  /\ Same([p EXCEPT !.reasons = value], p) /\ [p EXCEPT !.reasons = value].flag = p.flag
         /\ Same([p EXCEPT !.risks = value], p) /\ [p EXCEPT !.risks = value].flag = p.flag
         /\ Same([p EXCEPT !.pickNow = value], p)
         /\ Same([p EXCEPT !.workload = value], p) /\ Same([p EXCEPT !.opportunity = value], p)
         /\ Same([p EXCEPT !.tier = value], p) /\ Same([p EXCEPT !.flag = value], p)
<1>1. p \in [player: {p.player}, position: {p.position}, tier: {p.tier},
             opportunity: Nat, intrinsic: Nat, pickNow: Nat,
             reasons: Seq(Texts), risks: Seq(Texts), ordinal: Nat \cup {NoNumber},
             name: {p.name}, facts: {p.facts}, slots: Nat,
             workload: {p.workload}, flag: {p.flag}]
  BY DEF IsRecord
<1>2. QED
  BY <1>1 DEF Same

(* A told explanation is one more.                                               *)
LEMMA ToldOnce ==
  ASSUME NEW n \in Nat, NEW told \in Seq(Texts), Len(told) <= n, NEW reason \in Texts
  PROVE  Append(told, reason) \in Seq(Texts) /\ Len(Append(told, reason)) <= n + 1
<1>1. PICK m \in Nat : m = Len(told)
  OBVIOUS
<1>2. Append(told, reason) \in Seq(Texts) /\ Len(Append(told, reason)) = m + 1
  BY <1>1
<1>3. m + 1 <= n + 1
  BY <1>1
<1>4. QED
  BY <1>2, <1>3

LEMMA RecordIsMore ==
  ASSUME NEW p, NEW n \in Nat, IsRecord(p, n)
  PROVE  IsRecord(p, n + 1)
<1>1. Len(p.reasons) \in Nat /\ Len(p.risks) \in Nat /\ Len(p.reasons) <= n /\ Len(p.risks) <= n
  BY DEF IsRecord
<1>2. PICK a \in Nat, b \in Nat : a = Len(p.reasons) /\ b = Len(p.risks)
  BY <1>1
<1>3. a <= n + 1 /\ b <= n + 1
  BY <1>1, <1>2
<1>4. QED
  BY <1>2, <1>3 DEF IsRecord

LEMMA Explanation ==
  ASSUME NEW p, NEW n \in Nat, IsRecord(p, n), NEW reason \in Texts
  PROVE  /\ IsRecord([p EXCEPT !.reasons = Append(@, reason)], n + 1)
         /\ IsRecord([p EXCEPT !.risks = Append(@, reason)], n + 1)
<1>1. /\ p.reasons \in Seq(Texts) /\ Len(p.reasons) <= n
      /\ p.risks \in Seq(Texts) /\ Len(p.risks) <= n
  BY DEF IsRecord
<1>2. PICK a, b : a = Append(p.reasons, reason) /\ b = Append(p.risks, reason)
  OBVIOUS
<1>3. a \in Seq(Texts) /\ Len(a) <= n + 1
  BY <1>1, <1>2, ToldOnce
<1>4. b \in Seq(Texts) /\ Len(b) <= n + 1
  BY <1>1, <1>2, ToldOnce
<1>5. /\ p \in [player: {p.player}, position: {p.position}, tier: {p.tier},
                opportunity: Nat, intrinsic: Nat, pickNow: Nat,
                reasons: Seq(Texts), risks: Seq(Texts), ordinal: Nat \cup {NoNumber},
                name: {p.name}, facts: {p.facts}, slots: Nat,
                workload: {p.workload}, flag: {p.flag}]
      /\ p.opportunity <= FullScore /\ p.intrinsic <= FirstScore /\ p.pickNow <= 100 * FullScore /\ FactsKept(p.facts)
  BY DEF IsRecord
<1>6. Len(p.reasons) <= n + 1 /\ Len(p.risks) <= n + 1
  BY RecordIsMore DEF IsRecord
<1>7. PICK q : q = [p EXCEPT !.reasons = a]
  OBVIOUS
<1>8. PICK r : r = [p EXCEPT !.risks = b]
  OBVIOUS
<1>9. IsRecord(q, n + 1)
  BY <1>3, <1>5, <1>6, <1>7 DEF IsRecord
<1>10. IsRecord(r, n + 1)
  BY <1>4, <1>5, <1>6, <1>8 DEF IsRecord
<1>11. QED
  BY <1>2, <1>7, <1>8, <1>9, <1>10

(* Other fields than the explanations.                                           *)
LEMMA Revised ==
  ASSUME NEW p, NEW n \in Nat, IsRecord(p, n), NEW workload,
         NEW opportunity \in Nat, opportunity <= FullScore
  PROVE  /\ Same([p EXCEPT !.workload = workload, !.opportunity = opportunity], p)
         /\ IsRecord([p EXCEPT !.workload = workload, !.opportunity = opportunity], n)
<1>1. /\ p \in [player: {p.player}, position: {p.position}, tier: {p.tier},
                opportunity: Nat, intrinsic: Nat, pickNow: Nat,
                reasons: Seq(Texts), risks: Seq(Texts), ordinal: Nat \cup {NoNumber},
                name: {p.name}, facts: {p.facts}, slots: Nat,
                workload: {p.workload}, flag: {p.flag}]
      /\ p.opportunity <= FullScore /\ p.intrinsic <= FirstScore /\ p.pickNow <= 100 * FullScore /\ FactsKept(p.facts)
      /\ Len(p.reasons) <= n /\ Len(p.risks) <= n
  BY DEF IsRecord
<1>2. PICK q : q = [p EXCEPT !.workload = workload, !.opportunity = opportunity]
  OBVIOUS
<1>3. IsRecord(q, n) /\ Same(q, p)
  BY <1>1, <1>2 DEF IsRecord, Same
<1>4. QED
  BY <1>2, <1>3

Tiered(p, tier, flag) == [p EXCEPT !.tier = tier, !.flag = flag]

LEMMA Flagged ==
  ASSUME NEW p, NEW n \in Nat, IsRecord(p, n), NEW tier, NEW flag,
         NEW q, q = Tiered(p, tier, flag)
  PROVE  IsRecord(q, n) /\ Same(q, p) /\ q.flag = flag
<1>1. /\ p \in [player: {p.player}, position: {p.position}, tier: {p.tier},
                opportunity: Nat, intrinsic: Nat, pickNow: Nat,
                reasons: Seq(Texts), risks: Seq(Texts), ordinal: Nat \cup {NoNumber},
                name: {p.name}, facts: {p.facts}, slots: Nat,
                workload: {p.workload}, flag: {p.flag}]
      /\ p.opportunity <= FullScore /\ p.intrinsic <= FirstScore /\ p.pickNow <= 100 * FullScore /\ FactsKept(p.facts)
      /\ Len(p.reasons) <= n /\ Len(p.risks) <= n
  BY DEF IsRecord
<1>2. QED
  BY <1>1 DEF IsRecord, Same, Tiered

LEMMA Rescored ==
  ASSUME NEW p, NEW n \in Nat, IsRecord(p, n), NEW score \in Nat, score <= 100 * FullScore
  PROVE  IsRecord([p EXCEPT !.pickNow = score], n) /\ Same([p EXCEPT !.pickNow = score], p)
<1>1. /\ p \in [player: {p.player}, position: {p.position}, tier: {p.tier},
                opportunity: Nat, intrinsic: Nat, pickNow: Nat,
                reasons: Seq(Texts), risks: Seq(Texts), ordinal: Nat \cup {NoNumber},
                name: {p.name}, facts: {p.facts}, slots: Nat,
                workload: {p.workload}, flag: {p.flag}]
      /\ p.opportunity <= FullScore /\ p.intrinsic <= FirstScore /\ p.pickNow <= 100 * FullScore /\ FactsKept(p.facts)
      /\ Len(p.reasons) <= n /\ Len(p.risks) <= n
  BY DEF IsRecord
<1>2. PICK q : q = [p EXCEPT !.pickNow = score]
  OBVIOUS
<1>3. IsRecord(q, n) /\ Same(q, p)
  BY <1>1, <1>2 DEF IsRecord, Same
<1>4. QED
  BY <1>2, <1>3

LEMMA WithRoleIsRecord ==
  ASSUME NEW p, IsRecord(p, 2), NEW rows,
         \A row \in rows : /\ row.reason \in Texts
                           /\ Opportunity(row, p.position) \in Nat
                           /\ Opportunity(row, p.position) <= FullScore
  PROVE  IsRecord(WithRole(p, rows), 3) /\ Same(WithRole(p, rows), p)
<1>1. CASE rows = {}
  <2>1. WithRole(p, rows) = p
    BY <1>1 DEF WithRole
  <2>2. IsRecord(p, 2 + 1)
    BY RecordIsMore
  <2>3. QED
    BY <2>1, <2>2 DEF Same
<1>2. CASE rows # {}
  <2>1. PICK row \in rows : row = CHOOSE r \in rows : TRUE
    BY <1>2
  <2>2. PICK score, told :
          /\ score = IF DOMAIN row.shares = {} THEN p.opportunity ELSE Opportunity(row, p.position)
          /\ told = [p EXCEPT !.workload = row.shares, !.opportunity = score]
    OBVIOUS
  <2>3. score \in Nat /\ score <= FullScore
    BY <2>1, <2>2 DEF IsRecord
  <2>4. IsRecord(told, 2) /\ Same(told, p)
    BY <2>2, <2>3, Revised
  <2>8. /\ Same([told EXCEPT !.reasons = Append(told.reasons, row.reason)], told)
        /\ Same([told EXCEPT !.risks = Append(told.risks, row.reason)], told)
    BY <2>4, Others
  <2>5. /\ IsRecord([told EXCEPT !.reasons = Append(@, row.reason)], 2 + 1)
        /\ IsRecord([told EXCEPT !.risks = Append(@, row.reason)], 2 + 1)
    BY <2>1, <2>4, Explanation
  <2>6. WithRole(p, rows) = IF row.role \in {"backup", "unknown"}
                            THEN [told EXCEPT !.risks = Append(@, row.reason)]
                            ELSE [told EXCEPT !.reasons = Append(@, row.reason)]
    BY <1>2, <2>1, <2>2 DEF WithRole
  <2>7. QED
    BY <2>4, <2>5, <2>6, <2>8 DEF Same
<1>3. QED
  BY <1>1, <1>2

LEMMA WithFlagIsRecord ==
  ASSUME NEW p, IsRecord(p, 3), NEW rows, \A row \in rows : row.reason \in Texts
  PROVE  /\ IsRecord(WithFlag(p, rows), 4) /\ Same(WithFlag(p, rows), p)
         /\ rows # {} => WithFlag(p, rows).flag \in rows
<1>1. CASE rows = {}
  <2>1. WithFlag(p, rows) = p
    BY <1>1 DEF WithFlag
  <2>2. IsRecord(p, 3 + 1)
    BY RecordIsMore
  <2>3. QED
    BY <1>1, <2>1, <2>2 DEF Same
<1>2. CASE rows # {}
  <2>1. PICK row \in rows : row = CHOOSE r \in rows : TRUE
    BY <1>2
  <2>2. PICK tier, told :
          /\ tier = IF row.tier = NoNumber THEN p.tier ELSE row.tier
          /\ told = Tiered(p, tier, row)
    OBVIOUS
  <2>4. IsRecord(told, 3) /\ Same(told, p) /\ told.flag = row
    BY <2>2, Flagged
  <2>9. PICK a, b : a = [told EXCEPT !.reasons = Append(told.reasons, row.reason)]
                    /\ b = [told EXCEPT !.risks = Append(told.risks, row.reason)]
    OBVIOUS
  <2>10. Same(a, told) /\ Same(b, told) /\ a.flag = told.flag /\ b.flag = told.flag
    BY <2>4, <2>9, Others
  <2>5. /\ IsRecord([told EXCEPT !.reasons = Append(@, row.reason)], 3 + 1)
        /\ IsRecord([told EXCEPT !.risks = Append(@, row.reason)], 3 + 1)
    BY <2>1, <2>4, Explanation
  <2>6. WithFlag(p, rows) = IF row.flag = "avoid" \/ row.adjustment < 0
                            THEN [told EXCEPT !.risks = Append(@, row.reason)]
                            ELSE [told EXCEPT !.reasons = Append(@, row.reason)]
    BY <1>2, <2>1, <2>2 DEF WithFlag, Tiered
  <2>7. WithFlag(p, rows) \in {a, b} /\ IsRecord(a, 4) /\ IsRecord(b, 4)
    BY <2>5, <2>6, <2>9
  <2>8. QED
    BY <2>1, <2>4, <2>7, <2>10 DEF Same
<1>3. QED
  BY <1>1, <1>2

LEMMA PickScoreBounded ==
  ASSUME NEW intrinsic \in Nat, intrinsic <= FirstScore, NEW opportunity \in Nat,
         opportunity <= FullScore, NEW adjustment \in -6..6
  PROVE  PickScore(intrinsic, opportunity, adjustment) \in Nat
         /\ PickScore(intrinsic, opportunity, adjustment) <= 100 * FullScore
<1>1. PICK sum \in Int : sum = 85 * intrinsic + 15 * opportunity + adjustment * 10000
  OBVIOUS
<1>2. sum <= 1000000
  BY <1>1 DEF FirstScore, FullScore
<1>3. PickScore(intrinsic, opportunity, adjustment) = Smaller(1200000, Larger(0, sum))
  BY <1>1 DEF PickScore
<1>4. QED
  BY <1>1, <1>2, <1>3 DEF Smaller, Larger, FullScore

(* A compiled player is a record of four explanations of a kind at most: two of  *)
(* the build, one of the role and one of the flag.                               *)
LEMMA CompiledRecord ==
  ASSUME NEW p, IsRecord(p, 2), NEW roles, NEW flags,
         \A row \in RowsOf(roles, p.player) : /\ row.reason \in Texts
                                              /\ Opportunity(row, p.position) \in Nat
                                              /\ Opportunity(row, p.position) <= FullScore,
         \A row \in RowsOf(flags, p.player) : row.reason \in Texts /\ row.adjustment \in -6..6
  PROVE  IsRecord(Compiled(p, roles, flags), 4) /\ Same(Compiled(p, roles, flags), p)
<1>1. PICK role, flag, sized, told :
        /\ role = RowsOf(roles, p.player) /\ flag = RowsOf(flags, p.player)
        /\ sized = WithRole(p, role) /\ told = WithFlag(sized, flag)
  OBVIOUS
<1>2. IsRecord(sized, 3) /\ Same(sized, p)
  BY <1>1, WithRoleIsRecord
<1>3. IsRecord(told, 4) /\ Same(told, sized) /\ (flag # {} => told.flag \in flag)
  BY <1>1, <1>2, WithFlagIsRecord
<1>4. PICK adjustment : adjustment = IF flag = {} THEN 0 ELSE told.flag.adjustment
  OBVIOUS
<1>5. adjustment \in -6..6
  BY <1>1, <1>3, <1>4
<1>6. PICK score : score = PickScore(told.intrinsic, told.opportunity, adjustment)
  OBVIOUS
<1>7. score \in Nat /\ score <= 100 * FullScore
  <2>1. /\ told.intrinsic \in Nat /\ told.intrinsic <= FirstScore
        /\ told.opportunity \in Nat /\ told.opportunity <= FullScore
    BY <1>3 DEF IsRecord
  <2>2. QED
    BY <1>5, <1>6, <2>1, PickScoreBounded
<1>8. PICK q : q = [told EXCEPT !.pickNow = score]
  OBVIOUS
<1>9. IsRecord(q, 4) /\ Same(q, told)
  BY <1>3, <1>7, <1>8, Rescored
<1>10. Compiled(p, roles, flags) = IF role = {} /\ flag = {} THEN told ELSE q
  BY <1>1, <1>4, <1>6, <1>8 DEF Compiled
<1>11. Same(told, p)
  BY <1>2, <1>3 DEF Same
<1>12. Same(q, p)
  BY <1>9, <1>11 DEF Same
<1>13. QED
  BY <1>3, <1>9, <1>10, <1>11, <1>12

-------------------------------------------------------------------------------
(* Catalogs and what later steps accept of them.                                 *)

(* A player is listed once, with at most n explanations of a kind.               *)
IsCatalog(catalog, n) ==
  /\ IsFiniteSet(catalog)
  /\ \A p, q \in catalog : p.player = q.player => p = q
  /\ \A p \in catalog : IsRecord(p, n)

LEMMA NormalizedIsCatalog ==
  ASSUME NEW data, IsData(data), Divisible(data)
  PROVE  IsCatalog(NormalizePlayers(data), 2)
<1>1. PICK rows : rows = data[1]
  OBVIOUS
<1>2. IsRows(rows)
  BY <1>1 DEF IsData
<1>3. rows \in Seq(ToSet(rows))
  BY <1>2 DEF IsRows
<1>7. NormalizePlayers(data) = {PlayerRecord(rows[j], data) : j \in Firsts(rows)}
  <2>1. NormalizePlayers(data) = FirstRecords(rows, data)
    BY <1>1, <1>3, NormalizedRows
  <2>2. QED
    BY <2>1 DEF FirstRecords
<1>4. PICK n \in Nat : n = Len(rows) /\ DOMAIN rows = 1..n
  BY <1>3
<1>5. PICK record, F : /\ record = [j \in 1..n |-> PlayerRecord(rows[j], data)]
                       /\ F = Firsts(rows)
  OBVIOUS
<1>6. F \subseteq 1..n
  BY <1>4, <1>5 DEF Firsts
<1>8. NormalizePlayers(data) = {record[j] : j \in F}
  BY <1>5, <1>6, <1>7
<1>9. IsFiniteSet({record[j] : j \in F})
  <2>4. IsFiniteSet(1..n)
    BY Interval
  <2>5. PICK N : N = 1..n
    OBVIOUS
  <2>1. IsFiniteSet(F)
    BY <1>6, <2>4, <2>5, FS_Subset
  <2>2. [j \in F |-> record[j]] \in Surjection(F, {record[j] : j \in F})
    BY DEF Surjection
  <2>3. QED
    BY <2>1, <2>2, FS_Surjection
<1>10. \A j \in F : IsRecord(record[j], 2)
  <2>1. SUFFICES ASSUME NEW j \in F
                 PROVE  IsRecord(PlayerRecord(rows[j], data), 2)
    BY <1>5, <1>6
  <2>2. rows[j] \in ToSet(data[1])
    BY <1>1, <1>4, <1>6 DEF ToSet
  <2>3. DepthOf(rows[j], data).ordinal # 0
    <3>1. j \in DOMAIN rows /\ Usable(rows[j])
      BY <1>4, <1>5, <1>6 DEF Firsts
    <3>2. \A i \in 1..(j - 1) : Usable(rows[i]) => rows[i].player # rows[j].player
      BY <1>5 DEF Firsts
    <3>3. QED
      BY <1>1, <3>1, <3>2 DEF Divisible
  <2>4. QED
    BY <2>2, <2>3, BaseRecord
<1>11. \A j \in F : record[j].player = rows[j].player
  BY <1>5, <1>6, RecordPlayer
<1>12. \A i, j \in F : i < j => rows[i].player # rows[j].player
  <2>1. SUFFICES ASSUME NEW i \in F, NEW j \in F, i < j
                 PROVE  rows[i].player # rows[j].player
    OBVIOUS
  <2>2. i \in 1..(j - 1)
    BY <1>6, <2>1
  <2>3. Usable(rows[i])
    BY <1>5 DEF Firsts
  <2>4. QED
    BY <1>5, <2>2, <2>3 DEF Firsts
<1>13. \A i, j \in F : record[i].player = record[j].player => i = j
  <2>1. SUFFICES ASSUME NEW i \in F, NEW j \in F, record[i].player = record[j].player, i # j
                 PROVE  FALSE
    OBVIOUS
  <2>2. rows[i].player = rows[j].player
    BY <1>11, <2>1
  <2>3. i < j \/ j < i
    BY <1>6, <2>1
  <2>4. QED
    BY <1>12, <2>2, <2>3
<1>14. QED
  BY <1>8, <1>9, <1>10, <1>13 DEF IsCatalog

(* As many identities as records.                                                *)
LEMMA IdentitiesCounted ==
  ASSUME NEW catalog, NEW n, IsCatalog(catalog, n)
  PROVE  Cardinality(IdsOf(catalog)) = Cardinality(catalog)
<1>1. PICK f, T : f = [p \in catalog |-> p.player] /\ T = IdsOf(catalog)
  OBVIOUS
<1>2. \A p \in catalog : f[p] \in T
  BY <1>1 DEF IdsOf
<1>3. \A t \in T : \E p \in catalog : f[p] = t
  BY <1>1 DEF IdsOf
<1>4. \A p, q \in catalog : f[p] = f[q] => p = q
  BY <1>1 DEF IsCatalog
<1>5. IsFiniteSet(catalog)
  BY DEF IsCatalog
<1>6. Cardinality(catalog) = Cardinality(T)
  BY <1>2, <1>3, <1>4, <1>5, OneEach
<1>7. QED
  BY <1>1, <1>6

(* Only what a record copies takes it out of the contract.                       *)
LEMMA ContractIsText ==
  ASSUME NEW p, NEW n \in Nat, n <= 12, IsRecord(p, n)
  PROVE  InContract(p) <=> ~Oversized(p)
<1>1. p.opportunity \in 0..FullScore
  <2>1. p.opportunity \in Nat /\ p.opportunity <= FullScore
    BY DEF IsRecord
  <2>2. FullScore \in Nat
    BY DEF FullScore
  <2>3. QED
    BY <2>1, <2>2
<1>2. p.intrinsic \in 0..FullScore
  <2>1. p.intrinsic \in Nat /\ p.intrinsic <= FirstScore
    BY DEF IsRecord
  <2>2. FirstScore \in Nat /\ FullScore \in Nat /\ FirstScore <= FullScore
    BY DEF FirstScore, FullScore
  <2>3. QED
    BY <2>1, <2>2
<1>3. p.pickNow \in 0..(100 * FullScore)
  <2>1. p.pickNow \in Nat /\ p.pickNow <= 100 * FullScore
    BY DEF IsRecord
  <2>2. 100 * FullScore \in Nat
    BY DEF FullScore
  <2>3. QED
    BY <2>1, <2>2
<1>4. Len(p.reasons) <= 12 /\ Len(p.risks) <= 12
  <2>1. Len(p.reasons) \in Nat /\ Len(p.risks) \in Nat /\ Len(p.reasons) <= n /\ Len(p.risks) <= n
    BY DEF IsRecord
  <2>2. PICK a \in Nat, b \in Nat : a = Len(p.reasons) /\ b = Len(p.risks)
    BY <2>1
  <2>3. a <= 12 /\ b <= 12
    BY <2>1, <2>2
  <2>4. QED
    BY <2>2, <2>3
<1>5. p.slots <= 32 <=> ~(p.slots > 32)
  <2>1. p.slots \in Nat
    BY DEF IsRecord
  <2>2. QED
    BY <2>1
<1>6. QED
  BY <1>1, <1>2, <1>3, <1>4, <1>5 DEF InContract, Oversized

LEMMA UsableIsQuiet ==
  ASSUME NEW catalog, NEW n \in Nat, n <= 12, IsCatalog(catalog, n)
  PROVE  ValidateCatalog(catalog) <=>
           /\ Cardinality(catalog) <= CatalogLimit
           /\ \A p \in catalog : ~Oversized(p)
<1>1. Cardinality(IdsOf(catalog)) = Cardinality(catalog)
  BY IdentitiesCounted
<1>2. \A p \in catalog : InContract(p) <=> ~Oversized(p)
  BY ContractIsText DEF IsCatalog
<1>3. QED
  BY <1>1, <1>2 DEF ValidateCatalog

(* What the reviewed rows that pass say of a player of the catalog.              *)
LEMMA RoleRowsFit ==
  ASSUME NEW roles \in RoleSheets, NEW catalog, IsCatalog(catalog, 2), RoleRowsPass(roles, catalog),
         NEW p \in catalog, NEW row \in RowsOf(roles, p.player)
  PROVE  /\ row.reason \in Texts
         /\ Opportunity(row, p.position) \in Nat /\ Opportunity(row, p.position) <= FullScore
<1>1. row \in ToSet(roles) /\ row.player = p.player
  BY DEF RowsOf
<1>2. row.reason \in Texts
  BY <1>1, SheetAssumption DEF Texts
<1>3. PositionOf(row.player, catalog) = p.position
  <2>1. \A q \in catalog : q.player = p.player => q = p
    BY DEF IsCatalog
  <2>2. (CHOOSE q \in catalog : q.player = p.player) = p
    BY <2>1
  <2>3. QED
    BY <1>1, <2>2 DEF PositionOf
<1>4. DOMAIN row.shares \subseteq DOMAIN PositionWeights(p.position)
  BY <1>1, <1>3 DEF RoleRowsPass
<1>5. ASSUME NEW name \in DOMAIN row.shares
      PROVE  row.shares[name].mid \in Nat /\ row.shares[name].mid <= 100
  <2>1. row.shares[name].mid # NoNumber
    BY <1>1 DEF RoleRowsPass
  <2>2. row.shares[name].mid \in 0..100 \cup {NoNumber}
    BY <1>1, SheetAssumption
  <2>3. QED
    BY <2>1, <2>2
<1>6. Opportunity(row, p.position) \in Nat /\ Opportunity(row, p.position) <= 10000
  BY <1>4, <1>5, OpportunityBounded
<1>7. QED
  BY <1>2, <1>6 DEF FullScore

LEMMA FlagRowsFit ==
  ASSUME NEW flags \in FlagSheets, NEW catalog, FlagRowsPass(flags, catalog), NEW player,
         NEW row \in RowsOf(flags, player)
  PROVE  row.reason \in Texts /\ row.adjustment \in -6..6
<1>1. row \in ToSet(flags)
  BY DEF RowsOf
<1>2. row.reason \in Texts
  BY <1>1, SheetAssumption DEF Texts
<1>3. row.adjustment \in -6..6
  BY <1>1 DEF FlagRowsPass
<1>4. QED
  BY <1>2, <1>3

LEMMA ReleasedIsCatalog ==
  ASSUME NEW roles \in RoleSheets, NEW flags \in FlagSheets, NEW catalog, IsCatalog(catalog, 2),
         RoleRowsPass(roles, catalog), FlagRowsPass(flags, catalog)
  PROVE  IsCatalog({Compiled(p, roles, flags) : p \in catalog}, 4)
<1>1. PICK compiled : compiled = [p \in catalog |-> Compiled(p, roles, flags)]
  OBVIOUS
<1>2. ASSUME NEW p \in catalog
      PROVE  IsRecord(compiled[p], 4) /\ Same(compiled[p], p)
  <2>1. IsRecord(p, 2)
    BY DEF IsCatalog
  <2>2. \A row \in RowsOf(roles, p.player) : /\ row.reason \in Texts
                                             /\ Opportunity(row, p.position) \in Nat
                                             /\ Opportunity(row, p.position) <= FullScore
    BY RoleRowsFit
  <2>3. \A row \in RowsOf(flags, p.player) : row.reason \in Texts /\ row.adjustment \in -6..6
    BY FlagRowsFit
  <2>4. IsRecord(Compiled(p, roles, flags), 4) /\ Same(Compiled(p, roles, flags), p)
    BY <2>1, <2>2, <2>3, CompiledRecord
  <2>5. QED
    BY <1>1, <2>4
<1>3. \A p, q \in catalog : p.player = q.player => p = q
  BY DEF IsCatalog
<1>4. \A p, q \in catalog : compiled[p].player = compiled[q].player => compiled[p] = compiled[q]
  BY <1>2, <1>3 DEF Same
<1>5. PICK R : R = {compiled[p] : p \in catalog}
  OBVIOUS
<1>6. IsFiniteSet(R)
  <2>1. [p \in catalog |-> compiled[p]] \in Surjection(catalog, R)
    BY <1>5 DEF Surjection
  <2>2. IsFiniteSet(catalog)
    BY DEF IsCatalog
  <2>3. QED
    BY <2>1, <2>2, FS_Surjection
<1>7. IsCatalog(R, 4)
  BY <1>2, <1>4, <1>5, <1>6 DEF IsCatalog
<1>8. R = {Compiled(p, roles, flags) : p \in catalog}
  BY <1>1, <1>5
<1>9. QED
  BY <1>7, <1>8

(* A catalog of few explanations is one of more.                                 *)
LEMMA BaseIsCatalog ==
  ASSUME NEW catalog, IsCatalog(catalog, 2)
  PROVE  IsCatalog(catalog, 4)
<1>1. ASSUME NEW p \in catalog
      PROVE  IsRecord(p, 4)
  <2>1. IsRecord(p, 2)
    BY DEF IsCatalog
  <2>2. IsRecord(p, 2 + 1)
    BY <2>1, RecordIsMore
  <2>3. IsRecord(p, 3 + 1)
    <3>1. IsRecord(p, 3)
      BY <2>2
    <3>2. QED
      BY <3>1, RecordIsMore
  <2>4. QED
    BY <2>3
<1>2. QED
  BY <1>1 DEF IsCatalog

-------------------------------------------------------------------------------
(* What the Worker accepts of an initializer.                                    *)

(* How build_draft_init comes to write a file.                                   *)
IsInit(sent) ==
  \E answer \in Leagues : LeagueAccepted(answer) /\
    \E catalog : /\ IsCatalog(catalog, 4) /\ ValidateCatalog(catalog)
                 /\ sent = DraftInit(answer, catalog)

LEMMA ManagedPicks ==
  ASSUME NEW answer \in Leagues, LeagueAccepted(answer), NEW catalog, NEW slots,
         slots = DraftInit(answer, catalog).slots
  PROVE  /\ slots \in Seq(ToSet(answer.teams)) /\ Len(slots) = Len(answer.picks)
         /\ Managed \in ToSet(slots)
<1>1. LeaguePasses(answer) /\ SlotsPass(answer)
  BY DEF LeagueAccepted
<1>2. /\ \A pick \in ToSet(answer.picks) : slots[pick.overall] = pick.team
      /\ slots \in [1..Len(answer.picks) -> ToSet(answer.teams)]
  BY <1>1, SlotsInOrder
<1>3. PICK n \in Nat : n = Len(answer.picks)
  BY <1>1, LeagueFacts
<1>4. slots \in Seq(ToSet(answer.teams)) /\ Len(slots) = n /\ DOMAIN slots = 1..n
  BY <1>2, <1>3
<1>5. PICK pick \in ToSet(answer.picks) : pick.team = Managed
  <2>1. RosterSize(answer) \in Nat /\ RosterSize(answer) > 0
    BY <1>1, LeagueFacts
  <2>2. 1 \in 1..RosterSize(answer)
    BY <2>1
  <2>3. RoundIsWhole(1, answer)
    BY <1>1, <2>2 DEF SlotsPass
  <2>4. Managed \in ToSet(answer.teams)
    BY <1>1, Zenon DEF LeaguePasses
  <2>5. Managed \in {pick.team : pick \in {q \in ToSet(answer.picks) : q.round = 1}}
    BY <2>3, <2>4 DEF RoundIsWhole
  <2>6. QED
    BY <2>5
<1>6. pick.overall \in 1..n
  <2>1. \A k \in DOMAIN answer.picks : answer.picks[k].overall \in 1..Len(answer.picks)
    BY <1>1, PassedSlots
  <2>2. PICK k \in DOMAIN answer.picks : pick = answer.picks[k]
    BY DEF ToSet
  <2>3. QED
    BY <1>3, <2>1, <2>2
<1>7. Managed \in ToSet(slots)
  BY <1>2, <1>4, <1>5, <1>6 DEF ToSet
<1>8. QED
  BY <1>3, <1>4, <1>7

LEMMA TargetsTyped ==
  ASSUME NEW answer \in Leagues, NEW s \in Starters
  PROVE  RosterTargets(answer)[s] \in Nat
BY LeagueAssumption DEF RosterTargets

(* Of a player within the contract the Worker refuses only what it alone bounds. *)
LEMMA FactBounds ==
  ASSUME NEW facts, FactsKept(facts)
  PROVE  (\A fact \in Facts : FactFits(fact, facts[fact])) <=>
           /\ ~\E fact \in Facts : facts[fact] # NoNumber /\ facts[fact] > 1000
           /\ ~(facts.projectedPoints # NoNumber /\ facts.projectedPoints < -100)
<1>1. PICK a, b, c : a = facts["adp"] /\ b = facts["projectedPoints"] /\ c = facts["auctionValue"]
  OBVIOUS
<1>2. /\ a = NoNumber \/ (a \in Int /\ a >= 0)
      /\ b = NoNumber \/ b \in Int
      /\ c = NoNumber \/ (c \in Int /\ c >= 0)
  BY <1>1 DEF FactsKept, Facts
<1>3. (\A fact \in Facts : FactFits(fact, facts[fact])) <=>
        /\ a # NoNumber => a <= 1000 /\ a >= 0
        /\ b # NoNumber => b <= 1000 /\ b >= -100
        /\ c # NoNumber => c <= 1000 /\ c >= 0
  BY <1>1 DEF FactFits, Facts
<1>4. (\E fact \in Facts : facts[fact] # NoNumber /\ facts[fact] > 1000) <=>
        \/ a # NoNumber /\ a > 1000
        \/ b # NoNumber /\ b > 1000
        \/ c # NoNumber /\ c > 1000
  BY <1>1 DEF Facts
<1>5. QED
  BY <1>1, <1>2, <1>3, <1>4

LEMMA PlayerBounds ==
  ASSUME NEW p, IsRecord(p, 4), InContract(p)
  PROVE  PlayerFits(p) <=> ~BeyondBuilders(p)
<1>1. p.ordinal \in Nat \cup {NoNumber} /\ FactsKept(p.facts)
  BY DEF IsRecord
<1>2. (p.ordinal = NoNumber \/ p.ordinal \in 0..20) <=> ~(p.ordinal # NoNumber /\ p.ordinal > 20)
  BY <1>1
<1>3. (\A fact \in Facts : FactFits(fact, p.facts[fact])) <=>
        /\ ~\E fact \in Facts : p.facts[fact] # NoNumber /\ p.facts[fact] > 1000
        /\ ~(p.facts.projectedPoints # NoNumber /\ p.facts.projectedPoints < -100)
  BY <1>1, FactBounds
<1>4. QED
  BY <1>2, <1>3 DEF PlayerFits, BeyondBuilders

LEMMA AcceptedInit ==
  ASSUME NEW sent, IsInit(sent)
  PROVE  WorkerAccepts(sent) <=>
           /\ \A p \in sent.catalog : ~BeyondBuilders(p)
           /\ \A s \in Starters : sent.targets[s] <= 20
<1>1. PICK answer \in Leagues :
        LeagueAccepted(answer) /\
        \E catalog : IsCatalog(catalog, 4) /\ ValidateCatalog(catalog) /\ sent = DraftInit(answer, catalog)
  BY DEF IsInit
<1>11. PICK catalog : IsCatalog(catalog, 4) /\ ValidateCatalog(catalog) /\ sent = DraftInit(answer, catalog)
  BY <1>1
<1>2. LeaguePasses(answer) /\ SlotsPass(answer)
  BY <1>1 DEF LeagueAccepted
<1>3. /\ sent.teams = Len(answer.teams) /\ sent.rounds = RosterSize(answer)
      /\ sent.total = Len(answer.picks) /\ sent.targets = RosterTargets(answer)
      /\ sent.catalog = catalog
  BY <1>11 DEF DraftInit
<1>4. sent.teams \in 2..32 /\ sent.rounds \in 1..40
  BY <1>2, <1>3, Zenon DEF LeaguePasses
<1>5. sent.total = sent.teams * sent.rounds /\ sent.total <= 1000 /\ sent.total >= 1
  <2>1. sent.total = sent.teams * sent.rounds
    BY <1>1, <1>2, <1>3, PassedSlots
  <2>2. Len(answer.picks) = Len(answer.teams) * RosterSize(answer)
        /\ Len(answer.teams) * RosterSize(answer) <= 1000
    BY <1>2 DEF SlotsPass
  <2>3. PICK a \in Nat, b \in Nat : a = sent.teams /\ b = sent.rounds /\ a >= 2 /\ b >= 1
    BY <1>4
  <2>4. a * b >= 1
    BY <2>3
  <2>5. QED
    BY <1>3, <2>1, <2>2, <2>3, <2>4
<1>6. Len(sent.slots) = sent.total /\ Managed \in ToSet(sent.slots)
  <2>1. PICK slots : slots = DraftInit(answer, catalog).slots
    OBVIOUS
  <2>2. Len(slots) = Len(answer.picks) /\ Managed \in ToSet(slots)
    BY <1>1, <2>1, ManagedPicks
  <2>3. QED
    BY <1>3, <1>11, <2>1, <2>2
<1>7. ASSUME NEW s \in Starters
      PROVE  sent.targets[s] \in 0..20 <=> sent.targets[s] <= 20
  <2>1. sent.targets[s] \in Nat
    BY <1>1, <1>3, TargetsTyped
  <2>2. QED
    BY <2>1
<1>8. /\ Cardinality(sent.catalog) <= CatalogLimit
      /\ Cardinality(IdsOf(sent.catalog)) = Cardinality(sent.catalog)
      /\ \A p \in sent.catalog : InContract(p)
  BY <1>3, <1>11 DEF ValidateCatalog
<1>9. ASSUME NEW p \in sent.catalog
      PROVE  PlayerFits(p) <=> ~BeyondBuilders(p)
  <2>1. IsRecord(p, 4)
    BY <1>3, <1>9, <1>11 DEF IsCatalog
  <2>2. QED
    BY <1>8, <2>1, PlayerBounds
<1>10. QED
  BY <1>4, <1>5, <1>6, <1>7, <1>8, <1>9 DEF WorkerAccepts

-------------------------------------------------------------------------------
(* The files. Each was written from what a program read as a whole, so that what *)
(* holds of its writer's result holds of it, whichever command comes later.      *)
IsBase(file) ==
  /\ IsData(file.sources) /\ Divisible(file.sources)
  /\ file.catalog = NormalizePlayers(file.sources)

FilesInv ==
  /\ FetchInv
  /\ base # Nothing => IsBase(base)
  /\ release # Nothing => IsCatalog(release, 4)
  /\ league # Nothing => league \in Leagues
  /\ init # Nothing => IsInit(init)

(* The fetch's invariant when another step leaves its variables alone, and when  *)
(* the build is done.                                                            *)
LEMMA FetchUnchanged ==
  ASSUME FetchInv, UNCHANGED fetchVars
  PROVE  FetchInv'
BY StepPreserves

LEMMA FetchOfBuild ==
  ASSUME FetchInv, BuildCatalog
  PROVE  FetchInv'
<1>1. request = Nothing /\ request' = Nothing /\ building' = FALSE /\ UNCHANGED <<espn, cache>>
      /\ loaded' = <<>>
  BY DEF BuildCatalog
<1>2. loaded' \in Seq(UNION {Contents[s] : s \in URLs}) /\ Len(loaded') = 0
  BY <1>1
<1>3. \A k \in 1..Len(loaded') : loaded'[k] \in Contents[Sources[k]]
  BY <1>2
<1>4. FetchTypeOK'
  BY <1>1, <1>2, <1>3 DEF FetchInv, FetchTypeOK
<1>5. QED
  BY <1>1, <1>4 DEF FetchInv, Tagged

LEMMA FilesInit == Init => FilesInv
BY InitEstablishes DEF Init, FilesInv

(* What a finished build has loaded is what its programs take for their input.   *)
LEMMA LoadedIsData ==
  ASSUME FetchInv, Len(loaded) = Len(Sources)
  PROVE  IsData(loaded)
<1>1. PICK data : data = loaded
  OBVIOUS
<1>2. /\ data \in Seq(UNION {Contents[s] : s \in URLs}) /\ Len(data) = Len(Sources)
      /\ \A k \in 1..Len(data) : data[k] \in Contents[Sources[k]]
  BY <1>1 DEF FetchInv, FetchTypeOK
<1>3. PICK n \in Nat : n = Len(data) /\ DOMAIN data = 1..n /\ n = Len(Sources)
  BY <1>2
<1>4. DOMAIN Sources = 1..n /\ n >= 1
  <2>1. Sources \in Seq(URLs) /\ Sources # <<>>
    BY FetchAssumption, SourceAssumption
  <2>2. QED
    BY <1>3, <2>1
<1>5. data \in Seq(ToSet(data))
  BY <1>2, <1>3 DEF ToSet
<1>6. IsRows(data[1])
  BY <1>2, <1>3, <1>4, SourceAssumption
<1>7. \A k \in 2..n : IsChart(data[k])
  <2>1. SUFFICES ASSUME NEW k \in 2..n
                 PROVE  IsChart(data[k])
    OBVIOUS
  <2>2. k \in DOMAIN Sources /\ k # 1 /\ data[k] \in Contents[Sources[k]]
    BY <1>2, <1>3, <1>4
  <2>3. QED
    BY <2>2, SourceAssumption
<1>8. QED
  BY <1>1, <1>3, <1>5, <1>6, <1>7 DEF IsData

LEMMA FixtureIsData ==
  ASSUME NEW data \in Fixtures
  PROVE  IsData(data)
BY SourceAssumption DEF IsData

LEMMA WrittenBase ==
  ASSUME NEW data, IsData(data), WriteBase(data)
  PROVE  IsBase(base')
BY DEF WriteBase, IsBase

LEMMA BuiltIsCatalog ==
  ASSUME FilesInv, NEW catalog \in BuiltCatalogs
  PROVE  IsCatalog(catalog, 4)
<1>1. CASE base # Nothing /\ catalog = base.catalog
  <2>1. IsBase(base)
    BY <1>1 DEF FilesInv
  <2>2. PICK data : data = base.sources
    OBVIOUS
  <2>3. IsData(data) /\ Divisible(data) /\ catalog = NormalizePlayers(data)
    BY <1>1, <2>1, <2>2 DEF IsBase
  <2>4. QED
    BY <2>3, NormalizedIsCatalog, BaseIsCatalog
<1>2. CASE release # Nothing /\ catalog = release
  BY <1>2 DEF FilesInv
<1>3. QED
  BY <1>1, <1>2 DEF BuiltCatalogs

LEMMA FilesStep == FilesInv /\ [Next]_prepVars => FilesInv'
<1> SUFFICES ASSUME FilesInv, [Next]_prepVars
             PROVE  FilesInv'
  OBVIOUS
<1>0. FetchInv
  BY DEF FilesInv
<1>1. CASE Fetch
  <2>1. FetchInv'
    BY <1>0, <1>1, StepPreserves DEF Fetch
  <2>2. UNCHANGED fileVars
    BY <1>1 DEF Fetch
  <2>3. QED
    BY <2>1, <2>2 DEF FilesInv, fileVars
<1>2. CASE BuildCatalog
  <2>1. FetchInv'
    BY <1>0, <1>2, FetchOfBuild
  <2>2. IsBase(base')
    BY <1>0, <1>2, LoadedIsData, WrittenBase DEF BuildCatalog
  <2>3. QED
    BY <1>2, <2>1, <2>2 DEF FilesInv, BuildCatalog, WriteBase
<1>3. CASE BuildFromFixtures
  <2>1. FetchInv'
    BY <1>0, <1>3, FetchUnchanged DEF BuildFromFixtures
  <2>2. IsBase(base')
    BY <1>3, FixtureIsData, WrittenBase DEF BuildFromFixtures
  <2>3. QED
    BY <1>3, <2>1, <2>2 DEF FilesInv, BuildFromFixtures, WriteBase
<1>4. CASE CompileRelease
  <2>1. FetchInv'
    BY <1>0, <1>4, FetchUnchanged DEF CompileRelease
  <2>2. IsCatalog(release', 4)
    <3>1. PICK roles \in RoleSheets, flags \in FlagSheets :
            /\ RoleRowsPass(roles, base.catalog) /\ FlagRowsPass(flags, base.catalog)
            /\ release' = {Compiled(p, roles, flags) : p \in base.catalog}
      BY <1>4 DEF CompileRelease
    <3>2. PICK catalog, data : catalog = base.catalog /\ data = base.sources
      OBVIOUS
    <3>3. IsData(data) /\ Divisible(data) /\ catalog = NormalizePlayers(data)
      BY <1>4, <3>2 DEF CompileRelease, FilesInv, IsBase
    <3>4. IsCatalog(catalog, 2)
      BY <3>3, NormalizedIsCatalog
    <3>5. IsCatalog({Compiled(p, roles, flags) : p \in catalog}, 4)
      BY <3>1, <3>2, <3>4, ReleasedIsCatalog
    <3>6. QED
      BY <3>1, <3>2, <3>5
  <2>3. QED
    BY <1>4, <2>1, <2>2 DEF FilesInv, CompileRelease
<1>5. CASE ReadLeague
  <2>1. FetchInv'
    BY <1>0, <1>5, FetchUnchanged DEF ReadLeague
  <2>2. QED
    BY <1>5, <2>1 DEF FilesInv, ReadLeague
<1>6. CASE BuildDraftInit
  <2>1. FetchInv'
    BY <1>0, <1>6, FetchUnchanged DEF BuildDraftInit
  <2>2. IsInit(init')
    <3>1. league \in Leagues /\ LeagueAccepted(league)
      BY <1>6 DEF BuildDraftInit, FilesInv
    <3>2. PICK catalog \in BuiltCatalogs :
            ValidateCatalog(catalog) /\ init' = DraftInit(league, catalog)
      BY <1>6 DEF BuildDraftInit
    <3>3. IsCatalog(catalog, 4)
      BY BuiltIsCatalog
    <3>4. QED
      BY <3>1, <3>2, <3>3 DEF IsInit
  <2>3. QED
    BY <1>6, <2>1, <2>2 DEF FilesInv, BuildDraftInit
<1>7. CASE DraftInitRefused
  <2>1. FetchInv'
    BY <1>0, <1>7, FetchUnchanged DEF DraftInitRefused
  <2>2. QED
    BY <1>7, <2>1 DEF FilesInv, DraftInitRefused
<1>8. CASE Initialize
  <2>1. FetchInv'
    BY <1>0, <1>8, FetchUnchanged DEF Initialize
  <2>2. QED
    BY <1>8, <2>1 DEF FilesInv, Initialize
<1>9. CASE UNCHANGED prepVars
  <2>1. FetchInv'
    BY <1>0, <1>9, FetchUnchanged DEF prepVars
  <2>2. QED
    BY <1>9, <2>1 DEF FilesInv, prepVars, fileVars
<1>10. QED
  BY <1>1, <1>2, <1>3, <1>4, <1>5, <1>6, <1>7, <1>8, <1>9 DEF Next

(* The inductive invariant of the preparation.                                   *)
THEOREM FilesHold == Spec => []FilesInv
BY FilesInit, FilesStep, PTL DEF Spec

(* Every usable player of every base catalog is listed once, at the best of his  *)
(* team's listings (build_catalog.py:252, 354).                                  *)
THEOREM DepthStaysBest == Spec => []DepthIsBest
<1>1. FilesInv => DepthIsBest
  <2> SUFFICES ASSUME FilesInv, base # Nothing,
                      NEW player \in {row.player : row \in ToSet(base.sources[1])}
               PROVE  LET first == FirstRow(player, base.sources[1])
                      IN {p.ordinal : p \in {q \in base.catalog : q.player = player}} =
                           IF first = Nothing THEN {} ELSE {BestListing(first, base.sources)}
    BY DEF DepthIsBest
  <2>1. PICK data, first : data = base.sources /\ first = FirstRow(player, data[1])
    OBVIOUS
  <2>2. IsData(data) /\ base.catalog = NormalizePlayers(data)
    BY <2>1 DEF FilesInv, IsBase
  <2>3. {p.ordinal : p \in {q \in NormalizePlayers(data) : q.player = player}} =
          IF first = Nothing THEN {} ELSE {BestListing(first, data)}
    BY <2>1, <2>2, CatalogDepth
  <2>4. QED
    BY <2>1, <2>2, <2>3
<1>2. QED
  BY <1>1, FilesHold, PTL

(* Only what a release copies from its sources, a long name or reviewed text or  *)
(* too many eligible slots or players, keeps it from being used, for all ranks,  *)
(* depths, shares and adjustments (compile_sheet_release.py:337).                *)
THEOREM ReleaseStaysUsable == Spec => []ReleaseIsUsable
<1>1. FilesInv => ReleaseIsUsable
  <2> SUFFICES ASSUME FilesInv, release # Nothing
               PROVE  ValidateCatalog(release) <=>
                        /\ Cardinality(release) <= CatalogLimit
                        /\ \A p \in release : ~Oversized(p)
    BY DEF ReleaseIsUsable
  <2>1. PICK catalog : catalog = release
    OBVIOUS
  <2>2. IsCatalog(catalog, 4)
    BY <2>1 DEF FilesInv
  <2>3. QED
    BY <2>1, <2>2, UsableIsQuiet
<1>2. QED
  BY <1>1, FilesHold, PTL

(* validateInit accepts every initializer that was built, for every league and   *)
(* catalog, but for the bounds that BeyondBuilders and the starters name, which  *)
(* no builder keeps (validation.ts:12, 118-127, 143, 184).                       *)
THEOREM InitStaysAccepted == Spec => []InitIsAccepted
<1>1. FilesInv => InitIsAccepted
  <2> SUFFICES ASSUME FilesInv, init # Nothing
               PROVE  WorkerAccepts(init) <=>
                        /\ \A p \in init.catalog : ~BeyondBuilders(p)
                        /\ \A s \in Starters : init.targets[s] <= 20
    BY DEF InitIsAccepted
  <2>1. PICK sent : sent = init
    OBVIOUS
  <2>2. IsInit(sent)
    BY <2>1 DEF FilesInv
  <2>3. QED
    BY <2>1, <2>2, AcceptedInit
<1>2. QED
  BY <1>1, FilesHold, PTL

(* build_draft_init accepts exactly the leagues whose slots are those of an order*)
(* in which every team picks once a round, and lists that order, for any number  *)
(* of teams and rounds and any order ESPN sends (build_draft_init.py:229).       *)
THEOREM SlotOrderStaysTrue == Spec => []SlotOrderIsTrue
<1>1. FilesInv => SlotOrderIsTrue
  BY PassedIsLegal, LegalIsPassed, SlotsInOrder DEF FilesInv, SlotOrderIsTrue
<1>2. QED
  BY <1>1, FilesHold, PTL
===============================================================================
