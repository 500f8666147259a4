--------------------------- MODULE MCDraftSession ---------------------------
(***************************************************************************)
(* Instances of DraftSession for TLC.  The draft: two teams, two rounds,   *)
(* in snake order.  The offers: one honest pick per slot, a rival for slot *)
(* 1, a player already honest elsewhere, a reused event id, a wrong team   *)
(* and a player outside the catalog.                                       *)
(***************************************************************************)
EXTENDS DraftSession, TLC

CONSTANTS tA, tB, p1, p2, p3, p4, px, n1, n2, n3, n4

McTeams == {tA, tB}
McPlayers == {p1, p2, p3, p4, px}
McEventIds == 1..9
McNonces4 == {n1, n2, n3, n4}
McNonces2 == {n1, n2}

Snake == [totalPickSlots |-> 4,
          draftSlotTeamIds |-> [o \in 1..4 |-> IF o \in {1, 4} THEN tA ELSE tB],
          managedTeamId |-> tA,
          catalog |-> {p1, p2, p3, p4}]

(* The same draft seen from the other team: another fingerprint.           *)
McInits == {Snake, [Snake EXCEPT !.managedTeamId = tB]}

Pick(o, t, p, id) == [overall |-> o, team |-> t, player |-> p, eventId |-> id]

Honest == {Pick(1, tA, p1, 1), Pick(2, tB, p2, 2), Pick(3, tB, p3, 3), Pick(4, tA, p4, 4)}

McOffers == Honest \cup
  {Pick(1, tA, p2, 5),    \* slot 1 reported with slot 2's player
   Pick(3, tB, p4, 1),    \* slot 1's event id again
   Pick(2, tA, p2, 7),    \* another team than the slot's
   Pick(4, tA, px, 8)}    \* not in the catalog

McFewOffers == {Pick(1, tA, p1, 1), Pick(1, tA, p2, 5), Pick(2, tB, p2, 2)}

Symmetric == Permutations(McNonces4)
Symmetric2 == Permutations(McNonces2)
=============================================================================
