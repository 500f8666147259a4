---------------------------- MODULE MCCompanion -----------------------------
(***************************************************************************)
(* Instances of Companion for TLC: two teams, two rounds in snake order,   *)
(* so that slots 2 and 3 belong to one team and a miscounted SELECTED can  *)
(* pass the draft-order check.                                             *)
(***************************************************************************)
EXTENDS Companion

CONSTANTS tA, tB, p1, p2, p3, p4

McDraft == [totalPickSlots |-> 4,
            draftSlotTeamIds |-> [o \in 1..4 |-> IF o \in {1, 4} THEN tA ELSE tB],
            managedTeamId |-> tA,
            catalog |-> {p1, p2, p3, p4}]

McTruth == [o \in 1..4 |-> CASE o = 1 -> p1 [] o = 2 -> p2 [] o = 3 -> p3 [] o = 4 -> p4]

(* One round, for liveness.                                                *)
McShortDraft == [totalPickSlots |-> 2,
                 draftSlotTeamIds |-> [o \in 1..2 |-> IF o = 1 THEN tA ELSE tB],
                 managedTeamId |-> tA,
                 catalog |-> {p1, p2, p3, p4}]

McShortTruth == [o \in 1..2 |-> McTruth[o]]

Always == {TRUE}
Sometimes == {TRUE, FALSE}
Never == {FALSE}
=============================================================================
