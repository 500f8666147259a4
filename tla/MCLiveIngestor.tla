--------------------------- MODULE MCLiveIngestor ---------------------------
(***************************************************************************)
(* An instance of LiveIngestor for TLC: two teams and two rounds in snake  *)
(* order, split in parts of two.                                           *)
(***************************************************************************)
EXTENDS LiveIngestor

CONSTANTS tA, tB, p1, p2, p3, p4, px

McDraft == [totalPickSlots |-> 4,
            draftSlotTeamIds |-> [o \in 1..4 |-> IF o \in {1, 4} THEN tA ELSE tB],
            managedTeamId |-> tA,
            catalog |-> {p1, p2, p3, p4, px}]

McCandidates ==
  [o \in 1..4 |-> CASE o = 1 -> {p1} [] o = 2 -> {p2} [] o = 3 -> {p3} [] o = 4 -> {p4}]
=============================================================================
