------------------------ MODULE MCDraftRoomIngestor ------------------------
(***************************************************************************)
(* The two modes of LiveRunner for TLC: one round of three slots, split in *)
(* parts of one.  The second slot was traded to the team of the first, so  *)
(* that the draft order cannot tell their picks apart.                     *)
(***************************************************************************)
EXTENDS DraftRoomIngestor

CONSTANTS tA, tB, p1, p2, p3, px

McRound == [totalPickSlots |-> 3,
            draftSlotTeamIds |-> [o \in 1..3 |-> IF o = 3 THEN tB ELSE tA],
            managedTeamId |-> tA,
            catalog |-> {p1, p2, p3, px}]

(* Slot 2 may be filled again with another player.                         *)
McRivals == [o \in 1..3 |-> CASE o = 1 -> {p1} [] o = 2 -> {p2, px} [] o = 3 -> {p3}]
=============================================================================
