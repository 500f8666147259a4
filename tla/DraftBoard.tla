----------------------------- MODULE DraftBoard -----------------------------
(***************************************************************************)
(* What the draft service promises about its board, whatever protocol      *)
(* carries the picks: the board is a write-once, injective assignment of   *)
(* players to draft slots; the service also knows how many slots the       *)
(* source has filled; and one disputed report poisons the board for good.  *)
(* Advice is due only from a board that is undisputed and has no hole.     *)
(* DraftSession (src/src/draft-session.ts) is shown to implement this.     *)
(***************************************************************************)
EXTENDS Integers

CONSTANTS Slots,      \* the numbers a draft slot can have
          Players     \* the players a slot can be filled with

VARIABLES open,       \* a draft has been configured
          board,      \* the filled slots: a set of [slot, player]
          known,      \* the source has filled the slots 1..known
          disputed    \* two reports of one slot disagreed

boardVars == <<open, board, known, disputed>>

Entry == [slot : Slots, player : Players]

(* No slot holds two players and no player fills two slots.                *)
Injective(entries) ==
  \A a, b \in entries : (a.slot = b.slot \/ a.player = b.player) => a = b

BoardInit ==
  /\ open = FALSE
  /\ board = {}
  /\ known = 0
  /\ disputed = FALSE

Open ==
  /\ ~open
  /\ open' = TRUE
  /\ UNCHANGED <<board, known, disputed>>

(* Some slots are filled, or the source is known to have moved on.         *)
Learn ==
  /\ open
  /\ board \subseteq board'
  /\ board' \subseteq Entry
  /\ Injective(board')
  /\ known' \in Nat
  /\ known' >= known
  /\ \A e \in board' : e.slot <= known'
  /\ UNCHANGED <<open, disputed>>

Dispute ==
  /\ open
  /\ disputed' = TRUE
  /\ UNCHANGED <<open, board, known>>

BoardNext == Open \/ Learn \/ Dispute

BoardSpec == BoardInit /\ [][BoardNext]_boardVars
=============================================================================
