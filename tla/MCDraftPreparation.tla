--------------------------- MODULE MCDraftPreparation ---------------------------
(* Three players, one NFL team with a depth chart, a league of two or three      *)
(* teams, and the inputs at the boundaries of the four programs.                 *)
EXTENDS DraftPreparation

CONSTANTS kona, ATL, FA, ace, bob, cat, tA, tB, tC

McSources == <<kona, ATL>>

Row(p, position, team, ranks) ==
  [player |-> p, name |-> "short", position |-> position, team |-> team, ranks |-> ranks,
   facts |-> [adp |-> 1, projectedPoints |-> 300, auctionValue |-> 50], slots |-> 2]
Named(name, row) == [row EXCEPT !.name = name]
With(adp, projection, auction, slots, row) ==
  [row EXCEPT !.facts = [adp |-> adp, projectedPoints |-> projection, auctionValue |-> auction],
              !.slots = slots]
Group(position, slot, athletes) == [position |-> position, slot |-> slot, athletes |-> athletes]
At(p, rank) == [player |-> p, rank |-> rank]

RowsPlain == <<Row(ace, "RB", ATL, <<NoNumber, 1>>), Row(bob, "WR", ATL, <<2>>)>>
RowsTwice == <<Named("none", Row(ace, "RB", ATL, <<9>>)), Row(bob, "LS", ATL, <<9>>),
               With(1000, -100, -1, 32, Row(ace, "RB", ATL, <<0>>)), Row(ace, "QB", FA, <<400>>),
               Row(bob, "WR", ATL, <<361>>), Row(cat, "D/ST", ATL, <<>>)>>
(* One value each that only build_draft_init or only the Worker refuses.         *)
RowsOdd == {<<row, Row(bob, "WR", ATL, <<2>>)>> : row \in
             {With(1001, NoNumber, NoNumber, 0, Row(ace, "RB", ATL, <<1>>)),
              With(-1, 1001, 0, 1, Row(ace, "RB", ATL, <<1>>)),
              With(0, -101, 0, 1, Row(ace, "RB", ATL, <<1>>)),
              With(0, 1000, 1001, 1, Row(ace, "RB", ATL, <<1>>)),
              With(0, 0, 1000, 33, Row(ace, "RB", ATL, <<1>>)),
              Named("wide", Row(ace, "RB", ATL, <<1>>)),
              Named("long", Row(ace, "RB", ATL, <<1>>))}}
RowsTwo == <<Row(cat, "TE", ATL, <<24>>), Row(ace, "RB", FA, <<25>>)>>

ChartPlain == <<Group("RB", NoNumber, <<At(ace, NoNumber)>>)>>
ChartMixed == <<Group("RB", NoNumber, <<At(bob, NoNumber), At(ace, NoNumber)>>),
                Group("KR", NoNumber, <<At(bob, NoNumber)>>),
                Group("WR", 2, <<At(bob, NoNumber), At(ace, NoNumber)>>),
                Group("RB", NoNumber, <<At(ace, 1), At(bob, 3)>>),
                Group("TE", NoNumber, <<At(cat, 21)>>)>>
ChartZero == <<Group("RB", 0, <<At(ace, NoNumber)>>)>>
ChartUnread == <<Group("TE", 0, <<At(bob, NoNumber), At(ace, NoNumber)>>)>>
RowsSkipping == <<Named("none", Row(bob, "WR", ATL, <<3>>)), Row(ace, "TE", ATL, <<3>>),
                  Row(bob, "WR", FA, <<4>>), Row(bob, "WR", ATL, <<5>>)>>
ChartDeep == <<Group("TE", 20, <<At(ace, 0), At(cat, NoNumber)>>)>>

McContents == (kona :> {RowsPlain, RowsTwo}) @@ (ATL :> {ChartPlain, ChartDeep})
McFixtures == {<<RowsPlain, ChartPlain>>, <<RowsTwice, ChartMixed>>, <<RowsTwo, ChartMixed>>,
               <<RowsTwo, ChartDeep>>, <<RowsPlain, ChartZero>>,
               <<RowsSkipping, ChartUnread>>}
              \cup {<<rows, ChartPlain>> : rows \in RowsOdd}

Share(low, mid, high) == [low |-> low, mid |-> mid, high |-> high]
Role(p, role, shares, reason) ==
  [player |-> p, role |-> role, shares |-> shares, reason |-> reason, expires |-> 2]
AllOf == [s \in DOMAIN Weights.RB |-> Share(NoNumber, 100, 100)]
McRoleSheets ==
  { <<>>,
    <<Role(ace, "starter", AllOf, "short")>>,
    <<Role(ace, "backup", [snap |-> Share(10, 50, 60)], "short"),
      Role(bob, "committee", <<>>, "short")>>,
    <<Role(ace, "starter", [route |-> Share(60, 50, 60)], "short")>>,
    <<Role(bob, "starter", [carry |-> Share(NoNumber, 50, NoNumber)], "short")>>,
    <<Role(ace, "starter", <<>>, "short"), Role(ace, "backup", <<>>, "short")>>,
    <<Role(ace, "starter", <<>>, "wide")>>,
    <<Role(ace, "starter", <<>>, "long")>> }

Flag(p, flag, adjustment, before, after, expires) ==
  [player |-> p, tier |-> NoNumber, flag |-> flag, adjustment |-> adjustment,
   before |-> before, after |-> after, reason |-> "short", expires |-> expires]
McFlagSheets ==
  { <<>>,
    <<Flag(ace, "target", 6, NoNumber, 2, 2)>>,
    <<Flag(ace, "avoid", 0, 3, NoNumber, 2), Flag(bob, "neutral", -6, 2, 3, 2)>>,
    <<Flag(ace, "target", 0, 3, 2, 2)>>,
    <<Flag(cat, "target", 1, NoNumber, NoNumber, 1)>> }

(* The slots of every order of two teams over two rounds, listed forwards or     *)
(* backwards, with one field of one slot changed or one slot lost or repeated.   *)
Slot(n, round, roundPick, team) ==
  [overall |-> n, round |-> round, roundPick |-> roundPick, team |-> team]
SlotsOf(order, size) ==
  [n \in DOMAIN order |-> Slot(n, ((n - 1) \div size) + 1, ((n - 1) % size) + 1, order[n])]
Changed(pick) ==
  {[pick EXCEPT !.overall = n] : n \in 1..5} \cup {[pick EXCEPT !.round = n] : n \in 1..3}
  \cup {[pick EXCEPT !.roundPick = n] : n \in 1..3} \cup {[pick EXCEPT !.team = t] : t \in {tA, tB, tC}}
McSlots ==
  LET slots == SlotsOf(<<tA, tB, tB, tA>>, 2)
  IN {slots, Reverse(slots), Tail(slots), Append(slots, slots[4]), SlotsOf(<<tB, tA, tB, tA>>, 2)}
     \cup UNION {{[slots EXCEPT ![k] = pick] : pick \in Changed(slots[k])} : k \in {2, 3}}
League(teams, counts, picks) ==
  [teams |-> teams, slotCounts |-> counts, pickOrder |-> teams, drafted |-> FALSE, picks |-> picks]
SlotLeagues == {League(<<tA, tB>>, [RB |-> 1, bench |-> 1, IR |-> 1], picks) : picks \in McSlots}
McLeagues ==
  SlotLeagues
  \cup {League(<<tB, tC>>, [RB |-> 1], SlotsOf(<<tC, tB>>, 2)),
        League(<<tA, tA>>, [RB |-> 1], SlotsOf(<<tA, tA>>, 2)),
        League(<<tA, tB>>, [IR |-> 2], <<>>),
        League(<<tC, tA, tB>>, [QB |-> 1, FLEX |-> 1], SlotsOf(<<tA, tB, tC, tC, tA, tB>>, 3)),
        League(<<tA, tB>>, [WR |-> 21], SlotsOf([n \in 1..42 |-> IF n % 2 = 0 THEN tA ELSE tB], 2)),
        [League(<<tA, tB>>, [RB |-> 1], SlotsOf(<<tA, tB>>, 2)) EXCEPT !.drafted = TRUE]}

(* Builds over the network are followed to the file they write, not beyond, and  *)
(* not beside a file that only fixtures could have given.                        *)
FirstContent(s) == CHOOSE c \in Contents[s] : TRUE
Untouched == ~building /\ \A s \in URLs : cache[s] = Nothing /\ espn[s] = FirstContent(s)
FromNetwork == \A n \in DOMAIN Sources : base.sources[n] \in Contents[Sources[n]]
Followed == Untouched \/ (/\ base # Nothing => FromNetwork
                         /\ release = Nothing /\ league = Nothing /\ init = Nothing)

(* The slots are varied under one base catalog, no other file depends on them,   *)
(* and a stale release is kept only beside a base with the same numbers.         *)
Varied ==
  /\ league \in SlotLeagues =>
       release = Nothing /\ init = Nothing /\ base.sources = <<RowsPlain, ChartPlain>>
  /\ release # Nothing => {p.facts : p \in release} = {p.facts : p \in base.catalog}
Bounded == Followed /\ Varied
================================================================================
