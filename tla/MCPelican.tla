------------------------------ MODULE MCPelican ------------------------------
(* A panel with two servers for checking Pelican with TLC.  "u1" is the   *)
(* uuid of one server and part of the uuid of another, which is listed       *)
(* first; "mc" is part of two uuids and names nothing exactly; "u9" is       *)
(* unknown to the panel.                                                     *)
EXTENDS Pelican, TLC

PanelRefs == {Blank, "u1", "mc", "u9"}

PanelListed ==
  [r \in PanelRefs |-> CASE r = "u1" -> <<"s12", "s1">>
                         [] r = "mc" -> <<"s12", "s1">>
                         [] OTHER -> <<>>]

PanelLabels == [s \in {"s1", "s12"} |-> IF s = "s1" THEN {"u1"} ELSE {}]

TwoGames == {Blank, "rust", "valheim"}

CallerSymmetry == Permutations(Callers)

=============================================================================
