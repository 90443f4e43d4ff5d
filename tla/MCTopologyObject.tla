-------------------------- MODULE MCTopologyObject --------------------------
(***************************************************************************)
(* An instance of TopologyObject for TLC: two buses, three codecs, and two *)
(* documents.  One has a variable each way on each bus, one of the buses   *)
(* with texts, and variables that are on none.  In the other, two input    *)
(* variables of different buses share a reference, and annotations come    *)
(* twice and under both tools.                                             *)
(***************************************************************************)
EXTENDS TopologyObject, TLC

A(tool, name, value) == [tool |-> tool, name |-> name, value |-> value]
OnTheBus(b) == A("bus-topology", "bus_id", b)
Ascii == A("binary-to-text", "encoding", "ascii85")

V(vr, causality, annotations) ==
    [name |-> "v", valueReference |-> vr, causality |-> causality, annotations |-> annotations]

Symmetry == Permutations(Codec) \cup Permutations(ValueId)

MCData == {<<"m">>}

MCDocument == {
    <<V("1", "input", <<Ascii, OnTheBus("a")>>), V("2", "output", <<Ascii, OnTheBus("a")>>),
      V("3", "output", <<OnTheBus("b")>>), V("3", "input", <<OnTheBus("b")>>)>>,
    <<V("1", "input", <<OnTheBus("a")>>), V("2", NULL, <<OnTheBus("a")>>),
      V("2", "output", <<A("binary-to-text", "bus_id", "a"), OnTheBus("b"), OnTheBus("a"), Ascii>>),
      V("1", "input", <<OnTheBus("b")>>)>>}
=============================================================================
