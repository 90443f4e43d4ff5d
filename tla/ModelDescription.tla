-------------------------- MODULE ModelDescription --------------------------
(***************************************************************************)
(* The parser of modelDescription.xml.  A document is its sequence of      *)
(* scalar variables; an attribute a variable does not have is NULL.  XML   *)
(* and XPath are left to libxml2: the annotations of a variable are those  *)
(* of all its Tool containers, in document order.                          *)
(*                                                                         *)
(* Each parse function is a loop over the variables.  One turn of it is an *)
(* operator here, from the map the loop fills to what the turn makes of    *)
(* it; TopologyObject runs the loops.                                      *)
(***************************************************************************)
EXTENDS Integers, Sequences

CONSTANTS
    Vr,    \* value references
    Bus    \* bus ids

NULL == "NULL"

Annotation == [tool : {"bus-topology", "binary-to-text"}, name : STRING, value : Bus \cup STRING]

ScalarVariable == [name : STRING, valueReference : Vr \cup {NULL}, causality : STRING,
                   annotations : Seq(Annotation)]

-----------------------------------------------------------------------------
\* Faulty: the tool of an annotation is not looked at.
parse_tool_anno_any_tool(v, tool, name) ==
    LET hit(i) == v.annotations[i].name = name
        first == {i \in DOMAIN v.annotations : hit(i) /\ \A j \in 1 .. i - 1 : ~hit(j)}
    IN  IF first = {} THEN NULL ELSE v.annotations[CHOOSE i \in first : TRUE].value

\* The value of the first annotation of the tool with this name.
parse_tool_anno(v, tool, name) ==
    LET hit(i) == v.annotations[i].tool = tool /\ v.annotations[i].name = name
        first == {i \in DOMAIN v.annotations : hit(i) /\ \A j \in 1 .. i - 1 : ~hit(j)}
    IN  IF first = {} THEN NULL ELSE v.annotations[CHOOSE i \in first : TRUE].value

Described(v) == v.name # NULL /\ v.valueReference # NULL /\ v.causality # NULL

OnBus(v, bus_id) == Described(v) /\ parse_tool_anno(v, "bus-topology", "bus_id") = bus_id

InText(v) == Described(v) /\ parse_tool_anno(v, "binary-to-text", "encoding") = "ascii85"

\* Faulty: an entry that is there is kept.
bus_turn_keeps(v, causality, bus_id, bus_object, index) ==
    IF OnBus(v, bus_id) /\ v.causality = causality /\ index[v.valueReference] = NULL
    THEN [index EXCEPT ![v.valueReference] = bus_object] ELSE index

\* parse_bus_topology for the rx (causality input) or the tx map (output).
bus_turn(v, causality, bus_id, bus_object, index) ==
    IF OnBus(v, bus_id) /\ v.causality = causality
    THEN [index EXCEPT ![v.valueReference] = bus_object] ELSE index

\* parse_binary_to_text; one function of each kind, so a map is its keys.
text_turn(v, causality, keys) ==
    IF InText(v) /\ v.causality = causality THEN keys \cup {v.valueReference} ELSE keys

-----------------------------------------------------------------------------
(* What the document says, for properties *)

Has(d, vr, causality) == {d[i] : i \in {k \in DOMAIN d : /\ d[k].valueReference = vr
                                                         /\ d[k].causality = causality}}

\* The first annotation of v with this tool and name has this value.
Annotated(v, tool, name, value) ==
    \E i \in DOMAIN v.annotations :
        /\ v.annotations[i] = [tool |-> tool, name |-> name, value |-> value]
        /\ \A j \in 1 .. i - 1 : v.annotations[j].tool # tool \/ v.annotations[j].name # name

\* The buses a value reference is annotated with, as an input or an output.
BusesOf(d, vr, causality) ==
    {b \in Bus : \E v \in Has(d, vr, causality) :
        v.name # NULL /\ Annotated(v, "bus-topology", "bus_id", b)}

TextOf(d, causality) ==
    {vr \in Vr : \E v \in Has(d, vr, causality) :
        v.name # NULL /\ Annotated(v, "binary-to-text", "encoding", "ascii85")}
=============================================================================
