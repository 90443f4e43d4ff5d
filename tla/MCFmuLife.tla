----------------------------- MODULE MCFmuLife ------------------------------
(***************************************************************************)
(* An instance of FmuLife for TLC.  For the client: MIME types of both     *)
(* codecs with one item more, in front or behind, that may contradict them *)
(* or mean nothing; a number that fits the uint8_t and one that does not.  *)
(* For the FMU: MIME types without a bus, with one, and with one replaced. *)
(***************************************************************************)
EXTENDS FmuLife

MCText == {"stream", "frame", "pdu", "can", "fbs", "2", "257"}
MCstrtoul == [t \in MCText |-> CASE t = "2" -> 2 [] t = "257" -> 257 [] OTHER -> 0]

I(n, v) == [name |-> n, value |-> v]

MCCan == <<I("interface", "stream"), I("type", "frame"), I("bus", "can"), I("schema", "fbs")>>
MCPdu == <<I("schema", "fbs"), I("type", "pdu"), I("interface", "stream")>>
MCExtra == {I("type", "pdu"), I("type", "can"), I("bus", "fbs"), I("schema", "can"),
            I("interface", "fbs"), I("node_id", "257"), I("other", "2")}

MCMimeType ==
    {[codec |-> TRUE, items |-> s] :
        s \in {MCCan, MCPdu, Tail(MCCan), Tail(MCPdu)} \cup {Append(t, e) : t \in {MCCan, MCPdu}, e \in MCExtra}
              \cup {<<e>> \o t : t \in {MCCan, MCPdu}, e \in MCExtra}}
    \cup {[codec |-> FALSE, items |-> MCCan]}

MCConfigItem == {I("type", "pdu"), I("node_id", "2"), I("node_id", "257"), I("swc_id", "can"), I("other", "2")}

MCFmuMimeType ==
    {[codec |-> TRUE, items |-> s] :
        s \in {MCCan, MCPdu \o <<I("node_id", "257")>>,
               MCCan \o <<I("bus_id", "2"), I("node_id", "2")>>,
               <<I("bus_id", "2")>> \o MCPdu \o <<I("bus_id", "257")>>}}
=============================================================================
