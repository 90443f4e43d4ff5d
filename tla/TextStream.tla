----------------------------- MODULE TextStream -----------------------------
(***************************************************************************)
(* The stream of a codec and the text variables it is exchanged over, byte *)
(* by byte: what bus_topology_rx and bus_topology_tx do with an encoder,   *)
(* between the calls that a codec makes on the same stream.  Each of their *)
(* calls on the stream is a step.                                          *)
(*                                                                         *)
(* This is what BusTopology takes as one operation on data.                *)
(***************************************************************************)
EXTENDS StreamFile, Ascii85

ASSUME TextAssumption == Byte \subseteq 0 .. BYTE - 1

VARIABLE call   \* what an rx or tx in progress has still to do

textVars == <<streamVars, call>>

Done == [left |-> "nothing", text |-> <<>>]

TextInit == Init /\ call = Done

\* bus_topology_rx of a text: to the end, append what it stands for, rewind.
bus_topology_rx(text) ==
    /\ call = Done
    /\ Seek(0, "SEEK_END")
    /\ call' = [left |-> "write", text |-> text]

WriteDecoded ==
    /\ call.left = "write"
    /\ Write(ascii85_decode(call.text))
    /\ call' = [left |-> "rewind", text |-> <<>>]

Rewind ==
    /\ call.left = "rewind"
    /\ Seek(0, "SEEK_SET")
    /\ call' = Done

\* bus_topology_tx: rewind, then read all; result is what the encoder gets.
bus_topology_tx ==
    /\ call = Done
    /\ Seek(0, "SEEK_SET")
    /\ call' = [left |-> "read", text |-> <<>>]

ReadAll ==
    /\ call.left = "read"
    /\ Read("POS_UPDATE")
    /\ call' = Done

TextNext ==
    \/ \E data \in Chunk : bus_topology_rx(ascii85_encode(data))
    \/ WriteDecoded \/ Rewind \/ bus_topology_tx \/ ReadAll
    \/ call = Done /\ Next /\ UNCHANGED call

TextSpec == TextInit /\ [][TextNext]_textVars

-----------------------------------------------------------------------------
(* Properties *)

\* Whatever a tx reads from the stream, decoding its text restores the bytes
\* and their number: padding, 'z' groups and a last group of zeroes included.
RoundTrip == ascii85_decode(ascii85_encode(result)) = result

\* The decoder writes exactly the bytes it has allocated, whatever the number
\* of 'z' groups.
FitsAllocation ==
    LET text == ascii85_encode(result) IN Len(written(text)) = required(text)
=============================================================================
