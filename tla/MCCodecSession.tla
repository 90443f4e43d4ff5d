--------------------------- MODULE MCCodecSession ---------------------------
(***************************************************************************)
(* Instances of CodecSession for TLC.  Messages hold one to three frames   *)
(* of two nodes, so that the reader crosses filtered frames, frames of the *)
(* other type, message boundaries and foreign messages.                    *)
(***************************************************************************)
EXTENDS CodecSession

MCFrame(type, id, node) == [type |-> type, id |-> id, sender |-> node]
MCForeign == [identifier |-> "foreign", has_frames |-> FALSE, frames |-> <<>>]

MCMixed == OwnMessage(<<MCFrame("CanFrame", 1, 2), MCFrame("Other", 1, 2), MCFrame("CanFrame", 1, 1)>>)
MCSingle == OwnMessage(<<MCFrame("CanFrame", 1, 2)>>)

MCWire == {<<MCMixed>>, <<MCForeign, MCSingle>>}

\* What the client writes: its own frames and ones it sends on for node 2.
MCEntry == {MCFrame("CanFrame", 1, 1), MCFrame("CanFrame", 1, 2), MCFrame("Other", 1, 2)}
=============================================================================
