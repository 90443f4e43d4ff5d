----------------------------- MODULE MCCanCodec -----------------------------
(***************************************************************************)
(* Instances of CanCodec for TLC: what the network may deliver.            *)
(***************************************************************************)
EXTENDS CanCodec

MCFrame(type, id, node) == [type |-> type, id |-> id, sender |-> node]
MCForeign == [identifier |-> "foreign", has_frames |-> FALSE, frames |-> <<>>]
MCNoVector == [identifier |-> "own", has_frames |-> FALSE, frames |-> <<>>]

\* A message with a frame the filter may drop, one of the union's other type
\* and one that is visible; and the messages the scan passes over.
MCOwn == OwnMessage(<<MCFrame("CanFrame", 1, 1), MCFrame("Other", 1, 0), MCFrame("CanFrame", 1, 0)>>)

MCWire == { <<MCOwn>>, <<MCForeign, OwnMessage(<<MCFrame("CanFrame", 1, 1)>>)>>,
            <<ZeroMessage>>, <<MCNoVector>> }

\* Only what can_flush itself produces, and the other codec's messages.
MCWellFormedWire == { <<MCOwn>>, <<MCForeign>> }
=============================================================================
