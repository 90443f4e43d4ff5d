--------------------------- MODULE MCFmuInstance ---------------------------
(***************************************************************************)
(* Instances of FmuInstance for TLC: one receive, one transmit and one     *)
(* unindexed variable; values of one or two messages, some of the frames   *)
(* from the FMU's own node.                                                *)
(***************************************************************************)
EXTENDS FmuInstance

MCFrame(type, id, node) == [type |-> type, id |-> id, sender |-> node]
MCForeign == [identifier |-> "foreign", has_frames |-> FALSE, frames |-> <<>>]

MCMixed == OwnMessage(<<MCFrame("CanFrame", 1, 1), MCFrame("CanFrame", 1, 3), MCFrame("Other", 1, 3)>>)
MCOwn == OwnMessage(<<MCFrame("CanFrame", 1, 2)>>)

MCWire == {<<MCMixed>>, <<MCForeign, MCOwn>>}
=============================================================================
