----------------------------- MODULE MCPduCodec -----------------------------
(***************************************************************************)
(* An instance of PduCodec for TLC: PDUs of every transport, of an Ip with *)
(* and without its unions, and of senders the uint8_t of the instance can  *)
(* and cannot hold.                                                        *)
(***************************************************************************)
EXTENDS PduCodec

MCPdu(transport, meta, addr, adapter, sender) ==
    [type |-> "Pdu", id |-> 0, payload |-> 1, sender |-> sender, ecu_id |-> 1,
     transport |-> transport, meta |-> meta, addr |-> addr, adapter |-> adapter]

MCForeign == [identifier |-> "foreign", has_frames |-> FALSE, frames |-> <<>>]
MCIp == OwnMessage(<<MCPdu("Ip", 1, 1, 1, 2), MCPdu("Ip", 0, 0, 1, 1)>>)
MCOther == OwnMessage(<<MCPdu("Struct", 1, 0, 0, 2), MCPdu("None", 0, 0, 0, 0), MCPdu("Can", 1, 0, 0, 2)>>)

MCWire == {<<MCIp>>, <<MCForeign, MCOther>>}

MCOutgoing == {Zeroed}
=============================================================================
