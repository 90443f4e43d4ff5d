------------------------------ MODULE PduCodec ------------------------------
(***************************************************************************)
(* The PDU codec (application/x-automotive-bus; type=pdu; schema=fbs): a   *)
(* CodecSession whose entries are PDUs, with the NCodecPdu of the caller   *)
(* that pdu_read decodes into.  A gateway writes that record on.           *)
(*                                                                         *)
(* A PDU keeps its id, its payload, its senders and its transport; the     *)
(* fields of a transport other than the two unions of Ip are one datum.    *)
(* The datum 0 stands for what is absent: no payload, no address (V4 or    *)
(* V6), no socket adapter (DoIP or SOME/IP), zeroed fields.                *)
(***************************************************************************)
EXTENDS CodecSession

CONSTANTS
    UINT32,     \* 2^32 in the code: the senders in a PDU
    Id, Datum,  \* ids of PDUs, and what stands for their content
    Outgoing    \* records of its own that the client writes

VARIABLES
    ecu_id,     \* uint8_t of the instance
    pdu         \* the NCodecPdu the client reads into

pduVars == <<sessionVars, ecu_id, pdu>>

swc_id == own_id

Sender == 0 .. UINT32 - 1
Transport == {"None", "Can", "Ip", "Struct"}

\* NCodecPdu of the caller: any combination of fields is a legal value.
NCodecPdu == [id : Id, payload : Datum, swc_id : Sender, ecu_id : Sender,
              transport : Transport, meta : Datum, addr : Datum, adapter : Datum]

\* A Pdu table of a message: it holds its own transport only.
Pdu == {e \in [type : {"Pdu"}, id : Id, payload : Datum, sender : Sender, ecu_id : Sender,
               transport : Transport, meta : Datum, addr : Datum, adapter : Datum] :
            /\ e.transport = "None" => e.meta = 0
            /\ e.transport # "Ip" => e.addr = 0 /\ e.adapter = 0}

ASSUME PduAssumption ==
    /\ UINT32 \in Nat /\ UINT8 <= UINT32
    /\ Datum \subseteq Nat /\ 0 \in Datum /\ 0 \in Id
    /\ Outgoing \subseteq NCodecPdu
    /\ Entry = Pdu

Zeroed == [id |-> 0, payload |-> 0, swc_id |-> 0, ecu_id |-> 0,
           transport |-> "None", meta |-> 0, addr |-> 0, adapter |-> 0]

-----------------------------------------------------------------------------
(* pdu_write *)

Default(id, own) == IF id = 0 THEN own ELSE id

\* The PDU an instance with these ids makes of a record.
Encoded(p, own_swc, own_ecu) ==
    [type |-> "Pdu", id |-> p.id, payload |-> p.payload,
     sender |-> Default(p.swc_id, own_swc), ecu_id |-> Default(p.ecu_id, own_ecu),
     transport |-> p.transport,
     meta    |-> IF p.transport = "None" THEN 0 ELSE p.meta,
     addr    |-> IF p.transport = "Ip" THEN p.addr ELSE 0,
     adapter |-> IF p.transport = "Ip" THEN p.adapter ELSE 0]

-----------------------------------------------------------------------------
(* pdu_read *)

\* transport is a C union: the last pointers of a Struct lie over the address
\* of an Ip, whose type beside it stays as it was.
Overlaid(addr) == IF addr = 0 THEN {0} ELSE Datum \ {0}

\* Faulty: the type of the transport is not set.
Decoded_without_type(e, p) ==
    {[id |-> e.id, payload |-> e.payload, swc_id |-> e.sender, ecu_id |-> e.ecu_id,
      transport |-> p.transport,
      meta    |-> IF e.transport = "None" THEN p.meta ELSE e.meta,
      addr    |-> addr,
      adapter |-> IF e.adapter = 0 THEN p.adapter ELSE e.adapter] :
        addr \in IF e.transport = "Struct" THEN Overlaid(p.addr)
                 ELSE IF e.addr = 0 THEN {p.addr} ELSE {e.addr}}

\* What a PDU does not carry keeps the value the caller's record had.
Decoded(e, p) ==
    {[id |-> e.id, payload |-> e.payload, swc_id |-> e.sender, ecu_id |-> e.ecu_id,
      transport |-> IF e.transport = "None" THEN p.transport ELSE e.transport,
      meta    |-> IF e.transport = "None" THEN p.meta ELSE e.meta,
      addr    |-> addr,
      adapter |-> IF e.adapter = 0 THEN p.adapter ELSE e.adapter] :
        addr \in IF e.transport = "Struct" THEN Overlaid(p.addr)
                 ELSE IF e.addr = 0 THEN {p.addr} ELSE {e.addr}}

\* Without a message only the payload is reset.
Unread(p) ==
    [id |-> p.id, payload |-> 0, swc_id |-> p.swc_id, ecu_id |-> p.ecu_id,
     transport |-> p.transport, meta |-> p.meta, addr |-> p.addr, adapter |-> p.adapter]

pdu_read ==
    /\ SRead
    /\ pdu' \in IF ret'.got = <<>> THEN {Unread(pdu)} ELSE Decoded(ret'.got[1], pdu)
    /\ UNCHANGED ecu_id

-----------------------------------------------------------------------------
PInit ==
    /\ SInit
    /\ ecu_id \in {v % UINT8 : v \in ConfigValue \cup {0}}
    /\ pdu = Zeroed

\* A record of the client, or the one it has read.
pdu_write ==
    /\ \E p \in Outgoing \cup {pdu} : write(Encoded(p, swc_id, ecu_id))
    /\ UNCHANGED <<phase, ecu_id, pdu>>

\* Faulty: the parameter is kept as wide as it was given.
config_ecu_id_wide ==
    /\ \E v \in ConfigValue : ecu_id' = v
    /\ UNCHANGED <<sessionVars, pdu>>

config_ecu_id ==
    /\ \E v \in ConfigValue : ecu_id' = v % UINT8
    /\ UNCHANGED <<sessionVars, pdu>>

Other == SConfig \/ SDeliver \/ SRewind \/ SSkip \/ STruncate \/ SFlush

PNext ==
    \/ pdu_read
    \/ pdu_write
    \/ config_ecu_id
    \/ Other /\ UNCHANGED <<ecu_id, pdu>>

PduSpec == PInit /\ [][PNext]_pduVars

-----------------------------------------------------------------------------
(* Properties *)

\* Each variable of this module has its type.
PduTypeOK == ecu_id \in Node /\ pdu \in NCodecPdu

\* A PDU that carries all that its transport can.
Complete(e) ==
    /\ e.transport # "None"
    /\ e.transport = "Ip" => e.addr # 0 /\ e.adapter # 0

\* A gateway sends on what it has read: the record read from a complete PDU
\* that names its senders is encoded as that PDU again, whatever the record
\* held before and whatever identity the gateway has.
ForwardsComplete ==
    ret.op = "read" /\ ret.got # <<>> =>
        LET e == ret.got[1]
        IN  Complete(e) /\ e.sender # 0 /\ e.ecu_id # 0 =>
                \A swc, ecu \in Node : Encoded(pdu, swc, ecu) = e

\* "Reset the message, in case caller ignores the return value": what the
\* caller has after a read is of the PDU that was read.  The code keeps this of
\* the payload only.
ReadsAsSent ==
    ret.op = "read" /\ ret.got # <<>> => pdu \in Decoded(ret.got[1], Zeroed)
=============================================================================
