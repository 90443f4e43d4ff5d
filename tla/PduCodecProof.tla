---------------------------- MODULE PduCodecProof ----------------------------
(***************************************************************************)
(* The PDU codec is a session, and forwards what it reads, for every set   *)
(* of PDUs, width of the ids and records of the caller.                    *)
(*                                                                         *)
(* PduInv joins the invariant of the codec to PduTypeOK, which makes what  *)
(* is written from the caller's record a PDU, and to ForwardsComplete.     *)
(***************************************************************************)
EXTENDS PduCodec, CodecSessionProof

USE PduAssumption, CodecAssumption

PduInv == CodecInv /\ PduTypeOK /\ ForwardsComplete

\* Any record of a caller is encoded as a well-formed PDU.
LEMMA EncodedIsPdu ==
    ASSUME PduTypeOK, own_id \in Node, NEW p \in NCodecPdu
    PROVE  Encoded(p, own_id, ecu_id) \in Pdu
<1>1. Default(p.swc_id, own_id) \in Sender
  BY DEF Default, Sender, Node, NCodecPdu
<1>2. Default(p.ecu_id, ecu_id) \in Sender
  BY DEF Default, Sender, Node, NCodecPdu, PduTypeOK
<1> QED BY <1>1, <1>2 DEF Encoded, Pdu, NCodecPdu, Transport

\* What is decoded is a record again.
LEMMA DecodedIsRecord ==
    ASSUME NEW e \in Pdu, NEW p \in NCodecPdu, NEW q \in Decoded(e, p)
    PROVE  q \in NCodecPdu
<1>1. PICK addr \in Datum :
         q = [id |-> e.id, payload |-> e.payload, swc_id |-> e.sender, ecu_id |-> e.ecu_id,
              transport |-> IF e.transport = "None" THEN p.transport ELSE e.transport,
              meta    |-> IF e.transport = "None" THEN p.meta ELSE e.meta,
              addr    |-> addr,
              adapter |-> IF e.adapter = 0 THEN p.adapter ELSE e.adapter]
  BY DEF Decoded, Overlaid, Pdu, NCodecPdu
<1> QED BY <1>1 DEF Pdu, NCodecPdu

LEMMA UnreadIsRecord == \A p \in NCodecPdu : Unread(p) \in NCodecPdu
BY DEF Unread, NCodecPdu

\* A complete PDU is encoded as it was decoded.
LEMMA DecodedForwards ==
    ASSUME NEW e \in Pdu, NEW p, NEW q \in Decoded(e, p), NEW own, NEW ecu,
           Complete(e), e.sender # 0, e.ecu_id # 0
    PROVE  Encoded(q, own, ecu) = e
<1>1. PICK addr :
         /\ q = [id |-> e.id, payload |-> e.payload, swc_id |-> e.sender, ecu_id |-> e.ecu_id,
                 transport |-> e.transport, meta |-> e.meta, addr |-> addr,
                 adapter |-> IF e.adapter = 0 THEN p.adapter ELSE e.adapter]
         /\ e.transport = "Ip" => addr = e.addr /\ e.adapter # 0
  BY DEF Decoded, Complete
<1>2. e = [type |-> "Pdu", id |-> e.id, payload |-> e.payload, sender |-> e.sender,
           ecu_id |-> e.ecu_id, transport |-> e.transport, meta |-> e.meta,
           addr |-> e.addr, adapter |-> e.adapter]
  BY DEF Pdu
<1>3. /\ e.transport # "None"
      /\ e.transport # "Ip" => e.addr = 0 /\ e.adapter = 0
  BY DEF Pdu, Complete
<1> QED BY <1>1, <1>2, <1>3 DEF Encoded, Default

-----------------------------------------------------------------------------
LEMMA PduInit == PInit => PduInv /\ SInit
<1> SUFFICES ASSUME PInit PROVE PduInv
  BY DEF PInit
<1>1. CodecInv
  BY CodecInit DEF PInit, SInit
<1>2. ecu_id \in Node
  <2>1. \A v \in ConfigValue \cup {0} : v % UINT8 \in Node
    BY DEF Node
  <2> QED BY <2>1 DEF PInit
<1>3. Zeroed \in NCodecPdu
  <2>1. 0 \in Sender
    BY DEF Sender
  <2> QED BY <2>1 DEF Zeroed, NCodecPdu, Transport
<1>4. ForwardsComplete
  BY DEF PInit, SInit, Init, ForwardsComplete
<1> QED BY <1>1, <1>2, <1>3, <1>4 DEF PduInv, PduTypeOK, PInit

LEMMA PduStep ==
    ASSUME PduInv, [PNext]_pduVars
    PROVE  PduInv' /\ [SNext]_sessionVars
<1> USE DEF PduInv
<1>1. own_id \in Node /\ ret.got \in Seq(Pdu) /\ pdu \in NCodecPdu /\ ecu_id \in Node
  BY DEF CodecInv, TypeOK, PduTypeOK
\* Steps that are no read leave the record alone.
<1>2. ASSUME SNext, ret'.op # "read", UNCHANGED <<ecu_id, pdu>>
      PROVE  PduInv' /\ [SNext]_sessionVars
  <2>1. CodecInv'
    BY <1>2, CodecStep, SessionIsCodec
  <2> QED BY <1>2, <2>1 DEF PduTypeOK, ForwardsComplete
<1>3. CASE pdu_read
  <2>1. SNext /\ UNCHANGED ecu_id
    BY <1>3 DEF pdu_read, SNext
  <2>2. CodecInv'
    BY <2>1, CodecStep, SessionIsCodec
  <2>3. ret'.got \in Seq(Pdu)
    BY <2>2 DEF CodecInv, TypeOK
  <2>4. CASE ret'.got = <<>>
    <3>1. pdu' = Unread(pdu)
      BY <1>3, <2>4 DEF pdu_read
    <3> QED BY <1>1, <2>1, <2>2, <2>4, <3>1, UnreadIsRecord DEF PduTypeOK, ForwardsComplete
  <2>5. CASE ret'.got # <<>>
    <3>1. ret'.got[1] \in Pdu /\ pdu' \in Decoded(ret'.got[1], pdu)
      BY <1>3, <2>3, <2>5 DEF pdu_read
    <3>2. pdu' \in NCodecPdu
      BY <1>1, <3>1, DecodedIsRecord
    <3>3. PduTypeOK'
      BY <1>1, <2>1, <3>2 DEF PduTypeOK
    <3>4. ForwardsComplete'
      BY <3>1, DecodedForwards DEF ForwardsComplete
    <3> QED BY <2>1, <2>2, <3>3, <3>4
  <2> QED BY <2>4, <2>5
<1>4. CASE pdu_write
  <2>1. PICK p \in NCodecPdu : write(Encoded(p, own_id, ecu_id))
    BY <1>1, <1>4 DEF pdu_write, swc_id
  <2>2. Encoded(p, own_id, ecu_id) \in Writable
    <3>1. Encoded(p, own_id, ecu_id) \in Pdu
      BY <1>1, EncodedIsPdu
    <3> QED BY <3>1 DEF Writable, Pdu
  <2>3. SWrite
    BY <1>4, <2>1, <2>2 DEF pdu_write, SWrite
  <2>4. ret'.op # "read"
    BY <2>1 DEF write, Return
  <2> QED BY <1>2, <1>4, <2>3, <2>4 DEF pdu_write, SNext
<1>5. CASE config_ecu_id
  <2>1. ecu_id' \in Node /\ UNCHANGED <<sessionVars, pdu>>
    BY <1>5 DEF config_ecu_id, Node
  <2>2. UNCHANGED <<vars, ret, own_id>>
    BY <2>1 DEF sessionVars, vars
  <2>3. CodecInv'
    BY <2>2, CodecStep
  <2>4. PduTypeOK'
    BY <1>1, <2>1 DEF PduTypeOK
  <2>5. ForwardsComplete'
    BY <2>1, <2>2 DEF ForwardsComplete, vars
  <2> QED BY <2>1, <2>3, <2>4, <2>5
<1>6. CASE Other /\ UNCHANGED <<ecu_id, pdu>>
  <2>1. SNext
    BY <1>6 DEF Other, SNext
  <2>2. ret'.op # "read"
    BY <1>6 DEF Other, SConfig, SDeliver, SRewind, SSkip, STruncate, SFlush,
                codec_config, Deliver, ncodec_seek, truncate, flush, Return
  <2> QED BY <1>2, <1>6, <2>1, <2>2
<1>7. CASE UNCHANGED pduVars
  <2>1. CodecInv' /\ UNCHANGED sessionVars
    BY <1>7, CodecStep DEF pduVars, sessionVars
  <2> QED BY <1>7, <2>1 DEF PduTypeOK, ForwardsComplete, pduVars, sessionVars, vars
<1> QED BY <1>3, <1>4, <1>5, <1>6, <1>7 DEF PNext

-----------------------------------------------------------------------------
LEMMA PduInvariant == PduSpec => []PduInv
BY PduInit, PduStep, PTL DEF PduSpec

\* The caller's record and the codec's parameters keep their types.
THEOREM PduTypes == PduSpec => []PduTypeOK
<1>1. PduInv => PduTypeOK
  BY DEF PduInv
<1> QED BY <1>1, PduInvariant, PTL

\* A gateway sends on what it has read, whatever its record held before.
THEOREM PduForwards == PduSpec => []ForwardsComplete
<1>1. PduInv => ForwardsComplete
  BY DEF PduInv
<1> QED BY <1>1, PduInvariant, PTL

\* The PDU codec is a codec under the documented discipline: what is shown of
\* CodecSession holds of it.
THEOREM PduIsSession == PduSpec => SessionSpec
BY PduInit, PduStep, PTL DEF PduSpec, SessionSpec

\* No read of a PDU goes through a pointer into replaced content.
THEOREM PduNoDanglingVector == PduSpec => []NoDanglingVector
BY PduIsSession, SessionNoDanglingVector, PTL
=============================================================================
