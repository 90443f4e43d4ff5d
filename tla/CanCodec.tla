------------------------------ MODULE CanCodec ------------------------------
(***************************************************************************)
(* The CAN codec (application/x-automotive-bus; type=frame; bus=can;       *)
(* schema=fbs): FbsCodec over frames.  A frame keeps its union type, an id *)
(* that identifies it, and the node it was tagged with.                    *)
(***************************************************************************)
EXTENDS FbsCodec

CONSTANT Id   \* frame ids the client writes

Frame == [type : {"CanFrame", "Other"}, id : Id, sender : Node]

ASSUME CanAssumption == Frame \subseteq Entry

node_id == own_id

\* The frame takes the node_id the instance has now, not at the flush.
can_write(id) == write([type |-> "CanFrame", id |-> id, sender |-> node_id])

can_read == read
can_flush == flush
can_truncate == truncate

CanNext ==
    \/ \E v \in ConfigValue : codec_config(v)
    \/ \E id \in Id : can_write(id)
    \/ can_flush
    \/ can_truncate
    \/ can_read
    \/ \E pos \in 0 .. 1, op \in SeekOp : ncodec_seek(pos, op)
    \/ \E ms \in Wire : Deliver(ms)

CanSpec == Init /\ [][CanNext]_vars
=============================================================================
