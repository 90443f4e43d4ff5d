---------------------------- MODULE FmuInstance ----------------------------
(***************************************************************************)
(* The example FMU of fmi-ls-bus-topology: its FMI calls, its Bus Topology *)
(* object and its CAN codec, under an importer that makes any sequence of  *)
(* calls.  A call runs as a sequence of codec calls, one step each.        *)
(*                                                                         *)
(* phase records what the FMU, as a client of its codec, has called; that  *)
(* it keeps to the discipline of CodecSession is a property here, not a    *)
(* guard.                                                                  *)
(***************************************************************************)
EXTENDS CodecSession, CanCodec

CONSTANTS
    MyNode,       \* the node_id of the MIME type
    Greeting,     \* the frame id that fmi2DoStep writes
    RxVr, TxVr,   \* value references of rx_vr_index and of tx_vr_index
    OtherVr,      \* value references indexed to no codec
    MaxValues,    \* bound: values in one FMI call
    MaxFree       \* bound: entries of the free list

ASSUME FmuAssumption == MyNode \in ConfigValue /\ Greeting \in Id /\ MaxFree \in Nat

VARIABLES
    reset_called,   \* of the BusTopology
    free_list,      \* how many values it holds for the importer
    call,           \* what is left of the FMI call in progress
    args,           \* SetString: values to go; GetString: references to go
    out,            \* the values a GetString has returned
    heard,          \* the frames a DoStep has read
    unread          \* history: a value was received that no step has read,
                    \* and no Get or truncate has passed over since

fmuVars == <<sessionVars, reset_called, free_list, call, args, out, heard, unread>>
bus == <<reset_called, free_list>>

Value == [vr : RxVr \cup TxVr \cup OtherVr, text : {Text(ms) : ms \in Wire}]
Reference == TxVr \cup RxVr \cup OtherVr
NoText == Text(<<>>)   \* a NULL value

UpTo(n, S) == UNION {[1 .. k -> S] : k \in 1 .. n}

\* After fmi2ExitInitializationMode.
FInit ==
    /\ SInit /\ node_id = MyNode % UINT8
    /\ reset_called = FALSE /\ free_list = 0
    /\ call = "none" /\ args = <<>> /\ out = <<>> /\ heard = <<>>
    /\ unread = FALSE

-----------------------------------------------------------------------------
(* fmi2SetString *)

\* Its bus_topology_reset: once per cycle of Gets and Sets.
fmi2SetString(values) ==
    /\ call = "none"
    /\ IF reset_called THEN UNCHANGED <<sessionVars, bus, unread>>
       ELSE /\ can_truncate /\ phase' = "idle" /\ unread' = FALSE
            /\ reset_called' = TRUE /\ free_list' = 0
    /\ call' = "SetString" /\ args' = values
    /\ out' = <<>>
    /\ UNCHANGED heard

\* One bus_topology_rx.  A reference without a codec is passed over.
SetValue ==
    /\ call = "SetString"
    /\ IF Head(args).vr \in RxVr
       THEN Deliver(decoded(Head(args).text)) /\ phase' = "rx" /\ unread' = TRUE
       ELSE UNCHANGED <<sessionVars, unread>>
    /\ args' = Tail(args)
    /\ call' = IF Len(args) = 1 THEN "none" ELSE "SetString"
    /\ UNCHANGED <<bus, out, heard>>

-----------------------------------------------------------------------------
(* fmi2GetString *)

fmi2GetString(vrs) ==
    /\ call = "none"
    /\ free_list + Len(vrs) <= MaxFree
    /\ call' = "GetString" /\ args' = vrs
    /\ out' = <<>>
    /\ UNCHANGED <<sessionVars, bus, heard, unread>>

\* One bus_topology_tx.  reset_called is cleared before the lookup.
GetValue ==
    /\ call = "GetString"
    /\ reset_called' = FALSE
    /\ IF Head(args) \in TxVr
       THEN /\ stream' = tx_stream(stream) /\ phase' = "idle" /\ unread' = FALSE
            /\ Return("seek", <<>>)
            /\ UNCHANGED <<own_id, pending, fbs_stream_initalized, parse>>
            /\ out' = Append(out, Text(tx_data(stream)))
            /\ free_list' = free_list + 1
       ELSE out' = Append(out, NoText) /\ UNCHANGED <<sessionVars, free_list, unread>>
    /\ args' = Tail(args)
    /\ call' = IF Len(args) = 1 THEN "none" ELSE "GetString"
    /\ UNCHANGED heard

-----------------------------------------------------------------------------
(* fmi2DoStep: read to -ENOMSG, truncate, write, flush *)

fmi2DoStep ==
    /\ call = "none"
    /\ call' = "Read" /\ heard' = <<>> /\ out' = <<>>
    /\ UNCHANGED <<sessionVars, bus, args, unread>>

\* Faulty: DoStep reads one frame.
StepRead_once ==
    /\ call = "Read"
    /\ can_read
    /\ phase' = IF ret'.got = <<>> THEN "idle" ELSE "drain"
    /\ heard' = heard \o ret'.got
    /\ call' = "Truncate"
    /\ UNCHANGED <<bus, args, out, unread>>

\* Faulty: DoStep goes on reading after -ENOMSG.
StepRead_goes_on ==
    /\ call = "Read"
    /\ can_read
    /\ phase' = IF ret'.got = <<>> THEN "idle" ELSE "drain"
    /\ heard' = heard \o ret'.got
    /\ UNCHANGED <<bus, call, args, out, unread>>

\* Faulty: DoStep returns when it has read all.
StepRead_returns ==
    /\ call = "Read"
    /\ can_read
    /\ phase' = IF ret'.got = <<>> THEN "idle" ELSE "drain"
    /\ heard' = heard \o ret'.got
    /\ call' = IF ret'.got = <<>> THEN "none" ELSE "Read"
    /\ UNCHANGED <<bus, args, out, unread>>

StepRead ==
    /\ call = "Read"
    /\ can_read
    /\ phase' = IF ret'.got = <<>> THEN "idle" ELSE "drain"
    /\ heard' = heard \o ret'.got
    /\ call' = IF ret'.got = <<>> THEN "Truncate" ELSE "Read"
    /\ UNCHANGED <<bus, args, out, unread>>

\* Faulty: DoStep does not truncate.
StepTruncate_omitted ==
    /\ call = "Truncate"
    /\ call' = "Write"
    /\ UNCHANGED <<sessionVars, bus, args, out, heard, unread>>

StepTruncate ==
    /\ call = "Truncate"
    /\ can_truncate /\ phase' = "idle"
    /\ call' = "Write"
    /\ UNCHANGED <<bus, args, out, heard, unread>>

StepWrite ==
    /\ call = "Write"
    /\ can_write(Greeting) /\ UNCHANGED phase
    /\ call' = "Flush"
    /\ UNCHANGED <<bus, args, out, heard, unread>>

StepFlush ==
    /\ call = "Flush"
    /\ can_flush /\ phase' = "idle"
    /\ call' = "none"
    /\ heard' = <<>> /\ unread' = FALSE
    /\ UNCHANGED <<bus, args, out>>

-----------------------------------------------------------------------------
Running == SetValue \/ GetValue \/ StepRead \/ StepTruncate \/ StepWrite \/ StepFlush

FNext ==
    \/ \E values \in UpTo(MaxValues, Value) : fmi2SetString(values)
    \/ \E vrs \in UpTo(MaxValues, Reference) : fmi2GetString(vrs)
    \/ fmi2DoStep
    \/ Running

\* A call that has begun runs on: the code is sequential and never waits.
FmuSpec == FInit /\ [][FNext]_fmuVars /\ WF_fmuVars(Running)

-----------------------------------------------------------------------------
(* Properties *)

FTypeOK ==
    /\ reset_called \in BOOLEAN /\ free_list \in 0 .. MaxFree
    /\ call \in {"none", "SetString", "GetString", "Read", "Truncate", "Write", "Flush"}
    /\ unread \in BOOLEAN
    /\ heard \in Seq(Entry) /\ (heard # <<>> => call \in {"Read", "Truncate", "Write", "Flush"})

\* Whatever the order of its FMI calls, the FMU uses its codec as documented:
\* no truncate, delivery or flush falls between a frame read and -ENOMSG, and
\* every flush appends.
KeepsToSession == SInit /\ [][SNext]_sessionVars

\* The frames of the stream that pass the filter.
Seen ==
    LET log == FramesBelow(stream.len)
    IN  FlattenSeq([k \in 1 .. Len(log) |-> IF Visible(log[k]) THEN <<log[k]>> ELSE <<>>])

\* The read loop of a step that follows a received value hears all visible
\* frames of the stream, once and in order.  It hears none exactly when nothing
\* was received since the last step or the importer has read the stream to its
\* end by a Get in between: never some of them, never one of them again.
HearsWhatWasSet == call = "Truncate" => heard = IF unread THEN Seen ELSE <<>>

\* A step ends with its own message alone in the stream, whatever arrived
\* before it: no received frame is sent on, none of its own is left behind.
StepLeavesOwnMessage ==
    ret.op = "flush" =>
        /\ stream.len = 1
        /\ buffer[0] = OwnMessage(<<[type |-> "CanFrame", id |-> Greeting, sender |-> node_id]>>)
        /\ pending = <<>> /\ msg_ptr = NULL /\ vector = NULL

\* Every FMI call returns: the read loop of fmi2DoStep comes to -ENOMSG.
CallReturns == call # "none" ~> call = "none"
=============================================================================
