-------------------------- MODULE FmuInstanceProof --------------------------
(***************************************************************************)
(* The example FMU keeps to the documented use of its codec, whatever      *)
(* order its importer calls it in; with the theorem about CodecSession, no *)
(* read of it goes through a dangling pointer.                             *)
(*                                                                         *)
(* The argument: a drain begins and ends inside the Read stage of a step   *)
(* (InStep), and the step flushes after its truncate, with the stream at   *)
(* its end.  Gets map to a seek to the end.  Hence FmuSpec implements      *)
(* SessionSpec.                                                            *)
(*                                                                         *)
(* FmuReplies follows the builder through a step: it is empty between      *)
(* steps, so that the flush writes the one frame of the step, into a       *)
(* stream that was truncated (Replying).  FmuHears follows the read loop:  *)
(* what was heard so far is what the filter lets through of the frames in  *)
(* front of the cursor, where the cursor is that of the log in             *)
(* CodecSessionProof, or nothing when a Get has left it at the end         *)
(* (HeardSoFar); between the calls the stream is rewound exactly when a    *)
(* received value is still unread.                                         *)
(***************************************************************************)
EXTENDS FmuInstance, CodecSessionProof

USE FmuAssumption

-----------------------------------------------------------------------------
(* The CAN codec is a codec *)

LEMMA CanWriteIsWrite ==
    ASSUME own_id \in Node, NEW id \in Id, can_write(id)
    PROVE  \E e \in Writable : write(e)
<1> DEFINE frame == [type |-> "CanFrame", id |-> id, sender |-> own_id]
<1>1. frame \in Writable
  BY CanAssumption DEF Frame, Writable
<1>2. write(frame)
  BY DEF can_write, node_id
<1> QED BY <1>1, <1>2

LEMMA CanStep == CodecInv /\ [CanNext]_vars => [Next]_vars
<1> SUFFICES ASSUME CodecInv, CanNext PROVE Next
  OBVIOUS
<1>1. own_id \in Node
  BY DEF CodecInv, TypeOK
<1>2. ASSUME NEW id \in Id, can_write(id) PROVE Next
  BY <1>1, <1>2, CanWriteIsWrite DEF Next
<1> QED BY <1>2 DEF CanNext, Next, can_read, can_flush, can_truncate

\* What CodecSessionProof shows of every codec holds of the CAN codec: each of its
\* calls is one of the codec's, with a frame of its own node.
THEOREM CanIsCodec == CanSpec => Spec
<1>1. CodecInv /\ [CanNext]_vars => CodecInv' /\ [Next]_vars
  BY CanStep, CodecStep
<1> QED BY <1>1, CodecInit, PTL DEF CanSpec, Spec

-----------------------------------------------------------------------------
(* The FMU keeps to the session *)

InStep ==
    /\ phase = "drain" => call = "Read"
    /\ call \in {"Write", "Flush"} => phase = "idle"

\* What a SetString has still to deliver is what the network may deliver, and
\* what a GetString has still to look up fits the free list.
ArgsOK ==
    /\ call = "SetString" => args \in Seq(Value) /\ args # <<>>
    /\ call = "GetString" => /\ args \in Seq(Reference) /\ args # <<>>
                             /\ free_list + Len(args) <= MaxFree

FmuInv == CodecInv /\ InStep /\ ArgsOK /\ FTypeOK

\* bus_topology_tx moves the stream as a seek to its end would.
LEMMA TxIsSeekEnd ==
    ASSUME Sound(stream, Message)
    PROVE  tx_stream(stream) = stream_seek(stream, 0, "SEEK_END")
BY TxSound DEF stream_seek

LEMMA FmuInit == FInit => SInit /\ FmuInv
<1> SUFFICES ASSUME FInit PROVE SInit /\ FmuInv
  OBVIOUS
<1>1. SInit /\ InStep /\ ArgsOK
  BY DEF FInit, SInit, InStep, ArgsOK
<1>2. 0 \in 0 .. MaxFree
  BY FmuAssumption
<1>3. FTypeOK
  BY <1>2, EmptySeq DEF FInit, FTypeOK
<1> QED BY <1>1, <1>3, CodecInit DEF FmuInv, SInit

LEMMA HeadDelivers ==
    ASSUME args \in Seq(Value), args # <<>>
    PROVE  decoded(Head(args).text) \in Wire
<1>1. Head(args) \in Value
  OBVIOUS
<1> QED BY <1>1 DEF Value, Text, decoded

\* The next item is taken from the front of what is left.
LEMMA RestOfArgs ==
    ASSUME NEW S, args \in Seq(S), args # <<>>, Len(args) # 1, args' = Tail(args)
    PROVE  /\ args' \in Seq(S) /\ args' # <<>>
           /\ Len(args') = Len(args) - 1 /\ Len(args) \in Nat
<1>1. args' \in Seq(S) /\ Len(args') = Len(args) - 1 /\ Len(args) \in Nat \ {0}
  OBVIOUS
<1>2. Len(args') # 0 /\ Len(<<>>) = 0
  BY <1>1
<1> QED BY <1>1, <1>2

LEMMA ArgsStep ==
    ASSUME ArgsOK, FTypeOK, [FNext]_fmuVars
    PROVE  ArgsOK'
<1>1. ASSUME NEW values \in UpTo(MaxValues, Value), fmi2SetString(values) PROVE ArgsOK'
  <2>1. PICK n \in 1 .. MaxValues : values \in [1 .. n -> Value]
    BY <1>1 DEF UpTo
  <2>2. values \in Seq(Value) /\ values # <<>>
    BY <2>1, SeqDef, EmptySeq
  <2> QED BY <1>1, <2>2 DEF fmi2SetString, ArgsOK
<1>2. CASE SetValue
  <2>1. CASE Len(args) = 1
    BY <1>2, <2>1 DEF SetValue, ArgsOK
  <2>2. CASE Len(args) # 1
    <3>1. args \in Seq(Value) /\ args # <<>> /\ args' = Tail(args) /\ call' = "SetString"
      BY <1>2, <2>2 DEF SetValue, ArgsOK
    <3> QED BY <2>2, <3>1, RestOfArgs DEF ArgsOK
  <2> QED BY <2>1, <2>2
<1>3. ASSUME NEW vrs \in UpTo(MaxValues, Reference), fmi2GetString(vrs) PROVE ArgsOK'
  <2>1. PICK n \in 1 .. MaxValues : vrs \in [1 .. n -> Reference]
    BY <1>3 DEF UpTo
  <2>2. vrs \in Seq(Reference) /\ vrs # <<>>
    BY <2>1, SeqDef, EmptySeq
  <2>3. free_list' = free_list /\ args' = vrs /\ call' = "GetString"
        /\ free_list + Len(vrs) <= MaxFree
    BY <1>3 DEF fmi2GetString, bus
  <2> QED BY <2>2, <2>3 DEF ArgsOK
<1>4. CASE GetValue
  <2>1. CASE Len(args) = 1
    BY <1>4, <2>1 DEF GetValue, ArgsOK
  <2>2. CASE Len(args) # 1
    <3>1. /\ args \in Seq(Reference) /\ args # <<>> /\ args' = Tail(args) /\ call' = "GetString"
          /\ free_list + Len(args) <= MaxFree
      BY <1>4, <2>2 DEF GetValue, ArgsOK
    <3>2. args' \in Seq(Reference) /\ args' # <<>> /\ Len(args') = Len(args) - 1 /\ Len(args) \in Nat
      BY <2>2, <3>1, RestOfArgs
    <3>3. free_list' \in {free_list, free_list + 1} /\ free_list \in Nat
      BY <1>4 DEF GetValue, FTypeOK
    <3>4. free_list' + Len(args') <= MaxFree
      BY <3>1, <3>2, <3>3, FmuAssumption
    <3> QED BY <3>1, <3>2, <3>4 DEF ArgsOK
  <2> QED BY <2>1, <2>2
<1>5. CASE fmi2DoStep \/ StepRead \/ StepTruncate \/ StepWrite \/ StepFlush
  BY <1>5 DEF fmi2DoStep, StepRead, StepTruncate, StepWrite, StepFlush, ArgsOK
<1>6. CASE UNCHANGED fmuVars
  BY <1>6 DEF fmuVars, bus, ArgsOK
<1> QED BY <1>1, <1>2, <1>3, <1>4, <1>5, <1>6 DEF FNext, Running

\* What a read returns is appended to what was heard.
LEMMA HeardType ==
    ASSUME heard \in Seq(Entry), ret' \in [op : Op, got : Seq(Entry)], heard' = heard \o ret'.got
    PROVE  heard' \in Seq(Entry)
<1>1. ret'.got \in Seq(Entry)
  OBVIOUS
<1> QED BY <1>1

LEMMA TypesStep ==
    ASSUME CodecInv', ArgsOK, FTypeOK, [FNext]_fmuVars
    PROVE  FTypeOK'
<1>1. ASSUME NEW values, fmi2SetString(values) PROVE FTypeOK'
  <2>1. call = "none" /\ call' = "SetString" /\ heard' = heard
        /\ reset_called' \in BOOLEAN /\ free_list' \in {0, free_list}
        /\ unread' \in {FALSE, unread}
    BY <1>1 DEF fmi2SetString, FTypeOK, bus
  <2>2. 0 \in 0 .. MaxFree
    BY FmuAssumption
  <2> QED BY <2>1, <2>2 DEF FTypeOK
<1>2. CASE SetValue
  BY <1>2 DEF SetValue, FTypeOK, bus
<1>3. ASSUME NEW vrs, fmi2GetString(vrs) PROVE FTypeOK'
  BY <1>3 DEF fmi2GetString, FTypeOK, bus
<1>4. CASE GetValue
  <2>1. reset_called' \in BOOLEAN /\ heard' = heard /\ call' \in {"none", "GetString"}
        /\ free_list' \in {free_list, free_list + 1} /\ call = "GetString"
        /\ unread' \in {FALSE, unread}
    BY <1>4 DEF GetValue
  <2>2. Len(args) \in Nat /\ Len(args) # 0 /\ free_list + Len(args) <= MaxFree
    BY <2>1 DEF ArgsOK
  <2>3. free_list' \in 0 .. MaxFree
    <3>1. free_list \in 0 .. MaxFree
      BY DEF FTypeOK
    <3> QED BY <2>1, <2>2, <3>1, FmuAssumption
  <2>4. heard' = <<>>
    BY <2>1 DEF FTypeOK
  <2> QED BY <2>1, <2>3, <2>4, EmptySeq DEF FTypeOK
<1>5. CASE fmi2DoStep
  BY <1>5, EmptySeq DEF fmi2DoStep, FTypeOK, bus
<1>6. CASE StepRead
  <2>1. heard' = heard \o ret'.got /\ call' \in {"Read", "Truncate"}
        /\ UNCHANGED <<reset_called, free_list, unread>>
    BY <1>6 DEF StepRead, bus
  <2>2. ret' \in [op : Op, got : Seq(Entry)]
    BY DEF CodecInv, TypeOK
  <2>3. heard' \in Seq(Entry)
    BY <2>1, <2>2, HeardType DEF FTypeOK
  <2> QED BY <2>1, <2>3 DEF FTypeOK
<1>7. CASE StepTruncate
  BY <1>7 DEF StepTruncate, FTypeOK, bus
<1>8. CASE StepWrite
  BY <1>8 DEF StepWrite, FTypeOK, bus
<1>9. CASE StepFlush
  BY <1>9, EmptySeq DEF StepFlush, FTypeOK, bus
<1>10. CASE UNCHANGED fmuVars
  BY <1>10 DEF fmuVars, FTypeOK
<1> QED BY <1>1, <1>2, <1>3, <1>4, <1>5, <1>6, <1>7, <1>8, <1>9, <1>10 DEF FNext, Running

\* Each step of the FMU is a step of a session, or none at all.
LEMMA FmuStep ==
    ASSUME FmuInv, [FNext]_fmuVars
    PROVE  [SNext]_sessionVars /\ InStep'
<1> USE DEF FmuInv
<1>1. ASSUME NEW values, fmi2SetString(values) PROVE [SNext]_sessionVars /\ InStep'
  <2>1. phase # "drain" /\ call' = "SetString"
    BY <1>1 DEF fmi2SetString, InStep
  <2>2. CASE reset_called
    BY <1>1, <2>1, <2>2 DEF fmi2SetString, InStep, sessionVars
  <2>3. CASE ~reset_called
    BY <1>1, <2>1, <2>3 DEF fmi2SetString, InStep, SNext, STruncate, can_truncate
  <2> QED BY <2>2, <2>3
<1>2. CASE SetValue
  <2>1. phase # "drain" /\ call' \in {"none", "SetString"}
    BY <1>2 DEF SetValue, InStep
  <2>2. CASE Head(args).vr \in RxVr
    <3>1. decoded(Head(args).text) \in Wire
      BY <1>2, HeadDelivers DEF SetValue, ArgsOK
    <3> QED BY <1>2, <2>1, <2>2, <3>1 DEF SetValue, InStep, SNext, SDeliver
  <2>3. CASE Head(args).vr \notin RxVr
    BY <1>2, <2>1, <2>3 DEF SetValue, InStep, sessionVars
  <2> QED BY <2>2, <2>3
<1>3. ASSUME NEW vrs, fmi2GetString(vrs) PROVE [SNext]_sessionVars /\ InStep'
  BY <1>3 DEF fmi2GetString, InStep, sessionVars
<1>4. CASE GetValue
  <2>1. phase # "drain" /\ call' \in {"none", "GetString"}
    BY <1>4 DEF GetValue, InStep
  <2>2. CASE Head(args) \in TxVr
    <3>1. stream' = stream_seek(stream, 0, "SEEK_END")
      BY <1>4, <2>2, TxIsSeekEnd, TypeSound DEF GetValue, CodecInv
    <3>2. ncodec_seek(0, "SEEK_END") /\ phase' = "idle"
      BY <1>4, <2>2, <3>1 DEF GetValue, ncodec_seek
    <3> QED BY <2>1, <3>2 DEF InStep, SNext, SSkip
  <2>3. CASE Head(args) \notin TxVr
    BY <1>4, <2>1, <2>3 DEF GetValue, InStep, sessionVars
  <2> QED BY <2>2, <2>3
<1>5. CASE fmi2DoStep
  BY <1>5 DEF fmi2DoStep, InStep, sessionVars
<1>6. CASE StepRead
  BY <1>6 DEF StepRead, InStep, SNext, SRead, can_read
<1>7. CASE StepTruncate
  BY <1>7 DEF StepTruncate, InStep, SNext, STruncate, can_truncate
<1>8. CASE StepWrite
  <2>1. Greeting \in Id /\ own_id \in Node
    BY DEF CodecInv, TypeOK
  <2>2. SWrite
    BY <1>8, <2>1, CanWriteIsWrite DEF StepWrite, SWrite
  <2> QED BY <1>8, <2>2 DEF StepWrite, InStep, SNext
<1>9. CASE StepFlush
  BY <1>9 DEF StepFlush, InStep, SNext, SFlush, can_flush
<1>10. CASE UNCHANGED fmuVars
  BY <1>10 DEF fmuVars, InStep, sessionVars
<1> QED BY <1>1, <1>2, <1>3, <1>4, <1>5, <1>6, <1>7, <1>8, <1>9, <1>10 DEF FNext, Running

LEMMA FmuInvStep ==
    ASSUME FmuInv, [FNext]_fmuVars
    PROVE  FmuInv' /\ [SNext]_sessionVars
<1>1. [SNext]_sessionVars /\ InStep'
  BY FmuStep
<1>2. [Next]_vars
  BY <1>1, SessionIsCodec DEF sessionVars
<1>3. CodecInv'
  BY <1>2, CodecStep DEF FmuInv
<1> QED BY <1>1, <1>3, ArgsStep, TypesStep DEF FmuInv

\* The FMU is a client as CodecSession describes it.
THEOREM FmuKeepsToSession == FmuSpec => KeepsToSession
BY FmuInit, FmuInvStep, PTL DEF FmuSpec, KeepsToSession

\* What the FMU keeps beside its codec has its type; the free list holds no
\* more than the importer may make it, and what a step heard is forgotten when
\* it ends (fmi2GetString, fmi2DoStep).
THEOREM FmuTypeOK == FmuSpec => []FTypeOK
<1>1. FmuInv => FTypeOK
  BY DEF FmuInv
<1> QED BY <1>1, FmuInit, FmuInvStep, PTL DEF FmuSpec

\* Whatever the importer does, the FMU never reads through a dangling pointer.
THEOREM FmuNoDanglingVector == FmuSpec => []NoDanglingVector
BY FmuKeepsToSession, SessionNoDanglingVector, PTL DEF KeepsToSession, SessionSpec

-----------------------------------------------------------------------------
(* The reply *)

Reply == [type |-> "CanFrame", id |-> Greeting, sender |-> node_id]

\* From its truncate on a step has the stream for itself, and the builder
\* holds a frame only between its write and its flush.
Replying ==
    /\ call \in {"Write", "Flush"} => stream.len = 0 /\ stream.pos = 0
    /\ pending = IF call = "Flush" THEN <<Reply>> ELSE <<>>

FmuSessionInv == FmuInv /\ SessionInv /\ Replying /\ StepLeavesOwnMessage

\* One message written to an empty stream is alone in it.
LEMMA FirstMessage ==
    ASSUME Sound(stream, Message), stream.len = 0, stream.pos = 0, NEW m
    PROVE  LET t == stream_write(stream, <<m>>) IN t.len = 1 /\ t.buffer[0] = m
<1> DEFINE new == [i \in Slot |-> IF i \in stream.pos .. stream.pos + Len(<<m>>) - 1
                                  THEN <<m>>[i - stream.pos + 1] ELSE stream.buffer[i]]
<1>1. 0 \in Slot /\ Len(<<m>>) = 1 /\ stream_fits(stream, <<m>>)
  BY BufferLenAssumption DEF Slot, stream_fits
<1>2. new[0] = m
  BY <1>1
<1> HIDE DEF new
<1>3. stream_write(stream, <<m>>) = [buffer |-> new, pos |-> 1, len |-> 1]
  BY <1>1 DEF stream_write, new
<1> QED BY <1>2, <1>3

\* A step that does not touch the codec, or one after which the last call of
\* the codec was not a flush, keeps the promise of the last step.
LEMMA PromiseKept ==
    ASSUME StepLeavesOwnMessage, UNCHANGED sessionVars \/ ret'.op # "flush"
    PROVE  StepLeavesOwnMessage'
BY DEF StepLeavesOwnMessage, sessionVars, vars, parse, buffer, node_id

\* The truncate empties the builder, open or not.
LEMMA TruncateEmpties ==
    ASSUME CodecInv, truncate
    PROVE  /\ pending' = <<>> /\ stream'.len = 0 /\ stream'.pos = 0 /\ ret'.op = "truncate"
<1>1. pending' = <<>>
  <2>1. CASE fbs_stream_initalized
    BY <2>1 DEF truncate
  <2>2. CASE ~fbs_stream_initalized
    BY <2>2 DEF truncate, CodecInv, BuilderOpenIffFrames
  <2> QED BY <2>1, <2>2
<1> QED BY <1>1 DEF truncate, Return, stream_seek

LEMMA ReplyStep ==
    ASSUME FmuSessionInv, [FNext]_fmuVars
    PROVE  Replying' /\ StepLeavesOwnMessage'
<1> USE DEF FmuSessionInv, FmuInv
\* The steps that leave the builder and the own node alone.
<1>0. ASSUME call \notin {"Flush"}, call' \notin {"Write", "Flush"}, UNCHANGED <<pending, own_id>>
      PROVE  Replying'
  BY <1>0 DEF Replying
<1>1. ASSUME NEW values, fmi2SetString(values) PROVE Replying' /\ StepLeavesOwnMessage'
  <2>1. call = "none" /\ call' = "SetString"
    BY <1>1 DEF fmi2SetString
  <2>2. CASE reset_called
    BY <1>0, <1>1, <2>1, <2>2, PromiseKept DEF fmi2SetString, sessionVars, vars
  <2>3. CASE ~reset_called
    <3>1. truncate
      BY <1>1, <2>3 DEF fmi2SetString, can_truncate
    <3>2. pending' = <<>> /\ ret'.op # "flush"
      BY <3>1, TruncateEmpties
    <3> QED BY <2>1, <3>2, PromiseKept DEF Replying
  <2> QED BY <2>2, <2>3
<1>2. CASE SetValue
  <2>1. call = "SetString" /\ call' \in {"none", "SetString"}
    BY <1>2 DEF SetValue
  <2>2. UNCHANGED <<pending, own_id>> /\ (UNCHANGED sessionVars \/ ret'.op = "deliver")
    BY <1>2 DEF SetValue, Deliver, Return, sessionVars, vars
  <2> QED BY <1>0, <2>1, <2>2, PromiseKept
<1>3. ASSUME NEW vrs, fmi2GetString(vrs) PROVE Replying' /\ StepLeavesOwnMessage'
  BY <1>0, <1>3, PromiseKept DEF fmi2GetString, sessionVars, vars
<1>4. CASE GetValue
  <2>1. call = "GetString" /\ call' \in {"none", "GetString"}
    BY <1>4 DEF GetValue
  <2>2. UNCHANGED <<pending, own_id>> /\ (UNCHANGED sessionVars \/ ret'.op = "seek")
    BY <1>4 DEF GetValue, Return, sessionVars, vars
  <2> QED BY <1>0, <2>1, <2>2, PromiseKept
<1>5. CASE fmi2DoStep
  BY <1>0, <1>5, PromiseKept DEF fmi2DoStep, sessionVars, vars
<1>6. CASE StepRead
  <2>1. call = "Read" /\ call' \in {"Read", "Truncate"} /\ read
    BY <1>6 DEF StepRead, can_read
  <2>2. UNCHANGED <<pending, own_id>> /\ ret'.op = "read"
    <3>1. ReadOutcome /\ UNCHANGED <<own_id, pending, fbs_stream_initalized>>
      BY <2>1, ReadOutcomes DEF CodecInv
    <3>2. \A fs : Return("read", fs) => ret'.op = "read"
      BY DEF Return
    <3> QED BY <2>1, <3>1, <3>2 DEF read, ReadFromVector, ReadStuck, ReadFromStream, ReadNoVector, ReadNoMessage
  <2> QED BY <1>0, <2>1, <2>2, PromiseKept
<1>7. CASE StepTruncate
  <2>1. call' = "Write" /\ truncate
    BY <1>7 DEF StepTruncate, can_truncate
  <2>2. pending' = <<>> /\ stream'.len = 0 /\ stream'.pos = 0 /\ ret'.op # "flush"
    BY <2>1, TruncateEmpties
  <2> QED BY <2>1, <2>2, PromiseKept DEF Replying
<1>8. CASE StepWrite
  <2>1. call = "Write" /\ call' = "Flush" /\ write(Reply)
    BY <1>8 DEF StepWrite, can_write, Reply
  <2>2. stream' = stream /\ own_id' = own_id /\ ret'.op # "flush"
        /\ pending' = Append(IF fbs_stream_initalized THEN pending ELSE <<>>, Reply)
    BY <2>1 DEF write, Return
  <2>3. (IF fbs_stream_initalized THEN pending ELSE <<>>) = <<>>
    BY <2>1 DEF Replying
  <2>4. pending' = <<Reply>>
    <3>1. pending' = Append(<<>>, Reply)
      BY <2>2, <2>3
    <3>2. \A r : Append(<<>>, r) = <<r>>
      OBVIOUS
    <3> QED BY <3>1, <3>2
  <2>5. Reply' = Reply
    BY <2>2 DEF Reply, node_id
  <2>6. stream'.len = 0 /\ stream'.pos = 0
    BY <2>1, <2>2 DEF Replying
  <2> QED BY <2>1, <2>2, <2>4, <2>5, <2>6, PromiseKept DEF Replying
<1>9. CASE StepFlush
  <2>1. call = "Flush" /\ call' = "none" /\ flush /\ phase = "idle"
    BY <1>9 DEF StepFlush, can_flush, InStep
  <2>2. pending = <<Reply>> /\ stream.len = 0 /\ stream.pos = 0
    BY <2>1 DEF Replying
  <2>3. fbs_stream_initalized
    <3>1. pending # <<>>
      BY <2>2
    <3> QED BY <3>1 DEF CodecInv, BuilderOpenIffFrames
  <2>4. /\ stream' = stream_write(stream, <<OwnMessage(pending)>>)
        /\ pending' = <<>> /\ own_id' = own_id /\ UNCHANGED parse
    BY <2>1, <2>3 DEF flush
  <2>5. stream'.len = 1 /\ stream'.buffer[0] = OwnMessage(<<Reply>>)
    BY <2>2, <2>4, FirstMessage, TypeSound DEF CodecInv
  <2>6. msg_ptr' = NULL /\ vector' = NULL
    BY <2>1, <2>4 DEF SessionInv, NoDanglingVector, parse
  <2>7. Reply = [type |-> "CanFrame", id |-> Greeting, sender |-> node_id']
    BY <2>4 DEF Reply, node_id
  <2> QED BY <2>1, <2>4, <2>5, <2>6, <2>7 DEF Replying, StepLeavesOwnMessage, buffer
<1>10. CASE UNCHANGED fmuVars
  BY <1>10, PromiseKept DEF fmuVars, sessionVars, vars, Replying, Reply, node_id
<1> QED BY <1>1, <1>2, <1>3, <1>4, <1>5, <1>6, <1>7, <1>8, <1>9, <1>10 DEF FNext, Running

\* When a step has ended, and until the codec is used again, its own message
\* is alone in the stream: no received frame is sent on, whatever the importer
\* set and got before, and for every size of the buffer (fmi2DoStep).
THEOREM FmuReplies == FmuSpec => []StepLeavesOwnMessage
<1>1. FInit => FmuSessionInv
  <2> SUFFICES ASSUME FInit PROVE FmuSessionInv
    OBVIOUS
  <2>1. call = "none" /\ pending = <<>> /\ ret.op = "create"
    BY DEF FInit, SInit, Init
  <2> QED BY <2>1, FmuInit, SessionInit DEF FmuSessionInv, Replying, StepLeavesOwnMessage
<1>2. FmuSessionInv /\ [FNext]_fmuVars => FmuSessionInv'
  <2> SUFFICES ASSUME FmuSessionInv, [FNext]_fmuVars PROVE FmuSessionInv'
    OBVIOUS
  <2>1. FmuInv' /\ [SNext]_sessionVars
    BY FmuInvStep DEF FmuSessionInv
  <2> QED BY <2>1, SessionStep, ReplyStep DEF FmuSessionInv
<1>3. FmuSessionInv => StepLeavesOwnMessage
  BY DEF FmuSessionInv
<1> QED BY <1>1, <1>2, <1>3, PTL DEF FmuSpec
-----------------------------------------------------------------------------
(* What a step hears *)

Passes(node, f) == f.type # "Other" /\ ~(node # 0 /\ node = f.sender)

\* What passes the filter of node among the first n frames of l.
SeenIn(node, l, n) ==
    FlattenSeq([k \in 1 .. n |-> IF Passes(node, l[k]) THEN <<l[k]>> ELSE <<>>])

LEMMA SeenNone == ASSUME NEW node, NEW l PROVE SeenIn(node, l, 0) = <<>>
<1>1. [k \in 1 .. 0 |-> IF Passes(node, l[k]) THEN <<l[k]>> ELSE <<>>] = <<>>
  OBVIOUS
<1> QED BY <1>1, FlattenEmpty DEF SeenIn

LEMMA SeenNext ==
    ASSUME NEW node, NEW l \in Seq(Entry), NEW n \in Nat, n + 1 <= Len(l)
    PROVE  /\ SeenIn(node, l, n) \in Seq(Entry)
           /\ SeenIn(node, l, n + 1) = SeenIn(node, l, n)
                                       \o (IF Passes(node, l[n + 1]) THEN <<l[n + 1]>> ELSE <<>>)
<1> DEFINE One(k) == IF Passes(node, l[k]) THEN <<l[k]>> ELSE <<>>
           p == [k \in 1 .. n |-> One(k)]
           q == [k \in 1 .. n + 1 |-> One(k)]
<1>1. \A k \in 1 .. n + 1 : One(k) \in Seq(Entry)
  <2>1. \A k \in 1 .. n + 1 : k \in 1 .. Len(l)
    OBVIOUS
  <2>2. \A k \in 1 .. n + 1 : l[k] \in Entry
    BY <2>1, ElementOfSeq
  <2>3. \A k \in 1 .. n + 1 : <<l[k]>> \in Seq(Entry)
    BY <2>2, SingletonSeq
  <2> QED BY <2>3, EmptySeq
<1>2. n + 1 \in 1 .. n + 1
  OBVIOUS
<1>3. p = [k \in 1 .. n |-> One(k)] /\ q = [k \in 1 .. n + 1 |-> One(k)]
  OBVIOUS
<1>4. SeenIn(node, l, n) = FlattenSeq(p) /\ SeenIn(node, l, n + 1) = FlattenSeq(q)
  BY DEF SeenIn
<1>5. q[n + 1] = IF Passes(node, l[n + 1]) THEN <<l[n + 1]>> ELSE <<>>
  BY <1>2
<1> HIDE DEF One
<1>6. p \in [1 .. n -> Seq(Entry)] /\ q \in [1 .. n + 1 -> Seq(Entry)]
      /\ \A k \in 1 .. n : q[k] = p[k]
  BY <1>1
<1> HIDE DEF p, q
<1>7. \A x \in [1 .. n -> Seq(Entry)], y \in [1 .. n + 1 -> Seq(Entry)] :
         (\A k \in 1 .. n : y[k] = x[k])
         => FlattenSeq(x) \in Seq(Entry) /\ FlattenSeq(y) = FlattenSeq(x) \o y[n + 1]
  BY FlattenNext, Zenon
<1>8. FlattenSeq(p) \in Seq(Entry) /\ FlattenSeq(q) = FlattenSeq(p) \o q[n + 1]
  BY <1>6, <1>7
<1> QED BY <1>4, <1>5, <1>8

\* Frames that do not pass add nothing.
LEMMA SeenQuiet ==
    ASSUME NEW node, NEW l \in Seq(Entry), NEW m \in Nat, NEW n \in Nat, m <= n, n <= Len(l),
           \A p \in m + 1 .. n : ~Passes(node, l[p])
    PROVE  SeenIn(node, l, n) = SeenIn(node, l, m)
<1> DEFINE B == {d \in Nat : m + d <= n => SeenIn(node, l, m + d) = SeenIn(node, l, m)}
<1>1. 0 \in B
  OBVIOUS
<1>2. ASSUME NEW d \in Nat, d \in B PROVE d + 1 \in B
  <2> SUFFICES ASSUME m + (d + 1) <= n
               PROVE  SeenIn(node, l, m + (d + 1)) = SeenIn(node, l, m)
    OBVIOUS
  <2> DEFINE c == m + d
  <2>1. c \in Nat /\ m + (d + 1) = c + 1 /\ c <= n /\ c + 1 \in m + 1 .. n /\ Len(l) \in Nat
    OBVIOUS
  <2>2. SeenIn(node, l, c) = SeenIn(node, l, m)
    BY <1>2, <2>1
  <2> HIDE DEF c
  <2>3. ~Passes(node, l[c + 1]) /\ c + 1 <= Len(l)
    BY <2>1
  <2>4. SeenIn(node, l, c) \in Seq(Entry) /\ SeenIn(node, l, c + 1) = SeenIn(node, l, c) \o <<>>
    BY <2>1, <2>3, SeenNext
  <2>5. SeenIn(node, l, c) \o <<>> = SeenIn(node, l, c)
    BY <2>4, ConcatEmptySeq
  <2> QED BY <2>1, <2>2, <2>4, <2>5
<1> HIDE DEF B
<1>3. n - m \in B
  BY <1>1, <1>2, Induction
<1>4. m + (n - m) = n
  OBVIOUS
<1> QED BY <1>3, <1>4 DEF B

LEMMA SeenType ==
    ASSUME NEW node, NEW l \in Seq(Entry), NEW n \in 0 .. Len(l)
    PROVE  SeenIn(node, l, n) \in Seq(Entry)
<1>1. CASE n = 0
  BY <1>1, SeenNone, EmptySeq
<1>2. CASE n # 0
  <2> DEFINE c == n - 1
  <2>1. c \in Nat /\ c + 1 = n /\ n \in 1 .. Len(l)
    BY <1>2
  <2> HIDE DEF c
  <2>2. l[n] \in Entry
    BY <2>1, ElementOfSeq
  <2> DEFINE one == IF Passes(node, l[n]) THEN <<l[n]>> ELSE <<>>
  <2>3. one \in Seq(Entry)
    BY <2>2, SingletonSeq, EmptySeq
  <2>4. c + 1 <= Len(l)
    BY <2>1
  <2>5. SeenIn(node, l, c) \in Seq(Entry) /\ SeenIn(node, l, n) = SeenIn(node, l, c) \o one
    BY <2>1, <2>4, SeenNext
  <2> HIDE DEF one
  <2> QED BY <2>3, <2>5, ConcatProperties
<1> QED BY <1>1, <1>2

\* The cursor is in the log.
LEMMA CursorInLog ==
    ASSUME SessionInv, Placed
    PROVE  CursorNow \in 0 .. Len(LogNow)
<1>1. /\ buffer \in [Slot -> Message] /\ stream.len \in 0 .. BUFFER_LEN
      /\ LogNow \in Seq(Entry) /\ Len(LogNow) \in Nat
  BY SessionFacts
<1>2. CASE phase = "drain"
  <2> DEFINE at == Len(FramesIn(buffer, vector))
             fs == FramesOf(buffer[vector])
  <2>1. vector \in 0 .. stream.len - 1 /\ vector # NULL /\ CursorNow = at + vector_idx
    BY <1>2, SessionFacts DEF CursorNow
  <2>2. FramesAt(buffer, vector, stream.len)
    BY <1>1, <2>1, FramesPlaced
  <2>3. at + Len(fs) <= Len(LogNow)
    BY <2>2 DEF FramesAt, LogNow
  <2>4. vector \in 0 .. BUFFER_LEN
    BY <1>1, <2>1, BufferLenAssumption
  <2>5. fs \in Seq(Entry) /\ Len(fs) = vector_len /\ at \in Nat
    <3>1. fs \in Deref(Cursor)
      BY <1>2, SessionFacts
    <3>2. Cursor.at = vector /\ Cursor.len = vector_len
      BY <1>2, SessionFacts
    <3>3. Cursor.at # NULL
      BY <2>1, <3>2
    <3>4. at \in Nat
      BY <1>1, <2>4, FramesInType
    <3> HIDE DEF fs, at
    <3> QED BY <3>1, <3>2, <3>3, <3>4, DerefType DEF SessionInv, CodecInv
  <2>6. vector_idx \in Nat /\ vector_len \in Nat /\ vector_idx <= vector_len
    BY DEF SessionInv, CodecInv, TypeOK
  <2> HIDE DEF at, fs
  <2> QED BY <1>1, <2>1, <2>3, <2>5, <2>6
<1>3. CASE phase = "idle"
  BY <1>1, <1>3, SessionFacts
<1>4. CASE phase = "rx"
  <2>1. FramesIn(buffer, 0) = <<>> /\ Len(<<>>) = 0
    BY FramesInNone
  <2>2. stream.pos = 0 /\ vector = NULL
    BY <1>4, SessionFacts DEF Placed
  <2>3. CursorNow = 0
    BY <2>1, <2>2 DEF CursorNow
  <2> QED BY <1>1, <2>3
<1> QED BY <1>2, <1>3, <1>4 DEF SessionInv, Phase

\* What a read does, in terms of the log: it returns the next frame that
\* passes, or there is none.
LEMMA ReadOfLog ==
    ASSUME SessionInv, Placed, SRead
    PROVE  /\ LogNow' = LogNow /\ own_id' = own_id
           /\ \/ \E k \in CursorNow + 1 .. Len(LogNow) :
                    /\ Passes(own_id, LogNow[k])
                    /\ \A p \in CursorNow + 1 .. k - 1 : ~Passes(own_id, LogNow[p])
                    /\ CursorNow' = k /\ ret'.got = <<LogNow[k]>>
              \/ /\ \A p \in CursorNow + 1 .. Len(LogNow) : ~Passes(own_id, LogNow[p])
                 /\ CursorNow' = Len(LogNow) /\ ret'.got = <<>>
<1>1. Log!Read
  BY ReadImplementsLog
<1>2. \A f : Log!MayRead(f) <=> Passes(own_id, f)
  BY DEF Log!MayRead, Passes
<1>3. Log!Unread = {k \in CursorNow + 1 .. Len(LogNow) : Passes(own_id, LogNow[k])}
  BY <1>2, LogMapped DEF Log!Unread
<1>4. LogNow' = LogNow /\ own_id' = own_id
  BY <1>1, LogMapped, LogMappedNext DEF Log!Read, Log!Answer
<1>5. CASE Log!Unread = {} /\ CursorNow' = Len(LogNow) /\ ret'.got = <<>>
  BY <1>3, <1>4, <1>5
<1>6. ASSUME NEW k \in Log!Unread, \A other \in Log!Unread : k <= other,
             CursorNow' = k, ret'.got = <<LogNow[k]>>
      PROVE  \E q \in CursorNow + 1 .. Len(LogNow) :
                 /\ Passes(own_id, LogNow[q])
                 /\ \A p \in CursorNow + 1 .. q - 1 : ~Passes(own_id, LogNow[p])
                 /\ CursorNow' = q /\ ret'.got = <<LogNow[q]>>
  <2>1. k \in CursorNow + 1 .. Len(LogNow) /\ Passes(own_id, LogNow[k])
    BY <1>3
  <2>2. CursorNow \in Nat /\ Len(LogNow) \in Nat
    BY CursorInLog, SessionFacts
  <2>3. ASSUME NEW p \in CursorNow + 1 .. k - 1 PROVE ~Passes(own_id, LogNow[p])
    <3>1. p \in CursorNow + 1 .. Len(LogNow) /\ ~(k <= p)
      BY <2>1, <2>2
    <3>2. p \notin Log!Unread
      BY <1>6, <3>1
    <3> QED BY <1>3, <3>1, <3>2
  <2> QED BY <1>6, <2>1, <2>3
<1>7. \/ \E k \in Log!Unread : /\ \A other \in Log!Unread : k <= other
                               /\ CursorNow' = k /\ ret'.got = <<LogNow[k]>>
      \/ Log!Unread = {} /\ CursorNow' = Len(LogNow) /\ ret'.got = <<>>
  BY <1>1, LogMapped, LogMappedNext DEF Log!Read, Log!Answer
<1> QED BY <1>4, <1>5, <1>6, <1>7

\* Outside a step the stream is rewound when a value is unread.  While a step
\* reads it has heard what it may of the log up to its cursor, if so, and else
\* nothing.
HeardSoFar ==
    /\ call \in {"none", "SetString", "GetString"} => (unread <=> phase = "rx")
    /\ call = "Read" => IF unread THEN heard = SeenIn(own_id, LogNow, CursorNow)
                        ELSE heard = <<>> /\ phase = "idle"

HearInv == FmuInv /\ SessionInv /\ Placed /\ HeardSoFar /\ HearsWhatWasSet

LEMMA SeenIsAll == Seen = SeenIn(own_id, LogNow, Len(LogNow))
<1>1. FramesBelow(stream.len) = LogNow
  BY LogMapped
<1>2. \A f : Visible(f) <=> Passes(own_id, f)
  BY DEF Visible, Passes
<1> QED BY <1>1, <1>2 DEF Seen, SeenIn

LEMMA HearRead ==
    ASSUME HearInv, StepRead
    PROVE  HeardSoFar' /\ HearsWhatWasSet'
<1>1. SRead /\ call = "Read" /\ heard' = heard \o ret'.got
      /\ phase' = (IF ret'.got = <<>> THEN "idle" ELSE "drain")
      /\ call' = (IF ret'.got = <<>> THEN "Truncate" ELSE "Read")
      /\ unread' = unread
  BY DEF StepRead, can_read, SRead
<1>2. SessionInv /\ Placed /\ heard \in Seq(Entry)
  BY DEF HearInv, FmuInv, FTypeOK
<1>3. CursorNow \in 0 .. Len(LogNow) /\ LogNow \in Seq(Entry) /\ Len(LogNow) \in Nat
  BY <1>2, CursorInLog, SessionFacts
<1>4. LogNow' = LogNow /\ own_id' = own_id
  BY <1>1, <1>2, ReadOfLog
<1>5. (Seen = SeenIn(own_id, LogNow, Len(LogNow)))'
  BY SeenIsAll, PTL
<1>6. Seen' = SeenIn(own_id, LogNow, Len(LogNow))
  BY <1>4, <1>5
<1>7. ASSUME NEW k \in CursorNow + 1 .. Len(LogNow), Passes(own_id, LogNow[k]),
             \A p \in CursorNow + 1 .. k - 1 : ~Passes(own_id, LogNow[p]),
             CursorNow' = k, ret'.got = <<LogNow[k]>>
      PROVE  HeardSoFar' /\ HearsWhatWasSet'
  <2>1. call' = "Read"
    BY <1>1, <1>7
  <2>2. phase # "idle"
    <3>1. CursorNow # Len(LogNow)
      BY <1>3
    <3> QED BY <1>2, <3>1, SessionFacts
  <2>3. unread /\ heard = SeenIn(own_id, LogNow, CursorNow)
    BY <1>1, <2>2 DEF HearInv, HeardSoFar
  <2> DEFINE n == k - 1
  <2>4. n \in Nat /\ n + 1 = k /\ CursorNow <= n /\ n <= Len(LogNow) /\ n + 1 <= Len(LogNow)
        /\ CursorNow \in Nat
    BY <1>3
  <2>5. \A p \in CursorNow + 1 .. n : ~Passes(own_id, LogNow[p])
    BY <1>7
  <2> HIDE DEF n
  <2>6. SeenIn(own_id, LogNow, n) = SeenIn(own_id, LogNow, CursorNow)
    BY <1>3, <2>4, <2>5, SeenQuiet
  <2>7. SeenIn(own_id, LogNow, k) = SeenIn(own_id, LogNow, n) \o <<LogNow[k]>>
    BY <1>3, <1>7, <2>4, SeenNext
  <2>8. heard' = SeenIn(own_id', LogNow', CursorNow')
    BY <1>1, <1>4, <1>7, <2>3, <2>6, <2>7
  <2> QED BY <1>1, <2>1, <2>3, <2>8 DEF HeardSoFar, HearsWhatWasSet
<1>8. CASE /\ \A p \in CursorNow + 1 .. Len(LogNow) : ~Passes(own_id, LogNow[p])
           /\ CursorNow' = Len(LogNow) /\ ret'.got = <<>>
  <2>1. call' = "Truncate" /\ heard' = heard
    <3>1. heard \o <<>> = heard
      BY <1>2, ConcatEmptySeq
    <3> QED BY <1>1, <1>8, <3>1
  <2>2. CursorNow \in Nat /\ CursorNow <= Len(LogNow)
    BY <1>3
  <2>3. SeenIn(own_id, LogNow, Len(LogNow)) = SeenIn(own_id, LogNow, CursorNow)
    BY <1>3, <1>8, <2>2, SeenQuiet
  <2>4. heard' = IF unread THEN Seen' ELSE <<>>
    BY <1>1, <1>6, <2>1, <2>3 DEF HearInv, HeardSoFar
  <2> QED BY <1>1, <2>1, <2>4 DEF HeardSoFar, HearsWhatWasSet
<1> QED BY <1>1, <1>2, <1>7, <1>8, ReadOfLog

LEMMA HearStep ==
    ASSUME HearInv, [FNext]_fmuVars
    PROVE  HeardSoFar' /\ HearsWhatWasSet'
<1>0. phase \in {"idle", "rx", "drain"} /\ unread \in BOOLEAN
  BY DEF HearInv, FmuInv, FTypeOK, SessionInv, Phase
\* Outside a step only the rewinding has to be followed.
<1>1. ASSUME call' \in {"none", "SetString", "GetString"}, unread' <=> phase' = "rx"
      PROVE  HeardSoFar' /\ HearsWhatWasSet'
  BY <1>1 DEF HeardSoFar, HearsWhatWasSet
<1>2. ASSUME NEW values, fmi2SetString(values) PROVE HeardSoFar' /\ HearsWhatWasSet'
  <2>1. call = "none" /\ call' = "SetString" /\ (unread <=> phase = "rx")
    BY <1>2 DEF fmi2SetString, HearInv, HeardSoFar
  <2>2. CASE reset_called
    <3>1. unread' = unread /\ phase' = phase
      BY <1>2, <2>2 DEF fmi2SetString, sessionVars
    <3> QED BY <1>1, <2>1, <3>1
  <2>3. CASE ~reset_called
    <3>1. unread' = FALSE /\ phase' = "idle"
      BY <1>2, <2>3 DEF fmi2SetString
    <3> QED BY <1>1, <2>1, <3>1
  <2> QED BY <2>2, <2>3
<1>3. ASSUME NEW vrs, fmi2GetString(vrs) PROVE HeardSoFar' /\ HearsWhatWasSet'
  <2>1. call = "none" /\ call' = "GetString" /\ (unread <=> phase = "rx")
    BY <1>3 DEF fmi2GetString, HearInv, HeardSoFar
  <2>2. unread' = unread /\ phase' = phase
    BY <1>3 DEF fmi2GetString, sessionVars
  <2> QED BY <1>1, <2>1, <2>2
<1>4. CASE SetValue
  <2>1. call = "SetString" /\ call' \in {"none", "SetString"} /\ (unread <=> phase = "rx")
    BY <1>4 DEF SetValue, HearInv, HeardSoFar
  <2>2. CASE Head(args).vr \in RxVr
    <3>1. unread' = TRUE /\ phase' = "rx"
      BY <1>4, <2>2 DEF SetValue
    <3> QED BY <1>1, <2>1, <3>1
  <2>3. CASE Head(args).vr \notin RxVr
    <3>1. unread' = unread /\ phase' = phase
      BY <1>4, <2>3 DEF SetValue, sessionVars
    <3> QED BY <1>1, <2>1, <3>1
  <2> QED BY <2>2, <2>3
<1>5. CASE GetValue
  <2>1. call = "GetString" /\ call' \in {"none", "GetString"} /\ (unread <=> phase = "rx")
    BY <1>5 DEF GetValue, HearInv, HeardSoFar
  <2>2. CASE Head(args) \in TxVr
    <3>1. unread' = FALSE /\ phase' = "idle"
      BY <1>5, <2>2 DEF GetValue
    <3> QED BY <1>1, <2>1, <3>1
  <2>3. CASE Head(args) \notin TxVr
    <3>1. unread' = unread /\ phase' = phase
      BY <1>5, <2>3 DEF GetValue, sessionVars
    <3> QED BY <1>1, <2>1, <3>1
  <2> QED BY <2>2, <2>3
<1>6. CASE fmi2DoStep
  <2>1. call = "none" /\ call' = "Read" /\ heard' = <<>> /\ UNCHANGED <<sessionVars, unread>>
    BY <1>6 DEF fmi2DoStep
  <2>2. /\ phase \in {"idle", "rx"} /\ phase' = phase
        /\ unread' = unread /\ (unread <=> phase = "rx")
    BY <2>1, <1>0 DEF HearInv, FmuInv, InStep, HeardSoFar, sessionVars
  <2>3. CASE phase = "idle"
    <3>1. ~unread' /\ phase' = "idle"
      BY <2>2, <2>3
    <3> QED BY <2>1, <3>1 DEF HeardSoFar, HearsWhatWasSet
  <2>4. CASE phase = "rx"
    <3>1. FramesIn(buffer, 0) = <<>> /\ Len(<<>>) = 0
      BY FramesInNone
    <3>2. stream.pos = 0 /\ vector = NULL
      BY <2>4, SessionFacts DEF HearInv, Placed
    <3>3. CursorNow = 0
      BY <3>1, <3>2 DEF CursorNow
    <3>4. CursorNow' = CursorNow
      BY <2>1 DEF sessionVars, vars, parse, CursorNow, buffer
    <3>5. heard' = SeenIn(own_id', LogNow', CursorNow')
      BY <2>1, <3>3, <3>4, SeenNone
    <3>6. unread'
      BY <2>2, <2>4
    <3> QED BY <2>1, <3>5, <3>6 DEF HeardSoFar, HearsWhatWasSet
  <2> QED BY <2>2, <2>3, <2>4
<1>7. CASE StepRead
  BY <1>7, HearRead
<1>8. CASE StepTruncate
  BY <1>8 DEF StepTruncate, HeardSoFar, HearsWhatWasSet
<1>9. CASE StepWrite
  BY <1>9 DEF StepWrite, HeardSoFar, HearsWhatWasSet
<1>10. CASE StepFlush
  <2>1. call' = "none" /\ phase' = "idle" /\ unread' = FALSE
    BY <1>10 DEF StepFlush
  <2> QED BY <1>1, <2>1
<1>11. CASE UNCHANGED fmuVars
  <2>1. UNCHANGED <<call, heard, unread, stream, phase, parse, own_id>>
    BY <1>11 DEF fmuVars, sessionVars, vars
  <2>2. LogNow' = LogNow /\ CursorNow' = CursorNow
    BY <2>1 DEF LogNow, CursorNow, buffer, parse
  <2>3. (Seen = SeenIn(own_id, LogNow, Len(LogNow)))'
    BY SeenIsAll, PTL
  <2>4. Seen' = Seen
    BY <2>1, <2>2, <2>3, SeenIsAll
  <2> QED BY <2>1, <2>2, <2>4 DEF HearInv, HeardSoFar, HearsWhatWasSet
<1> QED BY <1>2, <1>3, <1>4, <1>5, <1>6, <1>7, <1>8, <1>9, <1>10, <1>11 DEF FNext, Running

\* When the read loop of a step comes to -ENOMSG, the FMU has heard each frame
\* of its stream that passes the filter, once and in order, if a value was
\* received that no Get has passed over since, and none if not; for every
\* stream and every order of the importer's calls (fmi2DoStep).
THEOREM FmuHears == FmuSpec => []HearsWhatWasSet
<1>1. FInit => HearInv
  <2> SUFFICES ASSUME FInit PROVE HearInv
    OBVIOUS
  <2>1. FmuInv /\ SessionInv /\ call = "none" /\ unread = FALSE /\ phase = "idle"
    BY FmuInit, SessionInit DEF FInit, SInit
  <2>2. Placed
    BY DEF FInit, SInit, Init, stream_create, Placed
  <2> QED BY <2>1, <2>2 DEF HearInv, HeardSoFar, HearsWhatWasSet
<1>2. HearInv /\ [FNext]_fmuVars => HearInv'
  <2> SUFFICES ASSUME HearInv, [FNext]_fmuVars PROVE HearInv'
    OBVIOUS
  <2>1. FmuInv' /\ [SNext]_sessionVars
    BY FmuInvStep DEF HearInv
  <2>2. SessionInv' /\ Placed'
    BY <2>1, SessionStep, PlacedStep DEF HearInv
  <2> QED BY <2>1, <2>2, HearStep DEF HearInv
<1>3. HearInv => HearsWhatWasSet
  BY DEF HearInv
<1> QED BY <1>1, <1>2, <1>3, PTL DEF FmuSpec
=============================================================================
