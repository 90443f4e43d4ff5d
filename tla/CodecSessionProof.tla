-------------------------- MODULE CodecSessionProof --------------------------
(***************************************************************************)
(* Proofs about the codecs, for every buffer size, node width, bound of    *)
(* the builder and set of messages on the wire: first under any client,    *)
(* then under one that keeps to the documented call discipline, where no   *)
(* read goes through a pointer into replaced or truncated content.         *)
(*                                                                         *)
(* CodecInv is the inductive invariant of the codec: TypeOK needs          *)
(* VectorOfMessage to know that a vector in hand is dereferenced inside    *)
(* the buffer, and EnomsgIsStable needs AfterEnomsg, the states -ENOMSG    *)
(* leaves behind.  SessionInv strengthens NoDanglingVector by it and by    *)
(* the fact that every own message in the buffer has a vector: the drain   *)
(* would otherwise end in a message without one, which leaves msg_ptr      *)
(* behind.                                                                 *)
(*                                                                         *)
(* SessionIsLog maps the session to FrameLog: the log is the frames of the *)
(* messages below the length (LogNow), the cursor counts those of the      *)
(* messages behind the position and vector_idx of the message in hand      *)
(* (CursorNow).  Placed says where the position is while a message is in   *)
(* hand; NothingUntil that a read which moves the cursor has passed only   *)
(* frames that it may not return.                                          *)
(***************************************************************************)
EXTENDS CodecSession, BufferStreamProof, SequenceTheorems

USE BufferLenAssumption, CodecAssumption, WireAssumption, SessionAssumption

\* After -ENOMSG the stream is consumed and there is no vector in hand: the
\* parse state is clear or holds a message without a vector.
AfterEnomsg ==
    ret.op = "read" /\ ret.got = <<>> =>
        /\ vector = NULL /\ stream.pos = stream.len
        /\ msg_ptr # NULL => ~buffer[msg_ptr].has_frames

CodecInv == TypeOK /\ BuilderOpenIffFrames /\ VectorOfMessage /\ AfterEnomsg

-----------------------------------------------------------------------------
(* Types of the parts *)

LEMMA TypeSound == TypeOK => Sound(stream, Message)
BY DEF TypeOK, Sound

\* A slot of the buffer holds a message, whose frames are a sequence.
LEMMA SlotMessage ==
    ASSUME TypeOK, NEW i \in Slot
    PROVE  /\ buffer[i] \in Message /\ buffer[i].has_frames \in BOOLEAN
           /\ buffer[i].frames \in Seq(Entry) /\ Len(buffer[i].frames) \in Nat
<1>1. buffer[i] \in Message
  BY DEF TypeOK, Stream, buffer
<1>2. buffer[i].frames \in Seq(Entry) /\ buffer[i].has_frames \in BOOLEAN
  BY <1>1 DEF Message
<1> QED BY <1>1, <1>2, LenProperties

LEMMA OwnMessageType == \A fs \in Seq(Entry) : OwnMessage(fs) \in Message
BY DEF OwnMessage, Message

LEMMA SingletonSeq == \A S : \A x \in S : <<x>> \in Seq(S)
OBVIOUS

\* The cursor is a place in a message of the buffer, or nowhere.
LEMMA CursorType ==
    ASSUME TypeOK
    PROVE  /\ Cursor.at \in Slot \cup {NULL}
           /\ Cursor.idx \in Nat /\ Cursor.len \in Nat
           /\ Cursor.at = NULL => vector = NULL
           /\ \/ Cursor.at = vector
              \/ vector = NULL /\ Cursor.at = msg_ptr /\ msg_ptr # NULL
<1>1. CASE msg_ptr # NULL /\ vector = NULL /\ buffer[msg_ptr].has_frames
  <2>1. Cursor = [at |-> msg_ptr, idx |-> 0, len |-> Len(buffer[msg_ptr].frames)]
    BY <1>1 DEF Cursor
  <2>2. msg_ptr \in Slot
    BY <1>1 DEF TypeOK
  <2> QED BY <1>1, <2>1, <2>2, SlotMessage
<1>2. CASE ~(msg_ptr # NULL /\ vector = NULL /\ buffer[msg_ptr].has_frames)
  <2>1. Cursor = [at |-> vector, idx |-> vector_idx, len |-> vector_len]
    BY <1>2 DEF Cursor
  <2> QED BY <2>1 DEF TypeOK
<1> QED BY <1>1, <1>2

\* What the cached pointers dereference to has the cached length, stale or not.
LEMMA DerefType ==
    ASSUME TypeOK, NEW fs \in Deref(Cursor)
    PROVE  /\ Cursor.at = NULL => fs = <<>>
           /\ Cursor.at # NULL => fs \in Seq(Entry) /\ Len(fs) = Cursor.len
<1>1. CASE Cursor.at = NULL
  BY <1>1 DEF Deref
<1>2. CASE Cursor.at # NULL /\ Intact(Cursor)
  <2>1. fs = buffer[Cursor.at].frames /\ Cursor.at \in Slot
    BY <1>2, CursorType DEF Deref
  <2> QED BY <1>2, <2>1, SlotMessage DEF Intact
<1>3. CASE Cursor.at # NULL /\ ~Intact(Cursor)
  <2>1. fs \in [1 .. Cursor.len -> Entry] /\ Cursor.len \in Nat
    BY <1>3, CursorType DEF Deref
  <2>2. fs \in Seq(Entry)
    BY <2>1, SeqDef
  <2> QED BY <1>3, <2>1, <2>2, LenProperties
<1> QED BY <1>1, <1>2, <1>3

LEMMA AtEndSound ==
    ASSUME TypeOK
    PROVE  /\ Sound(AtEnd, Message) /\ AtEnd.buffer = buffer
           /\ AtEnd.len = stream.len /\ AtEnd.pos = stream.len
<1>1. Sound(stream, Message)
  BY TypeSound
<1>2. AtEnd = [stream EXCEPT !.pos = stream.len]
  BY DEF AtEnd, stream_seek
<1>3. AtEnd.len = stream.len /\ AtEnd.pos = stream.len
  BY <1>1, <1>2 DEF Sound, Stream
<1> QED BY <1>1, <1>3, SeekSound DEF AtEnd, buffer

-----------------------------------------------------------------------------
(* read *)

ReadOutcome ==
    /\ Sound(stream', Message) /\ stream'.buffer = buffer /\ stream'.len = stream.len
    /\ msg_ptr' \in Slot \cup {NULL} /\ vector' \in Slot \cup {NULL}
    /\ vector_idx' \in Nat /\ vector_len' \in Nat /\ vector_idx' <= vector_len'
    /\ ret' \in [op : Op, got : Seq(Entry)]
    /\ vector' # NULL => msg_ptr' = vector'
    /\ ret'.got = <<>> => /\ vector' = NULL /\ stream'.pos = stream'.len
                          /\ msg_ptr' # NULL => ~buffer[msg_ptr'].has_frames

\* A read that returns the k-th frame of fs reports one frame.
LEMMA FrameReturned ==
    ASSUME NEW fs \in Seq(Entry), NEW k \in 1 .. Len(fs), Return("read", <<fs[k]>>)
    PROVE  ret' \in [op : Op, got : Seq(Entry)] /\ ret'.got # <<>>
<1>1. fs[k] \in Entry
  BY ElementOfSeq
<1>2. ret' = [op |-> "read", got |-> <<fs[k]>>] /\ <<fs[k]>> \in Seq(Entry)
  BY <1>1, SingletonSeq DEF Return
<1> QED BY <1>2 DEF Op

LEMMA NothingReturned ==
    ASSUME Return("read", <<>>)
    PROVE  ret' \in [op : Op, got : Seq(Entry)] /\ ret'.got = <<>>
BY EmptySeq DEF Return, Op

LEMMA FromVectorOutcome ==
    ASSUME TypeOK, VectorOfMessage, NEW fs \in Deref(Cursor),
           Hits(fs, Cursor.idx) # {}, ReadFromVector(fs)
    PROVE  ReadOutcome
<1>1. Cursor.at # NULL
  <2>1. Hits(<<>>, Cursor.idx) = {}
    BY CursorType DEF Hits
  <2> QED BY <2>1, DerefType
<1>2. fs \in Seq(Entry) /\ Len(fs) = Cursor.len /\ Cursor.idx \in Nat /\ Len(fs) \in Nat
  BY <1>1, DerefType, CursorType
<1>3. PICK k \in Hits(fs, Cursor.idx) : vector_idx' = k /\ Return("read", <<fs[k]>>)
  BY DEF ReadFromVector
<1>4. k \in 1 .. Len(fs)
  BY <1>2, <1>3 DEF Hits
<1>5. ret' \in [op : Op, got : Seq(Entry)] /\ ret'.got # <<>>
  BY <1>2, <1>3, <1>4, FrameReturned
<1>6. stream' = stream /\ msg_ptr' = msg_ptr /\ vector' = Cursor.at /\ vector_len' = Cursor.len
  BY DEF ReadFromVector
<1>7. vector_idx' \in Nat /\ vector_len' \in Nat /\ vector_idx' <= vector_len'
  BY <1>2, <1>3, <1>4, <1>6
<1>8. msg_ptr' = vector'
  BY <1>1, <1>6, CursorType DEF VectorOfMessage
<1>9. msg_ptr' \in Slot \cup {NULL} /\ vector' \in Slot \cup {NULL}
  BY <1>6, CursorType DEF TypeOK
<1> QED BY <1>5, <1>6, <1>7, <1>8, <1>9, TypeSound DEF ReadOutcome, buffer

LEMMA FromStreamOutcome ==
    ASSUME TypeOK, NEW i \in Stops, ReadFromStream(i)
    PROVE  ReadOutcome
<1>1. Sound(stream, Message)
  BY TypeSound
<1>2. i \in Slot /\ i + 1 \in 0 .. BUFFER_LEN /\ i + 1 <= stream.len
  BY <1>1 DEF Stops, Reachable, Sound, Stream, Slot
<1>3. PICK k \in Hits(buffer[i].frames, 0) :
          vector_idx' = k /\ Return("read", <<buffer[i].frames[k]>>)
  BY DEF ReadFromStream
<1>4. buffer[i].frames \in Seq(Entry) /\ Len(buffer[i].frames) \in Nat
  BY <1>2, SlotMessage
<1>5. k \in 1 .. Len(buffer[i].frames)
  BY <1>3, <1>4 DEF Hits
<1>6. ret' \in [op : Op, got : Seq(Entry)] /\ ret'.got # <<>>
  BY <1>3, <1>4, <1>5, FrameReturned
<1>7. msg_ptr' = i /\ vector' = i /\ vector_len' = Len(buffer[i].frames)
      /\ stream' = [stream EXCEPT !.pos = i + 1]
  BY DEF ReadFromStream
<1>8. Sound(stream', Message) /\ stream'.buffer = buffer
  BY <1>1, <1>2, <1>7, MoveSound DEF buffer
<1>9. stream'.len = stream.len
  BY <1>1, <1>7 DEF Sound, Stream
<1>10. vector_idx' \in Nat /\ vector_len' \in Nat /\ vector_idx' <= vector_len'
  BY <1>3, <1>4, <1>5, <1>7
<1> QED BY <1>2, <1>6, <1>7, <1>8, <1>9, <1>10 DEF ReadOutcome

\* The three ways to -ENOMSG.
LEMMA EnomsgOutcome ==
    ASSUME TypeOK, VectorOfMessage,
           \/ ReadStuck
           \/ ReadNoMessage
           \/ \E i \in Stops : ReadNoVector(i)
    PROVE  ReadOutcome
<1>1. Return("read", <<>>) /\ stream' = AtEnd
  BY DEF ReadStuck, ReadNoMessage, ReadNoVector
<1>2. /\ Sound(stream', Message) /\ stream'.buffer = buffer
      /\ stream'.len = stream.len /\ stream'.pos = stream'.len
      /\ ret' \in [op : Op, got : Seq(Entry)] /\ ret'.got = <<>>
  BY <1>1, AtEndSound, NothingReturned
<1>3. CASE ReadStuck
  <2>1. vector = NULL
    BY <1>3, CursorType DEF ReadStuck
  <2>2. ~buffer[msg_ptr].has_frames
    <3>1. CASE buffer[msg_ptr].has_frames
      <4>1. Cursor.at = msg_ptr
        BY <1>3, <2>1, <3>1 DEF Cursor, ReadStuck
      <4> QED BY <1>3, <4>1 DEF ReadStuck
    <3> QED BY <3>1
  <2>3. UNCHANGED <<msg_ptr, vector, vector_idx, vector_len>>
    BY <1>3 DEF ReadStuck, parse
  <2> QED BY <1>2, <2>1, <2>2, <2>3 DEF ReadOutcome, TypeOK
<1>4. CASE ReadNoMessage
  BY <1>2, <1>4 DEF ReadOutcome, ReadNoMessage
<1>5. ASSUME NEW i \in Stops, ReadNoVector(i) PROVE ReadOutcome
  <2>1. i \in Slot
    BY TypeSound DEF Stops, Reachable, Sound, Stream, Slot
  <2> QED BY <1>2, <1>5, <2>1 DEF ReadOutcome, ReadNoVector
<1> QED BY <1>3, <1>4, <1>5

LEMMA ReadOutcomes ==
    ASSUME TypeOK, VectorOfMessage, read
    PROVE  ReadOutcome /\ UNCHANGED <<own_id, pending, fbs_stream_initalized>> /\ ret'.op = "read"
<1>1. PICK fs \in Deref(Cursor) :
          IF Hits(fs, Cursor.idx) # {}
          THEN ReadFromVector(fs)
          ELSE \/ ReadStuck
               \/ \E i \in Stops : ReadFromStream(i) \/ ReadNoVector(i)
               \/ Stops = {} /\ ReadNoMessage
  BY DEF read
<1>2. ReadOutcome
  <2>1. CASE Hits(fs, Cursor.idx) # {}
    BY <1>1, <2>1, FromVectorOutcome
  <2>2. CASE Hits(fs, Cursor.idx) = {}
    BY <1>1, <2>2, FromStreamOutcome, EnomsgOutcome
  <2> QED BY <2>1, <2>2
<1>3. ret'.op = "read"
  BY <1>1 DEF ReadFromVector, ReadStuck, ReadFromStream, ReadNoVector, ReadNoMessage, Return
<1> QED BY <1>2, <1>3 DEF read

-----------------------------------------------------------------------------
(* The invariant is inductive *)

LEMMA CodecInit == Init => CodecInv
<1> SUFFICES ASSUME Init PROVE CodecInv
  OBVIOUS
<1>1. ZeroMessage \in Message
  BY EmptySeq DEF ZeroMessage, Message
<1>2. stream \in Stream(Message) /\ stream.pos <= stream.len
  BY <1>1, CreateSound DEF Init, Sound
<1>3. \A v \in ConfigValue \cup {0} : v % UINT8 \in Node
  BY DEF Node
<1>4. own_id \in Node
  BY <1>3 DEF Init
<1>5. pending \in Seq(Entry) /\ Len(pending) <= MaxPending
  BY EmptySeq DEF Init
<1>6. ret \in [op : Op, got : Seq(Entry)]
  BY EmptySeq DEF Init, Op
<1>7. TypeOK
  <2>1. /\ fbs_stream_initalized = FALSE
        /\ msg_ptr = NULL /\ vector = NULL /\ vector_idx = 0 /\ vector_len = 0
    BY DEF Init
  <2>2. fbs_stream_initalized \in BOOLEAN
    BY <2>1
  <2>3. msg_ptr \in Slot \cup {NULL} /\ vector \in Slot \cup {NULL}
    BY <2>1
  <2>4. vector_idx \in Nat /\ vector_len \in Nat /\ vector_idx <= vector_len
    BY <2>1
  <2> QED BY <1>2, <1>4, <1>5, <1>6, <2>2, <2>3, <2>4 DEF TypeOK
<1> QED BY <1>7 DEF CodecInv, Init, BuilderOpenIffFrames, VectorOfMessage, AfterEnomsg

LEMMA CodecStep == CodecInv /\ [Next]_vars => CodecInv'
<1> SUFFICES ASSUME CodecInv, [Next]_vars PROVE CodecInv'
  OBVIOUS
<1> USE DEF CodecInv
<1>1. Sound(stream, Message)
  BY TypeSound
<1>2. \A fs \in {<<>>, pending} : fs \in Seq(Entry)
  BY EmptySeq DEF TypeOK
\* Calls other than read leave the parse state, and what they return is
\* not the result of a read.
<1>3. ASSUME Sound(stream', Message), UNCHANGED parse, ret'.op # "read",
             ret' \in [op : Op, got : Seq(Entry)],
             own_id' \in Node, pending' \in Seq(Entry), Len(pending') <= MaxPending,
             fbs_stream_initalized' \in BOOLEAN, BuilderOpenIffFrames'
      PROVE  CodecInv'
  <2>1. UNCHANGED <<msg_ptr, vector, vector_idx, vector_len>>
    BY <1>3 DEF parse
  <2>2. stream' \in Stream(Message) /\ stream'.pos <= stream'.len
    BY <1>3 DEF Sound
  <2>3. TypeOK'
    BY <1>3, <2>1, <2>2 DEF TypeOK
  <2>4. VectorOfMessage' /\ AfterEnomsg'
    BY <1>3, <2>1 DEF VectorOfMessage, AfterEnomsg
  <2> QED BY <1>3, <2>3, <2>4
<1>4. ASSUME NEW op \in Op, NEW fs \in Seq(Entry), Return(op, fs)
      PROVE  ret' \in [op : Op, got : Seq(Entry)] /\ ret'.op = op
  BY <1>4 DEF Return
<1>5. ASSUME NEW v \in ConfigValue, codec_config(v) PROVE CodecInv'
  <2>1. v % UINT8 \in Node
    BY DEF Node
  <2>2. ret' \in [op : Op, got : Seq(Entry)] /\ ret'.op = "config"
    BY <1>2, <1>4, <1>5 DEF codec_config, Op
  <2> QED BY <1>1, <1>3, <1>5, <2>1, <2>2 DEF codec_config, TypeOK, BuilderOpenIffFrames
<1>6. ASSUME NEW frame \in Writable, write(frame) PROVE CodecInv'
  <2> DEFINE built == IF fbs_stream_initalized THEN pending ELSE <<>>
  <2>1. built \in Seq(Entry) /\ Len(built) \in Nat
    BY <1>2, LenProperties
  <2>3. /\ Len(built) < MaxPending /\ pending' = Append(built, frame)
        /\ fbs_stream_initalized' = TRUE /\ Return("write", <<>>)
        /\ UNCHANGED <<stream, own_id, parse>>
    BY <1>6 DEF write
  <2> HIDE DEF built
  <2>4. Append(built, frame) \in Seq(Entry) /\ Len(Append(built, frame)) = Len(built) + 1
    BY <2>1 DEF Writable
  <2>5. pending' \in Seq(Entry) /\ Len(pending') <= MaxPending /\ Len(pending') # 0
    BY <2>1, <2>3, <2>4
  <2>6. pending' # <<>>
    BY <2>5, EmptySeq
  <2>7. ret' \in [op : Op, got : Seq(Entry)] /\ ret'.op = "write"
    BY <1>2, <1>4, <2>3 DEF Op
  <2> QED BY <1>1, <1>3, <2>3, <2>5, <2>6, <2>7 DEF TypeOK, BuilderOpenIffFrames
<1>7. CASE flush
  <2>1. OwnMessage(pending) \in Message
    BY OwnMessageType DEF TypeOK
  <2>2. Sound(stream_write(stream, <<OwnMessage(pending)>>), Message)
    BY <1>1, <2>1, SingletonSeq, WriteSound
  <2>3. Sound(stream', Message)
    BY <1>1, <1>7, <2>2 DEF flush
  <2>4. \E fs \in Seq(Entry) : Return("flush", fs)
    BY <1>2, <1>7 DEF flush
  <2>5. ret' \in [op : Op, got : Seq(Entry)] /\ ret'.op = "flush"
    BY <1>4, <2>4 DEF Op
  <2>6. pending' = <<>> /\ pending' \in Seq(Entry) /\ Len(pending') <= MaxPending
    BY <1>7, EmptySeq DEF flush
  <2> QED BY <1>3, <1>7, <2>3, <2>5, <2>6 DEF flush, TypeOK, BuilderOpenIffFrames
<1>8. CASE truncate
  <2>1. Sound(stream', Message)
    BY <1>1, <1>8, SeekSound DEF truncate
  <2>2. ret' \in [op : Op, got : Seq(Entry)] /\ ret'.op = "truncate"
    BY <1>2, <1>4, <1>8 DEF truncate, Op
  <2>3. pending' = <<>> /\ pending' \in Seq(Entry) /\ Len(pending') <= MaxPending
    <3>1. pending' = <<>>
      <4>1. CASE fbs_stream_initalized
        BY <1>8, <4>1 DEF truncate
      <4>2. CASE ~fbs_stream_initalized
        BY <1>8, <4>2 DEF truncate, BuilderOpenIffFrames
      <4> QED BY <4>1, <4>2
    <3> QED BY <3>1, EmptySeq
  <2> QED BY <1>3, <1>8, <2>1, <2>2, <2>3 DEF truncate, TypeOK, BuilderOpenIffFrames
<1>9. ASSUME NEW pos \in 0 .. 1, NEW op \in SeekOp, ncodec_seek(pos, op) PROVE CodecInv'
  <2>1. Sound(stream', Message)
    BY <1>1, <1>9, SeekSound DEF ncodec_seek
  <2>2. ret' \in [op : Op, got : Seq(Entry)] /\ ret'.op = "seek"
    BY <1>2, <1>4, <1>9 DEF ncodec_seek, Op
  <2> QED BY <1>3, <1>9, <2>1, <2>2 DEF ncodec_seek, TypeOK, BuilderOpenIffFrames
<1>10. ASSUME NEW ms \in Wire, Deliver(ms) PROVE CodecInv'
  <2>1. Sound(stream', Message)
    BY <1>1, <1>10, RxSound DEF Deliver
  <2>2. ret' \in [op : Op, got : Seq(Entry)] /\ ret'.op = "deliver"
    BY <1>2, <1>4, <1>10 DEF Deliver, Op
  <2> QED BY <1>3, <1>10, <2>1, <2>2 DEF Deliver, TypeOK, BuilderOpenIffFrames
<1>11. CASE read
  <2>1. ReadOutcome /\ UNCHANGED <<own_id, pending, fbs_stream_initalized>>
    BY <1>11, ReadOutcomes
  <2>2. TypeOK'
    BY <2>1 DEF ReadOutcome, TypeOK, Sound
  <2>3. BuilderOpenIffFrames' /\ VectorOfMessage'
    BY <2>1 DEF ReadOutcome, BuilderOpenIffFrames, VectorOfMessage
  <2>4. buffer' = buffer
    BY <2>1 DEF ReadOutcome, buffer
  <2>5. AfterEnomsg'
    BY <2>1, <2>4 DEF ReadOutcome, AfterEnomsg
  <2> QED BY <2>2, <2>3, <2>5
<1>12. CASE UNCHANGED vars
  BY <1>12 DEF vars, parse, TypeOK, BuilderOpenIffFrames, VectorOfMessage, AfterEnomsg, buffer
<1> QED BY <1>5, <1>6, <1>7, <1>8, <1>9, <1>10, <1>11, <1>12 DEF Next

LEMMA CodecInvariant == Spec => []CodecInv
BY CodecInit, CodecStep, PTL DEF Spec

-----------------------------------------------------------------------------
(* Theorems *)

\* Every variable keeps its type, and the stream's position never passes its
\* length, nor that the array, whatever the client calls.
THEOREM CodecTypeOK == Spec => []TypeOK
<1>1. CodecInv => TypeOK
  BY DEF CodecInv
<1> QED BY <1>1, CodecInvariant, PTL

\* The builder is open exactly when it holds a frame.
THEOREM CodecBuilder == Spec => []BuilderOpenIffFrames
<1>1. CodecInv => BuilderOpenIffFrames
  BY DEF CodecInv
<1> QED BY <1>1, CodecInvariant, PTL

\* A vector in hand is the vector of the message in hand.
THEOREM CodecVector == Spec => []VectorOfMessage
<1>1. CodecInv => VectorOfMessage
  BY DEF CodecInv
<1> QED BY <1>1, CodecInvariant, PTL

\* -ENOMSG is stable under reads: a drain loop may stop at the first one.
THEOREM CodecEnomsg == Spec => EnomsgIsStable
<1> DEFINE Stable == ret.op = "read" /\ ret.got = <<>> /\ ret'.op = "read" => ret'.got = <<>>
<1>1. CodecInv /\ [Next]_vars => [Stable]_vars
  <2> SUFFICES ASSUME CodecInv, Next, ret.op = "read", ret.got = <<>>, ret'.op = "read"
               PROVE  ret'.got = <<>>
    OBVIOUS
  <2>1. read
    <3>1. \A op, fs : Return(op, fs) => ret'.op = op
      BY DEF Return
    <3>2. ASSUME NEW v, codec_config(v) PROVE FALSE
      BY <3>1, <3>2 DEF codec_config
    <3>3. ASSUME NEW id, write(id) PROVE FALSE
      BY <3>1, <3>3 DEF write
    <3>4. CASE flush
      BY <3>1, <3>4 DEF flush
    <3>5. CASE truncate
      BY <3>1, <3>5 DEF truncate
    <3>6. ASSUME NEW pos, NEW op, ncodec_seek(pos, op) PROVE FALSE
      BY <3>1, <3>6 DEF ncodec_seek
    <3>7. ASSUME NEW ms, Deliver(ms) PROVE FALSE
      BY <3>1, <3>7 DEF Deliver
    <3> QED BY <3>2, <3>3, <3>4, <3>5, <3>6, <3>7 DEF Next
  <2>2. vector = NULL /\ stream.pos = stream.len /\ (msg_ptr # NULL => ~buffer[msg_ptr].has_frames)
    BY DEF CodecInv, AfterEnomsg
  <2>3. Cursor.at = NULL
    BY <2>2 DEF Cursor
  <2>4. Deref(Cursor) = {<<>>}
    BY <2>3 DEF Deref
  <2>5. Hits(<<>>, Cursor.idx) = {}
    BY CursorType DEF Hits, CodecInv
  <2>6. Stops = {}
    BY <2>2 DEF Stops, Reachable, CodecInv, TypeOK, Stream
  <2>7. ReadStuck \/ ReadNoMessage
    BY <2>1, <2>4, <2>5, <2>6 DEF read
  <2> QED BY <2>7 DEF ReadStuck, ReadNoMessage, Return
<1>2. [][Next]_vars /\ []CodecInv => [][Stable]_vars
  BY <1>1, PTL
<1> QED BY <1>2, CodecInvariant, PTL DEF Spec, EnomsgIsStable

-----------------------------------------------------------------------------
(* The session *)

SessionInv ==
    /\ CodecInv
    /\ phase \in Phase
    /\ Sound(stream, Produced)
    /\ NoDanglingVector

LEMMA SessionIsCodec == SNext => Next
BY DEF SNext, SRead, SWrite, SConfig, SDeliver, SRewind, SSkip, STruncate, SFlush, Next, SeekOp

\* Outside a drain the stream may change: the parse state is clear.
LEMMA ClearStaysLive ==
    ASSUME phase # "drain", NoDanglingVector, UNCHANGED parse, phase' # "drain"
    PROVE  NoDanglingVector'
BY DEF NoDanglingVector, parse

\* Inside one it may not.
LEMMA UnchangedStaysLive ==
    ASSUME NoDanglingVector, UNCHANGED <<stream, parse, phase>>
    PROVE  NoDanglingVector'
BY DEF NoDanglingVector, parse, buffer, Intact, Cursor

LEMMA ReadStaysLive ==
    ASSUME SessionInv, SRead
    PROVE  NoDanglingVector'
<1> USE DEF SessionInv, CodecInv
<1>1. read /\ phase' = IF ret'.got = <<>> THEN "idle" ELSE "drain"
  BY DEF SRead
<1>2. ReadOutcome
  BY <1>1, ReadOutcomes
<1>3. \A i \in Stops : i \in Slot /\ i \in 0 .. stream.len - 1 /\ buffer[i].identifier = "own"
                       /\ buffer[i].has_frames
  <2> SUFFICES ASSUME NEW i \in Stops
               PROVE  i \in Slot /\ i \in 0 .. stream.len - 1 /\ buffer[i].identifier = "own"
                      /\ buffer[i].has_frames
    OBVIOUS
  <2>1. i \in stream.pos .. stream.len - 1 /\ buffer[i].identifier = "own"
    BY DEF Stops, Reachable
  <2>2. i \in Slot /\ i \in 0 .. stream.len - 1
    <3>1. stream.pos \in Nat /\ stream.len \in 0 .. BUFFER_LEN
      BY TypeSound DEF Sound, Stream
    <3> QED BY <2>1, <3>1, BufferLenAssumption DEF Slot
  <2>3. buffer[i] \in Produced
    BY <2>2 DEF Sound, Stream, buffer
  <2>4. buffer[i].has_frames
    BY <2>1, <2>3 DEF Produced
  <2> QED BY <2>1, <2>2, <2>4
\* In a drain the cursor is in a live message, otherwise it is nowhere.
<1>4. ~ReadStuck
  <2>1. CASE phase = "drain"
    <3>1. vector # NULL
      BY <2>1 DEF NoDanglingVector, NULL
    <3>2. Cursor.at # NULL
      BY <3>1 DEF Cursor
    <3> QED BY <3>2 DEF ReadStuck
  <2>2. CASE phase # "drain"
    BY <2>2 DEF NoDanglingVector, ReadStuck
  <2> QED BY <2>1, <2>2
<1>5. PICK fs \in Deref(Cursor) :
          IF Hits(fs, Cursor.idx) # {}
          THEN ReadFromVector(fs)
          ELSE \/ \E i \in Stops : ReadFromStream(i)
               \/ ReadNoMessage
  BY <1>1, <1>3, <1>4 DEF read, ReadNoVector
<1>6. CASE Hits(fs, Cursor.idx) # {} /\ ReadFromVector(fs)
  <2>1. vector # NULL /\ phase = "drain"
    <3>1. CASE vector = NULL
      <4>1. phase # "drain" /\ msg_ptr = NULL
        BY <3>1 DEF NoDanglingVector, NULL
      <4>2. Cursor.at = NULL
        BY <3>1, <4>1 DEF Cursor
      <4>3. fs = <<>>
        BY <4>2, DerefType
      <4>4. Hits(<<>>, Cursor.idx) = {}
        BY CursorType DEF Hits
      <4> QED BY <1>6, <4>3, <4>4
    <3>2. vector # NULL => phase = "drain"
      BY DEF NoDanglingVector
    <3> QED BY <3>1, <3>2
  <2>2. Cursor = [at |-> vector, idx |-> vector_idx, len |-> vector_len]
    BY <2>1 DEF Cursor
  <2>3. /\ stream' = stream /\ msg_ptr' = msg_ptr /\ vector' = vector
        /\ vector_len' = vector_len
    BY <1>6, <2>2 DEF ReadFromVector
  <2>4. Cursor' = [at |-> vector', idx |-> vector_idx', len |-> vector_len']
    BY <2>1, <2>3 DEF Cursor
  <2>5. Intact(Cursor)'
    BY <2>1, <2>2, <2>3, <2>4 DEF NoDanglingVector, Intact, buffer
  <2>6. phase' = "drain"
    BY <1>1, <1>2, <2>1, <2>3 DEF ReadOutcome
  <2> QED BY <2>1, <2>3, <2>5, <2>6 DEF NoDanglingVector, buffer
<1>7. ASSUME NEW i \in Stops, ReadFromStream(i) PROVE NoDanglingVector'
  <2>1. /\ msg_ptr' = i /\ vector' = i /\ vector_len' = Len(buffer[i].frames)
        /\ stream' = [stream EXCEPT !.pos = i + 1]
    BY <1>7 DEF ReadFromStream
  <2>2. stream'.len = stream.len /\ stream'.buffer = buffer
    BY <1>2 DEF ReadOutcome
  <2>3. stream'.pos = i + 1
    BY <2>1 DEF Sound, Stream
  <2>4. i # NULL
    BY <1>3 DEF NULL, Slot
  <2>5. Cursor' = [at |-> vector', idx |-> vector_idx', len |-> vector_len']
    BY <2>1, <2>4 DEF Cursor
  <2>6. Intact(Cursor)'
    BY <1>3, <2>1, <2>2, <2>5 DEF Intact, buffer
  <2>7. phase' = "drain"
    BY <1>1, <1>2, <2>1, <2>4 DEF ReadOutcome
  <2> QED BY <1>3, <2>1, <2>2, <2>3, <2>6, <2>7 DEF NoDanglingVector, buffer
<1>8. CASE ReadNoMessage
  BY <1>1, <1>8 DEF ReadNoMessage, Return, NoDanglingVector
<1> QED BY <1>5, <1>6, <1>7, <1>8

LEMMA SessionStep == SessionInv /\ [SNext]_sessionVars => SessionInv'
<1> SUFFICES ASSUME SessionInv, [SNext]_sessionVars PROVE SessionInv'
  OBVIOUS
<1> USE DEF SessionInv
<1>1. CodecInv'
  BY SessionIsCodec, CodecStep DEF sessionVars
<1>2. CASE SRead
  <2>1. ReadOutcome /\ stream.buffer = stream'.buffer
    BY <1>2, ReadOutcomes DEF SRead, CodecInv, ReadOutcome, buffer
  <2>2. Sound(stream', Produced)
    BY <2>1 DEF ReadOutcome, Sound, Stream
  <2>3. phase' \in Phase
    BY <1>2 DEF SRead, Phase
  <2> QED BY <1>1, <1>2, <2>2, <2>3, ReadStaysLive
<1>3. CASE SWrite
  BY <1>1, <1>3, UnchangedStaysLive DEF SWrite, write
<1>4. CASE SConfig
  BY <1>1, <1>4, UnchangedStaysLive DEF SConfig, codec_config
<1>5. CASE SDeliver
  BY <1>1, <1>5, RxSound, ClearStaysLive DEF SDeliver, Deliver, Phase
<1>6. CASE SRewind
  BY <1>1, <1>6, SeekSound, ClearStaysLive DEF SRewind, ncodec_seek, Phase
<1>7. CASE SSkip
  BY <1>1, <1>7, SeekSound, ClearStaysLive DEF SSkip, ncodec_seek, Phase
<1>8. CASE STruncate
  BY <1>1, <1>8, SeekSound, ClearStaysLive DEF STruncate, truncate, Phase
<1>9. CASE SFlush
  <2>1. OwnMessage(pending) \in Produced
    BY OwnMessageType DEF CodecInv, TypeOK, Produced, OwnMessage
  <2>2. Sound(stream_write(stream, <<OwnMessage(pending)>>), Produced)
    BY <2>1, SingletonSeq, WriteSound
  <2>3. Sound(stream', Produced)
    BY <1>9, <2>2 DEF SFlush, flush
  <2> QED BY <1>1, <1>9, <2>3, ClearStaysLive DEF SFlush, flush, Phase
<1>10. CASE UNCHANGED sessionVars
  BY <1>1, <1>10, UnchangedStaysLive DEF sessionVars, vars
<1> QED BY <1>2, <1>3, <1>4, <1>5, <1>6, <1>7, <1>8, <1>9, <1>10 DEF SNext

LEMMA SessionInit == SInit => SessionInv
<1> SUFFICES ASSUME SInit PROVE SessionInv
  OBVIOUS
<1>1. CodecInv
  BY CodecInit DEF SInit
<1>2. ZeroMessage \in Produced
  BY EmptySeq DEF ZeroMessage, Message, Produced
<1>3. Sound(stream, Produced)
  BY <1>2, CreateSound DEF SInit, Init
<1>4. NoDanglingVector /\ phase \in Phase
  BY DEF SInit, Init, NoDanglingVector, Phase
<1> QED BY <1>1, <1>3, <1>4 DEF SessionInv

\* A client that keeps to the documented discipline never reads through a
\* dangling vector or message pointer.
THEOREM SessionNoDanglingVector == SessionSpec => []NoDanglingVector
<1>1. SessionInv => NoDanglingVector
  BY DEF SessionInv
<1> QED BY <1>1, SessionInit, SessionStep, PTL DEF SessionSpec

-----------------------------------------------------------------------------
(* The frames of a stream *)

\* The frames that a reader of this codec finds in a message, and in the
\* first n slots of a buffer.
FramesOf(m) == IF m.identifier = "own" THEN m.frames ELSE <<>>
FramesIn(b, n) == FlattenSeq([k \in 1 .. n |-> FramesOf(b[k - 1])])

LEMMA FramesOfType == ASSUME NEW m \in Message PROVE FramesOf(m) \in Seq(Entry)
<1>1. m.frames \in Seq(Entry)
  BY DEF Message
<1> QED BY <1>1, EmptySeq DEF FramesOf

LEMMA FramesInNone == ASSUME NEW b PROVE FramesIn(b, 0) = <<>>
<1>1. [k \in 1 .. 0 |-> FramesOf(b[k - 1])] = <<>>
  OBVIOUS
<1> QED BY <1>1, FlattenEmpty DEF FramesIn

LEMMA FramesInNext ==
    ASSUME NEW b \in [Slot -> Message], NEW n \in Slot
    PROVE  /\ FramesIn(b, n) \in Seq(Entry)
           /\ FramesIn(b, n + 1) = FramesIn(b, n) \o FramesOf(b[n])
<1> DEFINE p == [k \in 1 .. n |-> FramesOf(b[k - 1])]
           q == [k \in 1 .. n + 1 |-> FramesOf(b[k - 1])]
<1>1. n \in Nat /\ n + 1 \in 1 .. n + 1 /\ n + 1 - 1 = n /\ \A k \in 1 .. n + 1 : k - 1 \in Slot
  BY DEF Slot
<1>2. \A k \in 1 .. n + 1 : FramesOf(b[k - 1]) \in Seq(Entry)
  BY <1>1, FramesOfType
<1>3. p \in [1 .. n -> Seq(Entry)] /\ q \in [1 .. n + 1 -> Seq(Entry)]
      /\ \A k \in 1 .. n : q[k] = p[k]
  BY <1>1, <1>2
<1>4. q[n + 1] = FramesOf(b[n])
  BY <1>1
<1> HIDE DEF p, q
<1>5. FlattenSeq(p) \in Seq(Entry) /\ FlattenSeq(q) = FlattenSeq(p) \o q[n + 1]
  <2>1. n \in Nat
    BY <1>1
  <2>2. \A x \in [1 .. n -> Seq(Entry)], y \in [1 .. n + 1 -> Seq(Entry)] :
           (\A k \in 1 .. n : y[k] = x[k])
           => FlattenSeq(x) \in Seq(Entry) /\ FlattenSeq(y) = FlattenSeq(x) \o y[n + 1]
    BY <2>1, FlattenNext, Zenon
  <2> QED BY <1>3, <2>2
<1> QED BY <1>4, <1>5 DEF FramesIn, p, q

LEMMA FramesInType ==
    ASSUME NEW b \in [Slot -> Message], NEW n \in 0 .. BUFFER_LEN
    PROVE  FramesIn(b, n) \in Seq(Entry) /\ Len(FramesIn(b, n)) \in Nat
<1>1. FramesIn(b, n) \in Seq(Entry)
  <2>1. CASE n = 0
    BY <2>1, FramesInNone, EmptySeq
  <2>2. CASE n # 0
    <3>1. n - 1 \in Slot /\ (n - 1) + 1 = n
      BY <2>2 DEF Slot
    <3>2. FramesIn(b, n - 1) \in Seq(Entry) /\ FramesOf(b[n - 1]) \in Seq(Entry)
      BY <3>1, FramesInNext, FramesOfType
    <3>3. FramesIn(b, n - 1) \o FramesOf(b[n - 1]) \in Seq(Entry)
      BY <3>2, ConcatProperties
    <3>4. FramesIn(b, (n - 1) + 1) = FramesIn(b, n - 1) \o FramesOf(b[n - 1])
      BY <3>1, FramesInNext
    <3> QED BY <3>1, <3>3, <3>4
  <2> QED BY <2>1, <2>2
<1> QED BY <1>1, LenProperties

\* They depend on these slots only.
LEMMA FramesInSame ==
    ASSUME NEW b, NEW c, NEW n, \A i \in 0 .. n - 1 : b[i] = c[i], n \in Nat
    PROVE  FramesIn(b, n) = FramesIn(c, n)
<1>1. \A k \in 1 .. n : k - 1 \in 0 .. n - 1
  OBVIOUS
<1>2. \A k \in 1 .. n : FramesOf(b[k - 1]) = FramesOf(c[k - 1])
  BY <1>1
<1> QED BY <1>2 DEF FramesIn

\* Where the frames of a slot are among those of all slots.
FramesAt(b, i, n) ==
    LET log == FramesIn(b, n)
        at == Len(FramesIn(b, i))
        fs == FramesOf(b[i])
    IN  /\ at + Len(fs) = Len(FramesIn(b, i + 1)) /\ at + Len(fs) <= Len(log)
        /\ \A k \in 1 .. Len(fs) : log[at + k] = fs[k]

LEMMA FramesPlaced ==
    ASSUME NEW b \in [Slot -> Message], NEW n \in 0 .. BUFFER_LEN, NEW i \in 0 .. n - 1
    PROVE  FramesAt(b, i, n)
<1> DEFINE B == {j \in Nat : i + 1 + j <= n => FramesAt(b, i, i + 1 + j)}
           u == FramesIn(b, i)
           fs == FramesOf(b[i])
<1>1. i \in Slot /\ i \in Nat /\ b[i] \in Message
  BY DEF Slot
<1>2. u \in Seq(Entry) /\ fs \in Seq(Entry) /\ FramesIn(b, i + 1) = u \o fs
  BY <1>1, FramesInNext, FramesOfType
<1>3. Len(u) \in Nat /\ Len(fs) \in Nat
  BY <1>2, LenProperties
<1> HIDE DEF u, fs
<1>4. Len(u \o fs) = Len(u) + Len(fs)
      /\ \A k \in 1 .. Len(u) + Len(fs) : (u \o fs)[k] = IF k <= Len(u) THEN u[k] ELSE fs[k - Len(u)]
  BY <1>2, ConcatProperties
<1>5. \A k \in 1 .. Len(fs) : /\ Len(u) + k \in 1 .. Len(u) + Len(fs) /\ ~(Len(u) + k <= Len(u))
                              /\ (Len(u) + k) - Len(u) = k
  BY <1>3
<1>6. 0 \in B
  <2>1. FramesAt(b, i, i + 1)
    BY <1>2, <1>3, <1>4, <1>5 DEF FramesAt, u, fs
  <2> QED BY <1>1, <2>1
<1>7. ASSUME NEW j \in Nat, j \in B PROVE j + 1 \in B
  <2> SUFFICES ASSUME i + 1 + (j + 1) <= n PROVE FramesAt(b, i, i + 1 + (j + 1))
    OBVIOUS
  <2> DEFINE m == i + 1 + j
             log == FramesIn(b, m)
             next == FramesOf(b[m])
  <2>1. m \in Slot /\ i + 1 + (j + 1) = m + 1 /\ m <= n
    BY <1>1 DEF Slot
  <2>2. FramesAt(b, i, m)
    BY <1>7, <2>1
  <2> HIDE DEF m
  <2>3. log \in Seq(Entry) /\ next \in Seq(Entry) /\ FramesIn(b, m + 1) = log \o next
    BY <2>1, FramesInNext, FramesOfType
  <2>4. Len(u) + Len(fs) = Len(FramesIn(b, i + 1)) /\ Len(u) + Len(fs) <= Len(log)
        /\ \A k \in 1 .. Len(fs) : log[Len(u) + k] = fs[k]
    BY <2>2 DEF FramesAt, u, fs
  <2> HIDE DEF log, next
  <2>5. Len(log) \in Nat /\ Len(next) \in Nat
    BY <2>3, LenProperties
  <2>6. Len(log \o next) = Len(log) + Len(next)
        /\ \A k \in 1 .. Len(log) + Len(next) :
              (log \o next)[k] = IF k <= Len(log) THEN log[k] ELSE next[k - Len(log)]
    BY <2>3, ConcatProperties
  <2>7. \A k \in 1 .. Len(fs) : Len(u) + k \in 1 .. Len(log) + Len(next) /\ Len(u) + k <= Len(log)
    BY <1>3, <2>4, <2>5
  <2>8. \A k \in 1 .. Len(fs) : (log \o next)[Len(u) + k] = fs[k]
    BY <2>4, <2>6, <2>7
  <2>9. Len(u) + Len(fs) <= Len(log \o next)
    BY <1>3, <2>4, <2>5, <2>6
  <2>10. FramesAt(b, i, m + 1)
    BY <2>3, <2>4, <2>8, <2>9 DEF FramesAt, u, fs
  <2> QED BY <2>1, <2>10
<1> HIDE DEF B
<1>8. n - (i + 1) \in B
  <2>1. n - (i + 1) \in Nat
    BY <1>1
  <2> QED BY <1>6, <1>7, <2>1, Induction
<1>9. i + 1 + (n - (i + 1)) = n
  BY <1>1
<1> QED BY <1>8, <1>9 DEF B

\* The slots from i to j hold nothing the client may see.
LEMMA QuietSlots ==
    ASSUME NEW b \in [Slot -> Message], NEW n \in 0 .. BUFFER_LEN, NEW i \in 0 .. n, NEW j \in i .. n,
           \A k \in i .. j - 1 : Hits(FramesOf(b[k]), 0) = {}
    PROVE  /\ Len(FramesIn(b, i)) <= Len(FramesIn(b, j))
           /\ \A p \in Len(FramesIn(b, i)) + 1 .. Len(FramesIn(b, j)) : ~Visible(FramesIn(b, n)[p])
<1> DEFINE log == FramesIn(b, n)
           Quiet(m) == /\ Len(FramesIn(b, i)) <= Len(FramesIn(b, m))
                       /\ \A p \in Len(FramesIn(b, i)) + 1 .. Len(FramesIn(b, m)) : ~Visible(log[p])
           B == {d \in Nat : i + d <= j => Quiet(i + d)}
<1>1. \A m \in 0 .. n : Len(FramesIn(b, m)) \in Nat
  BY FramesInType
<1>2. 0 \in B
  <2>1. Quiet(i)
    BY <1>1
  <2> QED BY <2>1
<1>3. ASSUME NEW d \in Nat, d \in B PROVE d + 1 \in B
  <2> SUFFICES ASSUME i + (d + 1) <= j PROVE Quiet(i + (d + 1))
    OBVIOUS
  <2> DEFINE m == i + d
             fs == FramesOf(b[m])
             lo == Len(FramesIn(b, i))
             at == Len(FramesIn(b, m))
             hi == Len(FramesIn(b, m + 1))
  <2>1. m \in i .. j - 1 /\ m \in 0 .. n - 1 /\ m + 1 \in 0 .. n /\ i + (d + 1) = m + 1 /\ m \in Slot
        /\ m \in 0 .. n
    BY DEF Slot
  <2>2. Quiet(m)
    BY <1>3, <2>1
  <2> HIDE DEF m
  <2>3. fs \in Seq(Entry) /\ Hits(fs, 0) = {}
    BY <2>1, FramesOfType
  <2>4. FramesAt(b, m, n)
    BY <2>1, FramesPlaced
  <2>5. at + Len(fs) = hi /\ \A k \in 1 .. Len(fs) : log[at + k] = fs[k]
    BY <2>4 DEF FramesAt
  <2>6. lo \in Nat /\ at \in Nat /\ hi \in Nat /\ Len(fs) \in Nat
    BY <1>1, <2>1, <2>3, LenProperties
  <2>7. lo <= at /\ \A p \in lo + 1 .. at : ~Visible(log[p])
    BY <2>2
  <2> HIDE DEF log, fs, lo, at, hi
  <2>8. \A k \in 1 .. Len(fs) : ~Visible(fs[k])
    BY <2>3 DEF Hits
  <2>9. \A p \in lo + 1 .. hi : ~Visible(log[p])
    <3> SUFFICES ASSUME NEW p \in lo + 1 .. hi PROVE ~Visible(log[p])
      OBVIOUS
    <3>1. CASE p <= at
      BY <2>6, <2>7, <3>1
    <3>2. CASE ~(p <= at)
      <4>1. p - at \in 1 .. Len(fs) /\ at + (p - at) = p
        BY <2>5, <2>6, <3>2
      <4>2. log[at + (p - at)] = fs[p - at]
        BY <2>5, <4>1
      <4> QED BY <2>8, <4>1, <4>2
    <3> QED BY <3>1, <3>2
  <2>10. lo <= hi
    BY <2>5, <2>6, <2>7
  <2> QED BY <2>1, <2>9, <2>10 DEF lo, hi, log
<1> HIDE DEF B
<1>4. j - i \in B
  BY <1>2, <1>3, Induction
<1>5. i + (j - i) = j
  OBVIOUS
<1> QED BY <1>4, <1>5 DEF B

\* Messages behind the first n slots add their frames.
LEMMA FramesAppended ==
    ASSUME NEW b \in [Slot -> Message], NEW c \in [Slot -> Message], NEW n \in 0 .. BUFFER_LEN,
           NEW ms \in Seq(Message), n + Len(ms) <= BUFFER_LEN,
           \A i \in 0 .. n - 1 : c[i] = b[i],
           \A i \in 1 .. Len(ms) : c[n + i - 1] = ms[i]
    PROVE  FramesIn(c, n + Len(ms)) = FramesIn(b, n) \o Arriving(ms)
<1> DEFINE Of(j) == FlattenSeq([k \in 1 .. j |-> FramesOf(ms[k])])
           B == {j \in Nat : j <= Len(ms) => /\ Of(j) \in Seq(Entry)
                                             /\ FramesIn(c, n + j) = FramesIn(b, n) \o Of(j)}
<1>1. Len(ms) \in Nat
  OBVIOUS
<1>2. FramesIn(b, n) \in Seq(Entry)
  BY FramesInType
<1>3. 0 \in B
  <2>1. Of(0) = <<>>
    <3>1. [k \in 1 .. 0 |-> FramesOf(ms[k])] = <<>>
      OBVIOUS
    <3> QED BY <3>1, FlattenEmpty
  <2>2. FramesIn(c, n) = FramesIn(b, n)
    <3>1. n \in Nat
      OBVIOUS
    <3> QED BY <3>1, FramesInSame
  <2>3. FramesIn(b, n) \o <<>> = FramesIn(b, n)
    BY <1>2, ConcatEmptySeq
  <2>4. n + 0 = n /\ <<>> \in Seq(Entry)
    BY EmptySeq
  <2> HIDE DEF Of
  <2> QED BY <2>1, <2>2, <2>3, <2>4
<1>4. ASSUME NEW j \in Nat, j \in B PROVE j + 1 \in B
  <2> SUFFICES ASSUME j + 1 <= Len(ms)
               PROVE  Of(j + 1) \in Seq(Entry) /\ FramesIn(c, n + (j + 1)) = FramesIn(b, n) \o Of(j + 1)
    OBVIOUS
  <2> DEFINE m == n + j
             e == FramesOf(ms[j + 1])
             u == FramesIn(b, n)
             v == Of(j)
  <2>1. m \in Slot /\ n + (j + 1) = m + 1 /\ j + 1 \in 1 .. Len(ms) /\ n + (j + 1) - 1 = m
    BY <1>1 DEF Slot
  <2>2. v \in Seq(Entry) /\ FramesIn(c, m) = u \o v
    BY <1>1, <1>4
  <2> HIDE DEF m
  <2>3. c[m] = ms[j + 1] /\ ms[j + 1] \in Message
    <3>1. c[n + (j + 1) - 1] = ms[j + 1]
      BY <2>1
    <3> QED BY <2>1, <3>1, ElementOfSeq
  <2>4. e \in Seq(Entry) /\ FramesIn(c, m + 1) = FramesIn(c, m) \o e
    BY <2>1, <2>3, FramesInNext, FramesOfType
  <2>5. Of(j + 1) = v \o e
    <3> DEFINE p == [k \in 1 .. j |-> FramesOf(ms[k])]
               q == [k \in 1 .. j + 1 |-> FramesOf(ms[k])]
    <3>1. \A k \in 1 .. j + 1 : FramesOf(ms[k]) \in Seq(Entry)
      <4>1. \A k \in 1 .. j + 1 : k \in 1 .. Len(ms)
        BY <1>1
      <4> QED BY <4>1, ElementOfSeq, FramesOfType
    <3>2. p \in [1 .. j -> Seq(Entry)] /\ q \in [1 .. j + 1 -> Seq(Entry)]
          /\ \A k \in 1 .. j : q[k] = p[k]
      BY <3>1
    <3>3. q[j + 1] = e
      OBVIOUS
    <3> HIDE DEF p, q, e
    <3>4. \A x \in [1 .. j -> Seq(Entry)], y \in [1 .. j + 1 -> Seq(Entry)] :
             (\A k \in 1 .. j : y[k] = x[k])
             => FlattenSeq(x) \in Seq(Entry) /\ FlattenSeq(y) = FlattenSeq(x) \o y[j + 1]
      BY FlattenNext, Zenon
    <3>5. FlattenSeq(q) = FlattenSeq(p) \o e
      BY <3>2, <3>3, <3>4
    <3> QED BY <3>5 DEF p, q
  <2>6. (u \o v) \o e = u \o (v \o e) /\ v \o e \in Seq(Entry)
    <3>1. u \in Seq(Entry) /\ v \in Seq(Entry) /\ e \in Seq(Entry)
      BY <1>2, <2>2, <2>4
    <3> HIDE DEF u, v, e
    <3> QED BY <3>1, ConcatAssociative, ConcatProperties
  <2> HIDE DEF Of, u, v, e
  <2>7. FramesIn(c, m + 1) = u \o Of(j + 1)
    BY <2>2, <2>4, <2>5, <2>6
  <2> QED BY <2>1, <2>5, <2>6, <2>7 DEF u
<1>5. Of(Len(ms)) = Arriving(ms)
  BY DEF Arriving, FramesOf
<1> HIDE DEF B, Of
<1>6. Len(ms) \in B
  BY <1>1, <1>3, <1>4, Induction
<1> QED BY <1>5, <1>6 DEF B

-----------------------------------------------------------------------------
(* Where the session is in the log *)

\* Between drains the stream stands at an end, and what lies in it can be
\* read past.
Placed ==
    /\ phase = "idle" => stream.pos = stream.len
    /\ phase = "rx" => stream.pos = 0
    /\ \A i \in 0 .. stream.len - 1 : buffer[i].identifier # "ZERO"

LEMMA PlacedStays ==
    ASSUME Placed, stream'.len = stream.len, stream'.buffer = buffer,
           phase' = "idle" => stream'.pos = stream'.len,
           phase' = "rx" => stream'.pos = 0
    PROVE  Placed'
BY DEF Placed, buffer

LEMMA PlacedAppended ==
    ASSUME SessionInv, Placed, NEW ms \in Seq(Message), Appended(stream, stream', ms),
           \A k \in 1 .. Len(ms) : ms[k].identifier # "ZERO",
           phase' = "idle" => stream'.pos = stream'.len,
           phase' = "rx" => stream'.pos = 0
    PROVE  Placed'
<1>1. CASE stream'.len = stream.len /\ stream'.buffer = stream.buffer
  BY <1>1, PlacedStays DEF buffer
<1>2. CASE /\ stream'.len = stream.len + Len(ms)
           /\ \A i \in 0 .. stream.len - 1 : stream'.buffer[i] = stream.buffer[i]
           /\ \A i \in 1 .. Len(ms) : stream'.buffer[stream.len + i - 1] = ms[i]
  <2>1. stream.len \in Nat /\ Len(ms) \in Nat
    BY DEF SessionInv, Sound, Stream
  <2>2. ASSUME NEW i \in 0 .. stream'.len - 1 PROVE stream'.buffer[i].identifier # "ZERO"
    <3>1. CASE i \in 0 .. stream.len - 1
      BY <1>2, <3>1 DEF Placed, buffer
    <3>2. CASE i \notin 0 .. stream.len - 1
      <4> DEFINE k == i - stream.len + 1
      <4>1. k \in 1 .. Len(ms) /\ stream.len + k - 1 = i
        BY <1>2, <2>1, <3>2
      <4> HIDE DEF k
      <4>2. stream'.buffer[stream.len + k - 1] = ms[k]
        BY <1>2, <4>1
      <4> QED BY <4>1, <4>2
    <3> QED BY <3>1, <3>2
  <2> QED BY <2>2 DEF Placed, buffer
<1> QED BY <1>1, <1>2 DEF Appended

LEMMA PlacedStep == SessionInv /\ Placed /\ [SNext]_sessionVars => Placed'
<1> SUFFICES ASSUME SessionInv, Placed, [SNext]_sessionVars PROVE Placed'
  OBVIOUS
<1>1. Sound(stream, Message) /\ stream \in Stream(Message) /\ stream.pos <= stream.len
  BY TypeSound DEF SessionInv, CodecInv, Sound
<1>2. CASE SRead
  <2>1. ReadOutcome /\ phase' = IF ret'.got = <<>> THEN "idle" ELSE "drain"
    BY <1>2, ReadOutcomes DEF SRead, SessionInv, CodecInv
  <2> QED BY <2>1, PlacedStays DEF ReadOutcome
<1>3. CASE SWrite \/ SConfig
  <2>1. stream' = stream /\ phase' = phase
    BY <1>3 DEF SWrite, SConfig, write, codec_config
  <2> QED BY <2>1, PlacedStays DEF Placed, buffer
<1>4. CASE SDeliver
  <2>1. PICK ms \in Wire : stream' = rx_stream(stream, ms) /\ phase' = "rx"
    BY <1>4 DEF SDeliver, Deliver
  <2>2. ms \in Seq(Message) /\ \A k \in 1 .. Len(ms) : ms[k].identifier # "ZERO"
    OBVIOUS
  <2>3. Appended(stream, stream', ms) /\ stream'.pos = 0
    BY <1>1, <2>1, <2>2, RxAppends, RxSound
  <2> QED BY <2>1, <2>2, <2>3, PlacedAppended
<1>5. CASE SRewind
  <2>1. stream' = [stream EXCEPT !.pos = 0] /\ phase' = "rx"
    BY <1>1, <1>5 DEF SRewind, ncodec_seek, stream_seek, Stream
  <2>2. stream'.len = stream.len /\ stream'.buffer = buffer /\ stream'.pos = 0
    BY <1>1, <2>1 DEF Stream, buffer
  <2> QED BY <2>1, <2>2, PlacedStays
<1>6. CASE SSkip
  <2>1. stream' = [stream EXCEPT !.pos = stream.len] /\ phase' = "idle"
    BY <1>1, <1>6 DEF SSkip, ncodec_seek, stream_seek
  <2>2. stream'.len = stream.len /\ stream'.buffer = buffer /\ stream'.pos = stream.len
    BY <1>1, <2>1 DEF Stream, buffer
  <2> QED BY <2>1, <2>2, PlacedStays
<1>7. CASE STruncate
  BY <1>7 DEF STruncate, truncate, stream_seek, Placed
<1>8. CASE SFlush
  <2>1. stream.pos = stream.len /\ phase' = "idle"
    BY <1>8 DEF SFlush, Placed
  <2>2. CASE fbs_stream_initalized
    <3> DEFINE ms == <<OwnMessage(pending)>>
    <3>1. OwnMessage(pending) \in Message /\ OwnMessage(pending).identifier = "own"
      BY OwnMessageType DEF SessionInv, CodecInv, TypeOK, OwnMessage
    <3>2. ms \in Seq(Message) /\ \A k \in 1 .. Len(ms) : ms[k].identifier # "ZERO"
      BY <3>1
    <3>3. stream' = stream_write(stream, ms)
      BY <1>8, <2>2 DEF SFlush, flush
    <3> HIDE DEF ms
    <3>4. Appended(stream, stream', ms) /\ stream'.pos = stream'.len
      BY <1>1, <2>1, <3>2, <3>3, WriteAppends
    <3> QED BY <2>1, <3>2, <3>4, PlacedAppended
  <2>3. CASE ~fbs_stream_initalized
    <3>1. stream' = stream
      BY <1>8, <2>3 DEF SFlush, flush
    <3> QED BY <2>1, <3>1, PlacedStays DEF buffer
  <2> QED BY <2>2, <2>3
<1>9. CASE UNCHANGED sessionVars
  <2>1. stream' = stream /\ phase' = phase
    BY <1>9 DEF sessionVars, vars
  <2> QED BY <2>1, PlacedStays DEF Placed, buffer
<1> QED BY <1>2, <1>3, <1>4, <1>5, <1>6, <1>7, <1>8, <1>9 DEF SNext

-----------------------------------------------------------------------------
(* The refinement: each call maps to a step of the log *)

\* The log and the cursor of the refinement mapping.
LogNow == FramesIn(buffer, stream.len)
CursorNow == IF vector # NULL THEN Len(FramesIn(buffer, vector)) + vector_idx
             ELSE Len(FramesIn(buffer, stream.pos))

LEMMA LogMapped == FramesBelow(stream.len) = LogNow /\ Consumed = CursorNow
<1>1. \A n : FramesBelow(n) = FramesIn(buffer, n)
  BY DEF FramesBelow, MsgFrames, FramesIn, FramesOf
<1> QED BY <1>1 DEF LogNow, CursorNow, Consumed

LEMMA LogMappedNext == FramesBelow(stream.len)' = LogNow' /\ Consumed' = CursorNow'
<1>1. (FramesBelow(stream.len) = LogNow /\ Consumed = CursorNow)'
  BY LogMapped, PTL
<1> QED BY <1>1

\* What the state of a session tells of its log.
LEMMA SessionFacts ==
    ASSUME SessionInv, Placed
    PROVE  /\ buffer \in [Slot -> Message]
           /\ stream.len \in 0 .. BUFFER_LEN /\ stream.pos \in 0 .. stream.len
           /\ LogNow \in Seq(Entry) /\ Len(LogNow) \in Nat
           /\ phase = "idle" => CursorNow = Len(LogNow)
           /\ phase # "drain" => vector = NULL
           /\ phase = "drain" =>
                 /\ vector \in 0 .. stream.len - 1 /\ vector # NULL /\ stream.pos = vector + 1
                 /\ Cursor = [at |-> vector, idx |-> vector_idx, len |-> vector_len]
                 /\ Deref(Cursor) = {FramesOf(buffer[vector])}
<1>1. /\ buffer \in [Slot -> Message]
      /\ stream.len \in 0 .. BUFFER_LEN /\ stream.pos \in 0 .. stream.len
  BY DEF SessionInv, CodecInv, TypeOK, Stream, buffer
<1>2. LogNow \in Seq(Entry) /\ Len(LogNow) \in Nat
  BY <1>1, FramesInType DEF LogNow
<1>3. phase # "drain" => vector = NULL
  BY DEF SessionInv, NoDanglingVector
<1>4. phase = "idle" => CursorNow = Len(LogNow)
  BY <1>3 DEF Placed, CursorNow, LogNow
<1>5. ASSUME phase = "drain"
      PROVE  /\ vector \in 0 .. stream.len - 1 /\ vector # NULL /\ stream.pos = vector + 1
             /\ Cursor = [at |-> vector, idx |-> vector_idx, len |-> vector_len]
             /\ Deref(Cursor) = {FramesOf(buffer[vector])}
  <2>1. /\ vector \in 0 .. stream.len - 1 /\ stream.pos = vector + 1
        /\ buffer[vector].identifier = "own" /\ Intact(Cursor)
    BY <1>5 DEF SessionInv, NoDanglingVector
  <2>2. vector # NULL
    BY <2>1 DEF NULL
  <2>3. Cursor = [at |-> vector, idx |-> vector_idx, len |-> vector_len]
    BY <2>2 DEF Cursor
  <2>4. Deref(Cursor) = {FramesOf(buffer[vector])}
    BY <2>1, <2>2, <2>3 DEF Deref, FramesOf
  <2> QED BY <2>1, <2>2, <2>3, <2>4
<1> QED BY <1>1, <1>2, <1>3, <1>4, <1>5

\* A read does one of these things; the pointers it starts from are live.
LEMMA SessionReads ==
    ASSUME SessionInv, Placed, SRead
    PROVE  \/ \E fs \in Deref(Cursor) : /\ phase = "drain" /\ Hits(fs, Cursor.idx) # {}
                                        /\ ReadFromVector(fs)
           \/ /\ phase = "drain" => Hits(FramesOf(buffer[vector]), vector_idx) = {}
              /\ \/ \E i \in Stops : IsFirst(i, Stops) /\ ReadFromStream(i)
                 \/ Stops = {} /\ ReadNoMessage
<1> USE DEF SessionInv, CodecInv
<1>1. PICK fs \in Deref(Cursor) :
          IF Hits(fs, Cursor.idx) # {}
          THEN ReadFromVector(fs)
          ELSE \/ ReadStuck
               \/ \E i \in Stops : IsFirst(i, Stops) /\ (ReadFromStream(i) \/ ReadNoVector(i))
               \/ Stops = {} /\ ReadNoMessage
  BY DEF SRead, read
<1>2. CASE phase = "drain"
  <2>1. Cursor.at = vector /\ Cursor.idx = vector_idx /\ vector # NULL
        /\ fs = FramesOf(buffer[vector])
    BY <1>1, <1>2, SessionFacts
  <2>2. ~ReadStuck
    BY <2>1 DEF ReadStuck
  <2>3. ASSUME NEW i \in Stops PROVE ~ReadNoVector(i)
    <3>1. i \in 0 .. stream.len - 1 /\ i \in Slot /\ buffer[i].identifier = "own"
      BY SessionFacts DEF Stops, Reachable, Slot
    <3>2. buffer[i] \in Produced
      BY <3>1 DEF Sound, Stream, buffer
    <3> QED BY <3>1, <3>2 DEF Produced, ReadNoVector
  <2> QED BY <1>1, <1>2, <2>1, <2>2, <2>3
<1>3. CASE phase # "drain"
  <2>1. vector = NULL /\ msg_ptr = NULL
    BY <1>3 DEF NoDanglingVector
  <2>2. Cursor.at = NULL
    BY <2>1 DEF Cursor
  <2>3. Hits(fs, Cursor.idx) = {}
    <3>1. fs = <<>>
      BY <1>1, <2>2, DerefType
    <3> QED BY <3>1, CursorType DEF Hits
  <2>4. ~ReadStuck
    BY <2>1 DEF ReadStuck
  <2>5. ASSUME NEW i \in Stops PROVE ~ReadNoVector(i)
    <3>1. i \in 0 .. stream.len - 1 /\ i \in Slot /\ buffer[i].identifier = "own"
      BY SessionFacts DEF Stops, Reachable, Slot
    <3>2. buffer[i] \in Produced
      BY <3>1 DEF Sound, Stream, buffer
    <3> QED BY <3>1, <3>2 DEF Produced, ReadNoVector
  <2> QED BY <1>1, <1>3, <2>3, <2>4, <2>5
<1> QED BY <1>2, <1>3

\* What a read passes over before it comes to slot j.
NothingUntil(t) == /\ CursorNow <= t
                   /\ \A p \in CursorNow + 1 .. t : ~Visible(LogNow[p])

LEMMA PassedOver ==
    ASSUME SessionInv, Placed,
           phase = "drain" => Hits(FramesOf(buffer[vector]), vector_idx) = {},
           NEW j \in stream.pos .. stream.len,
           \A i \in Stops : i >= j
    PROVE  NothingUntil(Len(FramesIn(buffer, j)))
<1> DEFINE b == buffer
           n == stream.len
           lo == Len(FramesIn(b, stream.pos))
<1>1. b \in [Slot -> Message] /\ n \in 0 .. BUFFER_LEN /\ stream.pos \in 0 .. n
  BY SessionFacts
<1>2. ASSUME NEW k \in stream.pos .. j - 1 PROVE Hits(FramesOf(b[k]), 0) = {}
  <2>1. CASE b[k].identifier = "own"
    <3>1. k \in Reachable
      BY <1>1, <2>1 DEF Reachable, Placed
    <3>2. k \notin Stops
      BY <1>1
    <3>3. k \in 0 .. n - 1 /\ k \in Slot
      BY <1>1 DEF Slot
    <3>4. b[k].has_frames
      <4>1. stream.buffer[k] \in Produced
        BY <3>3 DEF SessionInv, Sound, Stream
      <4> QED BY <2>1, <4>1 DEF Produced, buffer
    <3>5. FramesOf(b[k]) = b[k].frames
      BY <2>1 DEF FramesOf
    <3> QED BY <3>1, <3>2, <3>4, <3>5 DEF Stops
  <2>2. CASE b[k].identifier # "own"
    <3>1. FramesOf(b[k]) = <<>>
      BY <2>2 DEF FramesOf
    <3> QED BY <3>1 DEF Hits
  <2> QED BY <2>1, <2>2
<1>3. /\ lo <= Len(FramesIn(b, j))
      /\ \A p \in lo + 1 .. Len(FramesIn(b, j)) : ~Visible(LogNow[p])
  <2> HIDE DEF b, n
  <2>1. /\ Len(FramesIn(b, stream.pos)) <= Len(FramesIn(b, j))
        /\ \A p \in Len(FramesIn(b, stream.pos)) + 1 .. Len(FramesIn(b, j)) : ~Visible(FramesIn(b, n)[p])
    BY <1>1, <1>2, QuietSlots DEF n
  <2> QED BY <2>1 DEF LogNow, b, n
<1>4. lo \in Nat /\ Len(FramesIn(b, j)) \in Nat
  BY <1>1, FramesInType
<1>5. CASE phase # "drain"
  BY <1>3, <1>5, SessionFacts DEF CursorNow, NothingUntil
<1>6. CASE phase = "drain"
  <2> DEFINE at == Len(FramesIn(b, vector))
             fs == FramesOf(b[vector])
  <2>1. vector \in 0 .. n - 1 /\ vector # NULL /\ stream.pos = vector + 1
        /\ CursorNow = at + vector_idx
    BY <1>6, SessionFacts DEF CursorNow
  <2>2. FramesAt(b, vector, n)
    BY <1>1, <2>1, FramesPlaced
  <2>3. at + Len(fs) = lo /\ \A k \in 1 .. Len(fs) : LogNow[at + k] = fs[k]
    BY <2>1, <2>2 DEF FramesAt, LogNow
  <2>4. at \in Nat /\ Len(fs) \in Nat /\ vector_idx \in Nat /\ vector_idx <= Len(fs)
    <3>1. vector \in Slot /\ fs \in Deref(Cursor) /\ Cursor.at # NULL /\ Cursor.len = vector_len
      BY <1>1, <1>6, <2>1, SessionFacts DEF Slot
    <3>2. fs \in Seq(Entry) /\ Len(fs) = vector_len
      BY <3>1, DerefType DEF SessionInv, CodecInv
    <3>3. vector_idx \in Nat /\ vector_idx <= vector_len
      BY DEF SessionInv, CodecInv, TypeOK
    <3>4. vector \in 0 .. BUFFER_LEN
      BY <1>1, <2>1
    <3> QED BY <1>1, <3>2, <3>3, <3>4, FramesInType, LenProperties
  <2>5. \A k \in vector_idx + 1 .. Len(fs) : ~Visible(fs[k])
    BY <1>6 DEF Hits
  <2> DEFINE hi == Len(FramesIn(b, j))
  <2> HIDE DEF b, n, lo, at, fs, hi
  <2>6. \A p \in at + vector_idx + 1 .. hi : ~Visible(LogNow[p])
    <3> SUFFICES ASSUME NEW p \in at + vector_idx + 1 .. hi PROVE ~Visible(LogNow[p])
      OBVIOUS
    <3>1. CASE p <= lo
      <4>1. p - at \in vector_idx + 1 .. Len(fs) /\ p - at \in 1 .. Len(fs) /\ at + (p - at) = p
        BY <1>4, <2>3, <2>4, <3>1 DEF hi
      <4>2. LogNow[at + (p - at)] = fs[p - at]
        BY <2>3, <4>1
      <4> QED BY <2>5, <4>1, <4>2
    <3>2. CASE ~(p <= lo)
      BY <1>3, <1>4, <2>4, <3>2 DEF hi
    <3> QED BY <3>1, <3>2
  <2>7. at + vector_idx <= hi
    BY <1>3, <1>4, <2>3, <2>4 DEF hi
  <2> QED BY <2>1, <2>6, <2>7 DEF NothingUntil, hi, b
<1> QED BY <1>5, <1>6

LEMMA InitImplements == SInit => Log!Init
<1> SUFFICES ASSUME SInit PROVE Log!Init
  OBVIOUS
<1>1. /\ stream.len = 0 /\ stream.pos = 0 /\ vector = NULL /\ pending = <<>>
      /\ ret.op = "create" /\ ret.got = <<>>
  BY DEF SInit, Init, stream_create
<1>2. LogNow = <<>> /\ CursorNow = 0
  <2>1. FramesIn(buffer, 0) = <<>> /\ Len(<<>>) = 0
    BY FramesInNone
  <2> QED BY <1>1, <2>1 DEF LogNow, CursorNow
<1>3. own_id \in {v % UINT8 : v \in ConfigValue} \cup {0}
  <2>1. own_id \in {v % UINT8 : v \in ConfigValue \cup {0}} /\ 0 % UINT8 = 0
    BY DEF SInit, Init
  <2> QED BY <2>1
<1> QED BY <1>1, <1>2, <1>3, LogMapped DEF Log!Init

\* A read that returns the frame of the log at t and passes over what is
\* before it.
LEMMA FrameImplements ==
    ASSUME SessionInv, Placed, NEW t \in CursorNow + 1 .. Len(LogNow), CursorNow \in Nat,
           Visible(LogNow[t]), NothingUntil(t - 1),
           LogNow' = LogNow, CursorNow' = t, ret'.op = "read", ret'.got = <<LogNow[t]>>,
           stream'.len = stream.len, UNCHANGED <<own_id, pending>>
    PROVE  Log!Read
<1>1. \A f : Log!MayRead(f) <=> Visible(f)
  BY DEF Log!MayRead, Visible
<1>2. Log!Unread = {k \in CursorNow + 1 .. Len(LogNow) : Visible(LogNow[k])}
  BY <1>1, LogMapped DEF Log!Unread
<1>3. t \in Log!Unread
  BY <1>2
<1>4. \A other \in Log!Unread : t <= other
  <2> SUFFICES ASSUME NEW other \in Log!Unread PROVE t <= other
    OBVIOUS
  <2>1. other \in CursorNow + 1 .. Len(LogNow) /\ Visible(LogNow[other])
    BY <1>2
  <2>2. other \notin CursorNow + 1 .. t - 1
    BY <2>1 DEF NothingUntil
  <2>3. Len(LogNow) \in Nat
    BY SessionFacts
  <2> QED BY <2>1, <2>2, <2>3
<1> QED BY <1>3, <1>4, LogMapped, LogMappedNext DEF Log!Read, Log!Answer

LEMMA ReadImplementsLog ==
    ASSUME SessionInv, Placed, SRead
    PROVE  Log!Read
<1>1. /\ ReadOutcome /\ UNCHANGED <<own_id, pending>>
      /\ stream'.buffer = buffer /\ stream'.len = stream.len
  BY ReadOutcomes DEF SRead, SessionInv, CodecInv, ReadOutcome
<1>2. LogNow' = LogNow
  BY <1>1 DEF LogNow, buffer
<1>3. /\ buffer \in [Slot -> Message] /\ stream.len \in 0 .. BUFFER_LEN
      /\ stream.pos \in 0 .. stream.len /\ LogNow \in Seq(Entry) /\ Len(LogNow) \in Nat
  BY SessionFacts
\* The k-th frame of slot i, the first of it that the client may see.
<1>4. ASSUME NEW i \in 0 .. stream.len - 1, buffer[i].identifier = "own",
             NEW k \in 1 .. Len(FramesOf(buffer[i])), Visible(FramesOf(buffer[i])[k]),
             vector' = i, vector_idx' = k,
             ret'.op = "read", ret'.got = <<FramesOf(buffer[i])[k]>>,
             NothingUntil(Len(FramesIn(buffer, i)) + k - 1), CursorNow \in Nat
      PROVE  Log!Read
  <2> DEFINE at == Len(FramesIn(buffer, i))
             fs == FramesOf(buffer[i])
             t == at + k
  <2>1. FramesAt(buffer, i, stream.len)
    BY <1>3, FramesPlaced
  <2>2. at + Len(fs) <= Len(LogNow) /\ LogNow[t] = fs[k]
    BY <2>1 DEF FramesAt, LogNow
  <2>3. at \in Nat /\ Len(fs) \in Nat
    <3>1. i \in 0 .. BUFFER_LEN /\ i \in Slot
      BY <1>3 DEF Slot
    <3>2. fs \in Seq(Entry)
      BY <1>3, <3>1, FramesOfType
    <3>3. FramesIn(buffer, i) \in Seq(Entry)
      BY <1>3, <3>1, FramesInType
    <3> HIDE DEF fs
    <3> QED BY <3>2, <3>3, LenProperties
  <2>4. CursorNow' = t
    <3>1. i # NULL
      BY <1>3 DEF NULL
    <3> QED BY <1>1, <1>4, <3>1 DEF CursorNow, buffer
  <2>5. NothingUntil(t - 1) /\ CursorNow <= t - 1
    BY <1>4 DEF NothingUntil
  <2>6. ret'.got = <<LogNow[t]>> /\ Visible(LogNow[t])
    BY <1>4, <2>2
  <2> HIDE DEF t, fs
  <2>7. t \in CursorNow + 1 .. Len(LogNow)
    <3>1. t \in Nat /\ t <= Len(LogNow)
      BY <2>2, <2>3 DEF t, fs
    <3> QED BY <1>3, <1>4, <2>5, <3>1
  <2> QED BY <1>1, <1>2, <1>4, <2>4, <2>5, <2>6, <2>7, FrameImplements
<1>5. CursorNow \in Nat
  <2>1. CASE vector = NULL
    <3>1. stream.pos \in 0 .. BUFFER_LEN
      BY <1>3
    <3> QED BY <1>3, <2>1, <3>1, FramesInType DEF CursorNow
  <2>2. CASE vector # NULL
    <3>1. vector \in 0 .. BUFFER_LEN /\ vector_idx \in Nat
      BY <2>2 DEF SessionInv, CodecInv, TypeOK, Slot
    <3> QED BY <1>3, <2>2, <3>1, FramesInType DEF CursorNow
  <2> QED BY <2>1, <2>2
<1>6. ASSUME NEW fs \in Deref(Cursor), phase = "drain", ReadFromVector(fs) PROVE Log!Read
  <2>1. /\ vector \in 0 .. stream.len - 1 /\ vector # NULL
        /\ Cursor = [at |-> vector, idx |-> vector_idx, len |-> vector_len]
        /\ fs = FramesOf(buffer[vector]) /\ buffer[vector].identifier = "own"
    BY <1>6, SessionFacts DEF SessionInv, NoDanglingVector
  <2>2. PICK k \in Hits(fs, vector_idx) : /\ IsFirst(k, Hits(fs, vector_idx))
                                          /\ vector_idx' = k /\ Return("read", <<fs[k]>>)
    BY <1>6, <2>1 DEF ReadFromVector
  <2>3. vector' = vector /\ ret'.op = "read" /\ ret'.got = <<fs[k]>>
    BY <1>6, <2>1, <2>2 DEF ReadFromVector, Return
  <2>4. Len(fs) \in Nat /\ vector_idx \in Nat /\ Len(FramesIn(buffer, vector)) \in Nat
    <3>1. vector \in Slot /\ vector \in 0 .. BUFFER_LEN
      BY <1>3, <2>1 DEF Slot
    <3>2. fs \in Seq(Entry)
      BY <1>3, <2>1, <3>1, FramesOfType
    <3> QED BY <1>3, <3>1, <3>2, FramesInType, LenProperties DEF SessionInv, CodecInv, TypeOK
  <2>5. k \in vector_idx + 1 .. Len(fs) /\ Visible(fs[k]) /\ k \in 1 .. Len(fs)
    BY <2>2, <2>4 DEF Hits
  <2>6. \A q \in vector_idx + 1 .. k - 1 : ~Visible(fs[q])
    BY <2>2, <2>4, <2>5 DEF IsFirst, Hits
  <2>7. NothingUntil(Len(FramesIn(buffer, vector)) + k - 1)
    <3> DEFINE at == Len(FramesIn(buffer, vector))
    <3>1. FramesAt(buffer, vector, stream.len)
      BY <1>3, <2>1, FramesPlaced
    <3>2. \A q \in 1 .. Len(fs) : LogNow[at + q] = fs[q]
      BY <2>1, <3>1 DEF FramesAt, LogNow
    <3>3. CursorNow = at + vector_idx
      BY <2>1 DEF CursorNow
    <3> HIDE DEF at
    <3>4. ASSUME NEW p \in at + vector_idx + 1 .. at + k - 1 PROVE ~Visible(LogNow[p])
      <4>1. p - at \in vector_idx + 1 .. k - 1 /\ p - at \in 1 .. Len(fs) /\ at + (p - at) = p
        BY <2>4, <2>5 DEF at
      <4>2. LogNow[at + (p - at)] = fs[p - at]
        BY <3>2, <4>1
      <4> QED BY <2>6, <4>1, <4>2
    <3>5. at + vector_idx <= at + k - 1
      BY <2>4, <2>5 DEF at
    <3> QED BY <3>3, <3>4, <3>5 DEF NothingUntil, at
  <2> QED BY <1>4, <1>5, <2>1, <2>2, <2>3, <2>5, <2>7
<1>7. ASSUME phase = "drain" => Hits(FramesOf(buffer[vector]), vector_idx) = {},
             NEW i \in Stops, IsFirst(i, Stops), ReadFromStream(i)
      PROVE  Log!Read
  <2>1. i \in stream.pos .. stream.len - 1 /\ buffer[i].identifier = "own"
    BY DEF Stops, Reachable
  <2> DEFINE fs == FramesOf(buffer[i])
             at == Len(FramesIn(buffer, i))
  <2>2. fs = buffer[i].frames
    BY <2>1 DEF FramesOf
  <2>3. PICK k \in Hits(fs, 0) : /\ IsFirst(k, Hits(fs, 0))
                                 /\ vector_idx' = k /\ Return("read", <<fs[k]>>)
    BY <1>7, <2>2 DEF ReadFromStream
  <2>4. vector' = i /\ ret'.op = "read" /\ ret'.got = <<fs[k]>>
    BY <1>7, <2>3 DEF ReadFromStream, Return
  <2>5. i \in 0 .. stream.len - 1 /\ i \in Slot /\ i \in 0 .. BUFFER_LEN /\ i \in stream.pos .. stream.len
    BY <1>3, <2>1 DEF Slot
  <2>6. Len(fs) \in Nat /\ at \in Nat
    <3>1. fs \in Seq(Entry)
      BY <1>3, <2>5, FramesOfType
    <3> QED BY <1>3, <2>5, <3>1, FramesInType, LenProperties
  <2>7. k \in 1 .. Len(fs) /\ Visible(fs[k]) /\ \A q \in 1 .. k - 1 : ~Visible(fs[q])
    BY <2>3, <2>6 DEF IsFirst, Hits
  <2>8. NothingUntil(at)
    <3>1. \A other \in Stops : other >= i
      BY <1>7, <2>5 DEF IsFirst, Stops, Reachable
    <3> QED BY <1>7, <2>5, <3>1, PassedOver
  <2>9. NothingUntil(at + k - 1)
    <3>1. FramesAt(buffer, i, stream.len)
      BY <1>3, <2>5, FramesPlaced
    <3>2. \A q \in 1 .. Len(fs) : LogNow[at + q] = fs[q]
      BY <3>1 DEF FramesAt, LogNow
    <3> HIDE DEF at, fs
    <3>3. ASSUME NEW p \in CursorNow + 1 .. at + k - 1 PROVE ~Visible(LogNow[p])
      <4>1. CASE p <= at
        BY <1>5, <2>6, <2>8, <4>1 DEF NothingUntil
      <4>2. CASE ~(p <= at)
        <5>1. p - at \in 1 .. k - 1 /\ p - at \in 1 .. Len(fs) /\ at + (p - at) = p
          BY <1>5, <2>6, <2>7, <4>2
        <5>2. LogNow[at + (p - at)] = fs[p - at]
          BY <3>2, <5>1
        <5> QED BY <2>7, <5>1, <5>2
      <4> QED BY <4>1, <4>2
    <3>4. CursorNow <= at + k - 1
      BY <1>5, <2>6, <2>7, <2>8 DEF NothingUntil
    <3> QED BY <3>3, <3>4 DEF NothingUntil
  <2> QED BY <1>4, <1>5, <2>1, <2>3, <2>4, <2>5, <2>7, <2>9
<1>8. CASE /\ phase = "drain" => Hits(FramesOf(buffer[vector]), vector_idx) = {}
           /\ Stops = {} /\ ReadNoMessage
  <2>1. vector' = NULL /\ ret'.op = "read" /\ ret'.got = <<>>
    BY <1>8 DEF ReadNoMessage, Return
  <2>2. stream'.pos = stream.len
    BY <1>1, <2>1 DEF ReadOutcome
  <2>3. CursorNow' = Len(LogNow)
    BY <1>1, <2>1, <2>2 DEF CursorNow, LogNow, buffer
  <2>4. NothingUntil(Len(LogNow))
    <3>1. stream.len \in stream.pos .. stream.len
      BY <1>3
    <3> QED BY <1>8, <3>1, PassedOver DEF LogNow
  <2>5. Log!Unread = {}
    <3>1. \A f : Log!MayRead(f) <=> Visible(f)
      BY DEF Log!MayRead, Visible
    <3> QED BY <2>4, <3>1, LogMapped DEF Log!Unread, NothingUntil
  <2> QED BY <1>1, <1>2, <2>1, <2>3, <2>5, LogMapped, LogMappedNext DEF Log!Read, Log!Answer
<1> QED BY <1>6, <1>7, <1>8, SessionReads

\* Appending the frames of ms when there is room for its messages.
LEMMA AppendsLog ==
    ASSUME SessionInv, Placed, NEW ms \in Seq(Message), Appended(stream, stream', ms),
           Sound(stream', Message)
    PROVE  IF stream.len + Len(ms) <= BUFFER_LEN
           THEN LogNow' = LogNow \o Arriving(ms) /\ stream'.len = stream.len + Len(ms)
           ELSE LogNow' = LogNow /\ stream'.len = stream.len
<1>1. /\ buffer \in [Slot -> Message] /\ stream.len \in 0 .. BUFFER_LEN
      /\ stream'.buffer \in [Slot -> Message] /\ stream'.len \in 0 .. BUFFER_LEN
  BY SessionFacts DEF Sound, Stream
<1>2. LogNow' = FramesIn(stream'.buffer, stream'.len)
  BY DEF LogNow, buffer
<1>3. CASE /\ stream.len + Len(ms) > BUFFER_LEN
           /\ stream'.len = stream.len /\ stream'.buffer = stream.buffer
  <2>1. ~(stream.len + Len(ms) <= BUFFER_LEN)
    BY <1>1, <1>3, BufferLenAssumption
  <2> QED BY <1>2, <1>3, <2>1 DEF LogNow, buffer
<1>4. CASE /\ stream.len + Len(ms) <= BUFFER_LEN
           /\ stream'.len = stream.len + Len(ms)
           /\ \A i \in 0 .. stream.len - 1 : stream'.buffer[i] = stream.buffer[i]
           /\ \A i \in 1 .. Len(ms) : stream'.buffer[stream.len + i - 1] = ms[i]
  <2> DEFINE b == stream.buffer
             c == stream'.buffer
             n == stream.len
  <2>1. b \in [Slot -> Message] /\ c \in [Slot -> Message] /\ n \in 0 .. BUFFER_LEN
        /\ n + Len(ms) <= BUFFER_LEN
        /\ (\A i \in 0 .. n - 1 : c[i] = b[i]) /\ (\A i \in 1 .. Len(ms) : c[n + i - 1] = ms[i])
    BY <1>1, <1>4 DEF buffer
  <2>2. LogNow = FramesIn(b, n) /\ LogNow' = FramesIn(c, n + Len(ms))
    BY <1>2, <1>4 DEF LogNow, buffer
  <2> HIDE DEF b, c, n
  <2>3. FramesIn(c, n + Len(ms)) = FramesIn(b, n) \o Arriving(ms)
    BY <2>1, FramesAppended
  <2> QED BY <1>4, <2>2, <2>3
<1> QED BY <1>3, <1>4 DEF Appended

LEMMA FlushImplements ==
    ASSUME SessionInv, Placed, SFlush
    PROVE  Log!Flush
<1>1. flush /\ phase = "idle" /\ vector' = NULL
  BY DEF SFlush, flush, SessionInv, NoDanglingVector, parse
<1>2. CursorNow = Len(LogNow) /\ LogNow \in Seq(Entry) /\ stream.pos = stream.len
      /\ Sound(stream, Message) /\ Sound(stream', Message)
  <2>1. CodecInv'
    BY <1>1, CodecStep DEF SessionInv, Next
  <2>2. Sound(stream', Message)
    BY <2>1 DEF CodecInv, TypeOK, Sound
  <2> QED BY <1>1, <2>2, SessionFacts, TypeSound DEF SessionInv, CodecInv, Placed
<1>3. pending \in Seq(Entry) /\ (fbs_stream_initalized <=> pending # <<>>)
  BY DEF SessionInv, CodecInv, TypeOK, BuilderOpenIffFrames
<1>4. /\ IF stream.len + Log!Written.size <= BUFFER_LEN
         THEN LogNow' = LogNow \o pending /\ stream'.len = stream.len + Log!Written.size
         ELSE LogNow' = LogNow /\ stream'.len = stream.len
      /\ stream'.pos = stream'.len
  <2>1. CASE fbs_stream_initalized
    <3> DEFINE m == OwnMessage(pending)
               ms == <<m>>
    <3>1. m \in Message /\ ms \in Seq(Message) /\ Len(ms) = 1 /\ ms[1] = m
      BY <1>3, OwnMessageType
    <3>2. FramesOf(m) = pending
      BY DEF FramesOf, OwnMessage
    <3>3. stream' = stream_write(stream, ms)
      BY <1>1, <2>1 DEF flush
    <3> HIDE DEF m
    <3>4. Arriving(ms) = pending
      <4> DEFINE q == [k \in 1 .. 1 |-> FramesOf(ms[k])]
      <4>1. q \in [1 .. 1 -> Seq(Entry)] /\ q[1] = pending
        BY <1>3, <3>1, <3>2
      <4>2. Arriving(ms) = FlattenSeq(q)
        BY <3>1 DEF Arriving, FramesOf
      <4> HIDE DEF q
      <4>3. FlattenSeq(q) = q[1]
        BY <4>1, FlattenOne
      <4> QED BY <4>1, <4>2, <4>3
    <3> HIDE DEF ms
    <3>5. Appended(stream, stream', ms) /\ stream'.pos = stream'.len
      BY <1>2, <3>1, <3>3, WriteAppends
    <3>6. Log!Written.size = 1
      BY <1>3, <2>1 DEF Log!Written
    <3> QED BY <1>2, <3>1, <3>4, <3>5, <3>6, AppendsLog
  <2>2. CASE ~fbs_stream_initalized
    <3>1. stream' = stream /\ pending = <<>>
      BY <1>1, <1>3, <2>2 DEF flush
    <3>2. LogNow' = LogNow /\ LogNow \o <<>> = LogNow
      BY <1>2, <3>1 DEF LogNow, buffer
    <3>3. Log!Written.size = 0 /\ stream.len + 0 = stream.len
      BY <3>1, SessionFacts DEF Log!Written
    <3> QED BY <1>2, <3>1, <3>2, <3>3
  <2> QED BY <2>1, <2>2
<1>5. CursorNow' = Len(LogNow')
  BY <1>1, <1>4 DEF CursorNow, LogNow
<1>6. pending' = <<>> /\ ret'.op = "flush" /\ ret'.got = pending /\ own_id' = own_id
  BY <1>1, <1>3 DEF flush, Return
<1>7. Log!Extend(Log!Written)
  <2>1. Log!Written.frames = pending
    BY DEF Log!Written
  <2> QED BY <1>4, <2>1, LogMapped, LogMappedNext DEF Log!Extend
<1> QED BY <1>2, <1>5, <1>6, <1>7, LogMapped, LogMappedNext DEF Log!Flush, Log!Answer

LEMMA DeliverImplements ==
    ASSUME SessionInv, Placed, SDeliver
    PROVE  \E batch \in {[frames |-> Arriving(ms), size |-> Len(ms)] : ms \in Wire} :
               Log!Receive(batch)
<1>1. PICK ms \in Wire : Deliver(ms)
  BY DEF SDeliver
<1>2. ms \in Seq(Message) /\ Sound(stream, Message)
  BY TypeSound DEF SessionInv, CodecInv
<1>3. stream' = rx_stream(stream, ms) /\ vector' = NULL
  BY <1>1 DEF SDeliver, Deliver, SessionInv, NoDanglingVector, parse
<1>4. Appended(stream, stream', ms) /\ Sound(stream', Message) /\ stream'.pos = 0
  BY <1>2, <1>3, RxAppends, RxSound
<1> DEFINE batch == [frames |-> Arriving(ms), size |-> Len(ms)]
<1>5. Log!Extend(batch)
  <2>1. batch.frames = Arriving(ms) /\ batch.size = Len(ms)
    OBVIOUS
  <2> HIDE DEF batch
  <2>2. IF stream.len + Len(ms) <= BUFFER_LEN
        THEN LogNow' = LogNow \o Arriving(ms) /\ stream'.len = stream.len + Len(ms)
        ELSE LogNow' = LogNow /\ stream'.len = stream.len
    BY <1>2, <1>4, AppendsLog
  <2> QED BY <2>1, <2>2, LogMapped, LogMappedNext DEF Log!Extend
<1>6. CursorNow' = 0
  <2>1. FramesIn(buffer', 0) = <<>> /\ Len(<<>>) = 0
    BY FramesInNone
  <2> QED BY <1>3, <1>4, <2>1 DEF CursorNow
<1>7. ret'.op = "deliver" /\ ret'.got = <<>> /\ UNCHANGED <<own_id, pending>>
  BY <1>1 DEF Deliver, Return
<1> HIDE DEF batch
<1>8. Log!Receive(batch)
  BY <1>5, <1>6, <1>7, LogMapped, LogMappedNext DEF Log!Receive, Log!Answer
<1> USE DEF batch
<1> QED BY <1>8

LEMMA WindImplements ==
    ASSUME SessionInv, Placed, SRewind \/ SSkip
    PROVE  \E to \in {0, Len(LogNow)} : Log!Wind(to)
<1>1. PICK op \in {"SEEK_SET", "SEEK_END"} :
          stream' = stream_seek(stream, 0, op) /\ ncodec_seek(0, op)
  BY DEF SRewind, SSkip, ncodec_seek
<1>2. /\ ret'.op = "seek" /\ ret'.got = <<>>
      /\ UNCHANGED <<own_id, pending>> /\ vector' = NULL
  BY <1>1 DEF SRewind, SSkip, ncodec_seek, Return, SessionInv, NoDanglingVector, parse
<1>3. stream'.len = stream.len /\ stream'.buffer = stream.buffer /\ stream'.pos \in {0, stream.len}
  <2>1. stream \in Stream(Message)
    BY DEF SessionInv, CodecInv, TypeOK
  <2>2. stream' = [stream EXCEPT !.pos = 0] \/ stream' = [stream EXCEPT !.pos = stream.len]
    BY <1>1, <2>1 DEF stream_seek, Stream
  <2> QED BY <2>1, <2>2 DEF Stream
<1>4. LogNow' = LogNow
  BY <1>3 DEF LogNow, buffer
<1>5. CursorNow' \in {0, Len(LogNow)}
  <2>1. FramesIn(buffer, 0) = <<>> /\ Len(<<>>) = 0
    BY FramesInNone
  <2> QED BY <1>2, <1>3, <2>1 DEF CursorNow, LogNow, buffer
<1>6. Log!Wind(CursorNow')
  BY <1>2, <1>3, <1>4, LogMapped, LogMappedNext DEF Log!Wind, Log!Answer
<1> QED BY <1>5, <1>6, LogMapped, LogMappedNext DEF Log!Wind

LEMMA StepImplements ==
    ASSUME SessionInv, Placed, [SNext]_sessionVars
    PROVE  [Log!Next]_(Log!logVars)
<1>1. CASE SRead
  BY <1>1, ReadImplementsLog DEF Log!Next
\* Calls that leave the stream and the parse state.
<1>2. ASSUME UNCHANGED <<stream, parse>> PROVE LogNow' = LogNow /\ CursorNow' = CursorNow
  BY <1>2 DEF LogNow, CursorNow, buffer, parse
<1>3. CASE SWrite
  <2>1. PICK e \in Writable : write(e)
    BY <1>3 DEF SWrite
  <2>2. (IF fbs_stream_initalized THEN pending ELSE <<>>) = pending
    BY DEF SessionInv, CodecInv, BuilderOpenIffFrames
  <2>3. /\ pending' = Append(pending, e) /\ own_id' = own_id
        /\ ret'.op = "write" /\ ret'.got = <<>>
    BY <2>1, <2>2 DEF write, Return
  <2>4. e \in Entry /\ e.type # "Other"
    BY DEF Writable
  <2>5. UNCHANGED <<stream, parse>>
    BY <2>1 DEF write
  <2>6. Log!Write(e)
    BY <1>2, <2>3, <2>4, <2>5, LogMapped, LogMappedNext DEF Log!Write, Log!Answer
  <2> QED BY <2>4, <2>6 DEF Log!Next
<1>4. CASE SConfig
  <2>1. PICK v \in ConfigValue : codec_config(v)
    BY <1>4 DEF SConfig
  <2>2. /\ own_id' = v % UINT8 /\ pending' = pending
        /\ ret'.op = "config" /\ ret'.got = <<>>
    BY <2>1 DEF codec_config, Return
  <2>3. UNCHANGED <<stream, parse>>
    BY <2>1 DEF codec_config
  <2>4. Log!Config(v % UINT8)
    BY <1>2, <2>2, <2>3, LogMapped, LogMappedNext DEF Log!Config, Log!Answer
  <2> QED BY <2>4 DEF Log!Next
<1>5. CASE SDeliver
  BY <1>5, DeliverImplements DEF Log!Next
<1>6. CASE SRewind \/ SSkip
  BY <1>6, WindImplements, LogMapped DEF Log!Next
<1>7. CASE STruncate
  <2>1. stream'.len = 0 /\ stream'.pos = 0 /\ vector' = NULL
    BY <1>7 DEF STruncate, truncate, stream_seek, SessionInv, NoDanglingVector, parse
  <2>2. LogNow' = <<>> /\ CursorNow' = 0
    <3>1. FramesIn(buffer', 0) = <<>> /\ Len(<<>>) = 0
      BY FramesInNone
    <3> QED BY <2>1, <3>1 DEF LogNow, CursorNow
  <2>3. /\ pending' = <<>> /\ own_id' = own_id
        /\ ret'.op = "truncate" /\ ret'.got = <<>>
    <3>1. ~fbs_stream_initalized => pending = <<>>
      BY DEF SessionInv, CodecInv, BuilderOpenIffFrames
    <3> QED BY <1>7, <3>1 DEF STruncate, truncate, Return
  <2>4. Log!Truncate
    BY <2>1, <2>2, <2>3, LogMapped, LogMappedNext DEF Log!Truncate, Log!Answer
  <2> QED BY <2>4 DEF Log!Next
<1>8. CASE SFlush
  BY <1>8, FlushImplements DEF Log!Next
<1>9. CASE UNCHANGED sessionVars
  <2>1. UNCHANGED <<stream, parse, pending, own_id, ret>>
    BY <1>9 DEF sessionVars, vars
  <2> QED BY <1>2, <2>1, LogMapped, LogMappedNext DEF Log!logVars
<1> QED BY <1>1, <1>3, <1>4, <1>5, <1>6, <1>7, <1>8, <1>9 DEF SNext

\* A client that keeps to the documented discipline sees the codec as a log
\* of frames: a read returns the next frame that it may see, and -ENOMSG only
\* when none is left; a flush or a delivery appends whole batches, and loses
\* one only when the stream has no room for it.
THEOREM SessionIsLog == SessionSpec => ImplementsFrameLog
<1>1. SInit => SessionInv /\ Placed /\ Log!Init
  <2>1. SInit => Placed
    BY DEF SInit, Init, stream_create, Placed
  <2> QED BY <2>1, SessionInit, InitImplements
<1>2. SessionInv /\ Placed /\ [SNext]_sessionVars => SessionInv' /\ Placed'
  BY SessionStep, PlacedStep
<1>3. SessionInv /\ Placed /\ [SNext]_sessionVars => [Log!Next]_(Log!logVars)
  BY StepImplements
<1> QED BY <1>1, <1>2, <1>3, PTL DEF SessionSpec, ImplementsFrameLog, Log!Spec
=============================================================================
