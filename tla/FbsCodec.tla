------------------------------ MODULE FbsCodec ------------------------------
(***************************************************************************)
(* What the two codecs of the automotive-bus library have in common: one   *)
(* NCODEC instance with its flatbuffer builder and its parse state, over a *)
(* BufferStream, used by a client that calls the API in any order.         *)
(* pdu_fbs.c repeats these functions of frame_can_fbs.c statement by       *)
(* statement; CanCodec and PduCodec add what they write and decode.        *)
(*                                                                         *)
(* One unit of the stream stands for one size-prefixed message.  An entry  *)
(* of its vector, a frame or a PDU, is a record with at least the two      *)
(* fields the read loop looks at: its union type and its sender.  A vector *)
(* pointer is the slot of the message it points into.                      *)
(***************************************************************************)
EXTENDS BusTopology

CONSTANTS
    UINT8,        \* 2^8 in the code; less in a run, which wraps sooner
    Entry,        \* entries of a vector: [type, sender, ...]
    ConfigValue,  \* numbers the client passes as node_id or swc_id
    Wire,         \* what a network may deliver: sequences of messages
    MaxPending    \* bound: entries in the builder before a flush

ASSUME CodecAssumption ==
    /\ UINT8 \in Nat \ {0}
    /\ ConfigValue \subseteq Nat
    /\ MaxPending \in Nat \ {0}

VARIABLES
    stream,                 \* the BufferStream of the instance
    own_id,                \* uint8_t of the instance, 0 disables the filter
    pending,                \* entries in fbs_builder
    fbs_stream_initalized,  \* the builder holds an open Stream table
    msg_ptr, vector, vector_idx, vector_len,    \* the parse state
    ret                     \* the last call, and the entries its result reports

parse == <<msg_ptr, vector, vector_idx, vector_len>>
vars == <<stream, own_id, pending, fbs_stream_initalized, parse, ret>>

NULL == -1   \* a pointer to no slot

Node == 0 .. UINT8 - 1

\* A message: the file identifier it carries, "ZERO" for a zero size prefix,
\* and its vector, which a Stream table may leave out.  "own" stands for the
\* identifier of this codec's schema.
Message == [identifier : {"own", "foreign", "ZERO"}, has_frames : BOOLEAN, frames : Seq(Entry)]

ZeroMessage == [identifier |-> "ZERO", has_frames |-> FALSE, frames |-> <<>>]
OwnMessage(fs) == [identifier |-> "own", has_frames |-> TRUE, frames |-> fs]

ASSUME WireAssumption == Wire \subseteq Seq(Message)

buffer == stream.buffer

\* No codec writes the other union members.
Writable == {e \in Entry : e.type # "Other"}

-----------------------------------------------------------------------------
Init ==
    /\ stream = stream_create(ZeroMessage)
    /\ own_id \in {v % UINT8 : v \in ConfigValue \cup {0}}    \* from the MIME type
    /\ pending = <<>> /\ fbs_stream_initalized = FALSE
    /\ msg_ptr = NULL /\ vector = NULL /\ vector_idx = 0 /\ vector_len = 0
    /\ ret = [op |-> "create", got |-> <<>>]

Return(op, fs) == ret' = [op |-> op, got |-> fs]

\* codec_config: the number is stored in a uint8_t.
codec_config(v) ==
    /\ own_id' = v % UINT8
    /\ Return("config", <<>>)
    /\ UNCHANGED <<stream, pending, fbs_stream_initalized, parse>>

\* The entry joins the batch that is open, or the first of a new one.
write(e) ==
    LET built == IF fbs_stream_initalized THEN pending ELSE <<>>
    IN  /\ Len(built) < MaxPending
        /\ pending' = Append(built, e)
        /\ fbs_stream_initalized' = TRUE
        /\ Return("write", <<>>)
        /\ UNCHANGED <<stream, own_id, parse>>

\* The result is the length of the message, whatever stream->write returns.
flush ==
    /\ stream' = IF fbs_stream_initalized
                 THEN stream_write(stream, <<OwnMessage(pending)>>) ELSE stream
    /\ Return("flush", IF fbs_stream_initalized THEN pending ELSE <<>>)
    /\ pending' = <<>> /\ fbs_stream_initalized' = FALSE
    /\ UNCHANGED <<own_id, parse>>

\* Faulty: the builder is emptied but stays open.
truncate_stays_open ==
    /\ stream' = stream_seek(stream, 0, "SEEK_RESET")
    /\ pending' = <<>>
    /\ Return("truncate", <<>>)
    /\ UNCHANGED <<own_id, fbs_stream_initalized, parse>>

\* The parse state is not reset.
truncate ==
    /\ stream' = stream_seek(stream, 0, "SEEK_RESET")
    /\ pending' = IF fbs_stream_initalized THEN <<>> ELSE pending
    /\ fbs_stream_initalized' = FALSE
    /\ Return("truncate", <<>>)
    /\ UNCHANGED <<own_id, parse>>

ncodec_seek(pos, op) ==
    /\ stream' = stream_seek(stream, pos, op)
    /\ Return("seek", <<>>)
    /\ UNCHANGED <<own_id, pending, fbs_stream_initalized, parse>>

\* bus_topology_rx on this codec.
Deliver(ms) ==
    /\ stream' = rx_stream(stream, ms)
    /\ Return("deliver", <<>>)
    /\ UNCHANGED <<own_id, pending, fbs_stream_initalized, parse>>

-----------------------------------------------------------------------------
(* read *)

\* The filter of the loop over a vector; "Other" is a union member it passes over.
Visible(f) == f.type # "Other" /\ ~(own_id # 0 /\ own_id = f.sender)

\* Positions of fs after the first idx that the frame loop would return.
Hits(fs, idx) == {k \in idx + 1 .. Len(fs) : Visible(fs[k])}

IsFirst(k, S) == k \in S /\ \A other \in S : k <= other

\* The vector the call starts with: the cached one, or, after a message that
\* had none, that message's vector decoded again.
Cursor ==
    IF msg_ptr # NULL /\ vector = NULL /\ buffer[msg_ptr].has_frames
    THEN [at |-> msg_ptr, idx |-> 0, len |-> Len(buffer[msg_ptr].frames)]
    ELSE [at |-> vector, idx |-> vector_idx, len |-> vector_len]

\* What the cached pointers dereference to.  A slot that no longer holds a
\* vector of the cached length was overwritten: the frames are anything.
Intact(c) == buffer[c.at].has_frames /\ Len(buffer[c.at].frames) = c.len
Deref(c) ==
    IF c.at = NULL THEN {<<>>}
    ELSE IF Intact(c) THEN {buffer[c.at].frames} ELSE [1 .. c.len -> Entry]

\* Faulty: the search ends at the first message of another codec.
Reachable_no_foreign == {i \in stream.pos .. stream.len - 1 :
                            \A k \in stream.pos .. i : buffer[k].identifier = "own"}

\* Own messages get_msg_from_stream reaches: a zero size prefix ends its loop.
Reachable == {i \in stream.pos .. stream.len - 1 :
                 /\ buffer[i].identifier = "own"
                 /\ \A k \in stream.pos .. i - 1 : buffer[k].identifier # "ZERO"}

\* The messages at which the outer loop stops: a frame for the client, or no
\* vector at all.
Stops == {i \in Reachable : buffer[i].has_frames => Hits(buffer[i].frames, 0) # {}}

AtEnd == stream_seek(stream, 0, "SEEK_END")

\* Faulty: the index is saved before it is advanced.
ReadFromVector_repeats(fs) ==
    /\ \E k \in Hits(fs, Cursor.idx) :
          /\ IsFirst(k, Hits(fs, Cursor.idx))
          /\ vector_idx' = k - 1
          /\ Return("read", <<fs[k]>>)
    /\ vector' = Cursor.at /\ vector_len' = Cursor.len
    /\ UNCHANGED <<stream, msg_ptr>>

\* A frame of the vector in hand.
ReadFromVector(fs) ==
    /\ \E k \in Hits(fs, Cursor.idx) :
          /\ IsFirst(k, Hits(fs, Cursor.idx))
          /\ vector_idx' = k
          /\ Return("read", <<fs[k]>>)
    /\ vector' = Cursor.at /\ vector_len' = Cursor.len
    /\ UNCHANGED <<stream, msg_ptr>>

\* No vector in hand but a message: the loop is not entered.
ReadStuck ==
    /\ Cursor.at = NULL /\ msg_ptr # NULL
    /\ stream' = AtEnd
    /\ Return("read", <<>>)
    /\ UNCHANGED parse

\* Faulty: the index is advanced twice.
ReadFromStream_skips(i) ==
    /\ buffer[i].has_frames
    /\ msg_ptr' = i /\ vector' = i /\ vector_len' = Len(buffer[i].frames)
    /\ \E k \in Hits(buffer[i].frames, 0) :
          /\ IsFirst(k, Hits(buffer[i].frames, 0))
          /\ vector_idx' = k + 1
          /\ Return("read", <<buffer[i].frames[k]>>)
    /\ stream' = [stream EXCEPT !.pos = i + 1]

\* A frame of a message further on, the first that has one.
ReadFromStream(i) ==
    /\ buffer[i].has_frames
    /\ msg_ptr' = i /\ vector' = i /\ vector_len' = Len(buffer[i].frames)
    /\ \E k \in Hits(buffer[i].frames, 0) :
          /\ IsFirst(k, Hits(buffer[i].frames, 0))
          /\ vector_idx' = k
          /\ Return("read", <<buffer[i].frames[k]>>)
    /\ stream' = [stream EXCEPT !.pos = i + 1]

\* A message without a vector: the outer loop ends at it.
ReadNoVector(i) ==
    /\ ~buffer[i].has_frames
    /\ msg_ptr' = i /\ vector' = NULL /\ vector_idx' = 0 /\ vector_len' = 0
    /\ Return("read", <<>>)
    /\ stream' = AtEnd

\* Faulty: the vector is not cleared.
ReadNoMessage_keeps_vector ==
    /\ msg_ptr' = NULL
    /\ Return("read", <<>>)
    /\ stream' = AtEnd
    /\ UNCHANGED <<vector, vector_idx, vector_len>>

\* Faulty: only the index is cleared.
ReadNoMessage_restarts ==
    /\ vector_idx' = 0
    /\ Return("read", <<>>)
    /\ stream' = AtEnd
    /\ UNCHANGED <<msg_ptr, vector, vector_len>>

\* Nothing in the stream: -ENOMSG.
ReadNoMessage ==
    /\ msg_ptr' = NULL /\ vector' = NULL /\ vector_idx' = 0 /\ vector_len' = 0
    /\ Return("read", <<>>)
    /\ stream' = AtEnd

read ==
    /\ \E fs \in Deref(Cursor) :
          IF Hits(fs, Cursor.idx) # {}
          THEN ReadFromVector(fs)
          ELSE \/ ReadStuck
               \/ /\ Cursor.at # NULL \/ msg_ptr = NULL
                  /\ \/ \E i \in Stops : IsFirst(i, Stops) /\ (ReadFromStream(i) \/ ReadNoVector(i))
                     \/ Stops = {} /\ ReadNoMessage
    /\ UNCHANGED <<own_id, pending, fbs_stream_initalized>>

-----------------------------------------------------------------------------
SeekOp == {"SEEK_SET", "SEEK_CUR", "SEEK_END", "SEEK_RESET"}

Next ==
    \/ \E v \in ConfigValue : codec_config(v)
    \/ \E e \in Writable : write(e)
    \/ flush
    \/ truncate
    \/ read
    \/ \E pos \in 0 .. 1, op \in SeekOp : ncodec_seek(pos, op)
    \/ \E ms \in Wire : Deliver(ms)

Spec == Init /\ [][Next]_vars

-----------------------------------------------------------------------------
(* Properties *)

Op == {"create", "config", "write", "flush", "truncate", "seek", "deliver", "read"}

\* Each variable has its type; the stream's position never passes its length
\* and its length never passes the array (no access outside the buffer).
TypeOK ==
    /\ stream \in Stream(Message) /\ stream.pos <= stream.len
    /\ own_id \in Node
    /\ pending \in Seq(Entry) /\ Len(pending) <= MaxPending
    /\ fbs_stream_initalized \in BOOLEAN
    /\ msg_ptr \in Slot \cup {NULL} /\ vector \in Slot \cup {NULL}
    /\ vector_idx \in Nat /\ vector_len \in Nat /\ vector_idx <= vector_len
    /\ ret \in [op : Op, got : Seq(Entry)]

\* The builder is open exactly when it holds a frame: a flush right after a
\* truncate, a flush or a create emits nothing, and no write is dropped by the
\* builder reset of initialize_stream.
BuilderOpenIffFrames == fbs_stream_initalized <=> pending # <<>>

\* The vector in hand is always one of the message in hand: no call order
\* leaves a vector pointer behind when the message pointer is cleared.
VectorOfMessage == vector # NULL => msg_ptr = vector

\* Once a read has answered -ENOMSG, the next call, if it is a read, answers
\* -ENOMSG too: the drain loops of the clients may stop at the first one.
EnomsgIsStable ==
    [][ret.op = "read" /\ ret.got = <<>> /\ ret'.op = "read" => ret'.got = <<>>]_vars

\* The documented promises below do not hold of the code.

\* ncodec_truncate: "internal buffers were truncated"; a read right after it
\* finds no message.
TruncateForgets ==
    [][ret.op = "truncate" /\ ret'.op = "read" => ret'.got = <<>>]_vars

\* ncodec_flush: "internal buffers were flushed to the connected stream": the
\* frames its result reports are in the stream, just before its position.
FlushReachesStream ==
    [][ret'.op = "flush" /\ ret'.got # <<>> =>
         \E i \in Slot : i = stream'.pos - 1 /\ stream'.buffer[i] = OwnMessage(ret'.got)]_vars
=============================================================================
