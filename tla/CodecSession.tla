---------------------------- MODULE CodecSession ----------------------------
(***************************************************************************)
(* FbsCodec under the call discipline that codec.c documents and the       *)
(* clients of the repository follow:                                       *)
(*   - once a read has returned a frame, the messages are "consumed        *)
(*     immediately within a sequence of calls to ncodec_read (e.g. until   *)
(*     ENOMSG)": until then only further reads, writes and config;         *)
(*   - a flush comes with the stream at its end, so that it appends;       *)
(*   - delivered messages are what a codec produces.                       *)
(* Under it the codec implements FrameLog.                                 *)
(***************************************************************************)
EXTENDS FbsCodec, SequencesExt

\* What a codec puts on the wire: every Stream table has its frames vector,
\* and no message is empty.
Produced == {m \in Message : m.identifier = "own" => m.has_frames}

ASSUME SessionAssumption ==
    /\ Wire \subseteq Seq(Produced)
    /\ \A ms \in Wire : \A k \in 1 .. Len(ms) : ms[k].identifier # "ZERO"

VARIABLE phase

sessionVars == <<vars, phase>>

\* "idle": the stream is at its end.  "rx": rewound, nothing read yet.
\* "drain": a read has returned a frame and -ENOMSG is still to come.
Phase == {"idle", "rx", "drain"}

SInit == Init /\ phase = "idle"

\* In any phase.
SRead   == read /\ phase' = IF ret'.got = <<>> THEN "idle" ELSE "drain"
SWrite  == (\E e \in Writable : write(e)) /\ UNCHANGED phase
SConfig == (\E v \in ConfigValue : codec_config(v)) /\ UNCHANGED phase

\* Between drains.
SDeliver  == phase # "drain" /\ (\E ms \in Wire : Deliver(ms)) /\ phase' = "rx"
SRewind   == phase # "drain" /\ ncodec_seek(0, "SEEK_SET") /\ phase' = "rx"
SSkip     == phase # "drain" /\ ncodec_seek(0, "SEEK_END") /\ phase' = "idle"
STruncate == phase # "drain" /\ truncate /\ phase' = "idle"
SFlush    == phase = "idle" /\ flush /\ phase' = "idle"

SNext == SRead \/ SWrite \/ SConfig \/ SDeliver \/ SRewind \/ SSkip \/ STruncate \/ SFlush

\* The clients read in a loop that only -ENOMSG ends (fmi2DoStep).
SFairness == WF_sessionVars(SRead /\ phase = "drain")

SessionSpec == SInit /\ [][SNext]_sessionVars
FairSessionSpec == SessionSpec /\ SFairness

-----------------------------------------------------------------------------
(* Refinement mapping *)

MsgFrames(i) == IF buffer[i].identifier = "own" THEN buffer[i].frames ELSE <<>>

\* The frames of the own messages in slots 0 .. n - 1, in order.
FramesBelow(n) == FlattenSeq([k \in 1 .. n |-> MsgFrames(k - 1)])

Consumed == IF vector # NULL THEN Len(FramesBelow(vector)) + vector_idx
            ELSE Len(FramesBelow(stream.pos))

Arriving(ms) == FlattenSeq([k \in 1 .. Len(ms) |-> IF ms[k].identifier = "own"
                                                   THEN ms[k].frames ELSE <<>>])

Log == INSTANCE FrameLog WITH
    NodeId   <- {v % UINT8 : v \in ConfigValue},
    Arrival  <- {[frames |-> Arriving(ms), size |-> Len(ms)] : ms \in Wire},
    Capacity <- BUFFER_LEN,
    log      <- FramesBelow(stream.len),
    cursor   <- Consumed,
    outbox   <- pending,
    node     <- own_id,
    op       <- ret.op,
    got      <- ret.got,
    used     <- stream.len

-----------------------------------------------------------------------------
(* Properties *)

\* Every frame of the log is read at most once and in order, a read skips none
\* that the client may see and answers -ENOMSG only when none is left, across
\* messages, filtered frames and foreign messages; a flush or a delivery
\* appends its frames whole and at the end, and loses them only when the
\* stream has no room for them.
ImplementsFrameLog == Log!Spec

\* The parse state is cleared whenever the client may touch the stream, and
\* during a drain it lies in a message that is still in the stream: no read
\* goes through a pointer into replaced or truncated content.
NoDanglingVector ==
    IF phase # "drain" THEN msg_ptr = NULL /\ vector = NULL
    ELSE /\ msg_ptr = vector
         /\ vector \in 0 .. stream.len - 1
         /\ stream.pos = vector + 1
         /\ buffer[vector].identifier = "own"
         /\ Intact(Cursor)

\* A drain that has begun ends, whatever is written or configured meanwhile.
DrainEnds == phase = "drain" ~> phase = "idle"
=============================================================================
