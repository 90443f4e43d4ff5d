----------------------------- MODULE StreamFile -----------------------------
(***************************************************************************)
(* A BufferStream of bytes under a caller of the stream's function table   *)
(* that makes any sequence of calls; it implements ByteFile.               *)
(***************************************************************************)
EXTENDS BufferStream

CONSTANTS Byte, Zero, Chunk

ASSUME StreamFileAssumption == Zero \in Byte /\ Chunk \subseteq Seq(Byte)

VARIABLES s, result   \* the stream, and the bytes the last read handed out

streamVars == <<s, result>>

Init == s = stream_create(Zero) /\ result = <<>>

Read(pos_op) == s' = stream_read_pos(s, pos_op) /\ result' = stream_read(s)

Write(data) == s' = stream_write(s, data) /\ result' = <<>>

Seek(pos, op) == s' = stream_seek(s, pos, op) /\ result' = <<>>

SeekOp == {"SEEK_SET", "SEEK_CUR", "SEEK_END", "SEEK_RESET", "SEEK_42", "invalid"}

Next ==
    \/ \E pos_op \in {"POS_NC", "POS_UPDATE"} : Read(pos_op)
    \/ \E data \in Chunk : Write(data)
    \/ \E pos \in 0 .. BUFFER_LEN + 1, op \in SeekOp : Seek(pos, op)

Spec == Init /\ [][Next]_streamVars

-----------------------------------------------------------------------------
(* Properties *)

\* The position stays within the readable length and that within the array:
\* no access of the code is outside the buffer.
InBounds == s \in Stream(Byte) /\ s.pos <= s.len

Content(stream) == [k \in 1 .. stream.len |-> stream.buffer[k - 1]]

File == INSTANCE ByteFile WITH
    Capacity <- BUFFER_LEN, content <- Content(s), at <- s.pos

\* Reading, overwriting, growing, clamped seeking, refusing what does not fit
\* and resetting behave as on a file, whatever the array still holds beyond
\* the length from before a reset.
ImplementsByteFile == File!Spec
=============================================================================
