------------------------------ MODULE ByteFile ------------------------------
(***************************************************************************)
(* What the stream interface promises a codec: a file of bounded size.     *)
(* content is what can be read, at is the position of the next access.     *)
(***************************************************************************)
EXTENDS Integers, Sequences

CONSTANTS Byte, Capacity, Chunk   \* Chunk: the byte sequences a caller writes

VARIABLES content, at, result

fileVars == <<content, at, result>>

Init == content = <<>> /\ at = 0 /\ result = <<>>

\* The bytes from the position on; consuming them is up to the caller.
Read ==
    /\ result' = [k \in 1 .. (Len(content) - at) |-> content[at + k]]
    /\ at' \in {at, Len(content)}
    /\ UNCHANGED content

\* Overwrites from the position on and grows the file as far as needed, or,
\* when the bytes do not fit, does nothing.
Write(data) ==
    /\ result' = <<>>
    /\ IF at + Len(data) > Capacity THEN UNCHANGED <<content, at>>
       ELSE /\ at' = at + Len(data)
            /\ content' = [k \in 1 .. (IF at' > Len(content) THEN at' ELSE Len(content)) |->
                              IF k \in at + 1 .. at' THEN data[k - at] ELSE content[k]]

\* The position can only be moved within the file.
Seek ==
    /\ at' \in 0 .. Len(content)
    /\ result' = <<>>
    /\ UNCHANGED content

Reset == content' = <<>> /\ at' = 0 /\ result' = <<>>

\* The whole array becomes readable: what it holds beyond the file is anything.
Expose ==
    /\ \E tail \in [Len(content) + 1 .. Capacity -> Byte] :
          content' = [k \in 1 .. Capacity |-> IF k <= Len(content) THEN content[k] ELSE tail[k]]
    /\ at' = Capacity
    /\ result' = <<>>

Next == Read \/ (\E data \in Chunk : Write(data)) \/ Seek \/ Reset \/ Expose

Spec == Init /\ [][Next]_fileVars
=============================================================================
