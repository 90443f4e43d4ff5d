------------------------------ MODULE FrameLog ------------------------------
(***************************************************************************)
(* What a network codec promises a client that follows its documentation:  *)
(* the stream is a log of frames read through a cursor.  A read returns    *)
(* the next frame of the log the client may see, exactly once and in       *)
(* order, and reports the end only at the end.  Writes collect in an       *)
(* outbox that a flush appends to the log as one batch.  A batch that the  *)
(* room left in the stream cannot take is lost as a whole, no other is;    *)
(* messages of other codecs take room and hold no frame.                   *)
(*                                                                         *)
(* op names the call a step is: what it does to the log and returns is the *)
(* promise of that call and of no other.                                   *)
(***************************************************************************)
EXTENDS Integers, Sequences

CONSTANTS
    Entry,        \* what the client writes
    NodeId,       \* what it configures
    Arrival,      \* what a network may append: [frames, size in messages]
    Capacity      \* messages the stream can hold

VARIABLES log, cursor, outbox, node, op, got, used

logVars == <<log, cursor, outbox, node, op, got, used>>

Init ==
    /\ log = <<>> /\ used = 0 /\ cursor = 0
    /\ outbox = <<>>
    /\ node \in NodeId \cup {0}
    /\ op = "create" /\ got = <<>>

Answer(call, frames) == op' = call /\ got' = frames

MayRead(f) == f.type # "Other" /\ (node = 0 \/ f.sender # node)

Unread == {k \in cursor + 1 .. Len(log) : MayRead(log[k])}

Read ==
    /\ \/ \E k \in Unread : /\ \A other \in Unread : k <= other
                            /\ cursor' = k
                            /\ Answer("read", <<log[k]>>)
       \/ /\ Unread = {}
          /\ cursor' = Len(log)
          /\ Answer("read", <<>>)
    /\ UNCHANGED <<log, used, outbox, node>>

Config(n) ==
    /\ node' = n
    /\ Answer("config", <<>>)
    /\ UNCHANGED <<log, used, cursor, outbox>>

Write(e) ==
    /\ e.type # "Other"
    /\ outbox' = Append(outbox, e)
    /\ Answer("write", <<>>)
    /\ UNCHANGED <<log, used, cursor, node>>

\* A batch that fits is appended, one that does not is lost.
Extend(batch) ==
    IF used + batch.size <= Capacity
    THEN log' = log \o batch.frames /\ used' = used + batch.size
    ELSE UNCHANGED <<log, used>>

\* All that was written is one message.
Written == [frames |-> outbox, size |-> IF outbox = <<>> THEN 0 ELSE 1]

Flush ==
    /\ cursor = Len(log)
    /\ Extend(Written)
    /\ cursor' = Len(log')
    /\ outbox' = <<>>
    /\ Answer("flush", outbox)
    /\ UNCHANGED node

Receive(batch) ==
    /\ Extend(batch)
    /\ cursor' = 0
    /\ Answer("deliver", <<>>)
    /\ UNCHANGED <<outbox, node>>

Truncate ==
    /\ log' = <<>> /\ used' = 0 /\ cursor' = 0 /\ outbox' = <<>>
    /\ Answer("truncate", <<>>)
    /\ UNCHANGED node

\* The client or the importer moves the cursor to an end of the log.
Wind(to) ==
    /\ cursor' = to
    /\ Answer("seek", <<>>)
    /\ UNCHANGED <<log, used, outbox, node>>

Next ==
    \/ Read
    \/ \E n \in NodeId : Config(n)
    \/ \E e \in Entry : Write(e)
    \/ Flush
    \/ \E batch \in Arrival : Receive(batch)
    \/ Truncate
    \/ \E to \in {0, Len(log)} : Wind(to)

Spec == Init /\ [][Next]_logVars
=============================================================================
