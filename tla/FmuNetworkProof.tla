--------------------------- MODULE FmuNetworkProof ---------------------------
(***************************************************************************)
(* Proofs about a network of FMUs under the batch importer, for any number *)
(* of FMUs, any connections and any size of the streams.                   *)
(*                                                                         *)
(* The argument, stage by stage: after its step each FMU has its message   *)
(* alone in its stream, and a Get returns that message (Spoken); each Set  *)
(* then adds the message of one more sender to what a stream holds         *)
(* (Carried: Holding), so that when the next round begins a stream holds   *)
(* the messages of all senders, once each, and the step hears those the    *)
(* filter lets through.  That a stream may also hold the own last message  *)
(* of an FMU nobody gets is why the connections have to be WellConnected.  *)
(***************************************************************************)
EXTENDS FmuNetwork, BufferStreamProof

USE NetworkAssumption, BufferLenAssumption

\* Rounds are counted modulo Rounds, and the previous one is the one before.
LEMMA Wraps ==
    \A n \in Nat \ {0} : \A x \in 0 .. n + n - 1 : x % n = IF x < n THEN x ELSE x - n
<1> SUFFICES ASSUME NEW n \in Nat \ {0}, NEW x \in 0 .. n + n - 1
             PROVE  x % n = IF x < n THEN x ELSE x - n
  OBVIOUS
<1> QED OBVIOUS

LEMMA NextRoundIs ==
    ASSUME NEW r \in 0 .. Rounds - 1
    PROVE  LET s == (r + 1) % Rounds
           IN  s \in 0 .. Rounds - 1 /\ (s + Rounds - 1) % Rounds = r
<1> DEFINE n == Rounds
           s == (r + 1) % n
<1>1. n \in Nat \ {0} /\ r \in 0 .. n - 1
  OBVIOUS
<1> HIDE DEF n
<1>2. r + 1 \in 0 .. n + n - 1
  BY <1>1
<1>3. s = IF r + 1 < n THEN r + 1 ELSE r + 1 - n
  BY <1>1, <1>2, Wraps
<1> HIDE DEF s
<1>4. s \in 0 .. n - 1
  BY <1>1, <1>3
<1> DEFINE y == s + n - 1
<1>5. y \in 0 .. n + n - 1 /\ (IF y < n THEN y ELSE y - n) = r
  BY <1>1, <1>3, <1>4
<1> HIDE DEF y
<1>6. y % n = IF y < n THEN y ELSE y - n
  BY <1>1, <1>5, Wraps
<1>7. y % n = r
  BY <1>5, <1>6
<1> QED BY <1>4, <1>7 DEF s, n, y

-----------------------------------------------------------------------------
(* One stream *)

Unit == Messages \cup {Blank}
Msg(f, r) == [from |-> f, round |-> r]

\* The stream of an FMU after its step, and after a Get of it.
Alone(s, m) == s.len = 1 /\ s.pos = 1 /\ s.buffer[0] = m

\* One message is appended to a stream that has room.
LEMMA AppendOne ==
    ASSUME NEW s, Sound(s, Unit), s.pos = s.len, s.len < BUFFER_LEN, NEW m \in Unit
    PROVE  LET t == stream_write(s, <<m>>)
           IN  /\ Sound(t, Unit)
               /\ t.len = s.len + 1 /\ t.pos = s.len + 1 /\ t.buffer[s.len] = m
               /\ \A i \in 0 .. s.len - 1 : t.buffer[i] = s.buffer[i]
<1> DEFINE t == stream_write(s, <<m>>)
           new == [i \in Slot |-> IF i \in s.pos .. s.pos + 1 - 1
                                  THEN <<m>>[i - s.pos + 1] ELSE s.buffer[i]]
<1>1. <<m>> \in Seq(Unit) /\ Len(<<m>>) = 1 /\ s.len \in Nat /\ s.len \in Slot
  BY DEF Sound, Stream, Slot
<1>2. Sound(t, Unit)
  BY <1>1, WriteSound
<1>3. new[s.len] = m
  BY <1>1
<1>4. \A i \in 0 .. s.len - 1 : i \in Slot /\ i \notin s.pos .. s.pos + 1 - 1
  BY <1>1 DEF Slot
<1>5. \A i \in 0 .. s.len - 1 : new[i] = s.buffer[i]
  BY <1>4
<1>6. stream_fits(s, <<m>>)
  BY <1>1 DEF stream_fits
<1>7. t = [buffer |-> new, pos |-> s.pos + 1, len |-> IF s.pos + 1 > s.len THEN s.pos + 1 ELSE s.len]
  BY <1>1, <1>6 DEF stream_write
<1>8. (IF s.pos + 1 > s.len THEN s.pos + 1 ELSE s.len) = s.len + 1
  BY <1>1
<1> HIDE DEF new
<1>9. t.buffer = new /\ t.pos = s.len + 1 /\ t.len = s.len + 1
  BY <1>7, <1>8
<1> QED BY <1>2, <1>3, <1>5, <1>9

LEMMA EmptiedSound ==
    ASSUME NEW s, Sound(s, Unit)
    PROVE  LET e == stream_seek(s, 0, "SEEK_RESET") IN Sound(e, Unit) /\ e.len = 0 /\ e.pos = 0
<1>1. Sound(stream_seek(s, 0, "SEEK_RESET"), Unit)
  BY SeekSound
<1> QED BY <1>1 DEF stream_seek

\* fmi2DoStep leaves its message alone in the stream.
LEMMA StepAlone ==
    ASSUME NEW s, Sound(s, Unit), NEW m \in Unit
    PROVE  LET t == stream_write(stream_seek(s, 0, "SEEK_RESET"), <<m>>)
           IN  Sound(t, Unit) /\ Alone(t, m)
<1> DEFINE e == stream_seek(s, 0, "SEEK_RESET")
<1>1. Sound(e, Unit) /\ e.len = 0 /\ e.pos = 0
  BY EmptiedSound
<1> HIDE DEF e
<1>2. LET t == stream_write(e, <<m>>)
      IN  Sound(t, Unit) /\ t.len = 0 + 1 /\ t.pos = 0 + 1 /\ t.buffer[0] = m
  BY <1>1, AppendOne
<1> QED BY <1>2 DEF e, Alone

\* fmi2GetString of it returns that message and leaves the stream as it is.
LEMMA GetAlone ==
    ASSUME NEW s, Sound(s, Unit), NEW m, Alone(s, m)
    PROVE  tx_data(s) = <<m>> /\ Alone(tx_stream(s), m)
<1> DEFINE r == stream_seek(s, 0, "SEEK_SET")
<1>1. r = [s EXCEPT !.pos = 0]
  BY DEF stream_seek, Alone
<1>2. r.pos = 0 /\ r.len = 1 /\ r.buffer[0] = m
  BY <1>1 DEF Sound, Stream, Alone
<1>3. tx_data(s) = [k \in 1 .. (r.len - r.pos) |-> r.buffer[r.pos + k - 1]]
  BY DEF tx_data, stream_read
<1> HIDE DEF r
<1>4. tx_data(s) = [k \in 1 .. 1 |-> r.buffer[0 + k - 1]]
  BY <1>2, <1>3
<1>5. \A k \in 1 .. 1 : r.buffer[0 + k - 1] = m
  BY <1>2
<1>6. tx_data(s) = <<m>>
  BY <1>4, <1>5
<1>7. tx_stream(s) = [s EXCEPT !.pos = s.len]
  BY TxSound
<1>8. Alone(tx_stream(s), m)
  BY <1>7 DEF Alone, Sound, Stream
<1> QED BY <1>6, <1>8

\* What is read of a stream are units of its content.
LEMMA ReadType ==
    ASSUME NEW s, Sound(s, Unit)
    PROVE  /\ stream_read(s) \in Seq(Unit) /\ Len(stream_read(s)) = s.len - s.pos
           /\ s.len - s.pos \in Nat
           /\ \A k \in 1 .. s.len - s.pos : stream_read(s)[k] = s.buffer[s.pos + k - 1]
<1> DEFINE n == s.len - s.pos
<1>1. n \in Nat /\ \A k \in 1 .. n : s.pos + k - 1 \in Slot
  BY DEF Sound, Stream, Slot
<1>2. \A k \in 1 .. n : s.buffer[s.pos + k - 1] \in Unit
  BY <1>1 DEF Sound, Stream
<1>3. stream_read(s) = [k \in 1 .. n |-> s.buffer[s.pos + k - 1]]
  BY DEF stream_read
<1> HIDE DEF n
<1>4. stream_read(s) \in [1 .. n -> Unit]
  BY <1>2, <1>3
<1>5. stream_read(s) \in Seq(Unit) /\ DOMAIN stream_read(s) = 1 .. n
  BY <1>1, <1>4, SeqDef
<1>6. Len(stream_read(s)) = n
  BY <1>1, <1>5, LenProperties
<1> QED BY <1>1, <1>3, <1>5, <1>6 DEF n

LEMMA TxDataType == ASSUME NEW s, Sound(s, Unit) PROVE tx_data(s) \in Seq(Unit)
BY SeekSound, ReadType DEF tx_data
-----------------------------------------------------------------------------
(* What passes the filter *)

In(m, q) == \E j \in 1 .. Len(q) : q[j] = m
Once(q) == \A i \in 1 .. Len(q), j \in 1 .. Len(q) : q[i] = q[j] => i = j

FirstFiltered(f, ms, n) ==
    FlattenSeq([k \in 1 .. n |-> IF Visible(f, ms[k]) THEN <<ms[k]>> ELSE <<>>])

LEMMA FilteredNone == ASSUME NEW f, NEW ms PROVE FirstFiltered(f, ms, 0) = <<>>
<1>1. [k \in 1 .. 0 |-> IF Visible(f, ms[k]) THEN <<ms[k]>> ELSE <<>>] = <<>>
  OBVIOUS
<1> QED BY <1>1, FlattenEmpty DEF FirstFiltered

LEMMA FilteredNext ==
    ASSUME NEW f, NEW ms, NEW n \in Nat
    PROVE  /\ FirstFiltered(f, ms, n) \in Seq(Messages)
           /\ FirstFiltered(f, ms, n + 1) = FirstFiltered(f, ms, n)
                                            \o (IF Visible(f, ms[n + 1]) THEN <<ms[n + 1]>> ELSE <<>>)
<1> DEFINE One(k) == IF Visible(f, ms[k]) THEN <<ms[k]>> ELSE <<>>
           p == [k \in 1 .. n |-> One(k)]
           q == [k \in 1 .. n + 1 |-> One(k)]
<1>1. \A k : One(k) \in Seq(Messages)
  <2>1. \A k : Visible(f, ms[k]) => ms[k] \in Messages
    BY DEF Visible
  <2>2. \A m \in Messages : <<m>> \in Seq(Messages)
    OBVIOUS
  <2> QED BY <2>1, <2>2, EmptySeq
<1>2. n + 1 \in 1 .. n + 1
  OBVIOUS
<1>3. FirstFiltered(f, ms, n) = FlattenSeq(p) /\ FirstFiltered(f, ms, n + 1) = FlattenSeq(q)
  BY DEF FirstFiltered
<1>4. q[n + 1] = IF Visible(f, ms[n + 1]) THEN <<ms[n + 1]>> ELSE <<>>
  BY <1>2
<1>5. p = [k \in 1 .. n |-> One(k)] /\ q = [k \in 1 .. n + 1 |-> One(k)]
  OBVIOUS
<1> HIDE DEF One
<1>6. p \in [1 .. n -> Seq(Messages)] /\ q \in [1 .. n + 1 -> Seq(Messages)]
      /\ \A k \in 1 .. n : q[k] = p[k]
  BY <1>1
<1> HIDE DEF p, q
<1>7. \A x \in [1 .. n -> Seq(Messages)], y \in [1 .. n + 1 -> Seq(Messages)] :
         (\A k \in 1 .. n : y[k] = x[k])
         => FlattenSeq(x) \in Seq(Messages) /\ FlattenSeq(y) = FlattenSeq(x) \o y[n + 1]
  BY FlattenNext, Zenon
<1>8. FlattenSeq(p) \in Seq(Messages) /\ FlattenSeq(q) = FlattenSeq(p) \o q[n + 1]
  BY <1>6, <1>7
<1> QED BY <1>3, <1>4, <1>8

LEMMA JoinOne ==
    ASSUME NEW S, NEW q \in Seq(S), NEW e \in S
    PROVE  /\ \A m : In(m, q \o <<e>>) <=> In(m, q) \/ m = e
           /\ Once(q) /\ ~In(e, q) => Once(q \o <<e>>)
<1> DEFINE n == Len(q)
           t == q \o <<e>>
<1>1. n \in Nat /\ Len(t) = n + 1 /\ t[n + 1] = e /\ \A i \in 1 .. n : t[i] = q[i]
  OBVIOUS
<1> HIDE DEF t, n
<1>2. \A i \in 1 .. n + 1 : i \in 1 .. n \/ i = n + 1
  BY <1>1
<1>3. \A i \in 1 .. n : i \in 1 .. n + 1
  BY <1>1
<1>4. n + 1 \in 1 .. n + 1
  BY <1>1
<1>5. ASSUME NEW m PROVE In(m, t) <=> In(m, q) \/ m = e
  BY <1>1, <1>2, <1>3, <1>4 DEF In, n
<1>6. ASSUME Once(q), ~In(e, q), NEW i \in 1 .. n + 1, NEW j \in 1 .. n + 1, t[i] = t[j]
      PROVE  i = j
  BY <1>1, <1>2, <1>6 DEF In, Once, n
<1> QED BY <1>1, <1>5, <1>6 DEF Once, t

\* The filter keeps of a sequence what is visible, and nothing twice that is
\* not twice in it.
LEMMA FilteredFacts ==
    ASSUME NEW f, NEW ms \in Seq(Unit)
    PROVE  /\ Filtered(f, ms) \in Seq(Messages)
           /\ \A m : In(m, Filtered(f, ms)) <=> In(m, ms) /\ Visible(f, m)
           /\ Once(ms) => Once(Filtered(f, ms))
<1> DEFINE Among(m, n) == \E k \in 1 .. n : ms[k] = m
           Right(n) == LET q == FirstFiltered(f, ms, n)
                       IN  /\ \A m : In(m, q) <=> Among(m, n) /\ Visible(f, m)
                           /\ Once(ms) => Once(q)
           B == {n \in Nat : n <= Len(ms) => Right(n)}
<1>1. Len(ms) \in Nat
  OBVIOUS
<1>2. 0 \in B
  <2>1. Len(<<>>) = 0 /\ \A k : k \notin 1 .. 0
    OBVIOUS
  <2> QED BY <2>1, FilteredNone DEF In, Once
<1>3. ASSUME NEW n \in Nat, n \in B PROVE n + 1 \in B
  <2> SUFFICES ASSUME n + 1 <= Len(ms) PROVE Right(n + 1)
    OBVIOUS
  <2> DEFINE p == FirstFiltered(f, ms, n)
             q == FirstFiltered(f, ms, n + 1)
             e == ms[n + 1]
  <2>1. Right(n)
    BY <1>1, <1>3
  <2>2. p \in Seq(Messages) /\ q = p \o (IF Visible(f, e) THEN <<e>> ELSE <<>>)
    BY FilteredNext
  <2>3. \A m : In(m, p) <=> Among(m, n) /\ Visible(f, m)
    BY <2>1
  <2>4. Once(ms) => Once(p)
    BY <2>1
  <2>5. \A m : Among(m, n + 1) <=> Among(m, n) \/ m = e
    <3>1. \A k : k \in 1 .. n + 1 <=> k \in 1 .. n \/ k = n + 1
      OBVIOUS
    <3> QED BY <3>1
  <2>6. Once(ms) => ~Among(e, n)
    <3>1. \A k \in 1 .. n : k \in 1 .. Len(ms) /\ n + 1 \in 1 .. Len(ms) /\ k # n + 1
      BY <1>1
    <3> QED BY <3>1 DEF Once
  <2> HIDE DEF p, q, e, Among
  <2>7. CASE Visible(f, e)
    <3>1. e \in Messages /\ q = p \o <<e>>
      BY <2>2, <2>7 DEF Visible
    <3>2. (\A m : In(m, q) <=> In(m, p) \/ m = e) /\ (Once(p) /\ ~In(e, p) => Once(q))
      BY <2>2, <3>1, JoinOne
    <3>3. \A m : In(m, q) <=> Among(m, n + 1) /\ Visible(f, m)
      BY <2>3, <2>5, <2>7, <3>2
    <3>4. Once(ms) => Once(q)
      BY <2>3, <2>4, <2>6, <3>2
    <3> QED BY <3>3, <3>4 DEF q
  <2>8. CASE ~Visible(f, e)
    <3>1. q = p
      BY <2>2, <2>8, ConcatEmptySeq
    <3>2. \A m : In(m, q) <=> Among(m, n + 1) /\ Visible(f, m)
      BY <2>3, <2>5, <2>8, <3>1
    <3>3. Once(ms) => Once(q)
      BY <2>4, <3>1
    <3> QED BY <3>2, <3>3 DEF q
  <2> QED BY <2>7, <2>8
<1>4. Filtered(f, ms) = FirstFiltered(f, ms, Len(ms))
  BY DEF Filtered, FirstFiltered
<1>5. \A m : Among(m, Len(ms)) <=> In(m, ms)
  BY DEF In
<1>6. FirstFiltered(f, ms, Len(ms)) \in Seq(Messages)
  BY <1>1, FilteredNext
<1> HIDE DEF B, Among
<1>7. Len(ms) \in B
  BY <1>1, <1>2, <1>3, Induction
<1>8. Right(Len(ms))
  BY <1>1, <1>7 DEF B
<1> QED BY <1>4, <1>5, <1>6, <1>8
-----------------------------------------------------------------------------
(* Types, and the own message *)

Streams == stream \in [Fmu -> Stream(Unit)] /\ \A f \in Fmu : stream[f].pos <= stream[f].len

NetTypes ==
    /\ Streams
    /\ reset_called \in [Fmu -> BOOLEAN]
    /\ value \in [Fmu -> {Text(d) : d \in Seq(Unit)}]
    /\ heard \in [Fmu -> Seq(Messages)]
    /\ round \in 0 .. Rounds - 1
    /\ stage \in {"first", "step", "get", "set"}
    /\ stage \in {"first", "step"} => todo \subseteq Fmu
    /\ stage = "get" => todo \subseteq Sender
    /\ stage = "set" => todo \subseteq Channel

LEMMA SenderIsFmu == Sender \subseteq Fmu
BY DEF Sender

LEMMA StreamSound == ASSUME Streams, NEW f \in Fmu PROVE Sound(stream[f], Unit)
BY DEF Streams, Sound

\* A call changes the stream of one FMU.
LEMMA OneStream ==
    ASSUME Streams, NEW f \in Fmu, NEW s, Sound(s, Unit), stream' = [stream EXCEPT ![f] = s]
    PROVE  Streams' /\ stream'[f] = s /\ \A g \in Fmu \ {f} : stream'[g] = stream[g]
<1>1. stream'[f] = s /\ \A g \in Fmu \ {f} : stream'[g] = stream[g]
  BY DEF Streams
<1>2. stream' \in [Fmu -> Stream(Unit)]
  BY DEF Streams, Sound
<1>3. \A g \in Fmu : stream'[g].pos <= stream'[g].len
  BY <1>1 DEF Streams, Sound
<1> QED BY <1>1, <1>2, <1>3 DEF Streams

\* What Finish does to the importer's list.
LEMMA Finishes ==
    ASSUME NEW item \in todo, NEW s, NEW work, Finish(item, s, work)
    PROVE  \/ todo = {item} /\ stage' = s /\ todo' = work
           \/ todo # {item} /\ stage' = stage /\ todo' = todo \ {item}
BY DEF Finish, Enter

LEMMA StepFacts ==
    ASSUME NetTypes, NEW f \in Fmu, Step(f, "get", Sender)
    PROVE  /\ stage \in {"first", "step"} /\ f \in todo
           /\ Streams' /\ Alone(stream'[f], Msg(f, round))
           /\ \A g \in Fmu \ {f} : stream'[g] = stream[g]
           /\ heard' = [heard EXCEPT ![f] = Filtered(f, stream_read(stream[f]))]
           /\ heard' \in [Fmu -> Seq(Messages)]
           /\ UNCHANGED <<reset_called, value, round>>
           /\ \/ todo = {f} /\ stage' = "get" /\ todo' = Sender
              \/ todo # {f} /\ stage' = stage /\ todo' = todo \ {f}
<1>1. /\ stage \in {"first", "step"} /\ f \in todo /\ fmi2DoStep(f) /\ Finish(f, "get", Sender)
      /\ UNCHANGED <<reset_called, value, round>>
  BY DEF Step
<1>2. Streams /\ Sound(stream[f], Unit)
  BY StreamSound DEF NetTypes
<1>3. Msg(f, round) \in Unit
  BY DEF NetTypes, Unit, Messages, Msg
<1> DEFINE t == stream_write(stream_seek(stream[f], 0, "SEEK_RESET"), <<Msg(f, round)>>)
<1>4. Sound(t, Unit) /\ Alone(t, Msg(f, round))
  BY <1>2, <1>3, StepAlone
<1>5. stream' = [stream EXCEPT ![f] = t]
  BY <1>1, <1>2 DEF fmi2DoStep, Streams, Msg
<1> HIDE DEF t
<1>6. Streams' /\ stream'[f] = t /\ \A g \in Fmu \ {f} : stream'[g] = stream[g]
  BY <1>2, <1>4, <1>5, OneStream
<1>7. heard' = [heard EXCEPT ![f] = Filtered(f, stream_read(stream[f]))]
  BY <1>1 DEF fmi2DoStep
<1>8. Filtered(f, stream_read(stream[f])) \in Seq(Messages)
  BY <1>2, ReadType, FilteredFacts
<1>9. heard' \in [Fmu -> Seq(Messages)]
  BY <1>7, <1>8 DEF NetTypes
<1> QED BY <1>1, <1>4, <1>6, <1>7, <1>9, Finishes

LEMMA GetFacts ==
    ASSUME NetTypes, NEW f \in Fmu, BatchGet(f)
    PROVE  /\ stage = "get" /\ f \in todo /\ f \in Sender
           /\ Streams' /\ stream'[f] = tx_stream(stream[f])
           /\ \A g \in Fmu \ {f} : stream'[g] = stream[g]
           /\ value' = [value EXCEPT ![f] = Text(tx_data(stream[f]))]
           /\ value' \in [Fmu -> {Text(d) : d \in Seq(Unit)}]
           /\ reset_called' = [reset_called EXCEPT ![f] = FALSE]
           /\ UNCHANGED <<heard, round>>
           /\ \/ todo = {f} /\ stage' = "set" /\ todo' = Channel
              \/ todo # {f} /\ stage' = stage /\ todo' = todo \ {f}
<1>1. /\ stage = "get" /\ f \in todo /\ fmi2GetString(f) /\ Finish(f, "set", Channel)
      /\ UNCHANGED <<heard, round>>
  BY DEF BatchGet
<1>2. Streams /\ Sound(stream[f], Unit)
  BY StreamSound DEF NetTypes
<1>3. stream' = [stream EXCEPT ![f] = tx_stream(stream[f])]
  BY <1>1, <1>2 DEF fmi2GetString, Streams
<1>4. Sound(tx_stream(stream[f]), Unit)
  BY <1>2, TxSound
<1>5. Streams' /\ stream'[f] = tx_stream(stream[f]) /\ \A g \in Fmu \ {f} : stream'[g] = stream[g]
  BY <1>2, <1>3, <1>4, OneStream
<1>6. Text(tx_data(stream[f])) \in {Text(d) : d \in Seq(Unit)}
  BY <1>2, TxDataType
<1>7. /\ value' = [value EXCEPT ![f] = Text(tx_data(stream[f]))]
      /\ reset_called' = [reset_called EXCEPT ![f] = FALSE]
  BY <1>1 DEF fmi2GetString
<1>8. value' \in [Fmu -> {Text(d) : d \in Seq(Unit)}]
  BY <1>6, <1>7 DEF NetTypes
<1>9. f \in Sender
  BY <1>1 DEF NetTypes
<1> QED BY <1>1, <1>5, <1>7, <1>8, <1>9, Finishes

\* bus_topology_reset and bus_topology_rx of a value.
LEMMA SetFacts ==
    ASSUME NetTypes, NEW c \in Channel, BatchSet(c)
    PROVE  /\ stage = "set" /\ c \in todo
           /\ c[1] \in Fmu /\ c[2] \in Fmu /\ c = <<c[1], c[2]>>
           /\ Sound(reset_stream(c[2]), Unit)
           /\ Streams' /\ stream'[c[2]] = rx_stream(reset_stream(c[2]), decoded(value[c[1]]))
           /\ \A g \in Fmu \ {c[2]} : stream'[g] = stream[g]
           /\ reset_called' = [reset_called EXCEPT ![c[2]] = TRUE]
           /\ UNCHANGED <<value, heard>>
           /\ \/ /\ todo = {c} /\ stage' = "step" /\ todo' = Fmu
                 /\ round' = (round + 1) % Rounds
              \/ todo # {c} /\ stage' = "set" /\ todo' = todo \ {c} /\ round' = round
<1>1. /\ stage = "set" /\ c \in todo /\ fmi2SetString(c[2], value[c[1]]) /\ Finish(c, "step", Fmu)
      /\ NextRound /\ UNCHANGED <<value, heard>>
  BY DEF BatchSet
<1>2. c[1] \in Fmu /\ c[2] \in Fmu /\ c = <<c[1], c[2]>>
  OBVIOUS
<1> DEFINE f == c[2]
           data == decoded(value[c[1]])
<1>3. Streams /\ Sound(stream[f], Unit)
  BY <1>2, StreamSound DEF NetTypes
<1>4. Sound(reset_stream(f), Unit)
  BY <1>3, EmptiedSound DEF reset_stream
<1>5. data \in Seq(Unit)
  BY <1>2 DEF NetTypes, decoded, Text
<1>6. Sound(rx_stream(reset_stream(f), data), Unit)
  BY <1>4, <1>5, RxSound
<1>7. stream' = [stream EXCEPT ![f] = rx_stream(reset_stream(f), data)]
      /\ reset_called' = [reset_called EXCEPT ![f] = TRUE]
  BY <1>1 DEF fmi2SetString
<1> HIDE DEF data
<1>8. Streams' /\ stream'[f] = rx_stream(reset_stream(f), data) /\ \A g \in Fmu \ {f} : stream'[g] = stream[g]
  BY <1>2, <1>3, <1>6, <1>7, OneStream
<1>9. \/ /\ todo = {c} /\ stage' = "step" /\ todo' = Fmu
         /\ round' = (round + 1) % Rounds
      \/ todo # {c} /\ stage' = "set" /\ todo' = todo \ {c} /\ round' = round
  BY <1>1, Finishes DEF NextRound
<1> QED BY <1>1, <1>2, <1>4, <1>7, <1>8, <1>9 DEF data

LEMMA NetTypesInit == Init => NetTypes
<1> SUFFICES ASSUME Init PROVE NetTypes
  OBVIOUS
<1>1. Blank \in Unit
  BY DEF Unit
<1>2. Sound(stream_create(Blank), Unit)
  BY <1>1, CreateSound
<1>3. Streams
  BY <1>2 DEF Init, Streams, Sound
<1>4. <<>> \in Seq(Unit) /\ <<>> \in Seq(Messages) /\ 0 \in 0 .. Rounds - 1
  OBVIOUS
<1>5. Text(<<>>) \in {Text(d) : d \in Seq(Unit)}
  BY <1>4
<1> QED BY <1>3, <1>4, <1>5 DEF Init, NetTypes

LEMMA NetTypesStep == NetTypes /\ [BatchNext]_netVars => NetTypes'
<1> SUFFICES ASSUME NetTypes, [BatchNext]_netVars PROVE NetTypes'
  OBVIOUS
<1>1. ASSUME NEW f \in Fmu, Step(f, "get", Sender) PROVE NetTypes'
  <2>1. \/ todo = {f} /\ stage' = "get" /\ todo' = Sender
        \/ todo # {f} /\ stage' = stage /\ todo' = todo \ {f}
    BY <1>1, StepFacts
  <2>2. stage \in {"first", "step"}
    BY <1>1, StepFacts
  <2>3. /\ Streams' /\ heard' \in [Fmu -> Seq(Messages)]
        /\ UNCHANGED <<reset_called, value, round>>
    BY <1>1, StepFacts
  <2> QED BY <2>1, <2>2, <2>3 DEF NetTypes
<1>2. ASSUME NEW f \in Fmu, BatchGet(f) PROVE NetTypes'
  <2>1. /\ stage = "get"
        /\ \/ todo = {f} /\ stage' = "set" /\ todo' = Channel
           \/ todo # {f} /\ stage' = stage /\ todo' = todo \ {f}
    BY <1>2, GetFacts
  <2>2. /\ Streams' /\ value' \in [Fmu -> {Text(d) : d \in Seq(Unit)}]
        /\ reset_called' = [reset_called EXCEPT ![f] = FALSE]
        /\ UNCHANGED <<heard, round>>
    BY <1>2, GetFacts
  <2>3. reset_called' \in [Fmu -> BOOLEAN]
    BY <2>2 DEF NetTypes
  <2> QED BY <2>1, <2>2, <2>3 DEF NetTypes
<1>3. ASSUME NEW c \in Channel, BatchSet(c) PROVE NetTypes'
  <2>1. /\ stage = "set"
        /\ \/ /\ todo = {c} /\ stage' = "step" /\ todo' = Fmu
              /\ round' = (round + 1) % Rounds
           \/ todo # {c} /\ stage' = "set" /\ todo' = todo \ {c} /\ round' = round
    BY <1>3, SetFacts
  <2>2. /\ Streams' /\ UNCHANGED <<value, heard>>
        /\ reset_called' = [reset_called EXCEPT ![c[2]] = TRUE]
    BY <1>3, SetFacts
  <2>3. reset_called' \in [Fmu -> BOOLEAN]
    BY <2>2 DEF NetTypes
  <2>4. round' \in 0 .. Rounds - 1
    BY <2>1, NextRoundIs DEF NetTypes
  <2> QED BY <2>1, <2>2, <2>3, <2>4 DEF NetTypes
<1>4. CASE UNCHANGED netVars
  BY <1>4 DEF netVars, NetTypes, Streams
<1> QED BY <1>1, <1>2, <1>3, <1>4 DEF BatchNext

\* In every reachable state of the batch importer, for any number of FMUs and
\* any connections, each stream is one the code can hold: its position within
\* its length, its length within the array; and only messages are heard.
THEOREM NetTyped == BatchSpec => []NetTypeOK
<1>1. NetTypes => NetTypeOK
  BY DEF NetTypes, NetTypeOK, Streams, Unit
<1> QED BY <1>1, NetTypesInit, NetTypesStep, PTL DEF BatchSpec

\* After its step, and until something is set, the stream of an FMU holds its
\* message alone, and that is what is got of it.
Spoken ==
    /\ stage \in {"first", "step"} => \A f \in Fmu \ todo : Alone(stream[f], Msg(f, round))
    /\ stage = "get" => \A f \in Fmu : Alone(stream[f], Msg(f, round))
    /\ stage = "get" => \A f \in Sender \ todo : value[f] = Text(<<Msg(f, round)>>)
    /\ GotOwnMessage

LEMMA SpokenStep == NetTypes /\ Spoken /\ [BatchNext]_netVars => Spoken'
<1> SUFFICES ASSUME NetTypes, Spoken, [BatchNext]_netVars PROVE Spoken'
  OBVIOUS
<1>1. ASSUME NEW f \in Fmu, Step(f, "get", Sender) PROVE Spoken'
  <2>1. /\ stage \in {"first", "step"} /\ f \in todo
        /\ \/ todo = {f} /\ stage' = "get" /\ todo' = Sender
           \/ todo # {f} /\ stage' = stage /\ todo' = todo \ {f}
    BY <1>1, StepFacts
  <2>2. /\ Alone(stream'[f], Msg(f, round)) /\ round' = round
        /\ \A g \in Fmu \ {f} : stream'[g] = stream[g]
    BY <1>1, StepFacts
  <2>3. \A g \in Fmu \ (todo \ {f}) : Alone(stream'[g], Msg(g, round))
    BY <2>1, <2>2 DEF Spoken
  <2> QED BY <2>1, <2>2, <2>3 DEF Spoken, GotOwnMessage
<1>2. ASSUME NEW f \in Fmu, BatchGet(f) PROVE Spoken'
  <2>1. /\ stage = "get" /\ f \in todo /\ f \in Sender
        /\ \/ todo = {f} /\ stage' = "set" /\ todo' = Channel
           \/ todo # {f} /\ stage' = stage /\ todo' = todo \ {f}
    BY <1>2, GetFacts
  <2>2. /\ stream'[f] = tx_stream(stream[f]) /\ round' = round
        /\ \A g \in Fmu \ {f} : stream'[g] = stream[g]
        /\ value' = [value EXCEPT ![f] = Text(tx_data(stream[f]))]
    BY <1>2, GetFacts
  <2>3. tx_data(stream[f]) = <<Msg(f, round)>> /\ Alone(tx_stream(stream[f]), Msg(f, round))
    BY <2>1, GetAlone, StreamSound DEF NetTypes, Spoken
  <2>4. \A g \in Fmu : Alone(stream'[g], Msg(g, round))
    BY <2>1, <2>2, <2>3 DEF Spoken
  <2>5. \A g \in Sender \ (todo \ {f}) : value'[g] = Text(<<Msg(g, round)>>)
    BY <2>1, <2>2, <2>3, SenderIsFmu DEF Spoken, NetTypes
  <2> QED BY <2>1, <2>2, <2>4, <2>5 DEF Spoken, GotOwnMessage, Msg
<1>3. ASSUME NEW c \in Channel, BatchSet(c) PROVE Spoken'
  <2>1. /\ stage = "set" /\ value' = value
        /\ \/ stage' = "step" /\ todo' = Fmu
           \/ stage' = "set" /\ round' = round
    BY <1>3, SetFacts
  <2> QED BY <2>1 DEF Spoken, GotOwnMessage
<1>4. CASE UNCHANGED netVars
  BY <1>4 DEF netVars, Spoken, GotOwnMessage
<1> QED BY <1>1, <1>2, <1>3, <1>4 DEF BatchNext

LEMMA SpokenInit == Init => Spoken
BY DEF Init, Spoken, GotOwnMessage

\* What is got of a transmit variable is the message its FMU wrote in the same
\* round and nothing else, for any number of FMUs, any connections and any
\* size of the streams (bus_topology_tx after fmi2DoStep).
THEOREM NetGotOwn == BatchSpec => []GotOwnMessage
<1>1. Spoken => GotOwnMessage
  BY DEF Spoken
<1> QED BY <1>1, NetTypesInit, NetTypesStep, SpokenInit, SpokenStep, PTL DEF BatchSpec

-----------------------------------------------------------------------------
(* What an FMU hears *)

\* The stream holds the message of round r of each of G, once, and no other.
Holds(s, G, r) ==
    /\ \A i \in 0 .. s.len - 1 : \E g \in G : s.buffer[i] = Msg(g, r)
    /\ \A g \in G : \E i \in 0 .. s.len - 1 : s.buffer[i] = Msg(g, r)
    /\ \A i \in 0 .. s.len - 1, j \in 0 .. s.len - 1 : s.buffer[i] = s.buffer[j] => i = j

\* The stream of f, and its reset_called, when the messages of G were set.
Holding(s, done, f, G, r) ==
    IF G = {} THEN Alone(s, Msg(f, r)) /\ (f \in Sender => ~done)
    ELSE /\ done /\ s.pos = 0
         /\ \E own \in SUBSET ({f} \ Sender) : Holds(s, G \cup own, r)

LEMMA HoldsOne ==
    ASSUME NEW s, NEW f, NEW r, Alone(s, Msg(f, r))
    PROVE  Holds(s, {f}, r)
<1>1. s.len = 1 /\ s.buffer[0] = Msg(f, r)
  BY DEF Alone
<1>2. 0 .. s.len - 1 = {0}
  BY <1>1
<1> QED BY <1>1, <1>2 DEF Holds

LEMMA HoldsNone ==
    ASSUME NEW s, NEW r, s.len = 0
    PROVE  Holds(s, {}, r)
<1>1. 0 .. s.len - 1 = {}
  OBVIOUS
<1> QED BY <1>1 DEF Holds

\* A stream that holds messages of some of K, not of g, has room for one more.
LEMMA HoldsRoom ==
    ASSUME NEW s, Sound(s, Unit), NEW K, IsFiniteSet(K), Cardinality(K) <= BUFFER_LEN,
           NEW g \in K, NEW G \in SUBSET K, g \notin G, NEW r, Holds(s, G, r)
    PROVE  s.len < BUFFER_LEN
<1> DEFINE sender == [i \in 0 .. s.len - 1 |-> s.buffer[i].from]
<1>1. s.len \in Nat
  BY DEF Sound, Stream
<1>2. \A i \in 0 .. s.len - 1 : \E h \in G : s.buffer[i] = Msg(h, r) /\ sender[i] = h
  BY DEF Holds, Msg
<1>3. sender \in [0 .. s.len - 1 -> K \ {g}]
  BY <1>2
<1>9. \A i \in 0 .. s.len - 1 : s.buffer[i] = Msg(sender[i], r)
  BY <1>2
<1> HIDE DEF sender
<1>4. \A i \in 0 .. s.len - 1, j \in 0 .. s.len - 1 : sender[i] = sender[j] => i = j
  BY <1>9 DEF Holds
<1>5. sender \in Injection(0 .. s.len - 1, K \ {g})
  BY <1>3, <1>4 DEF Injection, IsInjective
<1>6. /\ IsFiniteSet(K \ {g}) /\ Cardinality(K \ {g}) = Cardinality(K) - 1 /\ Cardinality(K) \in Nat
  BY FS_RemoveElement, FS_CardinalityType
<1>7. Cardinality(0 .. s.len - 1) <= Cardinality(K \ {g})
  BY <1>5, <1>6, FS_Injection
<1>8. Cardinality(0 .. s.len - 1) = s.len
  <2>1. 0 \in Int /\ s.len - 1 \in Int
    BY <1>1
  <2>2. Cardinality(0 .. s.len - 1) = IF 0 > s.len - 1 THEN 0 ELSE (s.len - 1) - 0 + 1
    BY <2>1, FS_Interval
  <2> QED BY <1>1, <2>2
<1> QED BY <1>1, <1>6, <1>7, <1>8

\* An rx of one more message to a stream that has room.
LEMMA HoldsRx ==
    ASSUME NEW s, Sound(s, Unit), s.len < BUFFER_LEN, NEW g \in Fmu, NEW r \in 0 .. Rounds - 1,
           NEW G, g \notin G, Holds(s, G, r)
    PROVE  LET t == rx_stream(s, <<Msg(g, r)>>)
           IN  t.pos = 0 /\ Holds(t, G \cup {g}, r)
<1> DEFINE m == Msg(g, r)
           e == stream_seek(s, 0, "SEEK_END")
           w == stream_write(e, <<m>>)
           t == rx_stream(s, <<m>>)
           n == s.len
<1>1. m \in Unit /\ <<m>> \in Seq(Unit)
  BY DEF Unit, Messages, Msg
<1>2. n \in Nat
  BY DEF Sound, Stream
<1>3. Sound(e, Unit) /\ e.len = n /\ e.pos = n /\ e.buffer = s.buffer
  <2>1. e = [s EXCEPT !.pos = s.len]
    BY DEF stream_seek
  <2>2. e.len = n /\ e.pos = n /\ e.buffer = s.buffer
    BY <2>1 DEF Sound, Stream
  <2> QED BY <2>2, SeekSound
<1> HIDE DEF e
<1>4. /\ Sound(w, Unit) /\ w.len = n + 1 /\ w.buffer[n] = m
      /\ \A i \in 0 .. n - 1 : w.buffer[i] = s.buffer[i]
  BY <1>1, <1>3, AppendOne
<1> HIDE DEF w
<1>5. t.pos = 0 /\ t.len = n + 1 /\ t.buffer = w.buffer
  <2>1. t = stream_seek(w, 0, "SEEK_SET")
    BY DEF rx_stream, w, e
  <2>2. t = [w EXCEPT !.pos = IF 0 > w.len THEN w.len ELSE 0]
    BY <2>1 DEF stream_seek
  <2>3. t = [w EXCEPT !.pos = 0]
    BY <1>2, <1>4, <2>2
  <2> QED BY <1>4, <2>3 DEF Sound, Stream
<1> HIDE DEF t, m
<1>6. \A i \in 0 .. t.len - 1 : i \in 0 .. n - 1 \/ i = n
  BY <1>2, <1>5
<1>7. \A i \in 0 .. n - 1 : i \in 0 .. t.len - 1 /\ i # n
  BY <1>2, <1>5
<1>8. n \in 0 .. t.len - 1
  BY <1>2, <1>5
<1>9. t.buffer[n] = m /\ \A i \in 0 .. n - 1 : t.buffer[i] = s.buffer[i]
  BY <1>4, <1>5
<1>10. \A i \in 0 .. n - 1 : s.buffer[i] # m
  <2>1. \A h \in G : Msg(h, r) # m
    BY DEF Msg, m
  <2> QED BY <2>1 DEF Holds
<1> DEFINE H == G \cup {g}
<1>11. \A i \in 0 .. t.len - 1 : \E h \in H : t.buffer[i] = Msg(h, r)
  BY <1>6, <1>9 DEF Holds, m
<1>12. \A h \in H : \E i \in 0 .. t.len - 1 : t.buffer[i] = Msg(h, r)
  BY <1>7, <1>8, <1>9 DEF Holds, m
<1>13. ASSUME NEW i \in 0 .. t.len - 1, NEW j \in 0 .. t.len - 1, t.buffer[i] = t.buffer[j] PROVE i = j
  BY <1>6, <1>9, <1>10, <1>13 DEF Holds
<1>14. Holds(t, H, r)
  BY <1>11, <1>12, <1>13 DEF Holds
<1> QED BY <1>5, <1>14 DEF t, m

\* One more message is set: bus_topology_reset and bus_topology_rx.
LEMMA HoldingRx ==
    ASSUME WellConnected, NEW f \in Fmu, NEW g \in Into(f), NEW G \in SUBSET Into(f), g \notin G,
           NEW s, Sound(s, Unit), NEW done \in BOOLEAN, NEW r \in 0 .. Rounds - 1,
           Holding(s, done, f, G, r)
    PROVE  Holding(rx_stream(IF done THEN s ELSE stream_seek(s, 0, "SEEK_RESET"), <<Msg(g, r)>>),
                   TRUE, f, G \cup {g}, r)
<1> DEFINE e == IF done THEN s ELSE stream_seek(s, 0, "SEEK_RESET")
<1>1. Sound(e, Unit)
  BY EmptiedSound
<1>2. \E own \in SUBSET ({f} \ Sender) : Holds(e, G \cup own, r)
  <2>1. CASE G # {}
    BY <2>1 DEF Holding
  <2>2. CASE G = {} /\ done
    <3>1. Alone(s, Msg(f, r)) /\ f \notin Sender /\ e = s
      BY <2>2 DEF Holding
    <3>2. Holds(e, {f}, r) /\ {f} \in SUBSET ({f} \ Sender) /\ G \cup {f} = {f}
      BY <2>2, <3>1, HoldsOne
    <3> QED BY <3>2
  <2>3. CASE G = {} /\ ~done
    <3>1. e.len = 0
      BY <2>3, EmptiedSound
    <3>2. Holds(e, {}, r) /\ {} \in SUBSET ({f} \ Sender) /\ G \cup {} = {}
      BY <2>3, <3>1, HoldsNone
    <3> QED BY <3>2
  <2> QED BY <2>1, <2>2, <2>3
<1>3. PICK own \in SUBSET ({f} \ Sender) : Holds(e, G \cup own, r)
  BY <1>2
<1> HIDE DEF e
<1>4. g \in Fmu /\ g \in Sender
  <2>1. <<g, f>> \in Channel /\ g \in Fmu /\ <<g, f>>[1] = g
    BY DEF Into
  <2> QED BY <2>1 DEF Sender
<1>5. g \notin G \cup own /\ G \cup own \in SUBSET Keepers(f) /\ g \in Keepers(f)
  BY <1>4 DEF Keepers
<1>6. IsFiniteSet(Keepers(f)) /\ Cardinality(Keepers(f)) <= BUFFER_LEN
  BY DEF WellConnected
<1>7. e.len < BUFFER_LEN
  BY <1>1, <1>3, <1>5, <1>6, HoldsRoom
<1> DEFINE t == rx_stream(e, <<Msg(g, r)>>)
<1>8. t.pos = 0 /\ Holds(t, (G \cup own) \cup {g}, r)
  BY <1>1, <1>3, <1>4, <1>5, <1>7, HoldsRx
<1> HIDE DEF t
<1>9. (G \cup own) \cup {g} = (G \cup {g}) \cup own /\ G \cup {g} # {}
  OBVIOUS
<1>10. Holding(t, TRUE, f, G \cup {g}, r)
  BY <1>8, <1>9 DEF Holding
<1> QED BY <1>10 DEF t, e

DueAt(f, r) == {m \in [from : Into(f), round : {r}] : Visible(f, m)}

\* A step hears what is due of a stream that holds what was set.
LEMMA HearsDue ==
    ASSUME WellConnected, NEW f \in Fmu, NEW s, Sound(s, Unit), NEW done, NEW r \in 0 .. Rounds - 1,
           Holding(s, done, f, Into(f), r)
    PROVE  LET q == Filtered(f, stream_read(s)) IN IsInjective(q) /\ Range(q) = DueAt(f, r)
<1> DEFINE ms == stream_read(s)
           q == Filtered(f, ms)
<1>1. /\ ms \in Seq(Unit) /\ Len(ms) = s.len - s.pos /\ s.len - s.pos \in Nat
      /\ \A k \in 1 .. s.len - s.pos : ms[k] = s.buffer[s.pos + k - 1]
  BY ReadType
<1> HIDE DEF ms
<1>2. /\ q \in Seq(Messages)
      /\ \A m : In(m, q) <=> In(m, ms) /\ Visible(f, m)
      /\ Once(ms) => Once(q)
  BY <1>1, FilteredFacts
<1> HIDE DEF q
<1>3. \A m : m \in DueAt(f, r) <=> (\E g \in Into(f) : m = Msg(g, r)) /\ Visible(f, m)
  <2> DEFINE S == [from : Into(f), round : {r}]
  <2>1. ASSUME NEW m \in S PROVE \E g \in Into(f) : m = Msg(g, r)
    <3>1. m.from \in Into(f) /\ m.round = r /\ m = [from |-> m.from, round |-> m.round]
      OBVIOUS
    <3> QED BY <3>1 DEF Msg
  <2>2. \A g \in Into(f) : Msg(g, r) \in S
    BY DEF Msg
  <2>3. DueAt(f, r) = {m \in S : Visible(f, m)}
    BY DEF DueAt
  <2> HIDE DEF S
  <2> QED BY <2>1, <2>2, <2>3
<1>4. Once(ms) /\ \A m : In(m, q) <=> m \in DueAt(f, r)
  <2>1. CASE Into(f) = {}
    <3>1. s.len = 1 /\ s.pos = 1
      BY <2>1 DEF Holding, Alone
    <3>2. Len(ms) = 0 /\ \A k : k \notin 1 .. 0
      BY <1>1, <3>1
    <3>3. Once(ms) /\ \A m : ~In(m, ms)
      BY <3>2 DEF Once, In
    <3> QED BY <1>2, <1>3, <2>1, <3>3
  <2>2. CASE Into(f) # {}
    <3>1. PICK own \in SUBSET ({f} \ Sender) : Holds(s, Into(f) \cup own, r)
      BY <2>2 DEF Holding
    <3>2. s.pos = 0 /\ s.len \in Nat
      BY <2>2 DEF Holding, Sound, Stream
    <3>3. Len(ms) = s.len /\ \A k \in 1 .. s.len : ms[k] = s.buffer[k - 1]
      BY <1>1, <3>2
    <3>4. \A k \in 1 .. s.len : k - 1 \in 0 .. s.len - 1
      BY <3>2
    <3>5. \A i \in 0 .. s.len - 1 : i + 1 \in 1 .. s.len /\ (i + 1) - 1 = i
      BY <3>2
    <3>6. \A m : In(m, ms) <=> \E i \in 0 .. s.len - 1 : s.buffer[i] = m
      <4>1. ASSUME NEW m, In(m, ms) PROVE \E i \in 0 .. s.len - 1 : s.buffer[i] = m
        BY <3>3, <3>4, <4>1 DEF In
      <4>2. ASSUME NEW i \in 0 .. s.len - 1 PROVE In(s.buffer[i], ms)
        <5>1. ms[i + 1] = s.buffer[i] /\ i + 1 \in 1 .. Len(ms)
          BY <3>3, <3>5
        <5> QED BY <5>1 DEF In
      <4> QED BY <4>1, <4>2
    <3>7. \A m : In(m, ms) <=> \E g \in Into(f) \cup own : m = Msg(g, r)
      BY <3>1, <3>6 DEF Holds
    <3>8. Once(ms)
      <4> SUFFICES ASSUME NEW i \in 1 .. s.len, NEW j \in 1 .. s.len, ms[i] = ms[j] PROVE i = j
        BY <3>3 DEF Once
      <4>1. i - 1 = j - 1
        BY <3>1, <3>3, <3>4 DEF Holds
      <4> QED BY <4>1
    <3>9. \A g \in own : ~Visible(f, Msg(g, r))
      <4> SUFFICES ASSUME NEW g \in own PROVE ~Visible(f, Msg(g, r))
        OBVIOUS
      <4>1. g = f /\ NodeOf[f] # 0 /\ Msg(g, r).from = f
        BY <2>2 DEF WellConnected, Msg
      <4> QED BY <4>1 DEF Visible
    <3> QED BY <1>2, <1>3, <3>7, <3>8, <3>9
  <2> QED BY <2>1, <2>2
<1>5. DOMAIN q = 1 .. Len(q)
  BY <1>2
<1>6. IsInjective(q)
  BY <1>2, <1>4, <1>5 DEF IsInjective, Once
<1>7. \A m : m \in Range(q) <=> In(m, q)
  BY <1>5 DEF Range, In
<1>8. Range(q) = DueAt(f, r)
  BY <1>4, <1>7
<1> QED BY <1>6, <1>8 DEF q, ms

\* Whose messages of the round are set for f.
Delivered(f) == {g \in Into(f) : <<g, f>> \notin todo}

Carried ==
    /\ stage = "get" => \A f \in Sender \ todo : ~reset_called[f]
    /\ stage = "set" => \A f \in Fmu : Holding(stream[f], reset_called[f], f, Delivered(f), round)
    /\ stage = "step" => \A f \in todo : Holding(stream[f], reset_called[f], f, Into(f), previous)
    /\ HeardExactlyOnce

LEMMA DueIs == \A f : Due(f) = DueAt(f, previous)
BY DEF Due, DueAt

LEMMA DueNext == ASSUME round' = round PROVE \A f : Due(f)' = DueAt(f, previous)
BY DEF Due, DueAt, previous

LEMMA CarriedByStep ==
    ASSUME WellConnected, NetTypes, Carried, NEW f \in Fmu, Step(f, "get", Sender)
    PROVE  Carried'
<1>1. /\ stage \in {"first", "step"} /\ f \in todo
      /\ \/ todo = {f} /\ stage' = "get" /\ todo' = Sender
         \/ todo # {f} /\ stage' = stage /\ todo' = todo \ {f}
  BY StepFacts
<1>2. /\ UNCHANGED <<reset_called, round>>
      /\ \A g \in Fmu \ {f} : stream'[g] = stream[g]
      /\ heard' = [heard EXCEPT ![f] = Filtered(f, stream_read(stream[f]))]
  BY StepFacts
<1>3. CASE stage' # "step"
  BY <1>1, <1>3 DEF Carried, HeardExactlyOnce
<1>4. CASE stage' = "step"
  <2>1. stage = "step" /\ todo' = todo \ {f} /\ todo \subseteq Fmu
    BY <1>1, <1>4 DEF NetTypes
  <2>2. previous' = previous
    BY <1>2 DEF previous
  <2>3. \A g \in todo' : Holding(stream'[g], reset_called'[g], g, Into(g), previous')
    BY <1>2, <2>1, <2>2 DEF Carried
  <2> DEFINE q == Filtered(f, stream_read(stream[f]))
  <2>4. IsInjective(q) /\ Range(q) = DueAt(f, previous)
    <3>1. Sound(stream[f], Unit)
      BY StreamSound DEF NetTypes
    <3>2. Holding(stream[f], reset_called[f], f, Into(f), previous)
      BY <1>1, <2>1 DEF Carried
    <3>3. previous \in 0 .. Rounds - 1
      BY DEF previous, NetTypes
    <3> QED BY <3>1, <3>2, <3>3, HearsDue
  <2> HIDE DEF q
  <2>5. heard'[f] = q /\ \A g \in Fmu \ {f} : heard'[g] = heard[g]
    BY <1>2 DEF NetTypes, q
  <2>6. \A g \in Fmu \ todo : IsInjective(heard[g]) /\ Range(heard[g]) = DueAt(g, previous)
    BY <2>1, DueIs DEF Carried, HeardExactlyOnce
  <2>7. \A g \in Fmu \ todo' : IsInjective(heard'[g]) /\ Range(heard'[g]) = DueAt(g, previous)
    <3> SUFFICES ASSUME NEW g \in Fmu \ todo'
                 PROVE  IsInjective(heard'[g]) /\ Range(heard'[g]) = DueAt(g, previous)
      OBVIOUS
    <3>1. CASE g = f
      BY <2>4, <2>5, <3>1
    <3>2. CASE g # f
      BY <2>1, <2>5, <2>6, <3>2
    <3> QED BY <3>1, <3>2
  <2>8. HeardExactlyOnce'
    BY <1>2, <2>7, DueNext DEF HeardExactlyOnce
  <2> QED BY <1>4, <2>3, <2>8 DEF Carried
<1> QED BY <1>3, <1>4

LEMMA CarriedByGet ==
    ASSUME NetTypes, Spoken, Carried, NEW f \in Fmu, BatchGet(f)
    PROVE  Carried'
<1>1. /\ stage = "get" /\ f \in todo /\ f \in Sender
      /\ \/ todo = {f} /\ stage' = "set" /\ todo' = Channel
         \/ todo # {f} /\ stage' = stage /\ todo' = todo \ {f}
  BY GetFacts
<1>2. /\ stream'[f] = tx_stream(stream[f])
      /\ \A g \in Fmu \ {f} : stream'[g] = stream[g]
      /\ reset_called' = [reset_called EXCEPT ![f] = FALSE] /\ round' = round
  BY GetFacts
<1>3. \A g \in Sender \ (todo \ {f}) : ~reset_called'[g]
  BY <1>1, <1>2, SenderIsFmu DEF Carried, NetTypes
<1>4. CASE stage' = "get"
  BY <1>1, <1>3, <1>4 DEF Carried, HeardExactlyOnce
<1>5. CASE stage' # "get"
  <2>1. stage' = "set" /\ todo = {f} /\ todo' = Channel
    BY <1>1, <1>5
  <2>2. \A g \in Fmu : Delivered(g)' = {}
    BY <2>1 DEF Delivered, Into
  <2>3. \A g \in Fmu : Alone(stream'[g], Msg(g, round))
    <3>1. Alone(tx_stream(stream[f]), Msg(f, round))
      BY <1>1, GetAlone, StreamSound DEF NetTypes, Spoken
    <3> QED BY <1>1, <1>2, <3>1 DEF Spoken
  <2>4. \A g \in Fmu : Holding(stream'[g], reset_called'[g], g, Delivered(g)', round')
    BY <1>2, <1>3, <2>1, <2>2, <2>3 DEF Holding
  <2> QED BY <2>1, <2>4 DEF Carried, HeardExactlyOnce
<1> QED BY <1>4, <1>5

LEMMA CarriedBySet ==
    ASSUME WellConnected, NetTypes, Spoken, Carried, NEW c \in Channel, BatchSet(c)
    PROVE  Carried'
<1> DEFINE f == c[2]
           g == c[1]
<1>1. /\ stage = "set" /\ c \in todo
      /\ g \in Fmu /\ f \in Fmu /\ c = <<g, f>>
      /\ \/ /\ todo = {c} /\ stage' = "step" /\ todo' = Fmu
            /\ round' = (round + 1) % Rounds
         \/ todo # {c} /\ stage' = "set" /\ todo' = todo \ {c} /\ round' = round
  BY SetFacts
<1>2. /\ stream'[f] = rx_stream(reset_stream(f), decoded(value[g]))
      /\ \A h \in Fmu \ {f} : stream'[h] = stream[h]
      /\ reset_called' = [reset_called EXCEPT ![f] = TRUE]
  BY SetFacts
<1> HIDE DEF f, g
<1>3. <<g, f>> \in Channel /\ g \in Into(f) /\ g \in Sender
  <2>1. <<g, f>> \in Channel /\ <<g, f>>[1] = g
    BY <1>1
  <2> QED BY <1>1, <2>1 DEF Into, Sender
<1>4. decoded(value[g]) = <<Msg(g, round)>>
  <2>1. value[g] = Text(<<Msg(g, round)>>)
    BY <1>1, <1>3 DEF Spoken, GotOwnMessage, Msg
  <2>2. \A d : decoded(Text(d)) = d
    BY DEF decoded, Text
  <2> QED BY <2>1, <2>2
\* What is set for each FMU after this step.
<1> DEFINE New(h) == IF h = f THEN Delivered(f) \cup {g} ELSE Delivered(h)
<1>5. Holding(stream'[f], TRUE, f, Delivered(f) \cup {g}, round)
  <2>1. Delivered(f) \in SUBSET Into(f) /\ g \notin Delivered(f)
    BY <1>1 DEF Delivered
  <2>2. Sound(stream[f], Unit) /\ reset_called[f] \in BOOLEAN /\ round \in 0 .. Rounds - 1
    BY <1>1, StreamSound DEF NetTypes
  <2>3. Holding(stream[f], reset_called[f], f, Delivered(f), round)
    BY <1>1 DEF Carried
  <2>4. Holding(rx_stream(IF reset_called[f] THEN stream[f] ELSE stream_seek(stream[f], 0, "SEEK_RESET"),
                          <<Msg(g, round)>>), TRUE, f, Delivered(f) \cup {g}, round)
    BY <1>1, <1>3, <2>1, <2>2, <2>3, HoldingRx
  <2> QED BY <1>2, <1>4, <2>4 DEF reset_stream
<1>6. reset_called'[f] = TRUE /\ \A h \in Fmu \ {f} : reset_called'[h] = reset_called[h]
  BY <1>1, <1>2 DEF NetTypes
<1>7. \A h \in Fmu : Holding(stream'[h], reset_called'[h], h, New(h), round)
  <2> SUFFICES ASSUME NEW h \in Fmu PROVE Holding(stream'[h], reset_called'[h], h, New(h), round)
    OBVIOUS
  <2>1. CASE h = f
    BY <1>5, <1>6, <2>1
  <2>2. CASE h # f
    BY <1>1, <1>2, <1>6, <2>2 DEF Carried
  <2> QED BY <2>1, <2>2
<1>8. CASE todo # {c}
  <2>1. stage' = "set" /\ todo' = todo \ {c} /\ round' = round
    BY <1>1, <1>8
  <2>2. \A h \in Fmu : Delivered(h)' = New(h)
    <3> SUFFICES ASSUME NEW h \in Fmu PROVE Delivered(h)' = New(h)
      OBVIOUS
    <3>1. \A k : <<k, h>> = c <=> k = g /\ h = f
      BY <1>1
    <3> QED BY <1>3, <2>1, <3>1 DEF Delivered
  <2> QED BY <1>7, <2>1, <2>2 DEF Carried, HeardExactlyOnce
<1>9. CASE todo = {c}
  <2>1. stage' = "step" /\ todo' = Fmu /\ round' = (round + 1) % Rounds
    BY <1>1, <1>9
  <2>2. previous' = round
    <3>1. (round' + Rounds - 1) % Rounds = round
      BY <2>1, NextRoundIs DEF NetTypes
    <3> QED BY <3>1 DEF previous
  <2>3. \A h \in Fmu : New(h) = Into(h)
    <3> SUFFICES ASSUME NEW h \in Fmu PROVE New(h) = Into(h)
      OBVIOUS
    <3>1. \A k : <<k, h>> = c <=> k = g /\ h = f
      BY <1>1
    <3> QED BY <1>3, <1>9, <3>1 DEF Delivered
  <2> QED BY <1>7, <2>1, <2>2, <2>3 DEF Carried, HeardExactlyOnce
<1> QED BY <1>8, <1>9

LEMMA CarriedStep ==
    ASSUME WellConnected, NetTypes, Spoken, Carried, [BatchNext]_netVars
    PROVE  Carried'
<1>1. CASE UNCHANGED netVars
  BY <1>1 DEF netVars, Carried, Delivered, HeardExactlyOnce, Due, previous
<1> QED BY <1>1, CarriedByStep, CarriedByGet, CarriedBySet DEF BatchNext

LEMMA CarriedInit == Init => Carried
BY DEF Init, Carried, HeardExactlyOnce

\* In every round each FMU hears the last message of each FMU connected to it
\* that the node_id filter lets through: each exactly once, nothing older,
\* nothing of its own; for any number of FMUs, any connections that fit the
\* streams and every order within a stage (fmi2SetString after fmi2GetString,
\* with the reset_called of bus_topology.c).
THEOREM NetHears == WellConnected => (BatchSpec => []HeardExactlyOnce)
<1> SUFFICES ASSUME WellConnected PROVE BatchSpec => []HeardExactlyOnce
  OBVIOUS
<1> DEFINE Inv == NetTypes /\ Spoken /\ Carried
<1>1. Init => Inv
  BY NetTypesInit, SpokenInit, CarriedInit
<1>2. Inv /\ [BatchNext]_netVars => Inv'
  BY NetTypesStep, SpokenStep, CarriedStep
<1>3. Inv => HeardExactlyOnce
  BY DEF Carried
<1> QED BY <1>1, <1>2, <1>3, PTL DEF BatchSpec
=============================================================================
