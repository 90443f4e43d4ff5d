-------------------------- MODULE BufferStreamProof --------------------------
(***************************************************************************)
(* What the operations of the stream preserve, for every unit and every    *)
(* BUFFER_LEN, and what FlattenSeq makes of sequences.  The proofs about   *)
(* the codec, its text and the FMUs cite these facts.                      *)
(***************************************************************************)
EXTENDS BusTopology, SequencesExt, SequenceTheorems, FiniteSetTheorems, TLAPS

\* The typing invariant of a stream: pos <= len <= BUFFER_LEN.
Sound(s, Unit) == s \in Stream(Unit) /\ s.pos <= s.len

USE BufferLenAssumption

\* A created stream is sound.
LEMMA CreateSound ==
    ASSUME NEW Unit, NEW zero \in Unit
    PROVE  Sound(stream_create(zero), Unit)
BY DEF Sound, Stream, stream_create, Slot

\* Moving the position within the length.
LEMMA MoveSound ==
    ASSUME NEW Unit, NEW s, Sound(s, Unit), NEW p \in 0 .. BUFFER_LEN, p <= s.len
    PROVE  LET t == [s EXCEPT !.pos = p] IN Sound(t, Unit) /\ t.buffer = s.buffer
BY DEF Sound, Stream

\* A seek, with any op, keeps a stream sound and its content as it is.
LEMMA SeekSound ==
    ASSUME NEW Unit, NEW s, Sound(s, Unit), NEW pos \in Nat, NEW op
    PROVE  /\ Sound(stream_seek(s, pos, op), Unit)
           /\ stream_seek(s, pos, op).buffer = s.buffer
<1> DEFINE clamp(p) == IF p > s.len THEN s.len ELSE p
<1>1. /\ s.pos \in 0 .. BUFFER_LEN /\ s.len \in 0 .. BUFFER_LEN
      /\ 0 \in 0 .. BUFFER_LEN /\ BUFFER_LEN \in 0 .. BUFFER_LEN
  BY DEF Sound, Stream
<1>2. \A p \in Nat : clamp(p) \in 0 .. BUFFER_LEN /\ clamp(p) <= s.len
  BY <1>1
<1>3. /\ clamp(pos) \in 0 .. BUFFER_LEN /\ clamp(pos) <= s.len
      /\ clamp(s.pos + pos) \in 0 .. BUFFER_LEN /\ clamp(s.pos + pos) <= s.len
  BY <1>1, <1>2
<1> HIDE DEF clamp
<1>4. CASE op = "SEEK_SET"
  <2>1. stream_seek(s, pos, op) = [s EXCEPT !.pos = clamp(pos)]
    BY <1>4 DEF stream_seek, clamp
  <2> QED BY <1>1, <1>3, <2>1, MoveSound
<1>5. CASE op = "SEEK_CUR"
  <2>1. stream_seek(s, pos, op) = [s EXCEPT !.pos = clamp(s.pos + pos)]
    BY <1>5 DEF stream_seek, clamp
  <2> QED BY <1>1, <1>3, <2>1, MoveSound
<1>6. CASE op = "SEEK_END"
  <2>1. stream_seek(s, pos, op) = [s EXCEPT !.pos = s.len]
    BY <1>6 DEF stream_seek
  <2> QED BY <1>1, <2>1, MoveSound
<1>7. CASE op = "SEEK_RESET"
  <2>1. stream_seek(s, pos, op) = [buffer |-> s.buffer, pos |-> 0, len |-> 0]
    BY <1>7 DEF stream_seek
  <2> QED BY <1>1, <2>1 DEF Sound, Stream
<1>8. CASE op = "SEEK_42"
  <2>1. stream_seek(s, pos, op) = [buffer |-> s.buffer, pos |-> BUFFER_LEN, len |-> BUFFER_LEN]
    BY <1>8 DEF stream_seek
  <2> QED BY <1>1, <2>1 DEF Sound, Stream
<1>9. CASE op \notin {"SEEK_SET", "SEEK_CUR", "SEEK_END", "SEEK_RESET", "SEEK_42"}
  <2>1. stream_seek(s, pos, op) = s
    BY <1>9 DEF stream_seek
  <2> QED BY <2>1
<1> QED BY <1>4, <1>5, <1>6, <1>7, <1>8, <1>9

\* A write, if it fits or not, keeps a stream sound.
LEMMA WriteSound ==
    ASSUME NEW Unit, NEW s, Sound(s, Unit), NEW data \in Seq(Unit)
    PROVE  Sound(stream_write(s, data), Unit)
<1> DEFINE end == s.pos + Len(data)
<1> DEFINE new == [i \in Slot |-> IF i \in s.pos .. end - 1
                                  THEN data[i - s.pos + 1] ELSE s.buffer[i]]
<1>1. CASE ~stream_fits(s, data)
  BY <1>1 DEF stream_write
<1>2. CASE stream_fits(s, data)
  <2>1. end \in 0 .. BUFFER_LEN
    BY <1>2 DEF stream_fits, Sound, Stream
  <2>2. \A i \in Slot : i \in s.pos .. end - 1 => i - s.pos + 1 \in 1 .. Len(data)
    BY DEF Sound, Stream, Slot
  <2>3. new \in [Slot -> Unit]
    BY <2>2 DEF Sound, Stream
  <2> HIDE DEF new
  <2>4. stream_write(s, data) = [buffer |-> new, pos |-> end,
                                 len |-> IF end > s.len THEN end ELSE s.len]
    BY <1>2 DEF stream_write, new
  <2> QED BY <2>1, <2>3, <2>4 DEF Sound, Stream
<1> QED BY <1>1, <1>2

\* Consuming what a read handed out keeps a stream sound.
LEMMA ReadSound ==
    ASSUME NEW Unit, NEW s, Sound(s, Unit), NEW pos_op
    PROVE  /\ Sound(stream_read_pos(s, pos_op), Unit)
           /\ stream_read_pos(s, pos_op).buffer = s.buffer
BY DEF Sound, Stream, stream_read_pos

\* bus_topology_rx and bus_topology_tx keep a stream sound; after an rx it is
\* rewound, after a tx at its end, and a tx leaves its content.
LEMMA RxSound ==
    ASSUME NEW Unit, NEW s, Sound(s, Unit), NEW data \in Seq(Unit)
    PROVE  Sound(rx_stream(s, data), Unit) /\ rx_stream(s, data).pos = 0
<1>1. Sound(stream_seek(s, 0, "SEEK_END"), Unit)
  BY SeekSound
<1>2. Sound(stream_write(stream_seek(s, 0, "SEEK_END"), data), Unit)
  BY <1>1, WriteSound
<1>3. Sound(rx_stream(s, data), Unit)
  BY <1>2, SeekSound DEF rx_stream
<1>4. ASSUME NEW t, Sound(t, Unit) PROVE stream_seek(t, 0, "SEEK_SET").pos = 0
  BY <1>4 DEF stream_seek, Sound, Stream
<1> QED BY <1>2, <1>3, <1>4 DEF rx_stream

LEMMA TxSound ==
    ASSUME NEW Unit, NEW s, Sound(s, Unit)
    PROVE  /\ Sound(tx_stream(s), Unit) /\ tx_stream(s).buffer = s.buffer
           /\ tx_stream(s) = [s EXCEPT !.pos = s.len]
<1> DEFINE r == stream_seek(s, 0, "SEEK_SET")
<1>1. s.len \in 0 .. BUFFER_LEN /\ s \in Stream(Unit)
  BY DEF Sound, Stream
<1>2. r = [s EXCEPT !.pos = 0]
  BY <1>1 DEF stream_seek
<1>3. r.pos = 0 /\ r.len = s.len /\ [r EXCEPT !.pos = s.len] = [s EXCEPT !.pos = s.len]
  BY <1>1, <1>2 DEF Stream
<1> HIDE DEF r
<1>4. CASE 0 < s.len
  <2>1. tx_stream(s) = [r EXCEPT !.pos = s.len]
    BY <1>3, <1>4 DEF tx_stream, stream_read_pos, r
  <2>2. tx_stream(s) = [s EXCEPT !.pos = s.len]
    BY <1>3, <2>1
  <2> QED BY <1>1, <2>2, MoveSound DEF Sound, Stream
<1>5. CASE s.len = 0
  <2>1. tx_stream(s) = r
    BY <1>3, <1>5 DEF tx_stream, stream_read_pos, r
  <2>2. tx_stream(s) = [s EXCEPT !.pos = s.len]
    BY <1>2, <1>5, <2>1
  <2> QED BY <1>1, <2>2, MoveSound DEF Sound, Stream
<1> QED BY <1>1, <1>4, <1>5

\* What appending leaves: the data behind what was there, or, when it does
\* not fit, only what was there.
Appended(s, t, data) ==
    \/ /\ s.len + Len(data) > BUFFER_LEN
       /\ t.len = s.len /\ t.buffer = s.buffer
    \/ /\ s.len + Len(data) <= BUFFER_LEN
       /\ t.len = s.len + Len(data)
       /\ \A i \in 0 .. s.len - 1 : t.buffer[i] = s.buffer[i]
       /\ \A i \in 1 .. Len(data) : t.buffer[s.len + i - 1] = data[i]

LEMMA WriteAppends ==
    ASSUME NEW Unit, NEW s, Sound(s, Unit), s.pos = s.len, NEW data \in Seq(Unit)
    PROVE  /\ Appended(s, stream_write(s, data), data)
           /\ stream_write(s, data).pos = stream_write(s, data).len
<1> DEFINE end == s.pos + Len(data)
           new == [i \in Slot |-> IF i \in s.pos .. end - 1
                                  THEN data[i - s.pos + 1] ELSE s.buffer[i]]
           t == stream_write(s, data)
<1>1. s.len \in 0 .. BUFFER_LEN /\ Len(data) \in Nat
  BY DEF Sound, Stream
<1>2. CASE ~stream_fits(s, data)
  <2>1. s.len + Len(data) > BUFFER_LEN
    BY <1>1, <1>2, BufferLenAssumption DEF stream_fits
  <2>2. t = s
    BY <1>2 DEF stream_write
  <2> HIDE DEF t
  <2> QED BY <2>1, <2>2 DEF Appended, t
<1>3. CASE stream_fits(s, data)
  <2>1. t = [buffer |-> new, pos |-> end, len |-> IF end > s.len THEN end ELSE s.len]
    BY <1>3 DEF stream_write
  <2>2. end <= BUFFER_LEN /\ end = s.len + Len(data)
    BY <1>3 DEF stream_fits
  <2>3. (IF end > s.len THEN end ELSE s.len) = end
    BY <1>1, <2>2
  <2>4. \A i \in 0 .. s.len - 1 : new[i] = s.buffer[i]
    <3>1. \A i \in 0 .. s.len - 1 : i \in Slot /\ i \notin s.pos .. end - 1
      BY <1>1 DEF Slot
    <3> QED BY <3>1
  <2>5. \A i \in 1 .. Len(data) : new[s.len + i - 1] = data[i]
    <3>1. \A i \in 1 .. Len(data) : /\ s.len + i - 1 \in Slot
                                    /\ s.len + i - 1 \in s.pos .. end - 1
                                    /\ (s.len + i - 1) - s.pos + 1 = i
      BY <1>1, <2>2 DEF Slot
    <3> QED BY <3>1
  <2> HIDE DEF new
  <2>6. t.buffer = new /\ t.pos = end /\ t.len = end
    BY <2>1, <2>3
  <2> HIDE DEF t
  <2> QED BY <2>2, <2>4, <2>5, <2>6 DEF Appended, t
<1> QED BY <1>2, <1>3

LEMMA RxAppends ==
    ASSUME NEW Unit, NEW s, Sound(s, Unit), NEW data \in Seq(Unit)
    PROVE  Appended(s, rx_stream(s, data), data)
<1> DEFINE r == stream_seek(s, 0, "SEEK_END")
           w == stream_write(r, data)
<1>1. r = [s EXCEPT !.pos = s.len]
  BY DEF stream_seek
<1>2. r.len = s.len /\ r.pos = s.len /\ r.buffer = s.buffer /\ Sound(r, Unit)
  <2>1. r.len = s.len /\ r.pos = s.len /\ r.buffer = s.buffer
    BY <1>1 DEF Sound, Stream
  <2> QED BY <2>1, SeekSound
<1> HIDE DEF r
<1>3. Appended(r, w, data) /\ Sound(w, Unit)
  BY <1>2, WriteAppends, WriteSound
<1> HIDE DEF w
<1>4. rx_stream(s, data) = [w EXCEPT !.pos = IF 0 > w.len THEN w.len ELSE 0]
  BY DEF rx_stream, stream_seek, w, r
<1>5. rx_stream(s, data).len = w.len /\ rx_stream(s, data).buffer = w.buffer
  BY <1>3, <1>4 DEF Sound, Stream
<1> QED BY <1>2, <1>3, <1>5 DEF Appended

-----------------------------------------------------------------------------
(* Sequences of sequences *)

\* Induction over the naturals for a set.  Were some number not in B, then
\* those up to it that are not in B would be mapped one to one to fewer of
\* them by taking each to the one before.
LEMMA Induction ==
    ASSUME NEW B, 0 \in B, \A n \in Nat : n \in B => n + 1 \in B
    PROVE  Nat \subseteq B
<1> SUFFICES ASSUME NEW m \in Nat, m \notin B PROVE FALSE
  OBVIOUS
<1> DEFINE C == {n \in 0 .. m : n \notin B}
           before == [n \in C |-> n - 1]
<1>1. IsFiniteSet(C)
  <2>1. IsFiniteSet(0 .. m) /\ C \in SUBSET (0 .. m)
    BY FS_Interval
  <2> QED BY <2>1, FS_Subset
<1>2. m \in C
  OBVIOUS
<1>3. \A n \in C : n - 1 \in C \ {m} /\ n \in Nat
  <2> SUFFICES ASSUME NEW n \in C PROVE n - 1 \in C \ {m} /\ n \in Nat
    OBVIOUS
  <2>1. n \in 0 .. m /\ n # 0
    OBVIOUS
  <2>2. n - 1 \in Nat /\ n - 1 \in 0 .. m /\ n - 1 # m /\ (n - 1) + 1 = n
    BY <2>1
  <2> QED BY <2>1, <2>2
<1>4. before \in Injection(C, C \ {m})
  BY <1>3 DEF Injection, IsInjective
<1>5. /\ IsFiniteSet(C \ {m}) /\ Cardinality(C \ {m}) = Cardinality(C) - 1
      /\ Cardinality(C) \in Nat
  BY <1>1, <1>2, FS_RemoveElement, FS_CardinalityType
<1>6. Cardinality(C) <= Cardinality(C \ {m})
  BY <1>4, <1>5, FS_Injection
<1> QED BY <1>5, <1>6

\* f[i] is what the first i of the sequences make together.
Joins(f, ss) == f = [i \in 1 .. Len(ss) |-> IF i = 1 THEN ss[i] ELSE f[i - 1] \o ss[i]]

LEMMA FlattenIsLast ==
    ASSUME NEW ss, Len(ss) # 0
    PROVE  FlattenSeq(ss) = (CHOOSE f : Joins(f, ss))[Len(ss)]
BY DEF FlattenSeq, Joins

LEMMA JoinsAt ==
    ASSUME NEW ss, NEW f, Joins(f, ss), NEW i \in 1 .. Len(ss)
    PROVE  f[i] = IF i = 1 THEN ss[i] ELSE f[i - 1] \o ss[i]
BY DEF Joins

SameUpTo(n, ss, tt) == \A i \in 1 .. n : ss[i] = tt[i]

\* Joining exists, and depends on the sequences joined only.
LEMMA JoinsUnique ==
    ASSUME NEW ss, NEW tt, Len(ss) \in Nat, Len(tt) \in Nat,
           NEW n \in 1 .. Len(ss), n <= Len(tt), SameUpTo(n, ss, tt),
           NEW f, Joins(f, ss), NEW g, Joins(g, tt)
    PROVE  f[n] = g[n]
<1> DEFINE B == {i \in Nat : i \in 1 .. n => f[i] = g[i]}
<1>1. 0 \in B
  OBVIOUS
<1>2. ASSUME NEW i \in Nat, i \in B PROVE i + 1 \in B
  <2> SUFFICES ASSUME i + 1 \in 1 .. n PROVE f[i + 1] = g[i + 1]
    OBVIOUS
  <2>1. i + 1 \in 1 .. Len(ss) /\ i + 1 \in 1 .. Len(tt)
    OBVIOUS
  <2>2. f[i + 1] = IF i + 1 = 1 THEN ss[i + 1] ELSE f[i + 1 - 1] \o ss[i + 1]
    BY <2>1, JoinsAt
  <2>3. g[i + 1] = IF i + 1 = 1 THEN tt[i + 1] ELSE g[i + 1 - 1] \o tt[i + 1]
    BY <2>1, JoinsAt
  <2>4. i + 1 - 1 = i /\ (i + 1 # 1 => i \in 1 .. n)
    OBVIOUS
  <2> QED BY <1>2, <2>2, <2>3, <2>4 DEF SameUpTo
<1> HIDE DEF B
<1>3. n \in B
  BY <1>1, <1>2, Induction
<1> QED BY <1>3 DEF B

Extended(f, n, e) ==
    [i \in 1 .. n |-> IF i = n THEN IF n = 1 THEN e ELSE f[n - 1] \o e ELSE f[i]]

LEMMA JoinsExtend ==
    ASSUME NEW S, NEW ss \in Seq(Seq(S)), NEW e \in Seq(S), NEW f, Joins(f, ss)
    PROVE  Joins(Extended(f, Len(ss) + 1, e), Append(ss, e))
<1> DEFINE n == Len(ss) + 1
           tt == Append(ss, e)
           g == Extended(f, n, e)
<1> USE DEF Extended
<1>1. Len(tt) = n /\ n \in Nat /\ tt[n] = e /\ \A i \in 1 .. n - 1 : tt[i] = ss[i]
  OBVIOUS
<1>2. ASSUME NEW i \in 1 .. n
      PROVE  g[i] = IF i = 1 THEN tt[i] ELSE g[i - 1] \o tt[i]
  <2>1. CASE i = n
    BY <1>1, <2>1
  <2>2. CASE i # n
    <3>1. i \in 1 .. Len(ss) /\ tt[i] = ss[i] /\ g[i] = f[i]
      BY <1>1, <2>2
    <3>2. f[i] = IF i = 1 THEN ss[i] ELSE f[i - 1] \o ss[i]
      BY <3>1, JoinsAt
    <3>3. i # 1 => g[i - 1] = f[i - 1]
      BY <3>1
    <3> QED BY <3>1, <3>2, <3>3
  <2> QED BY <2>1, <2>2
<1>3. g = [i \in 1 .. n |-> g[i]]
  OBVIOUS
<1> HIDE DEF g
<1>4. g = [i \in 1 .. Len(tt) |-> IF i = 1 THEN tt[i] ELSE g[i - 1] \o tt[i]]
  BY <1>1, <1>2, <1>3
<1> QED BY <1>4 DEF Joins, g

LEMMA JoinsExists ==
    ASSUME NEW S
    PROVE  \A ss \in Seq(Seq(S)) :
              \E f : Joins(f, ss) /\ \A i \in 1 .. Len(ss) : f[i] \in Seq(S)
<1> DEFINE Good(ss) == \E f : Joins(f, ss) /\ \A i \in 1 .. Len(ss) : f[i] \in Seq(S)
           B == {n \in Nat : \A ss \in Seq(Seq(S)) : Len(ss) = n => Good(ss)}
<1>1. 0 \in B
  <2> SUFFICES ASSUME NEW ss \in Seq(Seq(S)), Len(ss) = 0 PROVE Good(ss)
    OBVIOUS
  <2>1. Joins(<<>>, ss)
    BY DEF Joins
  <2> QED BY <2>1
<1>2. ASSUME NEW n \in Nat, n \in B PROVE n + 1 \in B
  <2> SUFFICES ASSUME NEW ss \in Seq(Seq(S)), Len(ss) = n + 1 PROVE Good(ss)
    OBVIOUS
  <2> DEFINE front == SubSeq(ss, 1, n)
             e == ss[n + 1]
  <2>1. front \in Seq(Seq(S)) /\ Len(front) = n /\ e \in Seq(S) /\ ss = Append(front, e)
    OBVIOUS
  <2>2. PICK f : Joins(f, front) /\ \A i \in 1 .. Len(front) : f[i] \in Seq(S)
    BY <1>2, <2>1
  <2> DEFINE g == Extended(f, n + 1, e)
  <2>3. Joins(g, ss)
    BY <2>1, <2>2, JoinsExtend
  <2>4. ASSUME NEW i \in 1 .. Len(ss) PROVE g[i] \in Seq(S)
    <3>1. CASE i # n + 1
      BY <2>1, <2>2, <3>1 DEF Extended
    <3>2. CASE i = n + 1 /\ n = 0
      BY <2>1, <3>2 DEF Extended
    <3>3. CASE i = n + 1 /\ n # 0
      <4>1. n \in 1 .. Len(front)
        BY <2>1, <3>3
      <4>2. f[n] \in Seq(S)
        BY <2>2, <4>1
      <4>3. g[i] = f[n] \o e
        <5>1. g[i] = IF i = 1 THEN e ELSE f[i - 1] \o e
          BY <3>3 DEF Extended
        <5>2. i # 1 /\ i - 1 = n
          BY <3>3
        <5> QED BY <5>1, <5>2
      <4>4. f[n] \o e \in Seq(S)
        BY <2>1, <4>2
      <4> HIDE DEF g
      <4> QED BY <4>3, <4>4
    <3> QED BY <3>1, <3>2, <3>3
  <2> HIDE DEF g
  <2> QED BY <2>3, <2>4
<1> HIDE DEF B
<1>3. Nat \subseteq B
  BY <1>1, <1>2, Induction
<1> SUFFICES ASSUME NEW ss \in Seq(Seq(S)) PROVE Good(ss)
  OBVIOUS
<1>4. Len(ss) \in B
  BY <1>3
<1> QED BY <1>4 DEF B

\* What FlattenSeq makes of a sequence of sequences, one by one.
LEMMA FlattenEmpty == FlattenSeq(<<>>) = <<>>
BY DEF FlattenSeq

LEMMA FlattenJoins ==
    ASSUME NEW S, NEW ss \in Seq(Seq(S)), ss # <<>>
    PROVE  \E f : /\ Joins(f, ss) /\ FlattenSeq(ss) = f[Len(ss)]
                  /\ f[Len(ss)] \in Seq(S)
<1>1. Len(ss) \in Nat /\ Len(ss) # 0 /\ Len(ss) \in 1 .. Len(ss)
  OBVIOUS
<1>2. PICK f : Joins(f, ss) /\ \A i \in 1 .. Len(ss) : f[i] \in Seq(S)
  BY JoinsExists
<1> DEFINE g == CHOOSE h : Joins(h, ss)
<1>3. Joins(g, ss)
  BY <1>2
<1>4. FlattenSeq(ss) = g[Len(ss)]
  BY <1>1, FlattenIsLast
<1> HIDE DEF g
<1>5. g[Len(ss)] = f[Len(ss)]
  BY <1>1, <1>2, <1>3, JoinsUnique DEF SameUpTo
<1> QED BY <1>1, <1>2, <1>3, <1>4, <1>5

LEMMA FlattenType ==
    ASSUME NEW S, NEW ss \in Seq(Seq(S))
    PROVE  FlattenSeq(ss) \in Seq(S)
<1>1. CASE ss = <<>>
  BY <1>1, FlattenEmpty, EmptySeq
<1>2. CASE ss # <<>>
  BY <1>2, FlattenJoins
<1> QED BY <1>1, <1>2

LEMMA FlattenAppend ==
    ASSUME NEW S, NEW ss \in Seq(Seq(S)), NEW e \in Seq(S)
    PROVE  FlattenSeq(Append(ss, e)) = FlattenSeq(ss) \o e
<1> DEFINE tt == Append(ss, e)
           n == Len(tt)
<1>1. tt \in Seq(Seq(S)) /\ n = Len(ss) + 1 /\ n \in Nat /\ tt[n] = e
      /\ \A i \in 1 .. n - 1 : tt[i] = ss[i]
  OBVIOUS
<1>6. n # 0 /\ Len(<<>>) = 0
  BY <1>1
<1>7. tt # <<>>
  BY <1>6
<1>2. PICK f : Joins(f, tt) /\ FlattenSeq(tt) = f[n]
  BY <1>1, <1>7, FlattenJoins
<1> HIDE DEF tt
<1>3. f[n] = IF n = 1 THEN e ELSE f[n - 1] \o e
  BY <1>1, <1>2, JoinsAt
<1>4. CASE ss = <<>>
  BY <1>1, <1>2, <1>3, <1>4, FlattenEmpty DEF tt
<1>5. CASE ss # <<>>
  <2>1. PICK g : Joins(g, ss) /\ FlattenSeq(ss) = g[Len(ss)]
    BY <1>5, FlattenJoins
  <2>2. Len(ss) \in 1 .. n /\ Len(ss) \in 1 .. Len(ss) /\ Len(ss) = n - 1 /\ n # 1
    BY <1>1, <1>5
  <2>3. \A i \in 1 .. n - 1 : tt[i] = ss[i]
    BY <1>1
  <2>4. f[n - 1] = g[n - 1]
    <3> DEFINE k == n - 1
    <3>1. k \in 1 .. Len(tt) /\ k <= Len(ss) /\ Len(tt) \in Nat /\ Len(ss) \in Nat
      BY <1>1, <2>2
    <3>2. SameUpTo(k, tt, ss)
      BY <2>3 DEF SameUpTo
    <3> HIDE DEF k
    <3>3. f[k] = g[k]
      BY <1>2, <2>1, <3>1, <3>2, JoinsUnique
    <3> QED BY <3>3 DEF k
  <2> QED BY <1>2, <1>3, <2>1, <2>2, <2>4 DEF tt
<1> QED BY <1>4, <1>5

\* One more sequence joined to those before.
LEMMA FlattenNext ==
    ASSUME NEW S, NEW n \in Nat, NEW p \in [1 .. n -> Seq(S)], NEW q \in [1 .. n + 1 -> Seq(S)],
           \A k \in 1 .. n : q[k] = p[k]
    PROVE  FlattenSeq(p) \in Seq(S) /\ FlattenSeq(q) = FlattenSeq(p) \o q[n + 1]
<1> DEFINE e == q[n + 1]
<1>1. p \in Seq(Seq(S)) /\ q \in Seq(Seq(S)) /\ e \in Seq(S)
  BY SeqDef
<1>2. DOMAIN p = 1 .. n /\ DOMAIN q = 1 .. n + 1
  OBVIOUS
<1>3. Len(p) = n /\ Len(q) = n + 1
  BY <1>1, <1>2, LenProperties
<1>4. \A i \in 1 .. n + 1 : i \in 1 .. n \/ i = n + 1
  OBVIOUS
<1> HIDE DEF e
<1>5. /\ Append(p, e) \in Seq(Seq(S)) /\ Len(Append(p, e)) = n + 1
      /\ Append(p, e)[n + 1] = e /\ \A i \in 1 .. n : Append(p, e)[i] = p[i]
  BY <1>1, <1>3
<1>6. \A i \in 1 .. n + 1 : q[i] = Append(p, e)[i]
  BY <1>4, <1>5 DEF e
<1>7. q = Append(p, e)
  BY <1>1, <1>3, <1>5, <1>6, SeqEqual
<1> QED BY <1>1, <1>7, FlattenType, FlattenAppend DEF e

LEMMA FlattenOne ==
    ASSUME NEW S, NEW q \in [1 .. 1 -> Seq(S)]
    PROVE  FlattenSeq(q) = q[1]
<1> DEFINE e == q[1]
<1>1. q \in Seq(Seq(S)) /\ e \in Seq(S) /\ DOMAIN q = 1 .. 1
  <2>1. 1 \in Nat /\ 1 \in 1 .. 1
    OBVIOUS
  <2>2. \A n \in Nat : \A x \in [1 .. n -> Seq(S)] : x \in Seq(Seq(S))
    BY SeqDef
  <2> QED BY <2>1, <2>2
<1>2. Len(q) = 1
  BY <1>1, LenProperties
<1>3. <<>> \in Seq(Seq(S)) /\ <<>> \in Seq(S)
  OBVIOUS
<1>4. q = Append(<<>>, e)
  BY <1>1, <1>2, <1>3
<1> HIDE DEF e
<1>5. FlattenSeq(Append(<<>>, e)) = <<>> \o e
  BY <1>1, <1>3, FlattenAppend, FlattenEmpty
<1>6. <<>> \o e = e
  BY <1>1, ConcatEmptySeq
<1> QED BY <1>4, <1>5, <1>6 DEF e
=============================================================================
