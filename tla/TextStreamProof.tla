--------------------------- MODULE TextStreamProof ---------------------------
(***************************************************************************)
(* Bytes are restored from their text, for every sequence of bytes and for *)
(* every byte width and base with BASE <= BYTE and BYTE^4 <= BASE^5; 256   *)
(* and 85 among them.  The stream they are exchanged through implements    *)
(* ByteFile, for every size of the array, byte set and set of chunks.      *)
(***************************************************************************)
EXTENDS TextStream, BufferStreamProof

-----------------------------------------------------------------------------
(* Groups of four bytes *)

USE Ascii85Assumption DEF Word

Bytes == 0 .. BYTE - 1

\* Division by the base or the number of bytes, for every leaf that needs it.
LEMMA Division ==
    ASSUME NEW x \in Nat, NEW m \in Nat \ {0}
    PROVE  /\ x \div m \in Nat
           /\ x % m \in 0 .. m - 1
           /\ x = (x \div m) * m + (x % m)
OBVIOUS

\* What a quotient and a remainder were made of is what they are.
LEMMA Quotient ==
    ASSUME NEW q \in Nat, NEW m \in Nat \ {0}, NEW r \in 0 .. m - 1
    PROVE  (q * m + r) \div m = q /\ (q * m + r) % m = r
OBVIOUS

\* Products keep the order; the solver does not see it through other products.
LEMMA Scale ==
    ASSUME NEW a \in Nat, NEW b \in Nat, a <= b, NEW m \in Nat
    PROVE  a * m <= b * m
OBVIOUS

\* A word as its quotients and digits.
LEMMA DigitsOfWord ==
    ASSUME NEW x \in 0 .. Word - 1
    PROVE  /\ \A k \in 1 .. 5 : Digits(x)[k] \in 0 .. BASE - 1
           /\ Value(Digits(x)) = x
<1> DEFINE x1 == x \div BASE
           x2 == x1 \div BASE
           x3 == x2 \div BASE
           x4 == x3 \div BASE
<1>1. Word \in Nat /\ x \in Nat
  OBVIOUS
<1>2. x1 \in Nat /\ x % BASE \in 0 .. BASE - 1 /\ x = x1 * BASE + (x % BASE)
  BY <1>1, Division
<1> HIDE DEF x1
<1>3. x2 \in Nat /\ x1 % BASE \in 0 .. BASE - 1 /\ x1 = x2 * BASE + (x1 % BASE)
  BY <1>2, Division
<1> HIDE DEF x2
<1>4. x3 \in Nat /\ x2 % BASE \in 0 .. BASE - 1 /\ x2 = x3 * BASE + (x2 % BASE)
  BY <1>3, Division
<1> HIDE DEF x3
<1>5. x4 \in Nat /\ x3 % BASE \in 0 .. BASE - 1 /\ x3 = x4 * BASE + (x3 % BASE)
  BY <1>4, Division
<1> HIDE DEF x4
\* A word has no sixth digit.
<1>6. x4 < BASE
  <2> SUFFICES ASSUME BASE <= x4 PROVE FALSE
    BY <1>5
  <2>1. BASE * BASE \in Nat /\ BASE * BASE * BASE \in Nat /\ BASE * BASE * BASE * BASE \in Nat
    OBVIOUS
  <2>2. BASE * BASE <= x3
    BY <1>4, <1>5, Scale
  <2>3. BASE * BASE * BASE <= x2
    BY <1>3, <1>4, <2>1, <2>2, Scale
  <2>4. BASE * BASE * BASE * BASE <= x1
    BY <1>2, <1>3, <2>1, <2>3, Scale
  <2>5. BASE * BASE * BASE * BASE * BASE <= x
    BY <1>1, <1>2, <2>1, <2>4, Scale
  <2> QED BY <1>1, <2>5
<1>7. x4 % BASE = x4
  BY <1>5, <1>6
<1>8. Digits(x) = <<x4, x3 % BASE, x2 % BASE, x1 % BASE, x % BASE>>
  BY <1>7 DEF Digits, x1, x2, x3, x4
<1> QED BY <1>1, <1>2, <1>3, <1>4, <1>5, <1>6, <1>8 DEF Value

\* Shifting a word apart undoes joining its bytes.
LEMMA SplitJoin ==
    ASSUME NEW b1 \in Bytes, NEW b2 \in Bytes, NEW b3 \in Bytes, NEW b4 \in Bytes
    PROVE  /\ Join(<<b1, b2, b3, b4>>) \in 0 .. Word - 1
           /\ Split(Join(<<b1, b2, b3, b4>>)) = <<b1, b2, b3, b4>>
<1> DEFINE w2 == b1 * BYTE + b2
           w3 == w2 * BYTE + b3
           w4 == w3 * BYTE + b4
<1>1. w2 \in Nat /\ w2 + 1 <= BYTE * BYTE
  BY Scale DEF Bytes
<1>2. w2 \div BYTE = b1 /\ w2 % BYTE = b2
  BY Quotient DEF Bytes
<1> HIDE DEF w2
<1>3. w3 \in Nat /\ w3 + 1 <= (w2 + 1) * BYTE
  BY <1>1 DEF Bytes
<1>4. w3 \div BYTE = w2 /\ w3 % BYTE = b3
  BY <1>1, Quotient DEF Bytes
<1> HIDE DEF w3
<1>5. w4 \in Nat /\ w4 + 1 <= (w3 + 1) * BYTE
  BY <1>3 DEF Bytes
<1>6. w4 \div BYTE = w3 /\ w4 % BYTE = b4
  BY <1>3, Quotient DEF Bytes
<1>7. w4 + 1 <= Word
  <2>1. (w2 + 1) * BYTE <= BYTE * BYTE * BYTE
    BY <1>1, Scale
  <2>2. w3 + 1 <= BYTE * BYTE * BYTE /\ BYTE * BYTE * BYTE \in Nat
    BY <1>1, <1>3, <2>1
  <2>3. (w3 + 1) * BYTE <= BYTE * BYTE * BYTE * BYTE
    BY <1>3, <2>2, Scale
  <2> QED BY <1>3, <1>5, <2>3
<1>8. Join(<<b1, b2, b3, b4>>) = w4
  BY DEF Join, w2, w3, w4
<1> HIDE DEF w4
<1>9. b1 % BYTE = b1
  BY DEF Bytes
<1> QED BY <1>2, <1>4, <1>5, <1>6, <1>7, <1>8, <1>9 DEF Split

\* A whole group is restored from its five digits.
THEOREM WholeGroup ==
    ASSUME NEW b1 \in Bytes, NEW b2 \in Bytes, NEW b3 \in Bytes, NEW b4 \in Bytes
    PROVE  Split(Value(Digits(Join(<<b1, b2, b3, b4>>))) % Word) = <<b1, b2, b3, b4>>
<1> DEFINE x == Join(<<b1, b2, b3, b4>>)
<1>1. x \in 0 .. Word - 1 /\ Split(x) = <<b1, b2, b3, b4>>
  BY SplitJoin
<1> HIDE DEF x
<1>2. Value(Digits(x)) = x
  BY <1>1, DigitsOfWord
<1>3. x % Word = x
  BY <1>1
<1> QED BY <1>1, <1>2, <1>3 DEF x

\* A short last group: its missing bytes are encoded as zeroes, as many digits
\* are cut off, and the decoder puts the highest digit in their place.  What it
\* gets is above the word by less than the missing bytes can hold, hence the
\* bytes that are there are restored.
High == BASE - 1

\* Digits that are cut off stand for less than as many bytes.
LEMMA PowersOfBase ==
    /\ BASE * BASE \in Nat /\ BYTE * BYTE \in Nat
    /\ BASE * BASE <= BYTE * BYTE
    /\ BASE * BASE * BASE <= BYTE * BYTE * BYTE
<1>1. BASE * BASE \in Nat /\ BYTE * BYTE \in Nat /\ BYTE * BASE \in Nat
  OBVIOUS
<1>2. BASE * BASE <= BYTE * BASE /\ BASE * BYTE <= BYTE * BYTE
  BY Scale
<1>3. BASE * BASE <= BYTE * BYTE
  BY <1>1, <1>2
<1>4. BASE * BASE * BASE <= BYTE * BYTE * BASE
  BY <1>1, <1>3, Scale
<1>5. BASE * (BYTE * BYTE) <= BYTE * (BYTE * BYTE)
  BY <1>1, Scale
<1> QED BY <1>1, <1>3, <1>4, <1>5

\* One missing byte, one digit cut off (ascii85.c:41-44, 64-70).
THEOREM GroupOfThree ==
    ASSUME NEW b1 \in Bytes, NEW b2 \in Bytes, NEW b3 \in Bytes
    PROVE  LET d == Digits(Join(<<b1, b2, b3, 0>>))
               r == Split(Value(<<d[1], d[2], d[3], d[4], High>>) % Word)
           IN  r[1] = b1 /\ r[2] = b2 /\ r[3] = b3
<1> DEFINE x == Join(<<b1, b2, b3, 0>>)
           d == Digits(x)
           y == Value(<<d[1], d[2], d[3], d[4], High>>)
           e == High - d[5]
<1>1. 0 \in Bytes
  BY DEF Bytes
<1>2. x \in 0 .. Word - 1
  BY <1>1, SplitJoin
<1>3. (\A k \in 1 .. 5 : d[k] \in 0 .. BASE - 1) /\ Value(d) = x
  BY <1>2, DigitsOfWord
<1> HIDE DEF d
<1>4. e \in Bytes /\ y = x + e
  BY <1>3 DEF Value, High, Bytes
<1>5. y = Join(<<b1, b2, b3, e>>)
  BY <1>4 DEF Join, Bytes
<1>6. y \in 0 .. Word - 1 /\ Split(y) = <<b1, b2, b3, e>>
  BY <1>4, <1>5, SplitJoin
<1> HIDE DEF y
<1>7. y % Word = y
  BY <1>6
<1> QED BY <1>6, <1>7 DEF y, d

\* Two missing bytes, two digits cut off.
THEOREM GroupOfTwo ==
    ASSUME NEW b1 \in Bytes, NEW b2 \in Bytes
    PROVE  LET d == Digits(Join(<<b1, b2, 0, 0>>))
               r == Split(Value(<<d[1], d[2], d[3], High, High>>) % Word)
           IN  r[1] = b1 /\ r[2] = b2
<1> DEFINE x == Join(<<b1, b2, 0, 0>>)
           d == Digits(x)
           y == Value(<<d[1], d[2], d[3], High, High>>)
           e == (High - d[4]) * BASE + (High - d[5])
           e1 == e \div BYTE
           e2 == e % BYTE
<1>1. 0 \in Bytes
  BY DEF Bytes
<1>2. x \in 0 .. Word - 1
  BY <1>1, SplitJoin
<1>3. (\A k \in 1 .. 5 : d[k] \in 0 .. BASE - 1) /\ Value(d) = x
  BY <1>2, DigitsOfWord
<1> HIDE DEF d
<1>4. High - d[4] \in 0 .. BASE - 1 /\ High - d[5] \in 0 .. BASE - 1
  BY <1>3 DEF High
<1>5. e \in Nat /\ e < BYTE * BYTE
  <2>1. e \in Nat /\ e + 1 <= (High - d[4] + 1) * BASE
    BY <1>4
  <2>2. (High - d[4] + 1) * BASE <= BASE * BASE
    BY <1>4, Scale
  <2> QED BY <1>4, <2>1, <2>2, PowersOfBase
<1>6. y = x + e
  BY <1>3, <1>4 DEF Value, High
<1> HIDE DEF e
<1>7. e1 \in Nat /\ e2 \in Bytes /\ e = e1 * BYTE + e2
  BY <1>5, Division DEF Bytes
<1> HIDE DEF e1, e2
<1>8. e1 \in Bytes
  <2> SUFFICES ASSUME BYTE <= e1 PROVE FALSE
    BY <1>7 DEF Bytes
  <2>1. BYTE * BYTE <= e1 * BYTE
    BY <1>7, Scale
  <2> QED BY <1>5, <1>7, <2>1, PowersOfBase DEF Bytes
<1>9. y = Join(<<b1, b2, e1, e2>>)
  BY <1>6, <1>7, <1>8 DEF Join, Bytes
<1>10. y \in 0 .. Word - 1 /\ Split(y) = <<b1, b2, e1, e2>>
  BY <1>7, <1>8, <1>9, SplitJoin
<1> HIDE DEF y
<1>11. y % Word = y
  BY <1>10
<1> QED BY <1>10, <1>11 DEF y, d

\* Three missing bytes, three digits cut off.
THEOREM GroupOfOne ==
    ASSUME NEW b1 \in Bytes
    PROVE  LET d == Digits(Join(<<b1, 0, 0, 0>>))
               r == Split(Value(<<d[1], d[2], High, High, High>>) % Word)
           IN  r[1] = b1
<1> DEFINE x == Join(<<b1, 0, 0, 0>>)
           d == Digits(x)
           y == Value(<<d[1], d[2], High, High, High>>)
           h == (High - d[3]) * BASE + (High - d[4])
           e == h * BASE + (High - d[5])
           q == e \div BYTE
           e1 == q \div BYTE
           e2 == q % BYTE
           e3 == e % BYTE
<1>1. 0 \in Bytes
  BY DEF Bytes
<1>2. x \in 0 .. Word - 1
  BY <1>1, SplitJoin
<1>3. (\A k \in 1 .. 5 : d[k] \in 0 .. BASE - 1) /\ Value(d) = x
  BY <1>2, DigitsOfWord
<1> HIDE DEF d
<1>4. /\ High - d[3] \in 0 .. BASE - 1 /\ High - d[4] \in 0 .. BASE - 1
      /\ High - d[5] \in 0 .. BASE - 1
  BY <1>3 DEF High
<1>5. h \in Nat /\ h + 1 <= BASE * BASE
  <2>1. h \in Nat /\ h + 1 <= (High - d[3] + 1) * BASE
    BY <1>4
  <2>2. (High - d[3] + 1) * BASE <= BASE * BASE
    BY <1>4, Scale
  <2> QED BY <1>4, <2>1, <2>2, PowersOfBase
<1>6. y = x + e
  BY <1>3, <1>4 DEF Value, High
<1> HIDE DEF h
<1>7. e \in Nat /\ e + 1 <= BYTE * BYTE * BYTE
  <2>1. e \in Nat /\ e + 1 <= (h + 1) * BASE
    BY <1>4, <1>5
  <2>2. (h + 1) * BASE <= BASE * BASE * BASE
    BY <1>5, Scale, PowersOfBase
  <2> QED BY <1>5, <2>1, <2>2, PowersOfBase
<1> HIDE DEF e
<1>8. q \in Nat /\ e3 \in Bytes /\ e = q * BYTE + e3
  BY <1>7, Division DEF Bytes
<1> HIDE DEF q, e3
<1>9. e1 \in Nat /\ e2 \in Bytes /\ q = e1 * BYTE + e2
  BY <1>8, Division DEF Bytes
<1> HIDE DEF e1, e2
<1>10. e1 \in Bytes
  <2> SUFFICES ASSUME BYTE <= e1 PROVE FALSE
    BY <1>9 DEF Bytes
  <2>1. BYTE * BYTE <= q
    BY <1>9, Scale DEF Bytes
  <2>2. BYTE * BYTE * BYTE <= e
    BY <1>8, <2>1, Scale, PowersOfBase DEF Bytes
  <2> QED BY <1>7, <2>2, PowersOfBase
<1>11. y = Join(<<b1, e1, e2, e3>>)
  BY <1>6, <1>8, <1>9, <1>10 DEF Join, Bytes
<1>12. y \in 0 .. Word - 1 /\ Split(y) = <<b1, e1, e2, e3>>
  BY <1>8, <1>9, <1>10, <1>11, SplitJoin
<1> HIDE DEF y
<1>13. y % Word = y
  BY <1>12
<1> QED BY <1>12, <1>13 DEF y, d

\* What the rest needs of the parameters.
LEMMA Widths == BYTE \in Nat \ {0} /\ BASE \in Nat \ {0} /\ Word \in Nat \ {0}
<1>1. BYTE * BYTE \in Nat \ {0}
  OBVIOUS
<1>2. BYTE * BYTE * BYTE \in Nat \ {0}
  BY <1>1
<1> QED BY <1>2

HIDE Ascii85Assumption DEF Word

-----------------------------------------------------------------------------
(* The text of a sequence of bytes: the characters of its groups one after *)
(* the other, all but the last of them whole                               *)

Char == 0 .. BASE

LEMMA CharFacts == Z \in Char /\ \A x \in 0 .. BASE - 1 : x \in Char /\ x # Z
BY Widths DEF Char, Z

\* Four bytes of a group, those that are missing as zeroes.
LEMMA GroupBytes ==
    ASSUME NEW data \in Seq(Bytes), NEW g \in Nat \ {0}
    PROVE  /\ \A i \in 1 .. 4 : Group(data, g)[i] \in Bytes
           /\ \A i \in 1 .. 4 : 4 * (g - 1) + i <= Len(data)
                                => Group(data, g)[i] = data[4 * (g - 1) + i]
           /\ \A i \in 1 .. 4 : 4 * (g - 1) + i > Len(data) => Group(data, g)[i] = 0
           /\ Group(data, g) = <<Group(data, g)[1], Group(data, g)[2],
                                 Group(data, g)[3], Group(data, g)[4]>>
<1>1. 0 \in Bytes
  BY Widths DEF Bytes
<1>2. \A i \in 1 .. 4 : Group(data, g)[i] = IF 4 * (g - 1) + i <= Len(data)
                                            THEN data[4 * (g - 1) + i] ELSE 0
  BY DEF Group
<1>3. \A i \in 1 .. 4 : 4 * (g - 1) + i <= Len(data) => data[4 * (g - 1) + i] \in Bytes
  <2> SUFFICES ASSUME NEW i \in 1 .. 4, 4 * (g - 1) + i <= Len(data)
               PROVE  data[4 * (g - 1) + i] \in Bytes
    OBVIOUS
  <2>1. 4 * (g - 1) + i \in 1 .. Len(data)
    OBVIOUS
  <2> QED BY <2>1
<1>4. Group(data, g) \in [1 .. 4 -> Bytes]
  BY <1>1, <1>3 DEF Group
<1>5. \A i \in 1 .. 4 : 4 * (g - 1) + i \in Nat
  OBVIOUS
<1>6. \A f \in [1 .. 4 -> Bytes] : f = <<f[1], f[2], f[3], f[4]>>
  OBVIOUS
<1>7. Group(data, g) = <<Group(data, g)[1], Group(data, g)[2],
                         Group(data, g)[3], Group(data, g)[4]>>
  BY <1>4, <1>6
<1>8. \A i \in 1 .. 4 : Group(data, g)[i] \in Bytes
  BY <1>4
<1>9. \A i \in 1 .. 4 : 4 * (g - 1) + i > Len(data) => Group(data, g)[i] = 0
  BY <1>2, <1>5
<1> QED BY <1>2, <1>7, <1>8, <1>9

LEMMA GroupIsWord ==
    ASSUME NEW data \in Seq(Bytes), NEW g \in Nat \ {0}
    PROVE  /\ Join(Group(data, g)) \in 0 .. Word - 1
           /\ Split(Join(Group(data, g))) = Group(data, g)
<1>1. \A i \in 1 .. 4 : Group(data, g)[i] \in Bytes
  BY GroupBytes
<1>2. Group(data, g) = <<Group(data, g)[1], Group(data, g)[2],
                         Group(data, g)[3], Group(data, g)[4]>>
  BY GroupBytes
<1> DEFINE a == Group(data, g)[1]
           b == Group(data, g)[2]
           c == Group(data, g)[3]
           d == Group(data, g)[4]
<1>3. a \in Bytes /\ b \in Bytes /\ c \in Bytes /\ d \in Bytes
  BY <1>1
<1>4. Group(data, g) = <<a, b, c, d>>
  BY <1>2
<1> HIDE DEF a, b, c, d
<1> QED BY <1>3, <1>4, SplitJoin

LEMMA DigitsSeq ==
    ASSUME NEW x \in 0 .. Word - 1
    PROVE  Digits(x) \in Seq(0 .. BASE - 1) /\ Digits(x) \in Seq(Char) /\ Len(Digits(x)) = 5
<1>1. \A k \in 1 .. 5 : Digits(x)[k] \in 0 .. BASE - 1
  BY DigitsOfWord
<1>2. Digits(x) = <<Digits(x)[1], Digits(x)[2], Digits(x)[3], Digits(x)[4], Digits(x)[5]>>
  BY DEF Digits
<1>3. Digits(x)[1] \in 0 .. BASE - 1 /\ Digits(x)[2] \in 0 .. BASE - 1
      /\ Digits(x)[3] \in 0 .. BASE - 1 /\ Digits(x)[4] \in 0 .. BASE - 1
      /\ Digits(x)[5] \in 0 .. BASE - 1
  BY <1>1
<1> DEFINE a == Digits(x)[1]
           b == Digits(x)[2]
           c == Digits(x)[3]
           d == Digits(x)[4]
           e == Digits(x)[5]
<1>4. Digits(x) = <<a, b, c, d, e>>
  BY <1>2
<1>5. a \in 0 .. BASE - 1 /\ b \in 0 .. BASE - 1 /\ c \in 0 .. BASE - 1
      /\ d \in 0 .. BASE - 1 /\ e \in 0 .. BASE - 1
  BY <1>3
<1> HIDE DEF a, b, c, d, e
<1>6. Digits(x) \in Seq(0 .. BASE - 1) /\ Len(Digits(x)) = 5
  BY <1>4, <1>5
<1>7. 0 .. BASE - 1 \subseteq Char
  BY Widths DEF Char
<1>8. Digits(x) \in Seq(Char)
  BY <1>6, <1>7, SeqMonotonic
<1> QED BY <1>6, <1>8

\* The text of a group: one 'z' for four zeroes, or five digits.
LEMMA TextOfGroup ==
    ASSUME NEW data \in Seq(Bytes), NEW g \in Nat \ {0}
    PROVE  /\ GroupText(data, g) \in Seq(Char)
           /\ \/ GroupText(data, g) = <<Z>> /\ Join(Group(data, g)) = 0
              \/ GroupText(data, g) = Digits(Join(Group(data, g)))
<1>1. <<Z>> \in Seq(Char)
  BY CharFacts
<1>2. Digits(Join(Group(data, g))) \in Seq(Char)
  BY GroupIsWord, DigitsSeq
<1> QED BY <1>1, <1>2 DEF GroupText

\* What the first n groups make.
Texts(data, n) == [g \in 1 .. n |-> GroupText(data, g)]
Begun(data, n) == FlattenSeq(Texts(data, n))

LEMMA TextsSeq ==
    ASSUME NEW data \in Seq(Bytes), NEW n \in Nat
    PROVE  /\ Texts(data, n) \in Seq(Seq(Char)) /\ Len(Texts(data, n)) = n
           /\ Texts(data, n + 1) = Append(Texts(data, n), GroupText(data, n + 1))
<1>1. \A m \in Nat : Texts(data, m) \in Seq(Seq(Char)) /\ Len(Texts(data, m)) = m
  <2> SUFFICES ASSUME NEW m \in Nat
               PROVE  Texts(data, m) \in Seq(Seq(Char)) /\ Len(Texts(data, m)) = m
    OBVIOUS
  <2>1. \A g \in 1 .. m : GroupText(data, g) \in Seq(Char)
    BY TextOfGroup
  <2>2. Texts(data, m) \in [1 .. m -> Seq(Char)]
    BY <2>1 DEF Texts
  <2>3. Texts(data, m) \in Seq(Seq(Char))
    BY <2>2, SeqDef
  <2>4. DOMAIN Texts(data, m) = 1 .. m
    BY DEF Texts
  <2> QED BY <2>3, <2>4, LenProperties
<1> DEFINE a == Texts(data, n + 1)
           b == Append(Texts(data, n), GroupText(data, n + 1))
<1>2. GroupText(data, n + 1) \in Seq(Char)
  BY TextOfGroup
<1>3. b \in Seq(Seq(Char)) /\ Len(b) = n + 1
  BY <1>1, <1>2
<1>4. a \in Seq(Seq(Char)) /\ Len(a) = n + 1
  BY <1>1
<1>5. ASSUME NEW i \in 1 .. n + 1 PROVE a[i] = b[i]
  <2>1. a[i] = GroupText(data, i)
    BY DEF Texts
  <2>2. CASE i = n + 1
    BY <1>1, <1>2, <2>1, <2>2
  <2>3. CASE i # n + 1
    <3>1. i \in 1 .. n
      BY <2>3
    <3>2. Texts(data, n)[i] = GroupText(data, i)
      BY <3>1 DEF Texts
    <3>3. b[i] = Texts(data, n)[i]
      <4>1. \A t \in Seq(Seq(Char)), e \in Seq(Char) :
               i \in 1 .. Len(t) => Append(t, e)[i] = t[i]
        OBVIOUS
      <4> QED BY <1>1, <1>2, <3>1, <4>1
    <3> QED BY <2>1, <3>2, <3>3
  <2> QED BY <2>2, <2>3
<1> HIDE DEF a, b
<1>6. a = b
  BY <1>3, <1>4, <1>5, SeqEqual
<1> QED BY <1>1, <1>6 DEF a, b

LEMMA BegunNext ==
    ASSUME NEW data \in Seq(Bytes), NEW n \in Nat
    PROVE  /\ Begun(data, n) \in Seq(Char)
           /\ Begun(data, n + 1) = Begun(data, n) \o GroupText(data, n + 1)
<1>1. Texts(data, n) \in Seq(Seq(Char)) /\ GroupText(data, n + 1) \in Seq(Char)
  <2>1. n + 1 \in Nat \ {0}
    OBVIOUS
  <2> QED BY <2>1, TextsSeq, TextOfGroup
<1>2. Texts(data, n + 1) = Append(Texts(data, n), GroupText(data, n + 1))
  BY TextsSeq
<1> QED BY <1>1, <1>2, FlattenType, FlattenAppend DEF Begun

LEMMA BegunEmpty == ASSUME NEW data PROVE Begun(data, 0) = <<>>
<1>1. Texts(data, 0) = <<>>
  BY DEF Texts
<1> QED BY <1>1, FlattenEmpty DEF Begun

\* The characters of the first groups stay where they are.
LEMMA BegunPrefix ==
    ASSUME NEW data \in Seq(Bytes), NEW m \in Nat, NEW n \in 0 .. m
    PROVE  /\ Len(Begun(data, n)) <= Len(Begun(data, m))
           /\ \A k \in 1 .. Len(Begun(data, n)) : Begun(data, m)[k] = Begun(data, n)[k]
<1> DEFINE Prefix(i) ==
              /\ Len(Begun(data, n)) <= Len(Begun(data, n + i))
              /\ \A k \in 1 .. Len(Begun(data, n)) : Begun(data, n + i)[k] = Begun(data, n)[k]
           B == {i \in Nat : Prefix(i)}
<1>0. \A j \in Nat : Begun(data, j) \in Seq(Char) /\ GroupText(data, j + 1) \in Seq(Char)
  BY BegunNext, TextOfGroup
<1>1. 0 \in B
  BY <1>0
<1>2. ASSUME NEW i \in Nat, i \in B PROVE i + 1 \in B
  <2> DEFINE u == Begun(data, n + i)
             v == GroupText(data, n + i + 1)
             w == Begun(data, n)
  <2>1. Prefix(i) /\ n + i \in Nat /\ n + (i + 1) = n + i + 1
    BY <1>2
  <2>2. Begun(data, n + (i + 1)) = u \o v
    BY <2>1, BegunNext
  <2>3. u \in Seq(Char) /\ v \in Seq(Char) /\ w \in Seq(Char)
    BY <1>0, <2>1
  <2>4. Len(w) <= Len(u) /\ \A k \in 1 .. Len(w) : u[k] = w[k]
    BY <2>1
  <2> HIDE DEF u, v, w
  <2>5. Len(w) <= Len(u \o v) /\ \A k \in 1 .. Len(w) : (u \o v)[k] = w[k]
    BY <2>3, <2>4
  <2>6. Prefix(i + 1)
    BY <2>2, <2>5 DEF w
  <2> QED BY <2>6
<1> HIDE DEF B
<1>3. m - n \in B
  BY <1>1, <1>2, Induction
<1>4. n + (m - n) = m
  OBVIOUS
<1> QED BY <1>3, <1>4 DEF B

-----------------------------------------------------------------------------
(* The number of 'z' groups in a text *)

Zs(text) == {i \in 1 .. Len(text) : text[i] = Z}

LEMMA CountType ==
    ASSUME NEW u \in Seq(Char)
    PROVE  IsFiniteSet(Zs(u)) /\ z_count(u) = Cardinality(Zs(u)) /\ z_count(u) \in Nat
<1>1. IsFiniteSet(1 .. Len(u)) /\ Zs(u) \in SUBSET (1 .. Len(u))
  BY FS_Interval DEF Zs
<1>2. IsFiniteSet(Zs(u))
  BY <1>1, FS_Subset
<1>3. z_count(u) = Cardinality(Zs(u))
  BY DEF z_count, Zs
<1> QED BY <1>2, <1>3, FS_CardinalityType

\* Digits do not count.
LEMMA CountDigits ==
    ASSUME NEW u \in Seq(Char), NEW v \in Seq(0 .. BASE - 1)
    PROVE  z_count(u \o v) = z_count(u)
<1>1. v \in Seq(Char)
  <2>1. 0 .. BASE - 1 \subseteq Char
    BY Widths DEF Char
  <2> QED BY <2>1, SeqMonotonic
<1>2. \A k \in 1 .. Len(v) : v[k] # Z
  BY CharFacts, ElementOfSeq
<1>3. /\ u \o v \in Seq(Char) /\ Len(u \o v) = Len(u) + Len(v)
      /\ Len(u) \in Nat /\ Len(v) \in Nat
      /\ \A i \in 1 .. Len(u) + Len(v) :
            (u \o v)[i] = IF i <= Len(u) THEN u[i] ELSE v[i - Len(u)]
  BY <1>1, ConcatProperties, LenProperties
<1>4. Zs(u \o v) = Zs(u)
  <2>1. ASSUME NEW i \in Zs(u) PROVE i \in Zs(u \o v)
    BY <1>3 DEF Zs
  <2>2. ASSUME NEW i \in Zs(u \o v) PROVE i \in Zs(u)
    <3>1. i \in 1 .. Len(u) + Len(v) /\ (u \o v)[i] = Z
      BY <1>3 DEF Zs
    <3>2. CASE i <= Len(u)
      BY <1>3, <3>1, <3>2 DEF Zs
    <3>3. CASE ~(i <= Len(u))
      <4>1. i - Len(u) \in 1 .. Len(v) /\ v[i - Len(u)] = Z
        BY <1>3, <3>1, <3>3
      <4> QED BY <1>2, <4>1
    <3> QED BY <3>2, <3>3
  <2> QED BY <2>1, <2>2
<1> QED BY <1>3, <1>4, CountType

LEMMA CountZ ==
    ASSUME NEW u \in Seq(Char)
    PROVE  z_count(u \o <<Z>>) = z_count(u) + 1
<1> DEFINE v == <<Z>>
           n == Len(u) + 1
<1>1. v \in Seq(Char) /\ Len(v) = 1 /\ v[1] = Z
  BY CharFacts
<1> HIDE DEF v
<1>2. /\ u \o v \in Seq(Char) /\ Len(u \o v) = n /\ Len(u) \in Nat
      /\ \A i \in 1 .. n : (u \o v)[i] = IF i <= Len(u) THEN u[i] ELSE v[i - Len(u)]
  <2>1. /\ u \o v \in Seq(Char) /\ Len(u \o v) = Len(u) + Len(v)
        /\ Len(u) \in Nat /\ Len(v) \in Nat
        /\ \A i \in 1 .. Len(u) + Len(v) :
              (u \o v)[i] = IF i <= Len(u) THEN u[i] ELSE v[i - Len(u)]
    BY <1>1, ConcatProperties, LenProperties
  <2> QED BY <1>1, <2>1
<1>3. (u \o v)[n] = Z
  <2>1. n \in 1 .. n /\ ~(n <= Len(u)) /\ n - Len(u) = 1
    BY <1>2
  <2> QED BY <1>1, <1>2, <2>1
<1>4. Zs(u \o v) = Zs(u) \cup {n} /\ n \notin Zs(u)
  BY <1>2, <1>3 DEF Zs
<1>5. Cardinality(Zs(u) \cup {n}) = Cardinality(Zs(u)) + 1
  BY <1>4, CountType, FS_AddElement
<1> QED BY <1>2, <1>4, <1>5, CountType DEF v

\* Each group counts for five characters, a 'z' being one and four.
CountsFive(text, n) == Len(text) + 4 * z_count(text) = 5 * n

LEMMA BegunLength ==
    ASSUME NEW data \in Seq(Bytes), NEW n \in Nat
    PROVE  CountsFive(Begun(data, n), n)
<1> DEFINE B == {i \in Nat : CountsFive(Begun(data, i), i)}
<1>1. 0 \in B
  <2>1. Zs(<<>>) = {} /\ <<>> \in Seq(Char) /\ Len(<<>>) = 0
    BY DEF Zs
  <2>2. z_count(<<>>) = 0
    BY <2>1, CountType, FS_EmptySet
  <2> QED BY <2>1, <2>2, BegunEmpty DEF CountsFive
<1>2. ASSUME NEW i \in Nat, i \in B PROVE i + 1 \in B
  <2> DEFINE u == Begun(data, i)
             v == GroupText(data, i + 1)
  <2>1. /\ u \in Seq(Char) /\ v \in Seq(Char) /\ Begun(data, i + 1) = u \o v
        /\ z_count(u) \in Nat /\ Len(u) \in Nat
    <3>1. i + 1 \in Nat \ {0}
      OBVIOUS
    <3>2. u \in Seq(Char) /\ v \in Seq(Char) /\ Begun(data, i + 1) = u \o v
      BY <3>1, BegunNext, TextOfGroup
    <3> QED BY <3>2, CountType, LenProperties
  <2>2. Len(u) + 4 * z_count(u) = 5 * i
    BY <1>2 DEF CountsFive
  <2>3. Len(u \o v) = Len(u) + Len(v)
    BY <2>1, ConcatProperties
  <2> HIDE DEF u, v
  <2> SUFFICES CountsFive(Begun(data, i + 1), i + 1)
    OBVIOUS
  <2> SUFFICES CountsFive(u \o v, i + 1)
    BY <2>1
  <2>4. CASE v = <<Z>>
    <3>1. Len(v) = 1 /\ z_count(u \o v) = z_count(u) + 1
      BY <2>1, <2>4, CountZ
    <3> QED BY <2>1, <2>2, <2>3, <3>1 DEF CountsFive
  <2>5. CASE v = Digits(Join(Group(data, i + 1)))
    <3>1. Len(v) = 5 /\ z_count(u \o v) = z_count(u)
      <4>1. i + 1 \in Nat \ {0}
        OBVIOUS
      <4>2. v \in Seq(0 .. BASE - 1) /\ Len(v) = 5
        BY <2>5, <4>1, GroupIsWord, DigitsSeq
      <4> QED BY <2>1, <4>2, CountDigits
    <3>2. ASSUME NEW l \in Nat, NEW z \in Nat, l + 4 * z = 5 * i
          PROVE  l + 5 + 4 * z = 5 * (i + 1)
      BY <3>2
    <3> QED BY <2>1, <2>2, <2>3, <3>1, <3>2 DEF CountsFive
  <2>7. i + 1 \in Nat \ {0}
    OBVIOUS
  <2> QED BY <2>4, <2>5, <2>7, TextOfGroup DEF v
<1> HIDE DEF B
<1>3. n \in B
  BY <1>1, <1>2, Induction
<1> QED BY <1>3 DEF B

-----------------------------------------------------------------------------
(* What is encoded, and what the decoder makes its result of.  n is the    *)
(* number of groups before the last one, pad of its bytes that are missing *)

LastDigits(data, n) == Digits(Join(Group(data, n + 1)))

\* The last group as the encoder leaves it, and as the decoder pads it.
Rest(data, n, pad) == SubSeq(LastDigits(data, n), 1, 5 - pad)
Last5(data, n, pad) == [i \in 1 .. 5 |-> IF i <= 5 - pad THEN LastDigits(data, n)[i] ELSE High]

LEMMA LastDigitsSeq ==
    ASSUME NEW data \in Seq(Bytes), NEW n \in Nat
    PROVE  /\ LastDigits(data, n) \in Seq(0 .. BASE - 1) /\ LastDigits(data, n) \in Seq(Char)
           /\ Len(LastDigits(data, n)) = 5
<1>1. n + 1 \in Nat \ {0}
  OBVIOUS
<1> QED BY <1>1, GroupIsWord, DigitsSeq DEF LastDigits

LEMMA RestSeq ==
    ASSUME NEW data \in Seq(Bytes), NEW n \in Nat, NEW pad \in 0 .. 3
    PROVE  /\ Rest(data, n, pad) \in Seq(0 .. BASE - 1) /\ Len(Rest(data, n, pad)) = 5 - pad
           /\ \A i \in 1 .. 5 - pad : Rest(data, n, pad)[i] = LastDigits(data, n)[i]
<1> DEFINE d == LastDigits(data, n)
           m == 5 - pad
<1>1. d \in Seq(0 .. BASE - 1) /\ Len(d) = 5 /\ m \in 1 .. 5
  BY LastDigitsSeq
<1> HIDE DEF d
<1>2. \A i \in 1 .. m : d[i] \in 0 .. BASE - 1
  <2> SUFFICES ASSUME NEW i \in 1 .. m PROVE d[i] \in 0 .. BASE - 1
    OBVIOUS
  <2>1. i \in 1 .. Len(d)
    BY <1>1
  <2> QED BY <1>1, <2>1, ElementOfSeq
<1>3. m - 1 + 1 = m /\ \A i \in 1 .. m : 1 + i - 1 = i
  OBVIOUS
<1> HIDE DEF m
<1>4. /\ SubSeq(d, 1, m) \in Seq(0 .. BASE - 1) /\ Len(SubSeq(d, 1, m)) = m
      /\ \A i \in 1 .. m : SubSeq(d, 1, m)[i] = d[i]
  BY <1>1, <1>2, <1>3, SubSeqProperties
<1> QED BY <1>4 DEF Rest, d, m

\* Cutting k from the end of two sequences is cutting it from the second.
Cut(t, k) == SubSeq(t, 1, Len(t) - k)

LEMMA CutEnd ==
    ASSUME NEW S, NEW u \in Seq(S), NEW d \in Seq(S), NEW k \in Nat, k <= Len(d)
    PROVE  Cut(u \o d, k) = u \o Cut(d, k)
<1> DEFINE m == Len(u) + (Len(d) - k)
           a == SubSeq(u \o d, 1, m)
           c == SubSeq(d, 1, Len(d) - k)
<1>1. Len(u) \in Nat /\ Len(d) \in Nat /\ m \in Nat /\ m <= Len(u) + Len(d)
  BY LenProperties
<1>2. /\ u \o d \in Seq(S) /\ Len(u \o d) = Len(u) + Len(d)
      /\ \A i \in 1 .. Len(u) + Len(d) : (u \o d)[i] = IF i <= Len(u) THEN u[i] ELSE d[i - Len(u)]
  BY ConcatProperties
<1>3. Len(u \o d) - k = m
  BY <1>1, <1>2
<1>4. /\ a \in Seq(S) /\ Len(a) = m /\ \A i \in 1 .. m : a[i] = (u \o d)[i]
  <2>1. \A i \in 1 .. m : (u \o d)[i] \in S
    BY <1>1, <1>2, ElementOfSeq
  <2>2. \A i \in 1 .. m - 1 + 1 : a[i] = (u \o d)[1 + i - 1]
    BY <1>1, <2>1, SubSeqProperties
  <2>3. m - 1 + 1 = m /\ \A i \in 1 .. m : 1 + i - 1 = i
    BY <1>1
  <2>4. a \in Seq(S) /\ Len(a) = IF 1 <= m THEN m - 1 + 1 ELSE 0
    BY <1>1, <2>1, SubSeqProperties
  <2> QED BY <1>1, <2>2, <2>3, <2>4
<1>5. /\ c \in Seq(S) /\ Len(c) = Len(d) - k /\ \A i \in 1 .. Len(d) - k : c[i] = d[i]
  <2> DEFINE j == Len(d) - k
  <2>1. j \in Nat /\ j <= Len(d) /\ \A i \in 1 .. j : d[i] \in S
    BY <1>1, ElementOfSeq
  <2>2. j - 1 + 1 = j /\ \A i \in 1 .. j : 1 + i - 1 = i
    BY <2>1
  <2> HIDE DEF j
  <2>3. \A i \in 1 .. j - 1 + 1 : SubSeq(d, 1, j)[i] = d[1 + i - 1]
    BY <2>1, SubSeqProperties
  <2>4. SubSeq(d, 1, j) \in Seq(S) /\ Len(SubSeq(d, 1, j)) = IF 1 <= j THEN j - 1 + 1 ELSE 0
    BY <2>1, SubSeqProperties
  <2>5. SubSeq(d, 1, j) \in Seq(S) /\ Len(SubSeq(d, 1, j)) = j
        /\ \A i \in 1 .. j : SubSeq(d, 1, j)[i] = d[i]
    BY <2>1, <2>2, <2>3, <2>4
  <2> QED BY <2>5 DEF j
<1> HIDE DEF a, c
<1>6. /\ u \o c \in Seq(S) /\ Len(u \o c) = m
      /\ \A i \in 1 .. m : (u \o c)[i] = IF i <= Len(u) THEN u[i] ELSE c[i - Len(u)]
  <2>1. Len(u) + Len(c) = m
    BY <1>1, <1>5
  <2> HIDE DEF m
  <2>2. /\ u \o c \in Seq(S) /\ Len(u \o c) = Len(u) + Len(c)
        /\ \A i \in 1 .. Len(u) + Len(c) :
              (u \o c)[i] = IF i <= Len(u) THEN u[i] ELSE c[i - Len(u)]
    BY <1>5, ConcatProperties
  <2> QED BY <2>1, <2>2
<1>7. ASSUME NEW i \in 1 .. m PROVE a[i] = (u \o c)[i]
  <2>1. i \in 1 .. Len(u) + Len(d) /\ a[i] = (u \o d)[i]
    BY <1>1, <1>4
  <2>2. CASE i <= Len(u)
    BY <1>2, <1>6, <2>1, <2>2
  <2>3. CASE ~(i <= Len(u))
    <3>1. i - Len(u) \in 1 .. Len(d) - k
      BY <1>1, <2>3
    <3> QED BY <1>2, <1>5, <1>6, <2>1, <2>3, <3>1
  <2> QED BY <2>2, <2>3
<1>8. a = u \o c
  BY <1>4, <1>6, <1>7, SeqEqual
<1> QED BY <1>3, <1>8 DEF a, c, Cut

LEMMA CutChars ==
    ASSUME NEW u \in Seq(Char), NEW d \in Seq(Char), NEW k \in Nat, k <= Len(d)
    PROVE  Cut(u \o d, k) = u \o Cut(d, k)
BY CutEnd

LEMMA EncodeShape ==
    ASSUME NEW data \in Seq(Bytes), NEW n \in Nat, NEW pad \in 0 .. 3,
           Len(data) = 4 * (n + 1) - pad
    PROVE  ascii85_encode(data) = Begun(data, n) \o Rest(data, n, pad)
<1> DEFINE u == Begun(data, n)
           d == LastDigits(data, n)
<1>1. (Len(data) + 3) \div 4 = n + 1 /\ Padding(Len(data), 4) = pad
  BY DEF Padding
<1>2. GroupText(data, n + 1) = d
  BY DEF GroupText, LastDigits
<1>3. Begun(data, n + 1) = u \o d
  BY <1>2, BegunNext
<1>4. ascii85_encode(data) = Cut(Begun(data, n + 1), pad)
  BY <1>1 DEF ascii85_encode, Begun, Texts, Cut
<1>5. u \in Seq(Char) /\ d \in Seq(Char) /\ Len(d) = 5
  BY BegunNext, LastDigitsSeq
<1> HIDE DEF u, d
<1>6. Cut(u \o d, pad) = u \o Cut(d, pad)
  <2>1. pad \in Nat /\ pad <= Len(d)
    BY <1>5
  <2>2. u \in Seq(Char) /\ d \in Seq(Char)
    BY <1>5
  <2> QED BY <2>1, <2>2, CutChars
<1>7. Cut(d, pad) = SubSeq(d, 1, 5 - pad)
  BY <1>5 DEF Cut
<1> QED BY <1>3, <1>4, <1>6, <1>7 DEF u, d, Rest

\* The decoder counts the groups right, and pads the last one.
LEMMA PaddedShape ==
    ASSUME NEW data \in Seq(Bytes), NEW n \in Nat, NEW pad \in 0 .. 3,
           NEW text, text = Begun(data, n) \o Rest(data, n, pad)
    PROVE  /\ padding(text) = pad /\ required(text) = 4 * (n + 1)
           /\ padded(text) = Begun(data, n) \o Last5(data, n, pad)
           /\ Last5(data, n, pad) \in Seq(Char)
<1> DEFINE u == Begun(data, n)
           v == Rest(data, n, pad)
           w == [i \in 1 .. pad |-> High]
           last == Last5(data, n, pad)
           z == z_count(u)
           l == Len(u)
<1>1. u \in Seq(Char) /\ z \in Nat /\ l \in Nat
  BY BegunNext, CountType, LenProperties
<1>2. l + 4 * z = 5 * n
  BY BegunLength DEF CountsFive
<1>3. /\ v \in Seq(0 .. BASE - 1) /\ Len(v) = 5 - pad
      /\ \A i \in 1 .. 5 - pad : v[i] = LastDigits(data, n)[i]
  BY RestSeq
<1>4. v \in Seq(Char)
  <2>1. 0 .. BASE - 1 \subseteq Char
    BY Widths DEF Char
  <2> QED BY <1>3, <2>1, SeqMonotonic
<1>5. w \in Seq(Char) /\ Len(w) = pad
  <2>1. High \in Char
    BY Widths DEF High, Char
  <2>2. w \in [1 .. pad -> Char] /\ pad \in Nat
    BY <2>1
  <2>3. w \in Seq(Char) /\ DOMAIN w = 1 .. pad
    BY <2>2, SeqDef
  <2> QED BY <2>2, <2>3, LenProperties
<1>6. last \in Seq(Char) /\ Len(last) = 5
  <2>1. High \in Char
    BY Widths DEF High, Char
  <2>2. \A i \in 1 .. 5 : LastDigits(data, n)[i] \in Char
    BY LastDigitsSeq, ElementOfSeq
  <2>3. last \in [1 .. 5 -> Char] /\ 5 \in Nat
    BY <2>1, <2>2 DEF Last5
  <2>4. last \in Seq(Char) /\ DOMAIN last = 1 .. 5
    BY <2>3, SeqDef
  <2> QED BY <2>3, <2>4, LenProperties
<1>7. z_count(text) = z
  BY <1>1, <1>3, CountDigits
<1> HIDE DEF u, v, w, last, z
<1>8. Len(text) = l + (5 - pad)
  BY <1>1, <1>3, <1>4, ConcatProperties DEF u, v
<1> HIDE DEF l
<1>9. padding(text) = pad
  <2>1. Len(text) + 4 * z = 5 * (n + 1) - pad
    BY <1>1, <1>2, <1>8
  <2>2. Padding(5 * (n + 1) - pad, 5) = pad
    <3>1. CASE pad = 0
      <4>1. (5 * (n + 1)) % 5 = 0
        OBVIOUS
      <4> QED BY <3>1, <4>1 DEF Padding
    <3>2. CASE pad # 0
      <4>1. (n * 5 + (5 - pad)) % 5 = 5 - pad
        <5>1. 5 \in Nat \ {0} /\ 5 - pad \in 0 .. 5 - 1
          BY <3>2
        <5> QED BY <5>1, Quotient
      <4>2. 5 * (n + 1) - pad = n * 5 + (5 - pad) /\ 5 - pad # 0 /\ 5 - (5 - pad) = pad
        BY <3>2
      <4> QED BY <4>1, <4>2 DEF Padding
    <3> QED BY <3>1, <3>2
  <2> QED BY <1>7, <2>1, <2>2 DEF padding
<1>10. required(text) = 4 * (n + 1)
  <2> DEFINE m == n - z
  <2>1. m \in Int /\ Len(text) - z + 4 = 5 * m + (9 - pad)
    BY <1>1, <1>2, <1>8
  <2>2. m + z = n
    BY <1>1
  <2> HIDE DEF m
  <2>3. (5 * m + (9 - pad)) \div 5 = m + 1
    BY <2>1
  <2>4. required(text) = (m + 1) * 4 + z * 4
    BY <1>7, <2>1, <2>3 DEF required
  <2> QED BY <1>1, <2>1, <2>2, <2>4
<1>11. v \o w = last
  <2>1. /\ v \o w \in Seq(Char) /\ Len(v \o w) = 5
        /\ \A i \in 1 .. 5 : (v \o w)[i] = IF i <= 5 - pad THEN v[i] ELSE w[i - (5 - pad)]
    <3>1. 5 - pad + pad = 5
      OBVIOUS
    <3> QED BY <1>3, <1>4, <1>5, <3>1, ConcatProperties
  <2>2. ASSUME NEW i \in 1 .. 5 PROVE (v \o w)[i] = last[i]
    <3>1. CASE i <= 5 - pad
      BY <1>3, <2>1, <3>1 DEF last, Last5
    <3>2. CASE ~(i <= 5 - pad)
      <4>1. i - (5 - pad) \in 1 .. pad
        BY <3>2
      <4> QED BY <2>1, <3>2, <4>1 DEF last, Last5, w
    <3> QED BY <3>1, <3>2
  <2> QED BY <1>6, <2>1, <2>2, SeqEqual
<1>12. padded(text) = u \o last
  <2>1. padded(text) = (u \o v) \o w
    BY <1>9 DEF padded, High, u, v, w
  <2>2. (u \o v) \o w = u \o (v \o w)
    <3>1. u \in Seq(Char) /\ v \in Seq(Char) /\ w \in Seq(Char)
      BY <1>1, <1>4, <1>5
    <3>2. \A x, y, t \in Seq(Char) : (x \o y) \o t = x \o (y \o t)
      BY ConcatAssociative
    <3> QED BY <3>1, <3>2, Zenon
  <2> QED BY <1>11, <2>1, <2>2
<1> QED BY <1>6, <1>9, <1>10, <1>12 DEF u, last

-----------------------------------------------------------------------------
(* What the decoder makes of a group *)

LEMMA SplitSeq ==
    ASSUME NEW x \in Nat
    PROVE  Split(x) \in Seq(Bytes) /\ Len(Split(x)) = 4
<1>1. /\ x \div BYTE \in Nat /\ (x \div BYTE) \div BYTE \in Nat
      /\ ((x \div BYTE) \div BYTE) \div BYTE \in Nat
  BY Widths, Division
<1>2. \A y \in Nat : y % BYTE \in Bytes
  BY Widths, Division DEF Bytes
<1> QED BY <1>1, <1>2 DEF Split

\* The value of five digits, whatever they are taken from.
LEMMA ValueOfDigits ==
    ASSUME NEW d, \A i \in 1 .. 5 : d[i] \in 0 .. BASE - 1
    PROVE  Value(d) % Word \in Nat
<1>1. d[1] \in Nat /\ d[2] \in Nat /\ d[3] \in Nat /\ d[4] \in Nat /\ d[5] \in Nat
  BY Widths
<1>2. \A a, b \in Nat : a * BASE + b \in Nat
  BY Widths
<1>3. Value(d) \in Nat
  BY <1>1, <1>2 DEF Value
<1>4. \A x \in Nat : x % Word \in Nat
  <2> DEFINE m == Word
  <2>1. m \in Nat \ {0}
    BY Widths
  <2> HIDE DEF m
  <2>2. \A x \in Nat : x % m \in Nat
    BY <2>1, Division
  <2> QED BY <2>2 DEF m
<1> QED BY <1>3, <1>4

LEMMA ValueSame ==
    ASSUME NEW d, NEW e, \A i \in 1 .. 5 : d[i] = e[i]
    PROVE  Value(d) = Value(e)
BY DEF Value

\* What decoding four characters' worth of a group must give: the bytes of
\* data from the first of group g + 1 on, as far as there are any.
GivesGroup(t, data, g) ==
    /\ t \in Seq(Bytes) /\ Len(t) = 4
    /\ \A i \in 1 .. 4 : 4 * g + i <= Len(data) => t[i] = data[4 * g + i]

LEMMA GroupGives ==
    ASSUME NEW data \in Seq(Bytes), NEW g \in Nat
    PROVE  GivesGroup(Group(data, g + 1), data, g)
<1>1. g + 1 \in Nat \ {0} /\ g + 1 - 1 = g
  OBVIOUS
<1>2. Group(data, g + 1) \in Seq(Bytes) /\ Len(Group(data, g + 1)) = 4
  <2>1. Group(data, g + 1) = Split(Join(Group(data, g + 1)))
        /\ Join(Group(data, g + 1)) \in 0 .. Word - 1
    BY <1>1, GroupIsWord
  <2>2. Join(Group(data, g + 1)) \in Nat
    BY <2>1, Widths
  <2> QED BY <2>1, <2>2, SplitSeq
<1>3. \A i \in 1 .. 4 : 4 * (g + 1 - 1) + i <= Len(data)
                        => Group(data, g + 1)[i] = data[4 * (g + 1 - 1) + i]
  BY <1>1, GroupBytes
<1> QED BY <1>1, <1>2, <1>3 DEF GivesGroup

LEMMA WholeGives ==
    ASSUME NEW data \in Seq(Bytes), NEW g \in Nat
    PROVE  /\ GivesGroup(Split(Value(Digits(Join(Group(data, g + 1)))) % Word), data, g)
           /\ Join(Group(data, g + 1)) = 0 => GivesGroup(<<0, 0, 0, 0>>, data, g)
<1> DEFINE w == Join(Group(data, g + 1))
<1>1. w \in 0 .. Word - 1 /\ Split(w) = Group(data, g + 1)
  BY GroupIsWord
<1>2. GivesGroup(Split(w), data, g)
  BY <1>1, GroupGives
<1> HIDE DEF w
<1>3. Value(Digits(w)) = w /\ w % Word = w
  <2>1. Value(Digits(w)) = w
    BY <1>1, DigitsOfWord
  <2>2. \A m \in Nat \ {0} : \A x \in 0 .. m - 1 : x % m = x
    OBVIOUS
  <2> QED BY <1>1, <2>1, <2>2, Widths
<1>4. Split(0) = <<0, 0, 0, 0>>
  <2>1. 0 \div BYTE = 0 /\ 0 % BYTE = 0
    BY Widths
  <2> QED BY <2>1 DEF Split
<1> QED BY <1>2, <1>3, <1>4 DEF w

\* The last group, by the number of its bytes.
LEMMA LastGives ==
    ASSUME NEW data \in Seq(Bytes), NEW n \in Nat, NEW pad \in 0 .. 3,
           Len(data) = 4 * (n + 1) - pad
    PROVE  GivesGroup(Split(Value(Last5(data, n, pad)) % Word), data, n)
<1> DEFINE b == Group(data, n + 1)
           d == LastDigits(data, n)
           last == Last5(data, n, pad)
           t == Split(Value(last) % Word)
<1>1. n + 1 \in Nat \ {0}
  OBVIOUS
<1>2. /\ \A i \in 1 .. 4 : b[i] \in Bytes
      /\ b = <<b[1], b[2], b[3], b[4]>>
  BY <1>1, GroupBytes
<1>3. \A i \in 1 .. 4 : i > 4 - pad => b[i] = 0
  <2>1. \A i \in 1 .. 4 : 4 * (n + 1 - 1) + i > Len(data) => b[i] = 0
    BY <1>1, GroupBytes
  <2>2. \A i \in 1 .. 4 : i > 4 - pad => 4 * (n + 1 - 1) + i > Len(data)
    OBVIOUS
  <2> QED BY <2>1, <2>2
<1>4. \A i \in 1 .. 5 : d[i] \in 0 .. BASE - 1
  <2>1. d \in Seq(0 .. BASE - 1) /\ Len(d) = 5
    BY LastDigitsSeq
  <2> HIDE DEF d
  <2> QED BY <2>1, ElementOfSeq
<1>5. d = Digits(Join(b))
  BY DEF LastDigits
<1>6. \A i \in 1 .. 5 : last[i] = IF i <= 5 - pad THEN d[i] ELSE High
  BY DEF Last5
<1>7. t \in Seq(Bytes) /\ Len(t) = 4
  <2>1. High \in 0 .. BASE - 1
    BY Widths DEF High
  <2>2. \A i \in 1 .. 5 : last[i] \in 0 .. BASE - 1
    BY <1>4, <1>6, <2>1
  <2> QED BY <2>2, ValueOfDigits, SplitSeq
<1>8. /\ b[1] \in Bytes /\ b[2] \in Bytes /\ b[3] \in Bytes /\ b[4] \in Bytes
  BY <1>2
<1> HIDE DEF b, d, last
<1>9. \A i \in 1 .. 4 - pad : t[i] = b[i]
  <2>1. CASE pad = 0
    <3>1. Value(last) = Value(d)
      BY <1>6, <2>1, ValueSame
    <3>2. t = <<b[1], b[2], b[3], b[4]>>
      BY <1>2, <1>5, <1>8, <3>1, WholeGroup
    <3>3. t = b
      BY <1>2, <3>2
    <3> QED BY <3>3
  <2>2. CASE pad = 1
    <3>1. Value(last) = Value(<<d[1], d[2], d[3], d[4], High>>)
      <4>1. \A i \in 1 .. 5 : last[i] = <<d[1], d[2], d[3], d[4], High>>[i]
        BY <1>6, <2>2
      <4> QED BY <4>1, ValueSame
    <3>2. d = Digits(Join(<<b[1], b[2], b[3], 0>>))
      <4>1. b[4] = 0
        BY <1>3, <2>2
      <4> QED BY <1>2, <1>5, <4>1
    <3>3. t[1] = b[1] /\ t[2] = b[2] /\ t[3] = b[3]
      BY <1>8, <3>1, <3>2, GroupOfThree
    <3> QED BY <2>2, <3>3
  <2>3. CASE pad = 2
    <3>1. Value(last) = Value(<<d[1], d[2], d[3], High, High>>)
      <4>1. \A i \in 1 .. 5 : last[i] = <<d[1], d[2], d[3], High, High>>[i]
        BY <1>6, <2>3
      <4> QED BY <4>1, ValueSame
    <3>2. d = Digits(Join(<<b[1], b[2], 0, 0>>))
      <4>1. b[3] = 0 /\ b[4] = 0
        BY <1>3, <2>3
      <4> QED BY <1>2, <1>5, <4>1
    <3>3. t[1] = b[1] /\ t[2] = b[2]
      BY <1>8, <3>1, <3>2, GroupOfTwo
    <3> QED BY <2>3, <3>3
  <2>4. CASE pad = 3
    <3>1. Value(last) = Value(<<d[1], d[2], High, High, High>>)
      <4>1. \A i \in 1 .. 5 : last[i] = <<d[1], d[2], High, High, High>>[i]
        BY <1>6, <2>4
      <4> QED BY <4>1, ValueSame
    <3>2. d = Digits(Join(<<b[1], 0, 0, 0>>))
      <4>1. b[2] = 0 /\ b[3] = 0 /\ b[4] = 0
        BY <1>3, <2>4
      <4> QED BY <1>2, <1>5, <4>1
    <3>3. t[1] = b[1]
      BY <1>8, <3>1, <3>2, GroupOfOne
    <3> QED BY <2>4, <3>3
  <2> QED BY <2>1, <2>2, <2>3, <2>4
<1> HIDE DEF t
<1>10. \A i \in 1 .. 4 : 4 * n + i <= Len(data) => i \in 1 .. 4 - pad
  OBVIOUS
<1>11. \A i \in 1 .. 4 : 4 * n + i <= Len(data) => b[i] = data[4 * n + i]
  BY GroupGives DEF b, GivesGroup
<1>12. GivesGroup(t, data, n)
  BY <1>7, <1>9, <1>10, <1>11 DEF GivesGroup
<1> QED BY <1>12 DEF t, last

-----------------------------------------------------------------------------
(* The loop of the decoder *)

\* What is written from character p on, given what is from later ones.
Step(f, src, p) ==
    IF p > Len(src) THEN <<>>
    ELSE IF src[p] = Z THEN <<0, 0, 0, 0>> \o f[p + 1]
    ELSE Split(Value(SubSeq(src, p, p + 4)) % Word) \o f[p + 5]

Decodes(f, src) == f = [p \in 1 .. Len(src) + 5 |-> Step(f, src, p)]

LEMMA WrittenIsFirst ==
    ASSUME NEW text
    PROVE  written(text) = (CHOOSE f : Decodes(f, padded(text)))[1]
BY DEF written, Decodes, Step

\* f is right about the last k characters.
DecodesLast(f, src, k) ==
    /\ f = [p \in 1 .. Len(src) + 5 |-> f[p]]
    /\ \A p \in 1 .. Len(src) + 5 : p > Len(src) - k => f[p] = Step(f, src, p)

LEMMA DecodesExists ==
    ASSUME NEW src, Len(src) \in Nat
    PROVE  \E f : Decodes(f, src)
<1> DEFINE l == Len(src)
           B == {k \in Nat : k <= l => \E f : DecodesLast(f, src, k)}
<1>1. 0 \in B
  <2> DEFINE f == [p \in 1 .. l + 5 |-> <<>>]
  <2>1. \A p \in 1 .. l + 5 : p > l - 0 => f[p] = Step(f, src, p)
    BY DEF Step
  <2>2. f = [p \in 1 .. l + 5 |-> f[p]]
    OBVIOUS
  <2> HIDE DEF f
  <2>3. DecodesLast(f, src, 0)
    BY <2>1, <2>2 DEF DecodesLast
  <2> QED BY <2>3
<1>2. ASSUME NEW k \in Nat, k \in B PROVE k + 1 \in B
  <2> SUFFICES ASSUME k + 1 <= l PROVE \E g : DecodesLast(g, src, k + 1)
    OBVIOUS
  <2>1. PICK f : DecodesLast(f, src, k)
    BY <1>2
  <2> DEFINE q == l - k
             g == [p \in 1 .. l + 5 |-> IF p = q THEN Step(f, src, q) ELSE f[p]]
  <2>2. q \in 1 .. l
    OBVIOUS
  <2>3. \A p \in 1 .. l + 5 : g[p] = IF p = q THEN Step(f, src, q) ELSE f[p]
    OBVIOUS
  <2>4. g = [p \in 1 .. l + 5 |-> g[p]]
    OBVIOUS
  <2> HIDE DEF g
  <2>5. ASSUME NEW p \in 1 .. l + 5, p >= q PROVE Step(g, src, p) = Step(f, src, p)
    <3>1. CASE p > l
      BY <3>1 DEF Step
    <3>2. CASE ~(p > l)
      <4>1. p + 1 \in 1 .. l + 5 /\ p + 5 \in 1 .. l + 5 /\ p + 1 # q /\ p + 5 # q
        BY <2>2, <2>5, <3>2
      <4>2. g[p + 1] = f[p + 1] /\ g[p + 5] = f[p + 5]
        BY <2>3, <4>1
      <4> QED BY <4>2 DEF Step
    <3> QED BY <3>1, <3>2
  <2>6. ASSUME NEW p \in 1 .. l + 5, p > l - (k + 1) PROVE g[p] = Step(g, src, p)
    <3>1. p >= q
      BY <2>6
    <3>2. Step(g, src, p) = Step(f, src, p)
      BY <2>5, <3>1
    <3>3. CASE p = q
      BY <2>3, <3>2, <3>3
    <3>4. CASE p # q
      <4>1. p > l - k
        BY <2>6, <3>4
      <4>2. f[p] = Step(f, src, p)
        BY <2>1, <4>1 DEF DecodesLast
      <4> QED BY <2>3, <3>2, <3>4, <4>2
    <3> QED BY <3>3, <3>4
  <2>7. DecodesLast(g, src, k + 1)
    BY <2>4, <2>6 DEF DecodesLast
  <2> QED BY <2>7
<1> HIDE DEF B
<1>3. l \in B
  BY <1>1, <1>2, Induction
<1>4. PICK f : DecodesLast(f, src, l)
  BY <1>3 DEF B
<1>5. \A p \in 1 .. l + 5 : p > l - l
  OBVIOUS
<1>6. \A p \in 1 .. l + 5 : f[p] = Step(f, src, p)
  BY <1>4, <1>5 DEF DecodesLast
<1>7. f = [p \in 1 .. l + 5 |-> f[p]]
  BY <1>4 DEF DecodesLast
<1>8. f = [p \in 1 .. l + 5 |-> Step(f, src, p)]
  BY <1>6, <1>7
<1> QED BY <1>8 DEF Decodes

\* t is what must be written from the end of the first g groups on.
Restored(t, data, g, n) ==
    /\ t \in Seq(Bytes) /\ Len(t) = 4 * (n + 1 - g)
    /\ \A i \in 1 .. Len(t) : 4 * g + i <= Len(data) => t[i] = data[4 * g + i]

LEMMA PrependGroup ==
    ASSUME NEW data \in Seq(Bytes), NEW n \in Nat, NEW g \in 0 .. n,
           NEW a, GivesGroup(a, data, g), NEW t, Restored(t, data, g + 1, n)
    PROVE  Restored(a \o t, data, g, n)
<1>1. /\ a \in Seq(Bytes) /\ Len(a) = 4
      /\ \A i \in 1 .. 4 : 4 * g + i <= Len(data) => a[i] = data[4 * g + i]
  BY DEF GivesGroup
<1>2. /\ t \in Seq(Bytes) /\ Len(t) = 4 * (n - g)
      /\ \A i \in 1 .. Len(t) : 4 * (g + 1) + i <= Len(data) => t[i] = data[4 * (g + 1) + i]
  <2>1. n + 1 - (g + 1) = n - g
    OBVIOUS
  <2> QED BY <2>1 DEF Restored
<1> DEFINE l == Len(t)
           m == 4 + l
<1>3. l \in Nat /\ m = 4 * (n + 1 - g)
  BY <1>2
<1>4. /\ a \o t \in Seq(Bytes) /\ Len(a \o t) = m
      /\ \A i \in 1 .. m : (a \o t)[i] = IF i <= 4 THEN a[i] ELSE t[i - 4]
  <2>1. /\ a \o t \in Seq(Bytes) /\ Len(a \o t) = Len(a) + Len(t)
        /\ \A i \in 1 .. Len(a) + Len(t) :
              (a \o t)[i] = IF i <= Len(a) THEN a[i] ELSE t[i - Len(a)]
    BY <1>1, <1>2, ConcatProperties
  <2>2. Len(a) = 4 /\ Len(a) + Len(t) = m
    BY <1>1
  <2> HIDE DEF m
  <2> QED BY <2>1, <2>2
<1> HIDE DEF l
<1>5. ASSUME NEW i \in 1 .. m, 4 * g + i <= Len(data)
      PROVE  (a \o t)[i] = data[4 * g + i]
  <2>1. CASE i <= 4
    <3>1. i \in 1 .. 4 /\ (a \o t)[i] = a[i]
      BY <1>4, <2>1
    <3>2. a[i] = data[4 * g + i]
      BY <1>1, <1>5, <3>1
    <3> QED BY <3>1, <3>2
  <2>2. CASE ~(i <= 4)
    <3> DEFINE j == i - 4
    <3>1. j \in 1 .. l /\ 4 * (g + 1) + j = 4 * g + i
      BY <1>3, <2>2
    <3>2. (a \o t)[i] = t[j]
      BY <1>4, <2>2
    <3> HIDE DEF j
    <3>3. t[j] = data[4 * (g + 1) + j]
      BY <1>2, <1>5, <3>1 DEF l
    <3> QED BY <3>1, <3>2, <3>3
  <2> QED BY <2>1, <2>2
<1> QED BY <1>3, <1>4, <1>5 DEF Restored

\* src begins with u, and the group v follows.
Starts(src, u, v) ==
    /\ u \in Seq(Char) /\ v \in Seq(Char) /\ src \in Seq(Char)
    /\ Len(v) > 0 /\ Len(u) + Len(v) <= Len(src)
    /\ \A i \in 1 .. Len(u) + Len(v) : src[i] = (u \o v)[i]

\* What the decoder makes of the group behind u.
LEMMA NextGroup ==
    ASSUME NEW u, NEW v, NEW src, Starts(src, u, v), NEW f, Decodes(f, src)
    PROVE  LET p == Len(u) + 1 IN
           /\ v[1] = Z => f[p] = <<0, 0, 0, 0>> \o f[p + 1]
           /\ v[1] # Z /\ Len(v) = 5 => f[p] = Split(Value(v) % Word) \o f[p + 5]
<1> DEFINE p == Len(u) + 1
<1>1. Len(u) \in Nat /\ Len(v) \in Nat \ {0} /\ Len(src) \in Nat
  <2>1. u \in Seq(Char) /\ v \in Seq(Char) /\ src \in Seq(Char) /\ Len(v) > 0
    BY DEF Starts
  <2> QED BY <2>1, LenProperties
<1>2. p \in 1 .. Len(src)
  BY <1>1 DEF Starts
<1>3. \A i \in 1 .. Len(u) + Len(v) : (u \o v)[i] = IF i <= Len(u) THEN u[i] ELSE v[i - Len(u)]
  BY ConcatProperties DEF Starts
<1>4. ASSUME NEW i \in 1 .. Len(v) PROVE src[Len(u) + i] = v[i]
  <2> DEFINE j == Len(u) + i
  <2>1. j \in 1 .. Len(u) + Len(v) /\ ~(j <= Len(u)) /\ j - Len(u) = i
    BY <1>1
  <2> HIDE DEF j
  <2>2. src[j] = v[i]
    BY <1>3, <2>1 DEF Starts
  <2> QED BY <2>2 DEF j
<1>5. src[p] = v[1]
  BY <1>1, <1>4
<1>6. p \in 1 .. Len(src) + 5 /\ ~(p > Len(src))
  BY <1>1, <1>2
<1>7. f[p] = Step(f, src, p)
  BY <1>6 DEF Decodes
<1>8. CASE v[1] = Z
  BY <1>5, <1>6, <1>7, <1>8 DEF Step
<1>9. CASE v[1] # Z /\ Len(v) = 5
  <2> DEFINE c == SubSeq(src, p, p + 4)
  <2>1. \A i \in p .. p + 4 : src[i] \in Char
    <3>1. \A i \in p .. p + 4 : i \in 1 .. Len(src)
      BY <1>1, <1>9 DEF Starts
    <3>2. src \in Seq(Char)
      BY DEF Starts
    <3> QED BY <3>1, <3>2, ElementOfSeq
  <2>2. p \in Int /\ p + 4 \in Int /\ p + 4 - p + 1 = 5
    BY <1>1
  <2>3. \A i \in 1 .. p + 4 - p + 1 : c[i] = src[p + i - 1]
    BY <2>1, <2>2, SubSeqProperties
  <2>4. \A i \in 1 .. 5 : c[i] = src[p + i - 1] /\ p + i - 1 = Len(u) + i
    BY <1>1, <2>2, <2>3
  <2> HIDE DEF c
  <2>5. \A i \in 1 .. 5 : c[i] = v[i]
    BY <1>4, <1>9, <2>4
  <2>6. Value(c) = Value(v)
    BY <2>5, ValueSame
  <2>7. f[p] = Split(Value(c) % Word) \o f[p + 5]
    BY <1>5, <1>6, <1>7, <1>9 DEF Step, c
  <2> QED BY <1>9, <2>6, <2>7
<1> QED BY <1>8, <1>9

\* The groups behind a group are restored, and the group is: so are all.
LEMMA GroupBefore ==
    ASSUME NEW data \in Seq(Bytes), NEW n \in Nat, NEW g \in 0 .. n,
           NEW u, NEW v, NEW src, Starts(src, u, v), NEW f, Decodes(f, src),
           \/ v[1] = Z /\ Len(v) = 1 /\ GivesGroup(<<0, 0, 0, 0>>, data, g)
           \/ v[1] # Z /\ Len(v) = 5 /\ GivesGroup(Split(Value(v) % Word), data, g),
           Restored(f[Len(u) + 1 + Len(v)], data, g + 1, n)
    PROVE  Restored(f[Len(u) + 1], data, g, n)
<1> DEFINE p == Len(u) + 1
<1>1. CASE v[1] = Z /\ Len(v) = 1 /\ GivesGroup(<<0, 0, 0, 0>>, data, g)
  <2>1. f[p] = <<0, 0, 0, 0>> \o f[p + 1]
    BY <1>1, NextGroup
  <2>2. Restored(f[p + 1], data, g + 1, n)
    BY <1>1
  <2> HIDE DEF p
  <2>3. Restored(<<0, 0, 0, 0>> \o f[p + 1], data, g, n)
    BY <1>1, <2>2, PrependGroup
  <2> QED BY <2>1, <2>3 DEF p
<1>2. CASE v[1] # Z /\ Len(v) = 5 /\ GivesGroup(Split(Value(v) % Word), data, g)
  <2> DEFINE x == Split(Value(v) % Word)
  <2>1. f[p] = x \o f[p + 5]
    BY <1>2, NextGroup
  <2>2. Restored(f[p + 5], data, g + 1, n) /\ GivesGroup(x, data, g)
    BY <1>2
  <2> HIDE DEF p, x
  <2>3. Restored(x \o f[p + 5], data, g, n)
    BY <2>2, PrependGroup
  <2> QED BY <2>1, <2>3 DEF p
<1> QED BY <1>1, <1>2

\* Five digits are no 'z'.
LEMMA NoZ == ASSUME NEW v \in Seq(0 .. BASE - 1), Len(v) = 5 PROVE v[1] # Z
<1>1. 1 \in 1 .. Len(v)
  OBVIOUS
<1>2. v[1] \in 0 .. BASE - 1
  BY <1>1, ElementOfSeq
<1> QED BY <1>2, CharFacts

LEMMA Last5Seq ==
    ASSUME NEW data \in Seq(Bytes), NEW n \in Nat, NEW pad \in 0 .. 3
    PROVE  /\ Last5(data, n, pad) \in Seq(Char) /\ Len(Last5(data, n, pad)) = 5
           /\ Last5(data, n, pad)[1] # Z
<1> DEFINE last == Last5(data, n, pad)
<1>1. last \in Seq(Char)
  BY PaddedShape
<1>2. DOMAIN last = 1 .. 5 /\ last[1] = LastDigits(data, n)[1]
  BY DEF Last5
<1> HIDE DEF last
<1>3. Len(last) = 5
  BY <1>1, <1>2, LenProperties
<1>4. LastDigits(data, n)[1] # Z
  BY LastDigitsSeq, NoZ
<1> QED BY <1>1, <1>2, <1>3, <1>4 DEF last

\* The padded text begins with the texts of the first groups.
LEMMA GroupStarts ==
    ASSUME NEW data \in Seq(Bytes), NEW n \in Nat, NEW g \in Nat, g < n,
           NEW last \in Seq(Char), Len(last) = 5
    PROVE  /\ Starts(Begun(data, n) \o last, Begun(data, g), GroupText(data, g + 1))
           /\ Len(Begun(data, g + 1)) = Len(Begun(data, g)) + Len(GroupText(data, g + 1))
<1> DEFINE u == Begun(data, g)
           v == GroupText(data, g + 1)
           w == Begun(data, n)
           a == Begun(data, g + 1)
<1>1. g + 1 \in Nat \ {0} /\ g + 1 \in 0 .. n
  OBVIOUS
<1>2. u \in Seq(Char) /\ v \in Seq(Char) /\ w \in Seq(Char) /\ a = u \o v
  BY <1>1, BegunNext, TextOfGroup
<1>3. Len(a) <= Len(w) /\ \A i \in 1 .. Len(a) : w[i] = a[i]
  BY <1>1, BegunPrefix
<1>4. Len(v) > 0
  <2> DEFINE x == Join(Group(data, g + 1))
  <2>1. v = <<Z>> \/ v = Digits(x)
    BY <1>1, TextOfGroup
  <2>2. Len(Digits(x)) = 5
    BY <1>1, GroupIsWord, DigitsSeq
  <2>3. Len(<<Z>>) = 1
    OBVIOUS
  <2> HIDE DEF v, x
  <2>4. Len(v) \in {1, 5}
    BY <2>1, <2>2, <2>3
  <2>5. \A k \in {1, 5} : k > 0
    OBVIOUS
  <2> QED BY <2>4, <2>5
<1> HIDE DEF u, v, w, a
<1>5. Len(a) = Len(u) + Len(v) /\ Len(u) \in Nat /\ Len(v) \in Nat /\ Len(w) \in Nat
  BY <1>2, ConcatProperties, LenProperties
<1>6. w \o last \in Seq(Char) /\ Len(w \o last) = Len(w) + Len(last)
      /\ \A i \in 1 .. Len(w) + Len(last) : (w \o last)[i] = IF i <= Len(w) THEN w[i] ELSE last[i - Len(w)]
  BY <1>2, ConcatProperties
<1>7. \A i \in 1 .. Len(u) + Len(v) : (w \o last)[i] = (u \o v)[i]
  <2>1. \A i \in 1 .. Len(a) : i \in 1 .. Len(w) + Len(last) /\ i <= Len(w)
    BY <1>3, <1>5
  <2> QED BY <1>2, <1>3, <1>5, <1>6, <2>1
<1>8. Len(u) + Len(v) <= Len(w \o last)
  BY <1>3, <1>5, <1>6
<1>9. Starts(w \o last, u, v)
  BY <1>2, <1>4, <1>6, <1>7, <1>8 DEF Starts
<1> QED BY <1>5, <1>9 DEF u, v, w, a

\* From the last group back to the first, the decoder restores all.
LEMMA DecodedBack ==
    ASSUME NEW data \in Seq(Bytes), NEW n \in Nat, NEW pad \in 0 .. 3,
           Len(data) = 4 * (n + 1) - pad,
           NEW src, src = Begun(data, n) \o Last5(data, n, pad),
           NEW f, Decodes(f, src)
    PROVE  Restored(f[1], data, 0, n)
<1> DEFINE last == Last5(data, n, pad)
           At(g) == Len(Begun(data, g)) + 1
           B == {j \in Nat : j <= n => Restored(f[At(n - j)], data, n - j, n)}
<1>1. /\ last \in Seq(Char) /\ Len(last) = 5 /\ last[1] # Z
  BY Last5Seq
<1>2. GivesGroup(Split(Value(last) % Word), data, n)
  BY LastGives
<1>3. src = Begun(data, n) \o last
  OBVIOUS
<1> HIDE DEF last
<1>4. 0 \in B
  <2> DEFINE u == Begun(data, n)
  <2>1. n - 0 = n /\ n \in 0 .. n
    OBVIOUS
  <2>2. u \in Seq(Char)
    BY BegunNext
  <2>3. src = u \o last
    BY <1>3
  <2> HIDE DEF u
  <2>4. Len(src) = Len(u) + Len(last) /\ src \in Seq(Char) /\ Len(u) \in Nat
    BY <1>1, <2>2, <2>3, ConcatProperties, LenProperties
  <2>5. Starts(src, u, last)
    BY <1>1, <2>2, <2>3, <2>4 DEF Starts
  <2>6. f[Len(u) + 1 + Len(last)] = <<>>
    <3> DEFINE q == Len(u) + 1 + Len(last)
    <3>1. q \in 1 .. Len(src) + 5 /\ q > Len(src)
      BY <1>1, <2>4
    <3> HIDE DEF q
    <3>2. f[q] = Step(f, src, q)
      BY <3>1 DEF Decodes
    <3>3. f[q] = <<>>
      BY <3>1, <3>2 DEF Step
    <3> QED BY <3>3 DEF q
  <2>7. Restored(<<>>, data, n + 1, n)
    <3>1. n + 1 - (n + 1) = 0
      OBVIOUS
    <3> QED BY <3>1 DEF Restored
  <2>8. Restored(f[Len(u) + 1], data, n, n)
    <3>1. Restored(f[Len(u) + 1 + Len(last)], data, n + 1, n)
      BY <2>6, <2>7
    <3> QED BY <1>1, <1>2, <2>1, <2>5, <3>1, GroupBefore
  <2> QED BY <2>1, <2>8 DEF u
<1>5. ASSUME NEW j \in Nat, j \in B PROVE j + 1 \in B
  <2> SUFFICES ASSUME j + 1 <= n PROVE Restored(f[At(n - (j + 1))], data, n - (j + 1), n)
    OBVIOUS
  <2> DEFINE g == n - (j + 1)
             u == Begun(data, g)
             v == GroupText(data, g + 1)
  <2>1. g \in Nat /\ g \in 0 .. n /\ g + 1 = n - j /\ g + 1 \in Nat \ {0} /\ g < n /\ j <= n
    OBVIOUS
  <2>2. Restored(f[At(g + 1)], data, g + 1, n)
    BY <1>5, <2>1
  <2> HIDE DEF g
  <2>3. Starts(src, u, v) /\ Len(Begun(data, g + 1)) = Len(u) + Len(v)
    BY <1>1, <1>3, <2>1, GroupStarts
  <2>4. Len(u) + Len(v) + 1 = Len(u) + 1 + Len(v)
    <3>1. u \in Seq(Char) /\ v \in Seq(Char)
      BY <2>3 DEF Starts
    <3>2. Len(u) \in Nat /\ Len(v) \in Nat
      BY <3>1, LenProperties
    <3> QED BY <3>2
  <2>5. Restored(f[Len(u) + 1 + Len(v)], data, g + 1, n)
    BY <2>2, <2>3, <2>4
  <2>6. \/ v[1] = Z /\ Len(v) = 1 /\ GivesGroup(<<0, 0, 0, 0>>, data, g)
        \/ v[1] # Z /\ Len(v) = 5 /\ GivesGroup(Split(Value(v) % Word), data, g)
    <3>1. CASE v = <<Z>> /\ Join(Group(data, g + 1)) = 0
      <4>1. GivesGroup(<<0, 0, 0, 0>>, data, g)
        BY <2>1, <3>1, WholeGives
      <4>2. v[1] = Z /\ Len(v) = 1
        BY <3>1
      <4> QED BY <4>1, <4>2
    <3>2. CASE v = Digits(Join(Group(data, g + 1)))
      <4>1. v \in Seq(0 .. BASE - 1) /\ Len(v) = 5
        BY <2>1, <3>2, GroupIsWord, DigitsSeq
      <4>2. GivesGroup(Split(Value(v) % Word), data, g)
        BY <2>1, <3>2, WholeGives
      <4> HIDE DEF v
      <4>3. v[1] # Z
        BY <4>1, NoZ
      <4> QED BY <4>1, <4>2, <4>3
    <3> QED BY <2>1, <3>1, <3>2, TextOfGroup
  <2> HIDE DEF u, v
  <2>7. Restored(f[Len(u) + 1], data, g, n)
    BY <2>1, <2>3, <2>5, <2>6, GroupBefore
  <2> QED BY <2>7 DEF u, g
<1> HIDE DEF B
<1>6. n \in B
  BY <1>4, <1>5, Induction
<1>7. n - n = 0 /\ At(0) = 1
  BY BegunEmpty
<1> QED BY <1>6, <1>7 DEF B

\* data is restored from its text, and the decoder writes as many bytes as it
\* has allocated.
Restores(data) ==
    /\ ascii85_decode(ascii85_encode(data)) = data
    /\ Len(written(ascii85_encode(data))) = required(ascii85_encode(data))

LEMMA EmptyRestored == Restores(<<>>)
<1>1. ascii85_encode(<<>>) = <<>>
  <2>1. (Len(<<>>) + 3) \div 4 = 0 /\ Padding(Len(<<>>), 4) = 0
    BY DEF Padding
  <2>2. [g \in 1 .. 0 |-> GroupText(<<>>, g)] = <<>>
    OBVIOUS
  <2>3. SubSeq(<<>>, 1, Len(<<>>) - 0) = <<>>
    OBVIOUS
  <2> QED BY <2>1, <2>2, <2>3, FlattenEmpty DEF ascii85_encode
<1>2. z_count(<<>>) = 0
  <2>1. Zs(<<>>) = {} /\ <<>> \in Seq(Char)
    BY DEF Zs
  <2> QED BY <2>1, CountType, FS_EmptySet
<1>3. padding(<<>>) = 0 /\ required(<<>>) = 0
  <2>1. Len(<<>>) = 0
    OBVIOUS
  <2>2. Padding(0, 5) = 0
    BY DEF Padding
  <2>3. padding(<<>>) = 0
    BY <1>2, <2>1, <2>2 DEF padding
  <2>4. required(<<>>) = 0
    BY <1>2, <2>1 DEF required
  <2> QED BY <2>3, <2>4
<1>4. padded(<<>>) = <<>>
  <2>1. [i \in 1 .. 0 |-> BASE - 1] = <<>> /\ <<>> \o <<>> = <<>>
    OBVIOUS
  <2> QED BY <1>3, <2>1 DEF padded
<1>5. written(<<>>) = <<>>
  <2> DEFINE src == <<>>
             f == CHOOSE h : Decodes(h, src)
  <2>1. Len(src) = 0
    OBVIOUS
  <2> HIDE DEF src
  <2>2. Decodes(f, src)
    BY <2>1, DecodesExists
  <2>3. written(<<>>) = f[1]
    BY <1>4, WrittenIsFirst DEF src
  <2> HIDE DEF f
  <2>4. f[1] = Step(f, src, 1)
    BY <2>1, <2>2 DEF Decodes
  <2> QED BY <2>1, <2>3, <2>4 DEF Step
<1>6. ascii85_decode(<<>>) = <<>>
  BY <1>3, <1>5 DEF ascii85_decode
<1> QED BY <1>1, <1>3, <1>5, <1>6 DEF Restores

\* Any bytes, however many: ascii85_decode undoes ascii85_encode, and fills
\* what it has allocated.
THEOREM AllRestored == ASSUME NEW data \in Seq(Bytes) PROVE Restores(data)
<1>1. CASE data = <<>>
  BY <1>1, EmptyRestored
<1>2. CASE data # <<>>
  <2> DEFINE l == Len(data)
             n == (l - 1) \div 4
             pad == 4 * (n + 1) - l
  <2>1. l \in Nat \ {0}
    BY <1>2, EmptySeq
  <2> HIDE DEF l
  <2>2. n \in Nat /\ pad \in 0 .. 3 /\ l = 4 * (n + 1) - pad
    BY <2>1
  <2> HIDE DEF n, pad
  <2> DEFINE text == ascii85_encode(data)
             src == padded(text)
             f == CHOOSE h : Decodes(h, src)
             t == written(text)
  <2>3. text = Begun(data, n) \o Rest(data, n, pad)
    BY <2>2, EncodeShape DEF l
  <2> HIDE DEF text
  <2>4. /\ padding(text) = pad /\ required(text) = 4 * (n + 1)
        /\ src = Begun(data, n) \o Last5(data, n, pad) /\ Last5(data, n, pad) \in Seq(Char)
    <3>1. n \in Nat /\ pad \in 0 .. 3
      BY <2>2
    <3>2. \A x : x = Begun(data, n) \o Rest(data, n, pad)
                 => /\ padding(x) = pad /\ required(x) = 4 * (n + 1)
                    /\ padded(x) = Begun(data, n) \o Last5(data, n, pad)
                    /\ Last5(data, n, pad) \in Seq(Char)
      BY <3>1, PaddedShape
    <3> QED BY <2>3, <3>2
  <2> HIDE DEF src
  <2>5. src \in Seq(Char)
    BY <2>2, <2>4, BegunNext, ConcatProperties
  <2>6. Decodes(f, src)
    BY <2>5, LenProperties, DecodesExists
  <2>7. t = f[1]
    BY WrittenIsFirst DEF src
  <2> HIDE DEF f, t
  <2>8. Restored(t, data, 0, n)
    BY <2>2, <2>4, <2>6, <2>7, DecodedBack DEF l
  <2>9. /\ t \in Seq(Bytes) /\ Len(t) = 4 * (n + 1)
        /\ \A i \in 1 .. Len(t) : i <= l => t[i] = data[i]
    <3>1. n + 1 - 0 = n + 1 /\ \A i \in Nat : 4 * 0 + i = i
      BY <2>2
    <3>2. /\ t \in Seq(Bytes) /\ Len(t) = 4 * (n + 1 - 0)
          /\ \A i \in 1 .. Len(t) : 4 * 0 + i <= l => t[i] = data[4 * 0 + i]
      BY <2>8 DEF Restored, l
    <3> QED BY <3>1, <3>2
  <2>10. ascii85_decode(text) = SubSeq(t, 1, l)
    <3>1. required(text) - padding(text) = l
      BY <2>2, <2>4
    <3> QED BY <3>1 DEF ascii85_decode, t
  <2>11. SubSeq(t, 1, l) = data
    <3>1. l <= Len(t)
      BY <2>2, <2>9
    <3>2. \A i \in 1 .. l : t[i] = data[i] /\ t[i] \in Bytes
      BY <2>1, <2>9, <3>1, ElementOfSeq
    <3>3. l - 1 + 1 = l /\ \A i \in 1 .. l : 1 + i - 1 = i
      BY <2>1
    <3>4. SubSeq(t, 1, l) \in Seq(Bytes) /\ Len(SubSeq(t, 1, l)) = IF 1 <= l THEN l - 1 + 1 ELSE 0
      BY <2>1, <3>2, SubSeqProperties
    <3>5. \A i \in 1 .. l - 1 + 1 : SubSeq(t, 1, l)[i] = t[1 + i - 1]
      BY <2>1, <3>2, SubSeqProperties
    <3>6. \A i \in 1 .. l : SubSeq(t, 1, l)[i] = data[i]
      BY <3>2, <3>3, <3>5
    <3>7. Len(SubSeq(t, 1, l)) = l
      BY <2>1, <3>3, <3>4
    <3> QED BY <3>4, <3>6, <3>7, SeqEqual DEF l
  <2>12. Len(t) = required(text)
    BY <2>4, <2>9
  <2> QED BY <2>10, <2>11, <2>12 DEF Restores, text, t
<1> QED BY <1>1, <1>2

-----------------------------------------------------------------------------
(* The stream *)

USE StreamFileAssumption, BufferLenAssumption

LEMMA BoundsIsSound == InBounds <=> Sound(s, Byte)
BY DEF InBounds, Sound

\* No call sequence takes the position or the length out of bounds.
THEOREM StreamInBounds == Spec => []InBounds
<1>1. Init => InBounds
  BY CreateSound, BoundsIsSound DEF Init
<1>2. InBounds /\ [Next]_streamVars => InBounds'
  <2> SUFFICES ASSUME InBounds, [Next]_streamVars PROVE InBounds'
    OBVIOUS
  <2>1. Sound(s, Byte)
    BY BoundsIsSound
  <2>2. ASSUME NEW pos_op, Read(pos_op) PROVE Sound(s', Byte)
    BY <2>1, <2>2, ReadSound DEF Read
  <2>3. ASSUME NEW data \in Chunk, Write(data) PROVE Sound(s', Byte)
    BY <2>1, <2>3, WriteSound DEF Write
  <2>4. ASSUME NEW pos \in 0 .. BUFFER_LEN + 1, NEW op \in SeekOp, Seek(pos, op)
        PROVE  Sound(s', Byte)
    BY <2>1, <2>4, SeekSound DEF Seek
  <2>5. CASE UNCHANGED streamVars
    BY <2>5 DEF streamVars, InBounds
  <2>6. CASE Next
    <3>1. Sound(s', Byte)
      BY <2>2, <2>3, <2>4, <2>6 DEF Next
    <3> QED BY <3>1 DEF InBounds, Sound
  <2> QED BY <2>5, <2>6
<1> QED BY <1>1, <1>2, PTL DEF Spec

-----------------------------------------------------------------------------
(* The refinement: each call maps to a step of the file *)

\* The content of a sound stream is a sequence of its len bytes.
LEMMA ContentSeq ==
    ASSUME NEW t, Sound(t, Byte)
    PROVE  /\ Content(t) \in Seq(Byte) /\ Len(Content(t)) = t.len
           /\ DOMAIN Content(t) = 1 .. t.len
           /\ t.len \in 0 .. BUFFER_LEN /\ t.pos \in 0 .. t.len
<1>1. /\ t.len \in 0 .. BUFFER_LEN /\ t.pos \in 0 .. t.len
      /\ t.buffer \in [Slot -> Byte]
  BY DEF Sound, Stream
<1>2. \A k \in 1 .. t.len : k - 1 \in Slot
  BY <1>1 DEF Slot
<1>3. Content(t) \in [1 .. t.len -> Byte]
  BY <1>1, <1>2 DEF Content
<1>4. Content(t) \in Seq(Byte)
  BY <1>1, <1>3, SeqDef
<1>5. DOMAIN Content(t) = 1 .. t.len
  BY DEF Content
<1>6. Len(Content(t)) = t.len
  BY <1>1, <1>4, <1>5, LenProperties
<1> QED BY <1>1, <1>4, <1>5, <1>6

LEMMA ReadImplements ==
    ASSUME InBounds, NEW pos_op, Read(pos_op)
    PROVE  File!Read
<1>1. Sound(s, Byte) /\ Sound(s', Byte)
  BY BoundsIsSound, ReadSound DEF Read
<1>2. s' = s \/ s' = [s EXCEPT !.pos = s.len]
  BY DEF Read, stream_read_pos
<1>3. s'.len = s.len /\ s'.buffer = s.buffer /\ s'.pos \in {s.pos, s.len}
  BY <1>1, <1>2 DEF Sound, Stream
<1>4. Content(s') = Content(s)
  BY <1>3 DEF Content
<1>5. result' = [k \in 1 .. (s.len - s.pos) |-> Content(s)[s.pos + k]]
  <2>1. \A k \in 1 .. (s.len - s.pos) : s.pos + k \in 1 .. s.len /\ s.pos + k - 1 = (s.pos + k) - 1
    BY <1>1, ContentSeq
  <2>2. \A k \in 1 .. (s.len - s.pos) : Content(s)[s.pos + k] = s.buffer[s.pos + k - 1]
    BY <2>1 DEF Content
  <2> QED BY <2>2 DEF Read, stream_read
<1> QED BY <1>1, <1>3, <1>4, <1>5, ContentSeq DEF File!Read

LEMMA WriteImplements ==
    ASSUME InBounds, NEW data \in Chunk, Write(data)
    PROVE  File!Write(data)
<1> DEFINE end == s.pos + Len(data)
<1> DEFINE top == IF end > s.len THEN end ELSE s.len
<1>1. Sound(s, Byte) /\ data \in Seq(Byte) /\ Len(data) \in Nat
  BY BoundsIsSound
<1>2. s.len \in 0 .. BUFFER_LEN /\ s.pos \in 0 .. s.len /\ Len(Content(s)) = s.len
  BY <1>1, ContentSeq
<1>3. CASE end > BUFFER_LEN
  <2>1. s' = s /\ result' = <<>>
    BY <1>1, <1>2, <1>3 DEF Write, stream_write, stream_fits
  <2>2. Content(s') = Content(s)
    BY <2>1
  <2> QED BY <1>2, <1>3, <2>1, <2>2 DEF File!Write
<1>4. CASE ~(end > BUFFER_LEN)
  <2> DEFINE new == [i \in Slot |-> IF i \in s.pos .. end - 1
                                    THEN data[i - s.pos + 1] ELSE s.buffer[i]]
  <2>1. s' = [buffer |-> new, pos |-> end, len |-> top]
    BY <1>1, <1>2, <1>4 DEF Write, stream_write, stream_fits
  <2>2. \A k \in 1 .. top : k - 1 \in Slot
    BY <1>1, <1>2, <1>4 DEF Slot
  <2>3. \A k \in 1 .. top :
            new[k - 1] = IF k \in s.pos + 1 .. end THEN data[k - s.pos] ELSE Content(s)[k]
    <3> SUFFICES ASSUME NEW k \in 1 .. top
                 PROVE  new[k - 1] = IF k \in s.pos + 1 .. end THEN data[k - s.pos] ELSE Content(s)[k]
      OBVIOUS
    <3>1. CASE k \in s.pos + 1 .. end
      <4>1. k - 1 \in s.pos .. end - 1 /\ (k - 1) - s.pos + 1 = k - s.pos
        BY <1>1, <1>2, <3>1
      <4> QED BY <2>2, <3>1, <4>1
    <3>2. CASE k \notin s.pos + 1 .. end
      <4>1. k - 1 \notin s.pos .. end - 1 /\ k \in 1 .. s.len
        BY <1>1, <1>2, <3>2
      <4> QED BY <2>2, <3>2, <4>1 DEF Content
    <3> QED BY <3>1, <3>2
  <2> HIDE DEF new
  <2>4. s'.buffer = new /\ s'.pos = end /\ s'.len = top
    BY <2>1
  <2>5. Content(s') = [k \in 1 .. top |-> IF k \in s.pos + 1 .. end
                                          THEN data[k - s.pos] ELSE Content(s)[k]]
    BY <2>3, <2>4 DEF Content
  <2> QED BY <1>2, <1>4, <2>4, <2>5 DEF File!Write, Write
<1> QED BY <1>3, <1>4

LEMMA SeekImplements ==
    ASSUME InBounds, NEW pos \in Nat, NEW op \in SeekOp, Seek(pos, op)
    PROVE  File!Seek \/ File!Reset \/ File!Expose
<1>1. Sound(s, Byte) /\ Sound(s', Byte) /\ s'.buffer = s.buffer
  BY BoundsIsSound, SeekSound DEF Seek
<1>2. /\ s.len \in 0 .. BUFFER_LEN /\ s.pos \in 0 .. s.len
      /\ s'.len \in 0 .. BUFFER_LEN /\ s'.pos \in 0 .. s'.len
      /\ Len(Content(s)) = s.len
  BY <1>1, ContentSeq
<1>3. CASE op = "SEEK_RESET"
  <2>1. s'.len = 0 /\ s'.pos = 0
    BY <1>3 DEF Seek, stream_seek
  <2>2. Content(s') = <<>>
    BY <2>1 DEF Content
  <2> QED BY <2>1, <2>2 DEF File!Reset, Seek
<1>4. CASE op = "SEEK_42"
  <2>1. s'.len = BUFFER_LEN /\ s'.pos = BUFFER_LEN
    BY <1>4 DEF Seek, stream_seek
  <2> DEFINE tail == [k \in s.len + 1 .. BUFFER_LEN |-> s.buffer[k - 1]]
  <2>2. \A k \in 1 .. BUFFER_LEN : k - 1 \in Slot /\ s.buffer[k - 1] \in Byte
    BY <1>1 DEF Slot, Sound, Stream
  <2>3. tail \in [s.len + 1 .. BUFFER_LEN -> Byte]
    BY <1>2, <2>2
  <2>4. Content(s') = [k \in 1 .. BUFFER_LEN |-> IF k <= s.len THEN Content(s)[k] ELSE tail[k]]
    BY <1>1, <1>2, <2>1 DEF Content
  <2> HIDE DEF tail
  <2> QED BY <1>2, <2>1, <2>3, <2>4 DEF File!Expose, Seek
<1>5. CASE op \notin {"SEEK_RESET", "SEEK_42"}
  <2>1. s' = s \/ \E p : s' = [s EXCEPT !.pos = p]
    BY <1>5 DEF Seek, stream_seek, SeekOp
  <2>2. s'.len = s.len
    BY <1>1, <2>1 DEF Sound, Stream
  <2>3. Content(s') = Content(s)
    BY <1>1, <2>2 DEF Content
  <2> QED BY <1>2, <2>2, <2>3 DEF File!Seek, Seek
<1> QED BY <1>3, <1>4, <1>5

\* The stream is a file: everything a caller can observe of it through its
\* function table is a behaviour of ByteFile.
THEOREM StreamIsFile == Spec => ImplementsByteFile
<1>1. Init => File!Init
  <2>1. stream_create(Zero).len = 0 /\ stream_create(Zero).pos = 0
    BY DEF stream_create
  <2>2. ASSUME NEW t, t.len = 0 PROVE Content(t) = <<>>
    BY <2>2 DEF Content
  <2> QED BY <2>1, <2>2 DEF Init, File!Init
<1>2. InBounds /\ [Next]_streamVars => [File!Next]_(File!fileVars)
  <2> SUFFICES ASSUME InBounds, [Next]_streamVars PROVE File!Next \/ UNCHANGED File!fileVars
    OBVIOUS
  <2>1. ASSUME NEW pos_op, Read(pos_op) PROVE File!Next
    BY <2>1, ReadImplements DEF File!Next
  <2>2. ASSUME NEW data \in Chunk, Write(data) PROVE File!Next
    BY <2>2, WriteImplements DEF File!Next
  <2>3. ASSUME NEW pos \in 0 .. BUFFER_LEN + 1, NEW op \in SeekOp, Seek(pos, op) PROVE File!Next
    BY <2>3, SeekImplements DEF File!Next
  <2>4. CASE UNCHANGED streamVars
    BY <2>4 DEF streamVars, File!fileVars
  <2> QED BY <2>1, <2>2, <2>3, <2>4 DEF Next
<1> QED BY <1>1, <1>2, StreamInBounds, PTL DEF Spec, ImplementsByteFile, File!Spec

-----------------------------------------------------------------------------
(* The exchange of text *)

USE TextAssumption

\* The text of an rx in progress is the text of some data.
CallKnown == call.left = "write" => \E data \in Chunk : call.text = ascii85_encode(data)

\* What is read are bytes.
BytesRead == result \in Seq(Byte)

LEMMA BytesOfStream == ASSUME NEW q \in Seq(Byte) PROVE q \in Seq(Bytes)
<1>1. Len(q) \in Nat /\ q \in [1 .. Len(q) -> Byte]
  BY LenProperties
<1>2. q \in [1 .. Len(q) -> Bytes]
  BY <1>1 DEF Bytes
<1> QED BY <1>1, <1>2, SeqDef

LEMMA DecodesChunk ==
    ASSUME CallKnown, call.left = "write"
    PROVE  ascii85_decode(call.text) \in Chunk
<1>1. PICK data \in Chunk : call.text = ascii85_encode(data)
  BY DEF CallKnown
<1>2. data \in Seq(Bytes)
  <2>1. data \in Seq(Byte)
    OBVIOUS
  <2> QED BY <2>1, BytesOfStream
<1>3. ascii85_decode(ascii85_encode(data)) = data
  BY <1>2, AllRestored DEF Restores
<1> QED BY <1>1, <1>3

\* Each step of an rx or a tx of text is a call that a caller of the function
\* table may make.
LEMMA TextStep ==
    ASSUME CallKnown, [TextNext]_textVars
    PROVE  CallKnown' /\ [Next]_streamVars
<1>1. \A op \in {"SEEK_END", "SEEK_SET"} : op \in SeekOp /\ 0 \in 0 .. BUFFER_LEN + 1
  BY DEF SeekOp
<1>2. ASSUME NEW data \in Chunk, bus_topology_rx(ascii85_encode(data))
      PROVE  CallKnown' /\ Next
  <2>1. call' = [left |-> "write", text |-> ascii85_encode(data)] /\ Seek(0, "SEEK_END")
    BY <1>2 DEF bus_topology_rx
  <2>2. Next
    BY <1>1, <2>1 DEF Next
  <2>3. call'.text = ascii85_encode(data)
    BY <2>1
  <2> QED BY <2>2, <2>3 DEF CallKnown
<1>3. CASE WriteDecoded
  <2>1. call'.left = "rewind" /\ Write(ascii85_decode(call.text)) /\ call.left = "write"
    BY <1>3 DEF WriteDecoded
  <2>2. Next
    BY <2>1, DecodesChunk DEF Next
  <2> QED BY <2>1, <2>2 DEF CallKnown
<1>4. CASE Rewind
  <2>1. call'.left = "nothing" /\ Seek(0, "SEEK_SET")
    BY <1>4 DEF Rewind, Done
  <2> QED BY <1>1, <2>1 DEF CallKnown, Next
<1>5. CASE bus_topology_tx
  <2>1. call'.left = "read" /\ Seek(0, "SEEK_SET")
    BY <1>5 DEF bus_topology_tx
  <2> QED BY <1>1, <2>1 DEF CallKnown, Next
<1>6. CASE ReadAll
  <2>1. call'.left = "nothing" /\ Read("POS_UPDATE")
    BY <1>6 DEF ReadAll, Done
  <2> QED BY <2>1 DEF CallKnown, Next
<1>7. CASE call = Done /\ Next /\ UNCHANGED call
  BY <1>7 DEF CallKnown
<1>8. CASE UNCHANGED textVars
  BY <1>8 DEF textVars, CallKnown
<1> QED BY <1>2, <1>3, <1>4, <1>5, <1>6, <1>7, <1>8 DEF TextNext

\* The exchange of text uses the stream as any caller of its functions would:
\* what a decoder writes is a chunk that was encoded, never more and never
\* other bytes.
THEOREM TextIsStream == TextSpec => Spec
<1>1. TextInit => CallKnown /\ Init
  BY DEF TextInit, CallKnown, Done
<1>2. CallKnown /\ [TextNext]_textVars => CallKnown' /\ [Next]_streamVars
  BY TextStep
<1> QED BY <1>1, <1>2, PTL DEF TextSpec, Spec

\* The stream stays within its array, and remains a file, under the exchange
\* of text.
THEOREM TextInBounds == TextSpec => []InBounds
BY TextIsStream, StreamInBounds, PTL

THEOREM TextIsFile == TextSpec => ImplementsByteFile
BY TextIsStream, StreamIsFile, PTL

\* A read hands out bytes.
LEMMA ReadsBytes == Spec => []BytesRead
<1>1. Init => BytesRead
  BY DEF Init, BytesRead
<1>2. InBounds /\ BytesRead /\ [Next]_streamVars => BytesRead'
  <2> SUFFICES ASSUME InBounds, BytesRead, [Next]_streamVars PROVE BytesRead'
    OBVIOUS
  <2>1. ASSUME NEW pos_op, Read(pos_op) PROVE result' \in Seq(Byte)
    <3>1. Sound(s, Byte)
      BY BoundsIsSound
    <3>2. Content(s) \in Seq(Byte) /\ s.len \in Nat /\ s.pos \in 0 .. s.len
      BY <3>1, ContentSeq
    <3>3. \A k \in 1 .. s.len - s.pos : result'[k] = Content(s)[s.pos + k]
                                        /\ s.pos + k \in 1 .. Len(Content(s))
      <4>1. \A k \in 1 .. s.len - s.pos : s.pos + k \in 1 .. s.len /\ s.pos + k - 1 = (s.pos + k) - 1
        BY <3>2
      <4>2. \A k \in 1 .. s.len - s.pos : Content(s)[s.pos + k] = s.buffer[s.pos + k - 1]
        BY <4>1 DEF Content
      <4>3. result' = [k \in 1 .. s.len - s.pos |-> s.buffer[s.pos + k - 1]]
        BY <2>1 DEF Read, stream_read
      <4>4. Len(Content(s)) = s.len
        BY <3>1, ContentSeq
      <4> QED BY <4>1, <4>2, <4>3, <4>4
    <3>4. \A k \in 1 .. s.len - s.pos : result'[k] \in Byte
      BY <3>2, <3>3, ElementOfSeq
    <3>5. result' = [k \in 1 .. s.len - s.pos |-> result'[k]] /\ s.len - s.pos \in Nat
      BY <2>1, <3>2 DEF Read, stream_read
    <3> QED BY <3>4, <3>5
  <2>2. CASE \E data \in Chunk : Write(data)
    BY <2>2 DEF Write, BytesRead
  <2>3. CASE \E pos \in 0 .. BUFFER_LEN + 1, op \in SeekOp : Seek(pos, op)
    BY <2>3 DEF Seek, BytesRead
  <2>4. CASE UNCHANGED streamVars
    BY <2>4 DEF streamVars, BytesRead
  <2> QED BY <2>1, <2>2, <2>3, <2>4 DEF Next, BytesRead
<1> QED BY <1>1, <1>2, StreamInBounds, PTL DEF Spec

\* Whatever is read from the stream, decoding its text restores it.
THEOREM TextRoundTrip == TextSpec => []RoundTrip
<1>1. BytesRead => RoundTrip
  <2> SUFFICES ASSUME BytesRead PROVE RoundTrip
    OBVIOUS
  <2>1. result \in Seq(Bytes)
    BY BytesOfStream DEF BytesRead
  <2>2. Restores(result)
    BY <2>1, AllRestored
  <2> QED BY <2>2 DEF Restores, RoundTrip
<1> QED BY <1>1, TextIsStream, ReadsBytes, PTL

\* Whatever is read from the stream, the decoder of its text writes as many
\* bytes as it has allocated.
THEOREM TextFits == TextSpec => []FitsAllocation
<1>1. BytesRead => FitsAllocation
  <2> SUFFICES ASSUME BytesRead PROVE FitsAllocation
    OBVIOUS
  <2>1. result \in Seq(Bytes)
    BY BytesOfStream DEF BytesRead
  <2>2. Restores(result)
    BY <2>1, AllRestored
  <2> QED BY <2>2 DEF Restores, FitsAllocation
<1> QED BY <1>1, TextIsStream, ReadsBytes, PTL
=============================================================================
