------------------------------- MODULE Ascii85 -------------------------------
(***************************************************************************)
(* The text encoding of fmi-ls-binary-to-text: four bytes become a group   *)
(* of five digits of base 85, or one 'z' for four zeroes.                  *)
(*                                                                         *)
(* A character is modelled by the value it stands for: 0 .. BASE - 1 for   *)
(* '!' .. 'u', and BASE for 'z'.  The number of bytes values is a          *)
(* parameter, so that TLC's integers hold a group; the theorems about      *)
(* groups are for every BYTE and BASE that satisfy the assumption.         *)
(***************************************************************************)
EXTENDS Integers, SequencesExt

CONSTANTS
    BYTE,      \* 256 in the code
    BASE       \* 85 in the code

\* The range of the uint32_t that holds a group.
Word == BYTE * BYTE * BYTE * BYTE

ASSUME Ascii85Assumption ==
    /\ BYTE \in Nat \ {0} /\ BASE \in Nat \ {0} /\ BASE <= BYTE
    /\ Word <= BASE * BASE * BASE * BASE * BASE

Z == BASE

Padding(len, group) == IF len % group = 0 THEN 0 ELSE group - (len % group)

\* The word of four bytes, and its bytes.
Join(b) == ((b[1] * BYTE + b[2]) * BYTE + b[3]) * BYTE + b[4]
Split(x) ==
    LET x1 == x \div BYTE
        x2 == x1 \div BYTE
        x3 == x2 \div BYTE
    IN  <<x3 % BYTE, x2 % BYTE, x1 % BYTE, x % BYTE>>

\* The digits of a word, and the word of five digits.
Digits(x) ==
    LET x1 == x \div BASE
        x2 == x1 \div BASE
        x3 == x2 \div BASE
        x4 == x3 \div BASE
    IN  <<x4 % BASE, x3 % BASE, x2 % BASE, x1 % BASE, x % BASE>>
Value(d) == (((d[1] * BASE + d[2]) * BASE + d[3]) * BASE + d[4]) * BASE + d[5]

-----------------------------------------------------------------------------
(* ascii85_encode *)

Group(data, g) == [i \in 1 .. 4 |-> IF 4 * (g - 1) + i <= Len(data)
                                    THEN data[4 * (g - 1) + i] ELSE 0]

\* Faulty: a short last group of zeroes is shortened too.
GroupText_any_z(data, g) ==
    IF Join(Group(data, g)) = 0 THEN <<Z>> ELSE Digits(Join(Group(data, g)))

\* Only a group with a whole group behind it is shortened to 'z'.
GroupText(data, g) ==
    IF Join(Group(data, g)) = 0 /\ Len(data) - 4 * g >= 4
    THEN <<Z>> ELSE Digits(Join(Group(data, g)))

\* The characters of the padding are cut off.
ascii85_encode(data) ==
    LET full == FlattenSeq([g \in 1 .. (Len(data) + 3) \div 4 |-> GroupText(data, g)])
    IN  SubSeq(full, 1, Len(full) - Padding(Len(data), 4))

-----------------------------------------------------------------------------
(* ascii85_decode *)

z_count(text) == Cardinality({i \in 1 .. Len(text) : text[i] = Z})

\* Each 'z' stands for five characters.
padding(text) == Padding(Len(text) + 4 * z_count(text), 5)

\* Faulty: every character counts for a fifth of a group.
required_ignores_z(text) == ((Len(text) + 4) \div 5) * 4

\* The size of the allocated result.
required(text) == ((Len(text) - z_count(text) + 4) \div 5) * 4 + z_count(text) * 4

padded(text) == text \o [i \in 1 .. padding(text) |-> BASE - 1]

\* The bytes written, group by group; the sum is kept in a uint32_t.
written(text) ==
    LET src == padded(text)
        from[p \in 1 .. Len(src) + 5] ==
            IF p > Len(src) THEN <<>>
            ELSE IF src[p] = Z THEN <<0, 0, 0, 0>> \o from[p + 1]
            ELSE Split(Value(SubSeq(src, p, p + 4)) % Word) \o from[p + 5]
    IN  from[1]

ascii85_decode(text) == SubSeq(written(text), 1, required(text) - padding(text))

=============================================================================
