---------------------------- MODULE BufferStream ----------------------------
(***************************************************************************)
(* The BufferStream of the FMI bus topology (and of the example and test   *)
(* codecs): a fixed array with a position and a length.  Operators only;   *)
(* the codec modules own the variables that hold a stream.                 *)
(*                                                                         *)
(* The unit of the array is a parameter: StreamFile takes bytes, the codec *)
(* modules take one unit per serialised message.                           *)
(***************************************************************************)
EXTENDS Integers, Sequences

CONSTANT BUFFER_LEN

ASSUME BufferLenAssumption == BUFFER_LEN \in Nat \ {0}

Slot == 0 .. BUFFER_LEN - 1

Stream(Unit) == [buffer : [Slot -> Unit], pos : 0 .. BUFFER_LEN, len : 0 .. BUFFER_LEN]

\* calloc: the array starts as zeroes.
stream_create(zero) == [buffer |-> [i \in Slot |-> zero], pos |-> 0, len |-> 0]

\* What stream_read hands out: the units from pos to len, none at EOF.
stream_read(s) == [k \in 1 .. (s.len - s.pos) |-> s.buffer[s.pos + k - 1]]

\* NCODEC_POS_UPDATE consumes what was handed out, NCODEC_POS_NC does not.
stream_read_pos(s, pos_op) ==
    IF pos_op = "POS_UPDATE" /\ s.pos < s.len THEN [s EXCEPT !.pos = s.len] ELSE s

stream_fits(s, data) == s.pos + Len(data) <= BUFFER_LEN

\* Faulty: no check against the size of the array.
stream_write_unchecked(s, data) ==
    [s EXCEPT !.pos = @ + Len(data), !.len = s.pos + Len(data)]

\* Faulty: an overwrite cuts off what follows it.
stream_write_cuts(s, data) ==
    IF ~stream_fits(s, data) THEN s
    ELSE [buffer |-> [i \in Slot |-> IF i \in s.pos .. s.pos + Len(data) - 1
                                     THEN data[i - s.pos + 1] ELSE s.buffer[i]],
          pos    |-> s.pos + Len(data),
          len    |-> s.pos + Len(data)]

\* Faulty: the position counts a terminator that the length does not.
stream_write_overshoots(s, data) ==
    IF ~stream_fits(s, data) THEN s
    ELSE [buffer |-> [i \in Slot |-> IF i \in s.pos .. s.pos + Len(data) - 1
                                     THEN data[i - s.pos + 1] ELSE s.buffer[i]],
          pos    |-> s.pos + Len(data) + 1,
          len    |-> s.pos + Len(data)]

\* -EMSGSIZE leaves the stream alone; otherwise the units land at pos.
stream_write(s, data) ==
    LET end == s.pos + Len(data)
    IN  IF ~stream_fits(s, data) THEN s
        ELSE [buffer |-> [i \in Slot |-> IF i \in s.pos .. end - 1
                                         THEN data[i - s.pos + 1] ELSE s.buffer[i]],
              pos    |-> end,
              len    |-> IF end > s.len THEN end ELSE s.len]

\* Faulty: SEEK_RESET forgets the position.
stream_seek_keeps_pos(s, pos, op) ==
    CASE op = "SEEK_SET"   -> [s EXCEPT !.pos = IF pos > s.len THEN s.len ELSE pos]
      [] op = "SEEK_END"   -> [s EXCEPT !.pos = s.len]
      [] op = "SEEK_RESET" -> [s EXCEPT !.len = 0]
      [] OTHER             -> s

\* Any op but these is -EINVAL.  SEEK_RESET keeps the array's content, and
\* the undocumented op 42 makes all of it readable and leaves pos at its end.
stream_seek(s, pos, op) ==
    LET clamp(p) == IF p > s.len THEN s.len ELSE p
    IN  CASE op = "SEEK_SET"   -> [s EXCEPT !.pos = clamp(pos)]
          [] op = "SEEK_CUR"   -> [s EXCEPT !.pos = clamp(s.pos + pos)]
          [] op = "SEEK_END"   -> [s EXCEPT !.pos = s.len]
          [] op = "SEEK_RESET" -> [buffer |-> s.buffer, pos |-> 0, len |-> 0]
          [] op = "SEEK_42"    -> [buffer |-> s.buffer, pos |-> BUFFER_LEN, len |-> BUFFER_LEN]
          [] OTHER             -> s
=============================================================================
