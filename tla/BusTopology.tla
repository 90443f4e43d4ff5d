----------------------------- MODULE BusTopology -----------------------------
(***************************************************************************)
(* The data paths of the Bus Topology object: between an FMI variable and  *)
(* the stream of the network codec its value reference is indexed to.      *)
(* Operators on one stream; FmuInstance and FmuNetwork own the state.      *)
(***************************************************************************)
EXTENDS BufferStream

\* A value of an FMI string variable: the encoder keeps a NUL-free text from
\* which the decoder, configured from the same annotation, restores the data.
Text(data) == [encoding |-> "ascii85", data |-> data]
decoded(text) == text.data

\* Faulty: the stream is left at its end.
rx_stream_no_rewind(s, data) == stream_write(stream_seek(s, 0, "SEEK_END"), data)

\* bus_topology_rx: append, then rewind.  The result of the write is ignored.
rx_stream(s, data) ==
    stream_seek(stream_write(stream_seek(s, 0, "SEEK_END"), data), 0, "SEEK_SET")

\* bus_topology_tx: rewind, then read to the end.
tx_data(s) == stream_read(stream_seek(s, 0, "SEEK_SET"))
tx_stream(s) == stream_read_pos(stream_seek(s, 0, "SEEK_SET"), "POS_UPDATE")
=============================================================================
