--------------------------- MODULE TopologyObject ---------------------------
(***************************************************************************)
(* The Bus Topology object with several buses: its maps, filled from the   *)
(* model description one scalar variable at a time, the streams of its     *)
(* codecs, and the values it hands out.                                    *)
(*                                                                         *)
(* Its client makes the calls of bus_topology.h in any order and owns the  *)
(* codecs: it opens them, adds one to one bus at a time, may close one     *)
(* that another has replaced, and works on their streams.  It sends a      *)
(* value as the document says the variable is encoded.                     *)
(***************************************************************************)
EXTENDS BusTopology, ModelDescription, FiniteSets

CONSTANTS
    Codec,      \* the codecs there may be at a time
    Document,   \* what model_xml_path may name
    Message,    \* what a codec sends
    Data,       \* sequences of messages in a value
    Zero,       \* what an unused place of a stream holds
    ValueId     \* bound: blocks of memory for values; entries of the free list

ASSUME TopologyAssumption ==
    /\ NULL \notin Codec \cup Vr \cup Bus /\ Bus # {}
    /\ Document \subseteq Seq(ScalarVariable)
    /\ Zero \in Message /\ Data \subseteq Seq(Message)
    /\ IsFiniteSet(ValueId)

VARIABLES
    object,                   \* "none" or "created"
    doc,                      \* the document of the object
    bus_ncodec,               \* codec of each bus
    rx_vr_index, tx_vr_index, \* codec of each value reference
    decode_func, encode_func, \* value references with a function
    free_list,                \* values by key
    reset_called,
    add,                      \* the loop a bus_topology_add is in, and where
    open, stream,             \* codecs, and the stream of each
    values,                   \* live blocks with a value
    held,                     \* those its client got since the last reset
    call,                     \* the last call, with the arguments a value goes by
    out                       \* the value it has returned, if any

maps == <<bus_ncodec, rx_vr_index, tx_vr_index, decode_func, encode_func>>
memory == <<free_list, values, held>>
topologyVars == <<object, doc, maps, reset_called, add, open, stream, memory, call, out>>

Idle == [loop |-> "none", bus |-> NULL, at |-> 0]

NoCodec == [vr \in Vr |-> NULL]

\* Values of an FMI variable without encoding are what the stream holds.
Plain(data) == [encoding |-> "none", data |-> data]

\* calloc and hashmap_init.
Blank ==
    /\ bus_ncodec = [b \in Bus |-> NULL]
    /\ rx_vr_index = NoCodec /\ tx_vr_index = NoCodec
    /\ decode_func = {} /\ encode_func = {}
    /\ free_list = <<>> /\ reset_called = FALSE

Init ==
    /\ object = "none" /\ doc = <<>> /\ Blank /\ add = Idle
    /\ open = {} /\ stream = [c \in Codec |-> stream_create(Zero)]
    /\ values = {} /\ held = {}
    /\ call = [op |-> "none"] /\ out = <<>>

Return(called, value) == call' = called /\ out' = value

Ready == object = "created" /\ add = Idle
Between == add = Idle   \* the client's turn: a call runs to its end

Joined == {bus_ncodec[b] : b \in Bus} \ {NULL}

-----------------------------------------------------------------------------
(* create, add *)

bus_topology_create(d) ==
    /\ object = "none"
    /\ object' = "created" /\ doc' = d
    /\ Return([op |-> "create"], <<>>)
    /\ UNCHANGED <<maps, reset_called, add, open, stream, memory>>

\* hashmap_set of the codec; the loops of the parser follow.
bus_topology_add(b, c) ==
    /\ Ready
    /\ c \in open /\ \A other \in Bus \ {b} : bus_ncodec[other] # c
    /\ bus_ncodec' = [bus_ncodec EXCEPT ![b] = c]
    /\ add' = [loop |-> "bus_topology", bus |-> b, at |-> 1]
    /\ Return([op |-> "add"], <<>>)
    /\ UNCHANGED <<object, doc, rx_vr_index, tx_vr_index, decode_func, encode_func,
                   reset_called, open, stream, memory>>

\* One turn of the loop of parse_bus_topology.
parse_bus_topology ==
    /\ add.loop = "bus_topology" /\ add.at <= Len(doc)
    /\ LET v == doc[add.at]
           c == bus_ncodec[add.bus]
       IN  /\ rx_vr_index' = bus_turn(v, "input", add.bus, c, rx_vr_index)
           /\ tx_vr_index' = bus_turn(v, "output", add.bus, c, tx_vr_index)
    /\ add' = [add EXCEPT !.at = @ + 1]
    /\ UNCHANGED <<object, doc, bus_ncodec, decode_func, encode_func,
                   reset_called, open, stream, memory, call, out>>

\* One turn of the loop of parse_binary_to_text.
parse_binary_to_text ==
    /\ add.loop = "binary_to_text" /\ add.at <= Len(doc)
    /\ decode_func' = text_turn(doc[add.at], "input", decode_func)
    /\ encode_func' = text_turn(doc[add.at], "output", encode_func)
    /\ add' = [add EXCEPT !.at = @ + 1]
    /\ UNCHANGED <<object, doc, bus_ncodec, rx_vr_index, tx_vr_index,
                   reset_called, open, stream, memory, call, out>>

\* Faulty: a loop leaves out the last variable.
parse_end_early ==
    /\ add.loop # "none" /\ add.at >= Len(doc)
    /\ add' = IF add.loop = "bus_topology" THEN [loop |-> "binary_to_text", bus |-> add.bus, at |-> 1]
              ELSE Idle
    /\ UNCHANGED <<object, doc, maps, reset_called, open, stream, memory, call, out>>

\* Faulty: the second loop begins one variable too early.
parse_end_from_zero ==
    /\ add.loop # "none" /\ add.at > Len(doc)
    /\ add' = IF add.loop = "bus_topology" THEN [loop |-> "binary_to_text", bus |-> add.bus, at |-> 0]
              ELSE Idle
    /\ UNCHANGED <<object, doc, maps, reset_called, open, stream, memory, call, out>>

\* A loop is done: the next begins, or the call returns.
parse_end ==
    /\ add.loop # "none" /\ add.at > Len(doc)
    /\ add' = IF add.loop = "bus_topology" THEN [loop |-> "binary_to_text", bus |-> add.bus, at |-> 1]
              ELSE Idle
    /\ UNCHANGED <<object, doc, maps, reset_called, open, stream, memory, call, out>>

-----------------------------------------------------------------------------
(* rx, tx *)

\* The data of a value, when it is decoded or not.
received(vr, value) ==
    IF vr \in decode_func
    THEN IF value.encoding = "ascii85" THEN decoded(value) ELSE <<Zero>>
    ELSE IF value.encoding = "none" THEN value.data ELSE <<Zero>>

\* Faulty: the codec is looked up among those to send from.
bus_topology_rx_wrong_index(vr, value) ==
    /\ Ready
    /\ LET c == tx_vr_index[vr]
       IN  stream' = IF c = NULL THEN stream
                     ELSE [stream EXCEPT ![c] = rx_stream(@, received(vr, value))]
    /\ Return([op |-> "rx", vr |-> vr, data |-> value.data], <<>>)
    /\ UNCHANGED <<object, doc, maps, reset_called, add, open, memory>>

bus_topology_rx(vr, value) ==
    /\ Ready
    /\ LET c == rx_vr_index[vr]
       IN  stream' = IF c = NULL THEN stream
                     ELSE [stream EXCEPT ![c] = rx_stream(@, received(vr, value))]
    /\ Return([op |-> "rx", vr |-> vr, data |-> value.data], <<>>)
    /\ UNCHANGED <<object, doc, maps, reset_called, add, open, memory>>

\* Faulty: the entry of a value is found by its reference, and replaced.
bus_topology_tx_by_vr(vr) ==
    /\ Ready
    /\ reset_called' = FALSE
    /\ call' = [op |-> "tx", vr |-> vr]
    /\ LET c == tx_vr_index[vr]
       IN  IF c = NULL THEN out' = <<>> /\ UNCHANGED <<stream, memory>>
           ELSE /\ stream' = [stream EXCEPT ![c] = tx_stream(@)]
                /\ out' = <<IF vr \in encode_func THEN Text(tx_data(stream[c]))
                            ELSE Plain(tx_data(stream[c]))>>
                /\ \E id \in ValueId \ values :
                      /\ free_list' = <<id>>
                      /\ values' = (values \ {free_list[k] : k \in DOMAIN free_list}) \cup {id}
                      /\ held' = held \cup {id}
    /\ UNCHANGED <<object, doc, maps, add, open>>

\* reset_called is cleared before the lookup.  The value is a new block; with
\* an encoder, its text is, and the data it is made from is freed.  The key of
\* its entry is the number of entries before it.
bus_topology_tx(vr) ==
    /\ Ready
    /\ reset_called' = FALSE
    /\ call' = [op |-> "tx", vr |-> vr]
    /\ LET c == tx_vr_index[vr]
       IN  IF c = NULL THEN out' = <<>> /\ UNCHANGED <<stream, memory>>
           ELSE /\ stream' = [stream EXCEPT ![c] = tx_stream(@)]
                /\ out' = <<IF vr \in encode_func THEN Text(tx_data(stream[c]))
                            ELSE Plain(tx_data(stream[c]))>>
                /\ \E id \in ValueId \ values :
                      /\ values' = values \cup {id}
                      /\ free_list' = Append(free_list, id)
                      /\ held' = held \cup {id}
    /\ UNCHANGED <<object, doc, maps, add, open>>

-----------------------------------------------------------------------------
(* reset, destroy *)

\* hashmap_clear and hashmap_destroy of the free list.
Freed == values \ {free_list[k] : k \in DOMAIN free_list}

\* Faulty: the entries of the free list go, not what they refer to.
bus_topology_reset_leaks ==
    /\ Ready
    /\ Return([op |-> "reset"], <<>>) /\ held' = {}
    /\ IF reset_called THEN UNCHANGED <<stream, values, free_list>>
       ELSE /\ stream' = [c \in Codec |-> IF c \in Joined
                                          THEN stream_seek(stream[c], 0, "SEEK_RESET") ELSE stream[c]]
            /\ free_list' = <<>> /\ UNCHANGED values
    /\ reset_called' = TRUE
    /\ UNCHANGED <<object, doc, maps, add, open>>

\* Truncates all codecs, unless done since the last tx.  The client does not
\* use the values it has got any more.
bus_topology_reset ==
    /\ Ready
    /\ Return([op |-> "reset"], <<>>) /\ held' = {}
    /\ IF reset_called THEN UNCHANGED <<stream, values, free_list>>
       ELSE /\ stream' = [c \in Codec |-> IF c \in Joined
                                          THEN stream_seek(stream[c], 0, "SEEK_RESET") ELSE stream[c]]
            /\ values' = Freed /\ free_list' = <<>>
    /\ reset_called' = TRUE
    /\ UNCHANGED <<object, doc, maps, add, open>>

\* What the client leaves of the streams of codecs that were closed.
StreamsLeft(closed) == [c \in Codec |-> IF c \in closed THEN stream_create(Zero) ELSE stream[c]]

\* Closes the codecs of all buses and frees every map.
bus_topology_destroy ==
    /\ Ready
    /\ object' = "none" /\ doc' = <<>>
    /\ bus_ncodec' = [b \in Bus |-> NULL]
    /\ rx_vr_index' = NoCodec /\ tx_vr_index' = NoCodec
    /\ decode_func' = {} /\ encode_func' = {}
    /\ free_list' = <<>> /\ values' = Freed /\ held' = {}
    /\ reset_called' = FALSE
    /\ open' = open \ Joined /\ stream' = StreamsLeft(Joined)
    /\ Return([op |-> "destroy"], <<>>)
    /\ UNCHANGED add

-----------------------------------------------------------------------------
(* The client and its codecs *)

\* ncodec_open with a new stream.
Open(c) ==
    /\ Between /\ c \notin open
    /\ open' = open \cup {c}
    /\ Return([op |-> "client"], <<>>)
    /\ UNCHANGED <<object, doc, maps, reset_called, add, stream, memory>>

\* ncodec_close of a codec that is on no bus.
Close(c) ==
    /\ Between /\ c \in open \ Joined
    /\ open' = open \ {c} /\ stream' = StreamsLeft({c})
    /\ Return([op |-> "client"], <<>>)
    /\ UNCHANGED <<object, doc, maps, reset_called, add, memory>>

\* As in fmi2DoStep: truncate, write and flush.
Work(c, data) ==
    /\ Between /\ c \in open
    /\ stream' = [stream EXCEPT ![c] = stream_write(stream_seek(@, 0, "SEEK_RESET"), data)]
    /\ Return([op |-> "client"], <<>>)
    /\ UNCHANGED <<object, doc, maps, reset_called, add, open, memory>>

\* The encoding the document asks for.
Sent(vr, data) == IF vr \in TextOf(doc, "input") THEN Text(data) ELSE Plain(data)

Next ==
    \/ \E d \in Document : bus_topology_create(d)
    \/ \E b \in Bus, c \in Codec : bus_topology_add(b, c)
    \/ parse_bus_topology \/ parse_binary_to_text \/ parse_end
    \/ \E vr \in Vr : bus_topology_tx(vr) \/ \E data \in Data : bus_topology_rx(vr, Sent(vr, data))
    \/ bus_topology_reset \/ bus_topology_destroy
    \/ \E c \in Codec : Open(c) \/ Close(c) \/ \E data \in Data : Work(c, data)

Spec == Init /\ [][Next]_topologyVars

-----------------------------------------------------------------------------
(* Properties *)

TopologyTypeOK ==
    /\ object \in {"none", "created"} /\ doc \in Document \cup {<<>>}
    /\ bus_ncodec \in [Bus -> Codec \cup {NULL}]
    /\ rx_vr_index \in [Vr -> Codec \cup {NULL}] /\ tx_vr_index \in [Vr -> Codec \cup {NULL}]
    /\ decode_func \subseteq Vr /\ encode_func \subseteq Vr
    /\ free_list \in Seq(ValueId) /\ reset_called \in BOOLEAN
    /\ \/ add = Idle
       \/ /\ add.loop \in {"bus_topology", "binary_to_text"} /\ add.bus \in Bus
          /\ add.at \in 1 .. Len(doc) + 1
    /\ open \subseteq Codec /\ values \subseteq ValueId /\ held \subseteq ValueId

RoutedAt(vr, index, causality) ==
    LET codecs == {bus_ncodec[b] : b \in BusesOf(doc, vr, causality)} \ {NULL}
    IN  IF codecs = {} THEN index[vr] = NULL ELSE index[vr] \in codecs

Routed(index, causality) == \A vr \in Vr : RoutedAt(vr, index, causality)

\* Between calls, a value reference leads to the codec of one of the buses the
\* document annotates it with, and to none only if none of them was added:
\* whatever the order of the variables and of the additions, and for
\* references that several variables share.
RoutedByDocument == add = Idle => Routed(rx_vr_index, "input") /\ Routed(tx_vr_index, "output")

\* No map of the object leads to a codec that has been closed: a codec that was
\* replaced on its bus is in no index any more when its owner may close it.
NoClosedCodec ==
    add = Idle => \A vr \in Vr : {rx_vr_index[vr], tx_vr_index[vr]} \subseteq open \cup {NULL}

\* Every value its client still uses is there, in spite of Gets that follow and
\* of resets that are skipped.
HeldValuesLive == held \subseteq values

\* Each value handed out is freed once: the free list has all live values, and
\* none twice.
FreeListHasAll ==
    /\ values = {free_list[k] : k \in DOMAIN free_list}
    /\ \A j, k \in DOMAIN free_list : free_list[j] = free_list[k] => j = k

Pairs(causality) == UNION {{vr} \X BusesOf(doc, vr, causality) : vr \in Vr}

\* The mail boxes the object stands for.
Plan == [input |-> Pairs("input"), output |-> Pairs("output"), text |-> TextOf(doc, "output")]
Members == {b \in Bus : bus_ncodec[b] # NULL}
Box == [b \in Bus |-> IF bus_ncodec[b] = NULL THEN <<>> ELSE tx_data(stream[bus_ncodec[b]])]
Got == [i \in DOMAIN out |-> [text |-> out[i].encoding = "ascii85", data |-> out[i].data]]

Mail == INSTANCE BusMail WITH
    Size <- BUFFER_LEN,
    plan <- Plan, joined <- Members, box <- Box, emptied <- reset_called, got <- Got

\* The object is a mail box for each bus, found by the document's annotations:
\* an rx appends its data to the box of its variable, whole, whenever the box
\* has room for it, and changes no other; a tx returns what its box holds; a
\* reset empties all of them, once; the parser and the client's work on other
\* codecs reach none.
ImplementsBusMail == Mail!Spec
=============================================================================
