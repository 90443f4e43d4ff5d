------------------------ MODULE TopologyObjectProof ------------------------
(***************************************************************************)
(* The Bus Topology object for every document, every set of buses, codecs  *)
(* and value references, and every size of the streams.                    *)
(***************************************************************************)
EXTENDS TopologyObject, BufferStreamProof, SequenceTheorems

USE BufferLenAssumption, TopologyAssumption

-----------------------------------------------------------------------------
(* The parser *)

First(v, tool, name) ==
    {i \in DOMAIN v.annotations :
        /\ v.annotations[i].tool = tool /\ v.annotations[i].name = name
        /\ \A j \in 1 .. i - 1 : ~(v.annotations[j].tool = tool /\ v.annotations[j].name = name)}

\* parse_tool_anno finds a value if and only if a first annotation has it.
LEMMA AnnotationFound ==
    ASSUME NEW v \in ScalarVariable, NEW tool, NEW name, NEW value, value # NULL
    PROVE  parse_tool_anno(v, tool, name) = value <=> Annotated(v, tool, name, value)
<1> DEFINE first == First(v, tool, name)
<1> DEFINE c == CHOOSE i \in first : TRUE
<1>1. v.annotations \in Seq(Annotation)
  BY DEF ScalarVariable
<1>2. DOMAIN v.annotations = 1 .. Len(v.annotations) /\ Len(v.annotations) \in Nat
  BY <1>1
<1>3. \A i \in DOMAIN v.annotations : v.annotations[i] \in Annotation
  BY <1>1, <1>2
<1>4. parse_tool_anno(v, tool, name) = IF first = {} THEN NULL ELSE v.annotations[c].value
  BY DEF parse_tool_anno, First
<1>5. ASSUME NEW i \in first, NEW j \in first PROVE i = j
  <2>1. i \in Nat /\ j \in Nat /\ i >= 1 /\ j >= 1
    BY <1>2 DEF First
  <2>2. i \notin 1 .. j - 1 /\ j \notin 1 .. i - 1
    BY DEF First
  <2> QED BY <2>1, <2>2
<1>6. ASSUME NEW i \in DOMAIN v.annotations
      PROVE  v.annotations[i] = [tool |-> tool, name |-> name, value |-> value] <=>
                /\ v.annotations[i].tool = tool /\ v.annotations[i].name = name
                /\ v.annotations[i].value = value
  BY <1>3 DEF Annotation
<1>7. Annotated(v, tool, name, value) <=> \E i \in first : v.annotations[i].value = value
  BY <1>6 DEF Annotated, First
<1>8. first # {} => c \in first
  OBVIOUS
<1> HIDE DEF first, c
<1> QED BY <1>4, <1>5, <1>7, <1>8

LEMMA BusAnnotated ==
    ASSUME NEW v \in ScalarVariable, NEW b \in Bus, v.valueReference # NULL, v.causality # NULL
    PROVE  OnBus(v, b) <=> v.name # NULL /\ Annotated(v, "bus-topology", "bus_id", b)
BY AnnotationFound DEF OnBus, Described

LEMMA TextAnnotated ==
    ASSUME NEW v \in ScalarVariable, v.valueReference # NULL, v.causality # NULL
    PROVE  InText(v) <=> v.name # NULL /\ Annotated(v, "binary-to-text", "encoding", "ascii85")
BY AnnotationFound DEF InText, Described, NULL

\* What the document says of a reference, by the variables the loops look at.
LEMMA BusesByTurn ==
    ASSUME NEW d \in Seq(ScalarVariable), NEW vr \in Vr, NEW b \in Bus,
           NEW causality \in {"input", "output"}
    PROVE  b \in BusesOf(d, vr, causality) <=>
              \E k \in 1 .. Len(d) : /\ d[k].valueReference = vr /\ d[k].causality = causality
                                      /\ OnBus(d[k], b)
<1>1. DOMAIN d = 1 .. Len(d) /\ \A k \in 1 .. Len(d) : d[k] \in ScalarVariable
  OBVIOUS
<1>2. vr # NULL /\ causality # NULL
  BY DEF NULL
<1>3. b \in BusesOf(d, vr, causality) <=>
         \E k \in 1 .. Len(d) : /\ d[k].valueReference = vr /\ d[k].causality = causality
                                 /\ d[k].name # NULL /\ Annotated(d[k], "bus-topology", "bus_id", b)
  BY <1>1 DEF BusesOf, Has
<1> QED BY <1>1, <1>2, <1>3, BusAnnotated

LEMMA TextByTurn ==
    ASSUME NEW d \in Seq(ScalarVariable), NEW vr \in Vr, NEW causality \in {"input", "output"}
    PROVE  vr \in TextOf(d, causality) <=>
              \E k \in 1 .. Len(d) : /\ d[k].valueReference = vr /\ d[k].causality = causality
                                      /\ InText(d[k])
<1>1. DOMAIN d = 1 .. Len(d) /\ \A k \in 1 .. Len(d) : d[k] \in ScalarVariable
  OBVIOUS
<1>2. vr # NULL /\ causality # NULL
  BY DEF NULL
<1>3. vr \in TextOf(d, causality) <=>
         \E k \in 1 .. Len(d) : /\ d[k].valueReference = vr /\ d[k].causality = causality
                                 /\ d[k].name # NULL
                                 /\ Annotated(d[k], "binary-to-text", "encoding", "ascii85")
  BY <1>1 DEF TextOf, Has
<1> QED BY <1>1, <1>2, <1>3, TextAnnotated

-----------------------------------------------------------------------------
(* The inductive invariant *)

\* The first loop, with the variables before at.at done, has not met the
\* reference yet.
Pending(d, at, vr, causality) ==
    /\ at.loop = "bus_topology" /\ at.bus \in BusesOf(d, vr, causality)
    /\ \A k \in 1 .. at.at - 1 :
          ~(d[k].valueReference = vr /\ d[k].causality = causality /\ OnBus(d[k], at.bus))

Codecs(d, ncodec, vr, causality) == {ncodec[b] : b \in BusesOf(d, vr, causality)} \ {NULL}

Indexed(d, ncodec, at, index, causality) ==
    \A vr \in Vr :
        \/ Pending(d, at, vr, causality)
        \/ LET codecs == Codecs(d, ncodec, vr, causality)
           IN  IF codecs = {} THEN index[vr] = NULL ELSE index[vr] \in codecs

\* The keys are those of the document, after the second loop; during it, of
\* the variables before at.at.
Encoded(d, ncodec, at, keys, causality) ==
    /\ keys \subseteq TextOf(d, causality)
    /\ at.loop = "none" => (\A b \in Bus : ncodec[b] = NULL) \/ keys = TextOf(d, causality)
    /\ at.loop = "binary_to_text" =>
          \A k \in 1 .. at.at - 1 :
              InText(d[k]) /\ d[k].causality = causality => d[k].valueReference \in keys

Position(d) == {Idle} \cup [loop : {"bus_topology", "binary_to_text"}, bus : Bus, at : 1 .. Len(d) + 1]

\* A codec that is on a bus is open and on no other.
OnOneBus ==
    /\ Joined \subseteq open
    /\ \A a, b \in Bus : bus_ncodec[a] # NULL /\ bus_ncodec[a] = bus_ncodec[b] => a = b

Adding == add \in Position(doc) /\ (add # Idle => object = "created" /\ bus_ncodec[add.bus] # NULL)

Streams == \A c \in Codec : Sound(stream[c], Message)

NoObject == object = "none" => doc = <<>> /\ Blank

TopologyInv ==
    /\ TopologyTypeOK /\ stream \in [Codec -> Stream(Message)] /\ Streams
    /\ OnOneBus /\ Adding /\ NoObject
    /\ Indexed(doc, bus_ncodec, add, rx_vr_index, "input")
    /\ Indexed(doc, bus_ncodec, add, tx_vr_index, "output")
    /\ Encoded(doc, bus_ncodec, add, decode_func, "input")
    /\ Encoded(doc, bus_ncodec, add, encode_func, "output")
    /\ FreeListHasAll /\ HeldValuesLive

LEMMA DocTyped ==
    ASSUME TopologyTypeOK
    PROVE  doc \in Seq(ScalarVariable) /\ Len(doc) \in Nat
<1>1. <<>> \in Seq(ScalarVariable)
  OBVIOUS
<1>2. doc \in Seq(ScalarVariable)
  BY <1>1 DEF TopologyTypeOK
<1> QED BY <1>2

-----------------------------------------------------------------------------
(* The indexes *)

\* With no codec on a bus there is nothing to route.
LEMMA BlankIndexed ==
    ASSUME NEW d, NEW ncodec, NEW at, NEW index, NEW causality,
           \A b \in Bus : ncodec[b] = NULL, \A vr \in Vr : index[vr] = NULL
    PROVE  Indexed(d, ncodec, at, index, causality)
<1>1. \A vr \in Vr : Codecs(d, ncodec, vr, causality) = {}
  BY DEF Codecs, BusesOf
<1> QED BY <1>1 DEF Indexed

\* A bus that gets a codec: its variables are pending, the others as before.
LEMMA AddIndexed ==
    ASSUME NEW d, NEW ncodec \in [Bus -> Codec \cup {NULL}], NEW index, NEW causality,
           NEW b \in Bus, NEW c, Indexed(d, ncodec, Idle, index, causality)
    PROVE  Indexed(d, [ncodec EXCEPT ![b] = c], [loop |-> "bus_topology", bus |-> b, at |-> 1],
                   index, causality)
<1> DEFINE at == [loop |-> "bus_topology", bus |-> b, at |-> 1]
<1> DEFINE new == [ncodec EXCEPT ![b] = c]
<1>1. ASSUME NEW vr \in Vr, b \in BusesOf(d, vr, causality) PROVE Pending(d, at, vr, causality)
  BY <1>1 DEF Pending
<1>2. ASSUME NEW vr \in Vr, b \notin BusesOf(d, vr, causality)
      PROVE  Codecs(d, new, vr, causality) = Codecs(d, ncodec, vr, causality)
  <2>1. \A a \in BusesOf(d, vr, causality) : new[a] = ncodec[a]
    BY <1>2 DEF BusesOf
  <2> HIDE DEF new
  <2> QED BY <2>1 DEF Codecs
<1>3. \A vr \in Vr : ~Pending(d, Idle, vr, causality)
  BY DEF Pending, Idle
<1> HIDE DEF at, new
<1>4. Indexed(d, new, at, index, causality)
  BY <1>1, <1>2, <1>3 DEF Indexed
<1> QED BY <1>4 DEF at, new

\* A turn of the first loop: the variable it looks at is indexed, if on the bus.
LEMMA TurnIndexed ==
    ASSUME NEW d \in Seq(ScalarVariable), NEW ncodec \in [Bus -> Codec \cup {NULL}],
           NEW index \in [Vr -> Codec \cup {NULL}], NEW causality \in {"input", "output"},
           NEW b \in Bus, NEW i \in 1 .. Len(d), ncodec[b] # NULL,
           Indexed(d, ncodec, [loop |-> "bus_topology", bus |-> b, at |-> i], index, causality)
    PROVE  LET new == bus_turn(d[i], causality, b, ncodec[b], index)
           IN  /\ new \in [Vr -> Codec \cup {NULL}]
               /\ Indexed(d, ncodec, [loop |-> "bus_topology", bus |-> b, at |-> i + 1], new, causality)
<1> DEFINE new == bus_turn(d[i], causality, b, ncodec[b], index)
<1> DEFINE at == [loop |-> "bus_topology", bus |-> b, at |-> i]
<1> DEFINE next == [loop |-> "bus_topology", bus |-> b, at |-> i + 1]
<1> DEFINE hit == OnBus(d[i], b) /\ d[i].causality = causality
<1>1. hit => d[i].valueReference \in Vr
  <2>1. d[i] \in ScalarVariable
    OBVIOUS
  <2>2. hit => d[i].valueReference # NULL
    BY DEF OnBus, Described
  <2> QED BY <2>1, <2>2 DEF ScalarVariable
<1>2. new = IF hit THEN [index EXCEPT ![d[i].valueReference] = ncodec[b]] ELSE index
  BY DEF bus_turn
<1>3. new \in [Vr -> Codec \cup {NULL}]
  BY <1>2
<1>4. ASSUME NEW vr \in Vr, hit, d[i].valueReference = vr
      PROVE  new[vr] \in Codecs(d, ncodec, vr, causality)
  <2>1. b \in BusesOf(d, vr, causality)
    BY <1>4, BusesByTurn
  <2>2. new[vr] = ncodec[b]
    BY <1>2, <1>4
  <2> QED BY <2>1, <2>2 DEF Codecs
<1>5. ASSUME NEW vr \in Vr, ~(hit /\ d[i].valueReference = vr)
      PROVE  /\ new[vr] = index[vr]
             /\ Pending(d, at, vr, causality) => Pending(d, next, vr, causality)
  <2>1. new[vr] = index[vr]
    BY <1>1, <1>2, <1>5
  <2>2. \A k \in 1 .. (i + 1) - 1 : k = i \/ k \in 1 .. i - 1
    OBVIOUS
  <2>3. Pending(d, at, vr, causality) => Pending(d, next, vr, causality)
    BY <1>5, <2>2 DEF Pending
  <2> QED BY <2>1, <2>3
<1> HIDE DEF new, at, next, hit
<1>6. Indexed(d, ncodec, at, index, causality)
  BY DEF at
<1>7. Indexed(d, ncodec, next, new, causality)
  BY <1>4, <1>5, <1>6 DEF Indexed
<1> QED BY <1>3, <1>7 DEF new, next

\* After the first loop every reference is routed, and stays so.
LEMMA EndIndexed ==
    ASSUME NEW d \in Seq(ScalarVariable), NEW ncodec, NEW index, NEW causality \in {"input", "output"},
           NEW at \in Position(d), at.loop = "bus_topology" => at.at > Len(d),
           NEW next, next.loop # "bus_topology",
           Indexed(d, ncodec, at, index, causality)
    PROVE  Indexed(d, ncodec, next, index, causality)
<1>1. ASSUME NEW vr \in Vr PROVE ~Pending(d, at, vr, causality)
  <2>1. SUFFICES ASSUME at.loop = "bus_topology", at.bus \in BusesOf(d, vr, causality)
                 PROVE  \E k \in 1 .. at.at - 1 :
                           /\ d[k].valueReference = vr /\ d[k].causality = causality
                           /\ OnBus(d[k], at.bus)
    BY DEF Pending
  <2>2. at.bus \in Bus /\ at.at - 1 = Len(d)
    BY <2>1 DEF Position, Idle
  <2> QED BY <2>1, <2>2, BusesByTurn
<1> QED BY <1>1 DEF Indexed

-----------------------------------------------------------------------------
(* The functions of the texts *)

LEMMA TurnEncoded ==
    ASSUME NEW d \in Seq(ScalarVariable), NEW ncodec, NEW causality \in {"input", "output"},
           NEW keys, NEW b, NEW i \in 1 .. Len(d),
           Encoded(d, ncodec, [loop |-> "binary_to_text", bus |-> b, at |-> i], keys, causality)
    PROVE  Encoded(d, ncodec, [loop |-> "binary_to_text", bus |-> b, at |-> i + 1],
                   text_turn(d[i], causality, keys), causality)
<1> DEFINE new == text_turn(d[i], causality, keys)
<1> DEFINE hit == InText(d[i]) /\ d[i].causality = causality
<1>1. new = IF hit THEN keys \cup {d[i].valueReference} ELSE keys
  BY DEF text_turn
<1>2. hit => d[i].valueReference \in Vr
  <2>1. d[i] \in ScalarVariable
    OBVIOUS
  <2>2. hit => d[i].valueReference # NULL
    BY DEF InText, Described
  <2> QED BY <2>1, <2>2 DEF ScalarVariable
<1>3. hit => d[i].valueReference \in TextOf(d, causality)
  BY <1>2, TextByTurn
<1>4. keys \subseteq TextOf(d, causality)
  BY DEF Encoded
<1>5. \A k \in 1 .. (i + 1) - 1 : k = i \/ k \in 1 .. i - 1
  OBVIOUS
<1>6. \A k \in 1 .. i - 1 : InText(d[k]) /\ d[k].causality = causality => d[k].valueReference \in keys
  BY DEF Encoded
<1>7. \A k \in 1 .. (i + 1) - 1 :
         InText(d[k]) /\ d[k].causality = causality => d[k].valueReference \in new
  BY <1>1, <1>5, <1>6
<1> QED BY <1>1, <1>3, <1>4, <1>7 DEF Encoded

\* After the second loop every text of the document has its function.
LEMMA EndEncoded ==
    ASSUME NEW d \in Seq(ScalarVariable), NEW ncodec, NEW causality \in {"input", "output"},
           NEW keys, NEW at \in Position(d), at.loop = "binary_to_text", at.at > Len(d),
           Encoded(d, ncodec, at, keys, causality)
    PROVE  Encoded(d, ncodec, Idle, keys, causality)
<1>1. at.at - 1 = Len(d)
  BY DEF Position, Idle
<1>2. keys = TextOf(d, causality)
  <2>1. ASSUME NEW vr \in TextOf(d, causality) PROVE vr \in keys
    BY <1>1, TextByTurn DEF Encoded, TextOf
  <2> QED BY <2>1 DEF Encoded
<1> QED BY <1>2 DEF Encoded, Idle

-----------------------------------------------------------------------------
(* The values *)

\* What an rx writes: the data, when a codec is on a bus.
LEMMA ReceivedSound ==
    ASSUME TopologyInv, add = Idle, NEW vr \in Vr, NEW data \in Data
    PROVE  /\ received(vr, Sent(vr, data)) \in Seq(Message)
           /\ rx_vr_index[vr] # NULL => received(vr, Sent(vr, data)) = data
<1>1. /\ received(vr, Sent(vr, data)) \in {data, <<Zero>>}
      /\ data \in Seq(Message)
      /\ <<Zero>> \in Seq(Message)
  BY DEF received, Sent, Text, Plain, decoded
<1>2. ASSUME rx_vr_index[vr] # NULL PROVE decode_func = TextOf(doc, "input")
  <2>1. ~Pending(doc, add, vr, "input")
    BY DEF Pending, Idle
  <2>2. Codecs(doc, bus_ncodec, vr, "input") # {}
    BY <1>2, <2>1 DEF TopologyInv, Indexed
  <2>3. \E b \in Bus : bus_ncodec[b] # NULL
    BY <2>2 DEF Codecs, BusesOf
  <2> QED BY <2>3 DEF TopologyInv, Encoded, Idle
<1>3. ASSUME rx_vr_index[vr] # NULL PROVE received(vr, Sent(vr, data)) = data
  BY <1>2, <1>3 DEF received, Sent, Text, Plain, decoded
<1> QED BY <1>1, <1>3

\* A new value goes to the end of the free list.
LEMMA ListAppend ==
    ASSUME NEW list \in Seq(ValueId), NEW id \in ValueId,
           NEW live, live = {list[k] : k \in DOMAIN list}, id \notin live,
           \A j, k \in DOMAIN list : list[j] = list[k] => j = k
    PROVE  LET new == Append(list, id)
           IN  /\ new \in Seq(ValueId)
               /\ live \cup {id} = {new[k] : k \in DOMAIN new}
               /\ \A j, k \in DOMAIN new : new[j] = new[k] => j = k
<1> DEFINE new == Append(list, id)
<1> DEFINE n == Len(list)
<1>1. /\ new \in Seq(ValueId) /\ n \in Nat /\ DOMAIN list = 1 .. n /\ DOMAIN new = 1 .. n + 1
      /\ \A k \in 1 .. n : new[k] = list[k]
      /\ new[n + 1] = id
  OBVIOUS
<1> HIDE DEF new, n
<1>2. \A k \in 1 .. n + 1 : k \in 1 .. n \/ k = n + 1
  BY <1>1
<1>3. \A k \in 1 .. n : k \in 1 .. n + 1 /\ new[k] \in live
  BY <1>1
<1>4. n + 1 \in 1 .. n + 1
  BY <1>1
<1>5. {new[k] : k \in DOMAIN new} = live \cup {id}
  BY <1>1, <1>2, <1>3, <1>4
<1>6. \A j, k \in 1 .. n + 1 : new[j] = new[k] => j = k
  BY <1>1, <1>2, <1>3
<1> QED BY <1>1, <1>5, <1>6 DEF new

\* The streams, when one of them changes, some are created anew or reset.
LEMMA OneStream ==
    ASSUME stream \in [Codec -> Stream(Message)], Streams, NEW c, NEW s,
           c \in Codec => Sound(s, Message),
           stream' = [stream EXCEPT ![c] = s]
    PROVE  stream' \in [Codec -> Stream(Message)] /\ Streams'
<1>1. stream' \in [Codec -> Stream(Message)]
  BY DEF Sound
<1>2. ASSUME NEW e \in Codec PROVE Sound(stream'[e], Message)
  <2>1. CASE e = c
    BY <2>1
  <2>2. CASE e # c
    <3>1. stream'[e] = stream[e]
      BY <2>2
    <3> QED BY <3>1 DEF Streams
  <2> QED BY <2>1, <2>2
<1> QED BY <1>1, <1>2 DEF Streams

LEMMA LeftSound ==
    ASSUME stream \in [Codec -> Stream(Message)], Streams, NEW closed, stream' = StreamsLeft(closed)
    PROVE  stream' \in [Codec -> Stream(Message)] /\ Streams'
<1>1. Sound(stream_create(Zero), Message)
  BY CreateSound
<1>2. \A c \in Codec : Sound(IF c \in closed THEN stream_create(Zero) ELSE stream[c], Message)
  BY <1>1 DEF Streams
<1> QED BY <1>2 DEF StreamsLeft, Sound, Streams

LEMMA ResetStreams ==
    ASSUME stream \in [Codec -> Stream(Message)], Streams, NEW some,
           stream' = [c \in Codec |-> IF c \in some
                                      THEN stream_seek(stream[c], 0, "SEEK_RESET") ELSE stream[c]]
    PROVE  stream' \in [Codec -> Stream(Message)] /\ Streams'
<1>1. \A c \in Codec : Sound(stream_seek(stream[c], 0, "SEEK_RESET"), Message)
  BY SeekSound DEF Streams
<1>2. \A c \in Codec : Sound(IF c \in some THEN stream_seek(stream[c], 0, "SEEK_RESET")
                                           ELSE stream[c], Message)
  BY <1>1 DEF Streams
<1> QED BY <1>2 DEF Sound, Streams

-----------------------------------------------------------------------------
(* Initialization and steps *)

LEMMA TopologyInit == Init => TopologyInv
<1> SUFFICES ASSUME Init PROVE TopologyInv
  OBVIOUS
<1> USE DEF Init, Blank
<1>1. TopologyTypeOK
  <2>1. /\ bus_ncodec \in [Bus -> Codec \cup {NULL}]
        /\ rx_vr_index \in [Vr -> Codec \cup {NULL}] /\ tx_vr_index \in [Vr -> Codec \cup {NULL}]
    BY DEF NoCodec
  <2>2. <<>> \in Seq(ValueId)
    OBVIOUS
  <2>3. free_list \in Seq(ValueId)
    BY <2>2
  <2>4. reset_called \in BOOLEAN
    OBVIOUS
  <2> QED BY <2>1, <2>3, <2>4 DEF TopologyTypeOK
<1>2. stream \in [Codec -> Stream(Message)] /\ Streams
  <2>1. Sound(stream_create(Zero), Message)
    BY CreateSound
  <2> QED BY <2>1 DEF Streams, Sound
<1>3. Joined = {} /\ OnOneBus
  BY DEF Joined, OnOneBus
<1>4. Adding /\ NoObject
  BY DEF Adding, NoObject, Position
<1>5. /\ Indexed(doc, bus_ncodec, add, rx_vr_index, "input")
      /\ Indexed(doc, bus_ncodec, add, tx_vr_index, "output")
  BY BlankIndexed DEF NoCodec
<1>6. /\ Encoded(doc, bus_ncodec, add, decode_func, "input")
      /\ Encoded(doc, bus_ncodec, add, encode_func, "output")
  BY DEF Encoded, Idle
<1>7. FreeListHasAll /\ HeldValuesLive
  BY DEF FreeListHasAll, HeldValuesLive
<1> QED BY <1>1, <1>2, <1>3, <1>4, <1>5, <1>6, <1>7 DEF TopologyInv

\* A step that keeps the object, its document, its maps and its loops, and of a
\* document without object the rest too.
LEMMA SameMaps ==
    ASSUME TopologyInv, UNCHANGED <<object, doc, maps, add>>,
           object = "created" \/ UNCHANGED <<reset_called, free_list>>
    PROVE  /\ Adding' /\ NoObject' /\ Joined' = Joined
           /\ Indexed(doc, bus_ncodec, add, rx_vr_index, "input")'
           /\ Indexed(doc, bus_ncodec, add, tx_vr_index, "output")'
           /\ Encoded(doc, bus_ncodec, add, decode_func, "input")'
           /\ Encoded(doc, bus_ncodec, add, encode_func, "output")'
<1> USE DEF TopologyInv, maps
<1>1. Adding' /\ Joined' = Joined
  BY DEF Adding, Joined
<1>2. NoObject'
  BY DEF NoObject, Blank
<1>3. /\ Indexed(doc, bus_ncodec, add, rx_vr_index, "input")'
      /\ Indexed(doc, bus_ncodec, add, tx_vr_index, "output")'
      /\ Encoded(doc, bus_ncodec, add, decode_func, "input")'
      /\ Encoded(doc, bus_ncodec, add, encode_func, "output")'
  OBVIOUS
<1> QED BY <1>1, <1>2, <1>3

LEMMA CreateStep ==
    ASSUME TopologyInv, NEW d \in Document, bus_topology_create(d)
    PROVE  TopologyInv'
<1> USE DEF TopologyInv, bus_topology_create, maps, memory
<1>1. Blank /\ add = Idle /\ add' = Idle
  BY DEF NoObject, Adding
<1>2. TopologyTypeOK'
  BY <1>1 DEF TopologyTypeOK
<1>3. stream' \in [Codec -> Stream(Message)] /\ Streams' /\ OnOneBus'
  BY DEF Streams, OnOneBus, Joined
<1>4. Adding' /\ NoObject'
  BY <1>1 DEF Adding, NoObject, Position
<1>5. /\ \A b \in Bus : bus_ncodec'[b] = NULL
      /\ \A vr \in Vr : rx_vr_index'[vr] = NULL /\ tx_vr_index'[vr] = NULL
  BY <1>1 DEF Blank, NoCodec
<1>6. /\ Indexed(doc', bus_ncodec', add', rx_vr_index', "input")
      /\ Indexed(doc', bus_ncodec', add', tx_vr_index', "output")
  BY <1>5, BlankIndexed
<1>7. /\ Encoded(doc', bus_ncodec', add', decode_func', "input")
      /\ Encoded(doc', bus_ncodec', add', encode_func', "output")
  BY <1>1, <1>5 DEF Blank, Encoded, Idle
<1>8. FreeListHasAll' /\ HeldValuesLive'
  BY DEF FreeListHasAll, HeldValuesLive
<1> QED BY <1>2, <1>3, <1>4, <1>6, <1>7, <1>8

LEMMA AddStep ==
    ASSUME TopologyInv, NEW b \in Bus, NEW c \in Codec, bus_topology_add(b, c)
    PROVE  TopologyInv'
<1> USE DEF TopologyInv, bus_topology_add, Ready, memory
<1> DEFINE at == [loop |-> "bus_topology", bus |-> b, at |-> 1]
<1>1. Len(doc) \in Nat /\ bus_ncodec \in [Bus -> Codec \cup {NULL}]
  BY DocTyped DEF TopologyTypeOK
<1>2. at \in Position(doc) /\ at # Idle
  BY <1>1 DEF Position, Idle
<1>3. TopologyTypeOK'
  BY <1>1 DEF TopologyTypeOK
<1>4. stream' \in [Codec -> Stream(Message)] /\ Streams'
  BY DEF Streams
<1>5. \A a \in Bus : bus_ncodec'[a] = IF a = b THEN c ELSE bus_ncodec[a]
  BY <1>1
<1>6. OnOneBus'
  <2>1. Joined' \subseteq open'
    BY <1>5 DEF OnOneBus, Joined
  <2>2. ASSUME NEW a \in Bus, NEW e \in Bus, bus_ncodec'[a] # NULL, bus_ncodec'[a] = bus_ncodec'[e]
        PROVE  a = e
    BY <1>5, <2>2 DEF OnOneBus
  <2> QED BY <2>1, <2>2 DEF OnOneBus
<1>7. Adding' /\ NoObject'
  BY <1>2, <1>5 DEF Adding, NoObject
<1>8. /\ Indexed(doc', bus_ncodec', add', rx_vr_index', "input")
      /\ Indexed(doc', bus_ncodec', add', tx_vr_index', "output")
  BY <1>1, AddIndexed
<1>9. /\ Encoded(doc', bus_ncodec', add', decode_func', "input")
      /\ Encoded(doc', bus_ncodec', add', encode_func', "output")
  BY DEF Encoded
<1>10. FreeListHasAll' /\ HeldValuesLive'
  BY DEF FreeListHasAll, HeldValuesLive
<1> QED BY <1>3, <1>4, <1>6, <1>7, <1>8, <1>9, <1>10

\* A turn of the first loop: position, and both indexes.
LEMMA ParseBusStep ==
    ASSUME TopologyInv, parse_bus_topology
    PROVE  TopologyInv'
<1> USE DEF TopologyInv, parse_bus_topology, memory
<1> DEFINE b == add.bus
<1> DEFINE i == add.at
<1>1. /\ b \in Bus /\ i \in 1 .. Len(doc) /\ add # Idle /\ bus_ncodec[b] # NULL
      /\ add = [loop |-> "bus_topology", bus |-> b, at |-> i]
      /\ add' = [loop |-> "bus_topology", bus |-> b, at |-> i + 1]
  BY DocTyped DEF Adding, Position, Idle
<1>2. /\ Len(doc) \in Nat /\ doc \in Seq(ScalarVariable)
      /\ bus_ncodec \in [Bus -> Codec \cup {NULL}]
      /\ rx_vr_index \in [Vr -> Codec \cup {NULL}] /\ tx_vr_index \in [Vr -> Codec \cup {NULL}]
  BY DocTyped DEF TopologyTypeOK
<1> HIDE DEF b, i
<1>3. /\ rx_vr_index' = bus_turn(doc[i], "input", b, bus_ncodec[b], rx_vr_index)
      /\ tx_vr_index' = bus_turn(doc[i], "output", b, bus_ncodec[b], tx_vr_index)
  BY DEF b, i
<1>4. /\ rx_vr_index' \in [Vr -> Codec \cup {NULL}]
      /\ Indexed(doc', bus_ncodec', add', rx_vr_index', "input")
  <2>1. Indexed(doc, bus_ncodec, [loop |-> "bus_topology", bus |-> b, at |-> i], rx_vr_index, "input")
    BY <1>1
  <2>2. doc' = doc /\ bus_ncodec' = bus_ncodec
    OBVIOUS
  <2> HIDE DEF TopologyInv, parse_bus_topology
  <2>3. /\ rx_vr_index' \in [Vr -> Codec \cup {NULL}]
        /\ Indexed(doc, bus_ncodec, [loop |-> "bus_topology", bus |-> b, at |-> i + 1],
                   rx_vr_index', "input")
    BY <1>1, <1>2, <1>3, <2>1, TurnIndexed
  <2> QED BY <1>1, <2>2, <2>3
<1>5. /\ tx_vr_index' \in [Vr -> Codec \cup {NULL}]
      /\ Indexed(doc', bus_ncodec', add', tx_vr_index', "output")
  <2>1. Indexed(doc, bus_ncodec, [loop |-> "bus_topology", bus |-> b, at |-> i], tx_vr_index, "output")
    BY <1>1
  <2>2. doc' = doc /\ bus_ncodec' = bus_ncodec
    OBVIOUS
  <2> HIDE DEF TopologyInv, parse_bus_topology
  <2>3. /\ tx_vr_index' \in [Vr -> Codec \cup {NULL}]
        /\ Indexed(doc, bus_ncodec, [loop |-> "bus_topology", bus |-> b, at |-> i + 1],
                   tx_vr_index', "output")
    BY <1>1, <1>2, <1>3, <2>1, TurnIndexed
  <2> QED BY <1>1, <2>2, <2>3
<1>6. add' \in Position(doc) /\ i + 1 \in 1 .. Len(doc) + 1
  <2>1. i + 1 \in 1 .. Len(doc) + 1
    BY <1>1, <1>2
  <2> HIDE DEF TopologyInv, parse_bus_topology
  <2>2. add' \in Position(doc)
    BY <1>1, <2>1 DEF Position
  <2> QED BY <2>1, <2>2
<1>7. TopologyTypeOK'
  BY <1>1, <1>4, <1>5, <1>6 DEF TopologyTypeOK
<1>8. stream' \in [Codec -> Stream(Message)] /\ Streams' /\ OnOneBus'
  BY DEF Streams, OnOneBus, Joined
<1>9. Adding' /\ NoObject'
  BY <1>1, <1>6 DEF Adding, NoObject
<1>10. /\ Encoded(doc', bus_ncodec', add', decode_func', "input")
       /\ Encoded(doc', bus_ncodec', add', encode_func', "output")
  BY <1>1 DEF Encoded
<1>11. FreeListHasAll' /\ HeldValuesLive'
  BY DEF FreeListHasAll, HeldValuesLive
<1> QED BY <1>4, <1>5, <1>7, <1>8, <1>9, <1>10, <1>11

\* A turn of the second loop: position, and the functions.
LEMMA ParseTextStep ==
    ASSUME TopologyInv, parse_binary_to_text
    PROVE  TopologyInv'
<1> USE DEF TopologyInv, parse_binary_to_text, memory
<1> DEFINE b == add.bus
<1> DEFINE i == add.at
<1>1. /\ b \in Bus /\ i \in 1 .. Len(doc) /\ add # Idle /\ bus_ncodec[b] # NULL
      /\ add = [loop |-> "binary_to_text", bus |-> b, at |-> i]
      /\ add' = [loop |-> "binary_to_text", bus |-> b, at |-> i + 1]
  BY DocTyped DEF Adding, Position, Idle
<1>2. Len(doc) \in Nat /\ doc \in Seq(ScalarVariable)
  BY DocTyped
<1> HIDE DEF b, i
<1>3. /\ decode_func' = text_turn(doc[i], "input", decode_func)
      /\ encode_func' = text_turn(doc[i], "output", encode_func)
  BY DEF b, i
<1>4. Encoded(doc', bus_ncodec', add', decode_func', "input")
  BY <1>1, <1>2, <1>3, TurnEncoded
<1>5. Encoded(doc', bus_ncodec', add', encode_func', "output")
  BY <1>1, <1>2, <1>3, TurnEncoded
<1>6. add' \in Position(doc) /\ i + 1 \in 1 .. Len(doc) + 1
  <2>1. i + 1 \in 1 .. Len(doc) + 1
    BY <1>1, <1>2
  <2> HIDE DEF TopologyInv, parse_binary_to_text
  <2>2. add' \in Position(doc)
    BY <1>1, <2>1 DEF Position
  <2> QED BY <2>1, <2>2
<1>7. decode_func' \subseteq Vr /\ encode_func' \subseteq Vr
  BY <1>4, <1>5 DEF Encoded, TextOf
<1>8. TopologyTypeOK'
  BY <1>1, <1>6, <1>7 DEF TopologyTypeOK
<1>9. stream' \in [Codec -> Stream(Message)] /\ Streams' /\ OnOneBus'
  BY DEF Streams, OnOneBus, Joined
<1>10. Adding' /\ NoObject'
  BY <1>1, <1>6 DEF Adding, NoObject
<1>11. add.loop # "bus_topology" /\ add'.loop # "bus_topology" /\ add \in Position(doc)
  BY <1>1 DEF Adding
<1>12. /\ Indexed(doc', bus_ncodec', add', rx_vr_index', "input")
       /\ Indexed(doc', bus_ncodec', add', tx_vr_index', "output")
  BY <1>2, <1>11, EndIndexed
<1>13. FreeListHasAll' /\ HeldValuesLive'
  BY DEF FreeListHasAll, HeldValuesLive
<1> QED BY <1>4, <1>5, <1>8, <1>9, <1>10, <1>12, <1>13

\* The end of a loop: of the first, all is routed; of the second, encoded too.
LEMMA ParseEndStep ==
    ASSUME TopologyInv, parse_end
    PROVE  TopologyInv'
<1> USE DEF TopologyInv, parse_end, maps, memory
<1>1. /\ add.bus \in Bus /\ add.at \in 1 .. Len(doc) + 1 /\ add # Idle /\ bus_ncodec[add.bus] # NULL
      /\ add.loop \in {"bus_topology", "binary_to_text"} /\ add \in Position(doc)
      /\ object = "created"
  BY DocTyped DEF Adding, Position, Idle
<1>2. Len(doc) \in Nat /\ doc \in Seq(ScalarVariable)
  BY DocTyped
<1>3. \/ /\ add.loop = "bus_topology"
         /\ add' = [loop |-> "binary_to_text", bus |-> add.bus, at |-> 1]
      \/ add.loop = "binary_to_text" /\ add' = Idle
  BY <1>1
<1>4. add' \in Position(doc) /\ add'.loop # "bus_topology"
  BY <1>1, <1>2, <1>3 DEF Position, Idle
<1>5. TopologyTypeOK'
  <2>1. \/ add' = Idle
        \/ /\ add'.loop \in {"bus_topology", "binary_to_text"} /\ add'.bus \in Bus
           /\ add'.at \in 1 .. Len(doc) + 1
    BY <1>4 DEF Position
  <2> QED BY <2>1 DEF TopologyTypeOK
<1>6. stream' \in [Codec -> Stream(Message)] /\ Streams' /\ OnOneBus'
  BY DEF Streams, OnOneBus, Joined
<1>7. Adding' /\ NoObject'
  BY <1>1, <1>3, <1>4 DEF Adding, NoObject
<1>8. /\ Indexed(doc', bus_ncodec', add', rx_vr_index', "input")
      /\ Indexed(doc', bus_ncodec', add', tx_vr_index', "output")
  BY <1>1, <1>2, <1>4, EndIndexed
<1>9. /\ Encoded(doc', bus_ncodec', add', decode_func', "input")
      /\ Encoded(doc', bus_ncodec', add', encode_func', "output")
  <2>1. CASE add.loop = "bus_topology"
    BY <1>3, <2>1 DEF Encoded
  <2>2. CASE add.loop = "binary_to_text"
    BY <1>1, <1>2, <1>3, <2>2, EndEncoded
  <2> QED BY <1>1, <2>1, <2>2
<1>10. FreeListHasAll' /\ HeldValuesLive'
  BY DEF FreeListHasAll, HeldValuesLive
<1> QED BY <1>5, <1>6, <1>7, <1>8, <1>9, <1>10

\* The rest leaves the documents, maps and loops alone, but for a destroy.
LEMMA RxStep ==
    ASSUME TopologyInv, NEW vr \in Vr, NEW data \in Data, bus_topology_rx(vr, Sent(vr, data))
    PROVE  TopologyInv'
<1> USE DEF TopologyInv, bus_topology_rx, memory, Ready
<1>1. UNCHANGED <<object, doc, maps, add>> /\ object = "created"
  OBVIOUS
<1>2. TopologyTypeOK'
  BY DEF TopologyTypeOK, maps
<1>3. stream' \in [Codec -> Stream(Message)] /\ Streams'
  <2>1. CASE rx_vr_index[vr] = NULL
    BY <2>1 DEF Streams
  <2>2. CASE rx_vr_index[vr] # NULL
    <3>1. rx_vr_index[vr] \in Codec
      BY <2>2 DEF TopologyTypeOK
    <3>2. Sound(rx_stream(stream[rx_vr_index[vr]], received(vr, Sent(vr, data))), Message)
      BY <3>1, ReceivedSound, RxSound DEF Streams
    <3>3. stream' = [stream EXCEPT ![rx_vr_index[vr]] =
                         rx_stream(stream[rx_vr_index[vr]], received(vr, Sent(vr, data)))]
      BY <2>2
    <3> QED BY <3>2, <3>3, OneStream
  <2> QED BY <2>1, <2>2
<1>4. OnOneBus' /\ FreeListHasAll' /\ HeldValuesLive'
  BY DEF OnOneBus, Joined, FreeListHasAll, HeldValuesLive, maps
<1> HIDE DEF TopologyInv, bus_topology_rx, memory, Ready
<1>5. /\ Adding' /\ NoObject'
      /\ Indexed(doc, bus_ncodec, add, rx_vr_index, "input")'
      /\ Indexed(doc, bus_ncodec, add, tx_vr_index, "output")'
      /\ Encoded(doc, bus_ncodec, add, decode_func, "input")'
      /\ Encoded(doc, bus_ncodec, add, encode_func, "output")'
  BY <1>1, SameMaps
<1> QED BY <1>2, <1>3, <1>4, <1>5 DEF TopologyInv

LEMMA TxStep ==
    ASSUME TopologyInv, NEW vr \in Vr, bus_topology_tx(vr)
    PROVE  TopologyInv'
<1> USE DEF TopologyInv, bus_topology_tx, Ready
<1> DEFINE c == tx_vr_index[vr]
<1>1. UNCHANGED <<object, doc, maps, add, open>> /\ object = "created" /\ reset_called' = FALSE
  OBVIOUS
<1>2. free_list \in Seq(ValueId)
  BY DEF TopologyTypeOK
<1>3. /\ stream' \in [Codec -> Stream(Message)] /\ Streams'
      /\ free_list' \in Seq(ValueId) /\ values' \subseteq ValueId /\ held' \subseteq ValueId
      /\ FreeListHasAll' /\ HeldValuesLive'
  <2>1. CASE c = NULL
    BY <2>1 DEF Streams, TopologyTypeOK, FreeListHasAll, HeldValuesLive, memory
  <2>2. CASE c # NULL
    <3>1. c \in Codec
      BY <2>2 DEF TopologyTypeOK
    <3>2. stream' = [stream EXCEPT ![c] = tx_stream(stream[c])]
      BY <2>2
    <3>3. Sound(tx_stream(stream[c]), Message)
      BY <3>1, TxSound DEF Streams
    <3>4. stream' \in [Codec -> Stream(Message)] /\ Streams'
      BY <3>2, <3>3, OneStream
    <3>5. PICK id \in ValueId \ values :
             /\ values' = values \cup {id} /\ free_list' = Append(free_list, id)
             /\ held' = held \cup {id}
      BY <2>2
    <3>6. free_list' \in Seq(ValueId) /\ FreeListHasAll'
      <4>1. /\ values = {free_list[k] : k \in DOMAIN free_list}
            /\ \A j, k \in DOMAIN free_list : free_list[j] = free_list[k] => j = k
        BY DEF FreeListHasAll
      <4> HIDE DEF TopologyInv, bus_topology_tx
      <4> QED BY <1>2, <3>5, <4>1, ListAppend DEF FreeListHasAll
    <3>7. values' \subseteq ValueId /\ held' \subseteq ValueId /\ HeldValuesLive'
      BY <3>5 DEF TopologyTypeOK, HeldValuesLive
    <3> QED BY <3>4, <3>6, <3>7
  <2> QED BY <2>1, <2>2
<1>4. TopologyTypeOK'
  BY <1>1, <1>3 DEF TopologyTypeOK, maps
<1>5. OnOneBus'
  BY DEF OnOneBus, Joined, maps
<1> HIDE DEF TopologyInv, bus_topology_tx, Ready
<1>6. /\ Adding' /\ NoObject'
      /\ Indexed(doc, bus_ncodec, add, rx_vr_index, "input")'
      /\ Indexed(doc, bus_ncodec, add, tx_vr_index, "output")'
      /\ Encoded(doc, bus_ncodec, add, decode_func, "input")'
      /\ Encoded(doc, bus_ncodec, add, encode_func, "output")'
  BY <1>1, SameMaps
<1> QED BY <1>3, <1>4, <1>5, <1>6 DEF TopologyInv

LEMMA ResetStep ==
    ASSUME TopologyInv, bus_topology_reset
    PROVE  TopologyInv'
<1> USE DEF TopologyInv, bus_topology_reset, Ready
<1>1. /\ UNCHANGED <<object, doc, maps, add, open>> /\ object = "created"
      /\ reset_called' = TRUE /\ held' = {}
  OBVIOUS
<1>2. /\ stream' \in [Codec -> Stream(Message)] /\ Streams'
      /\ free_list' \in Seq(ValueId) /\ values' \subseteq ValueId /\ FreeListHasAll'
  <2>1. CASE reset_called
    BY <2>1 DEF Streams, TopologyTypeOK, FreeListHasAll
  <2>2. CASE ~reset_called
    <3> DEFINE reset == [c \in Codec |-> IF c \in Joined
                                         THEN stream_seek(stream[c], 0, "SEEK_RESET") ELSE stream[c]]
    <3>1. stream' = reset
      BY <2>2
    <3>2. stream' \in [Codec -> Stream(Message)] /\ Streams'
      BY <3>1, ResetStreams
    <3>3. values' = {} /\ free_list' = <<>>
      BY <2>2 DEF Freed, FreeListHasAll
    <3>4. FreeListHasAll'
      BY <3>3 DEF FreeListHasAll
    <3> QED BY <3>2, <3>3, <3>4
  <2> QED BY <2>1, <2>2
<1>3. TopologyTypeOK'
  BY <1>1, <1>2 DEF TopologyTypeOK, maps
<1>4. OnOneBus' /\ HeldValuesLive'
  BY <1>1 DEF OnOneBus, Joined, HeldValuesLive, maps
<1> HIDE DEF TopologyInv, bus_topology_reset, Ready
<1>5. /\ Adding' /\ NoObject'
      /\ Indexed(doc, bus_ncodec, add, rx_vr_index, "input")'
      /\ Indexed(doc, bus_ncodec, add, tx_vr_index, "output")'
      /\ Encoded(doc, bus_ncodec, add, decode_func, "input")'
      /\ Encoded(doc, bus_ncodec, add, encode_func, "output")'
  BY <1>1, SameMaps
<1> QED BY <1>2, <1>3, <1>4, <1>5 DEF TopologyInv

LEMMA DestroyStep ==
    ASSUME TopologyInv, bus_topology_destroy
    PROVE  TopologyInv'
<1> USE DEF TopologyInv, bus_topology_destroy, Ready
<1>1. Blank' /\ values' = {} /\ held' = {} /\ add = Idle /\ add' = Idle
  BY DEF Blank, Freed, FreeListHasAll
<1>2. <<>> \in Seq(ValueId) /\ FALSE \in BOOLEAN
  OBVIOUS
<1>3. TopologyTypeOK'
  <2>1. rx_vr_index' \in [Vr -> Codec \cup {NULL}] /\ tx_vr_index' \in [Vr -> Codec \cup {NULL}]
    BY DEF NoCodec
  <2>2. open' \subseteq Codec
    BY DEF TopologyTypeOK
  <2> QED BY <1>1, <1>2, <2>1, <2>2 DEF TopologyTypeOK
<1>4. stream' \in [Codec -> Stream(Message)] /\ Streams'
  BY LeftSound
<1>5. OnOneBus' /\ Adding' /\ NoObject'
  BY <1>1 DEF OnOneBus, Joined, Adding, NoObject, Position
<1>6. /\ \A b \in Bus : bus_ncodec'[b] = NULL
      /\ \A vr \in Vr : rx_vr_index'[vr] = NULL /\ tx_vr_index'[vr] = NULL
  BY DEF NoCodec
<1>7. /\ Indexed(doc', bus_ncodec', add', rx_vr_index', "input")
      /\ Indexed(doc', bus_ncodec', add', tx_vr_index', "output")
  BY <1>6, BlankIndexed
<1>8. /\ Encoded(doc', bus_ncodec', add', decode_func', "input")
      /\ Encoded(doc', bus_ncodec', add', encode_func', "output")
  BY <1>1, <1>6 DEF Encoded, Idle
<1>9. FreeListHasAll' /\ HeldValuesLive'
  BY <1>1 DEF FreeListHasAll, HeldValuesLive
<1> QED BY <1>3, <1>4, <1>5, <1>7, <1>8, <1>9

LEMMA OpenStep ==
    ASSUME TopologyInv, NEW c \in Codec, Open(c)
    PROVE  TopologyInv'
<1> USE DEF TopologyInv, Open, memory
<1>1. UNCHANGED <<object, doc, maps, add, reset_called, free_list>>
  OBVIOUS
<1>2. TopologyTypeOK'
  BY DEF TopologyTypeOK, maps
<1>3. /\ stream' \in [Codec -> Stream(Message)] /\ Streams' /\ OnOneBus'
      /\ FreeListHasAll' /\ HeldValuesLive'
  BY DEF Streams, OnOneBus, Joined, FreeListHasAll, HeldValuesLive, maps
<1> HIDE DEF TopologyInv, Open, memory
<1> QED BY <1>1, <1>2, <1>3, SameMaps DEF TopologyInv

LEMMA CloseStep ==
    ASSUME TopologyInv, NEW c \in Codec, Close(c)
    PROVE  TopologyInv'
<1> USE DEF TopologyInv, Close, memory
<1>1. UNCHANGED <<object, doc, maps, add, reset_called, free_list>>
  OBVIOUS
<1>2. TopologyTypeOK'
  BY DEF TopologyTypeOK, maps
<1>3. stream' \in [Codec -> Stream(Message)] /\ Streams'
  BY LeftSound
<1>4. OnOneBus' /\ FreeListHasAll' /\ HeldValuesLive'
  BY DEF OnOneBus, Joined, FreeListHasAll, HeldValuesLive, maps
<1> HIDE DEF TopologyInv, Close, memory
<1> QED BY <1>1, <1>2, <1>3, <1>4, SameMaps DEF TopologyInv

LEMMA WorkStep ==
    ASSUME TopologyInv, NEW c \in Codec, NEW data \in Data, Work(c, data)
    PROVE  TopologyInv'
<1> USE DEF TopologyInv, Work, memory
<1>1. UNCHANGED <<object, doc, maps, add, reset_called, free_list>>
  OBVIOUS
<1>2. TopologyTypeOK'
  BY DEF TopologyTypeOK, maps
<1>3. Sound(stream_write(stream_seek(stream[c], 0, "SEEK_RESET"), data), Message)
  <2>1. Sound(stream_seek(stream[c], 0, "SEEK_RESET"), Message)
    BY SeekSound DEF Streams
  <2> QED BY <2>1, WriteSound
<1>4. stream' \in [Codec -> Stream(Message)] /\ Streams'
  BY <1>3, OneStream
<1>5. OnOneBus' /\ FreeListHasAll' /\ HeldValuesLive'
  BY DEF OnOneBus, Joined, FreeListHasAll, HeldValuesLive, maps
<1> HIDE DEF TopologyInv, Work, memory
<1> QED BY <1>1, <1>2, <1>4, <1>5, SameMaps DEF TopologyInv

LEMMA TopologyStep ==
    ASSUME TopologyInv, [Next]_topologyVars
    PROVE  TopologyInv'
<1>1. CASE UNCHANGED topologyVars
  BY <1>1 DEF topologyVars, maps, memory, TopologyInv, TopologyTypeOK, Streams, OnOneBus, Joined,
              Adding, NoObject, Blank, FreeListHasAll, HeldValuesLive
<1>2. CASE Next
  BY <1>2, CreateStep, AddStep, ParseBusStep, ParseTextStep, ParseEndStep, RxStep, TxStep,
     ResetStep, DestroyStep, OpenStep, CloseStep, WorkStep DEF Next
<1> QED BY <1>1, <1>2

LEMMA TopologyInvariant == Spec => []TopologyInv
BY TopologyInit, TopologyStep, PTL DEF Spec

-----------------------------------------------------------------------------
(* Theorems *)

\* The object is well typed, whatever the document and the order of the calls.
THEOREM TopologyTypes == Spec => []TopologyTypeOK
<1>1. TopologyInv => TopologyTypeOK
  BY DEF TopologyInv
<1> QED BY <1>1, TopologyInvariant, PTL

LEMMA RoutedBetween ==
    ASSUME TopologyInv, add = Idle
    PROVE  Routed(rx_vr_index, "input") /\ Routed(tx_vr_index, "output")
<1>1. \A vr \in Vr, causality \in {"input", "output"} : ~Pending(doc, add, vr, causality)
  BY DEF Pending, Idle
<1> QED BY <1>1 DEF TopologyInv, Indexed, Codecs, Routed, RoutedAt

\* Between calls each value reference leads to the codec of a bus the document
\* annotates it with, and to none only if none of those buses was added.
THEOREM TopologyRouted == Spec => []RoutedByDocument
<1>1. TopologyInv => RoutedByDocument
  BY RoutedBetween DEF RoutedByDocument
<1> QED BY <1>1, TopologyInvariant, PTL

\* No map leads to a closed codec.
THEOREM TopologyNoClosedCodec == Spec => []NoClosedCodec
<1>1. ASSUME TopologyInv PROVE NoClosedCodec
  <2> SUFFICES ASSUME add = Idle, NEW vr \in Vr
               PROVE  {rx_vr_index[vr], tx_vr_index[vr]} \subseteq open \cup {NULL}
    BY DEF NoClosedCodec
  <2>1. \A causality \in {"input", "output"} :
           {bus_ncodec[b] : b \in BusesOf(doc, vr, causality)} \ {NULL} \subseteq open
    BY <1>1 DEF TopologyInv, OnOneBus, Joined, BusesOf
  <2>2. RoutedAt(vr, rx_vr_index, "input") /\ RoutedAt(vr, tx_vr_index, "output")
    BY <1>1, RoutedBetween DEF Routed
  <2> QED BY <2>1, <2>2 DEF RoutedAt
<1> QED BY <1>1, TopologyInvariant, PTL

\* The free list has each live value, once.
THEOREM TopologyFreeList == Spec => []FreeListHasAll
<1>1. TopologyInv => FreeListHasAll
  BY DEF TopologyInv
<1> QED BY <1>1, TopologyInvariant, PTL

\* A value that its client still uses has not been freed.
THEOREM TopologyHeldLive == Spec => []HeldValuesLive
<1>1. TopologyInv => HeldValuesLive
  BY DEF TopologyInv
<1> QED BY <1>1, TopologyInvariant, PTL

-----------------------------------------------------------------------------
(* The mail boxes *)

LEMMA Concatenation ==
    ASSUME NEW x \in Seq(Message), NEW y \in Seq(Message)
    PROVE  x \o y = [k \in 1 .. Len(x) + Len(y) |-> IF k <= Len(x) THEN x[k] ELSE y[k - Len(x)]]
<1> DEFINE z == x \o y
<1>1. /\ z \in Seq(Message) /\ Len(z) = Len(x) + Len(y)
      /\ \A k \in 1 .. Len(x) + Len(y) : z[k] = IF k <= Len(x) THEN x[k] ELSE y[k - Len(x)]
  BY ConcatProperties
<1> HIDE DEF z
<1>2. z = [k \in 1 .. Len(z) |-> z[k]]
  BY <1>1
<1>3. z = [k \in 1 .. Len(x) + Len(y) |-> z[k]]
  BY <1>1, <1>2
<1>4. z = [k \in 1 .. Len(x) + Len(y) |-> IF k <= Len(x) THEN x[k] ELSE y[k - Len(x)]]
  BY <1>1, <1>3
<1> QED BY <1>4 DEF z

LEMMA SeekStart ==
    ASSUME NEW s, Sound(s, Message)
    PROVE  stream_seek(s, 0, "SEEK_SET") = [s EXCEPT !.pos = 0]
<1>1. ~(0 > s.len)
  BY DEF Sound, Stream
<1> QED BY <1>1 DEF stream_seek

\* What a tx reads: the stream from its start to its length.
LEMMA TxContent ==
    ASSUME NEW s, Sound(s, Message)
    PROVE  /\ tx_data(s) = [k \in 1 .. s.len |-> s.buffer[k - 1]]
           /\ tx_data(s) \in Seq(Message) /\ Len(tx_data(s)) = s.len
<1>1. /\ s.len \in 0 .. BUFFER_LEN /\ s.len \in Nat /\ s.buffer \in [Slot -> Message]
      /\ s \in Stream(Message)
  BY DEF Sound, Stream
<1> DEFINE r == stream_seek(s, 0, "SEEK_SET")
<1>2. r = [s EXCEPT !.pos = 0]
  BY <1>1 DEF stream_seek
<1>3. r.pos = 0 /\ r.len = s.len /\ r.buffer = s.buffer
  BY <1>1, <1>2 DEF Stream
<1> HIDE DEF r
<1>4. stream_read(r) = [k \in 1 .. s.len |-> s.buffer[k - 1]]
  BY <1>1, <1>3 DEF stream_read
<1>5. \A k \in 1 .. s.len : k - 1 \in Slot
  BY <1>1 DEF Slot
<1>6. [k \in 1 .. s.len |-> s.buffer[k - 1]] \in Seq(Message)
  BY <1>1, <1>5
<1> QED BY <1>1, <1>4, <1>6 DEF tx_data, r

LEMMA TxEmpty ==
    ASSUME NEW s, Sound(s, Message), s.len = 0
    PROVE  tx_data(s) = <<>>
BY TxContent, EmptySeq

\* A tx leaves what the next one reads.
LEMMA TxKeeps ==
    ASSUME NEW s, Sound(s, Message)
    PROVE  tx_data(tx_stream(s)) = tx_data(s)
<1>1. Sound(tx_stream(s), Message) /\ tx_stream(s).buffer = s.buffer
  BY TxSound
<1>2. tx_stream(s).len = s.len
  <2>1. tx_stream(s) = [s EXCEPT !.pos = s.len] /\ s \in Stream(Message)
    BY TxSound DEF Sound
  <2> QED BY <2>1 DEF Stream
<1> QED BY <1>1, <1>2, TxContent

\* An rx appends its data when it fits, and nothing if not.
LEMMA RxContent ==
    ASSUME NEW s, Sound(s, Message), NEW data \in Seq(Message)
    PROVE  tx_data(rx_stream(s, data)) = IF Len(tx_data(s)) + Len(data) <= BUFFER_LEN
                                         THEN tx_data(s) \o data ELSE tx_data(s)
<1> DEFINE e == stream_seek(s, 0, "SEEK_END")
<1> DEFINE w == stream_write(e, data)
<1> DEFINE n == Len(data)
<1>1. /\ s.len \in 0 .. BUFFER_LEN /\ s.len \in Nat /\ s.buffer \in [Slot -> Message]
      /\ s \in Stream(Message) /\ n \in Nat
  BY DEF Sound, Stream
<1>2. e = [s EXCEPT !.pos = s.len]
  BY <1>1 DEF stream_seek
<1>3. e.pos = s.len /\ e.len = s.len /\ e.buffer = s.buffer /\ Sound(e, Message)
  <2>1. Sound(e, Message)
    <3>1. 0 \in Nat
      OBVIOUS
    <3> QED BY <3>1, SeekSound
  <2> HIDE DEF e
  <2>2. e.pos = s.len /\ e.len = s.len /\ e.buffer = s.buffer
    BY <1>1, <1>2 DEF Stream
  <2> QED BY <2>1, <2>2
<1> HIDE DEF e
<1>7. stream_fits(e, data) <=> Len(tx_data(s)) + Len(data) <= BUFFER_LEN
  <2>1. Len(tx_data(s)) = s.len
    BY TxContent
  <2> QED BY <1>3, <2>1 DEF stream_fits
<1>4. Sound(w, Message)
  BY <1>3, WriteSound
<1>5. CASE ~stream_fits(e, data)
  <2>1. w.buffer = s.buffer /\ w.len = s.len
    BY <1>3, <1>5 DEF stream_write
  <2> HIDE DEF w
  <2>2. w \in Stream(Message)
    BY <1>4 DEF Sound
  <2>3. rx_stream(s, data) = [w EXCEPT !.pos = 0]
    BY <1>4, SeekStart DEF rx_stream, w, e
  <2>4. rx_stream(s, data).buffer = s.buffer /\ rx_stream(s, data).len = s.len
    BY <2>1, <2>2, <2>3 DEF Stream
  <2>5. Sound(rx_stream(s, data), Message)
    BY RxSound
  <2>6. tx_data(rx_stream(s, data)) = tx_data(s)
    BY <2>4, <2>5, TxContent
  <2> QED BY <1>5, <1>7, <2>6
<1>6. CASE stream_fits(e, data)
  <2> DEFINE buffer == [i \in Slot |-> IF i \in s.len .. s.len + n - 1
                                       THEN data[i - s.len + 1] ELSE s.buffer[i]]
  <2>1. w.buffer = buffer /\ w.len = s.len + n
    BY <1>1, <1>3, <1>6 DEF stream_write
  <2> HIDE DEF w
  <2>2. w \in Stream(Message)
    BY <1>4 DEF Sound
  <2>3. rx_stream(s, data) = [w EXCEPT !.pos = 0]
    BY <1>4, SeekStart DEF rx_stream, w, e
  <2>4. rx_stream(s, data).buffer = buffer /\ rx_stream(s, data).len = s.len + n
    BY <2>1, <2>2, <2>3 DEF Stream
  <2>5. Sound(rx_stream(s, data), Message)
    BY RxSound
  <2>6. s.len + n <= BUFFER_LEN
    BY <1>3, <1>6 DEF stream_fits
  <2> HIDE DEF buffer
  <2>7. tx_data(rx_stream(s, data)) = [k \in 1 .. s.len + n |-> buffer[k - 1]]
    BY <2>4, <2>5, TxContent
  <2>8. ASSUME NEW k \in 1 .. s.len + n
        PROVE  buffer[k - 1] = IF k <= s.len THEN s.buffer[k - 1] ELSE data[k - s.len]
    <3>1. k - 1 \in Slot /\ (k - 1 \in s.len .. s.len + n - 1 <=> ~(k <= s.len))
      BY <1>1, <2>6 DEF Slot
    <3>2. (k - 1) - s.len + 1 = k - s.len
      BY <1>1
    <3> QED BY <3>1, <3>2 DEF buffer
  <2>9. tx_data(s) \o data = [k \in 1 .. s.len + n |->
                                 IF k <= s.len THEN tx_data(s)[k] ELSE data[k - s.len]]
    <3> DEFINE x == tx_data(s)
    <3>1. x \in Seq(Message) /\ Len(x) = s.len
      BY TxContent
    <3> HIDE DEF x
    <3>2. x \o data = [k \in 1 .. Len(x) + Len(data) |-> IF k <= Len(x) THEN x[k] ELSE data[k - Len(x)]]
      BY <3>1, Concatenation
    <3>3. x \o data = [k \in 1 .. s.len + n |-> IF k <= s.len THEN x[k] ELSE data[k - s.len]]
      BY <3>1, <3>2
    <3> QED BY <3>3 DEF x
  <2>10. \A k \in 1 .. s.len : tx_data(s)[k] = s.buffer[k - 1]
    BY TxContent
  <2>11. tx_data(rx_stream(s, data)) = tx_data(s) \o data
    BY <1>1, <2>7, <2>8, <2>9, <2>10
  <2> QED BY <1>6, <1>7, <2>11
<1> QED BY <1>5, <1>6

\* What a codec sends takes the place of all that was there, when it fits.
LEMMA WorkContent ==
    ASSUME NEW s, Sound(s, Message), NEW data \in Seq(Message)
    PROVE  tx_data(stream_write(stream_seek(s, 0, "SEEK_RESET"), data))
             = IF Len(data) <= BUFFER_LEN THEN data ELSE <<>>
<1> DEFINE e == stream_seek(s, 0, "SEEK_RESET")
           t == stream_write(e, data)
           n == Len(data)
<1>1. e.pos = 0 /\ e.len = 0 /\ e.buffer = s.buffer
  BY DEF stream_seek
<1>2. Sound(e, Message) /\ n \in Nat
  <2>1. 0 \in Nat
    OBVIOUS
  <2> QED BY <2>1, SeekSound
<1> HIDE DEF e
<1>3. Sound(t, Message)
  BY <1>2, WriteSound
<1>4. stream_fits(e, data) <=> n <= BUFFER_LEN
  BY <1>1, <1>2 DEF stream_fits
<1>5. CASE ~stream_fits(e, data)
  <2>1. t = e
    BY <1>5 DEF stream_write
  <2> HIDE DEF t
  <2>2. tx_data(t) = <<>>
    BY <1>1, <1>2, <2>1, TxEmpty
  <2> QED BY <1>4, <1>5, <2>2 DEF t, e
<1>6. CASE stream_fits(e, data)
  <2> DEFINE buffer == [i \in Slot |-> IF i \in 0 .. n - 1 THEN data[i + 1] ELSE s.buffer[i]]
  <2>1. 0 + n = n /\ (IF n > 0 THEN n ELSE 0) = n
    BY <1>2
  <2>2. \A i \in Slot : i - 0 + 1 = i + 1
    BY DEF Slot
  <2>3. t.buffer = buffer /\ t.len = n
    BY <1>1, <1>6, <2>1, <2>2 DEF stream_write
  <2> HIDE DEF t
  <2>4. \A k \in 1 .. n : buffer[k - 1] = data[k]
    <3>1. n <= BUFFER_LEN
      BY <1>4, <1>6
    <3>2. \A k \in 1 .. n : k - 1 \in Slot /\ k - 1 \in 0 .. n - 1 /\ (k - 1) + 1 = k
      BY <1>2, <3>1, BufferLenAssumption DEF Slot
    <3> QED BY <3>2
  <2> HIDE DEF buffer
  <2>5. tx_data(t) = [k \in 1 .. n |-> buffer[k - 1]]
    BY <1>3, <2>3, TxContent
  <2>6. data = [k \in 1 .. n |-> data[k]]
    OBVIOUS
  <2>7. tx_data(t) = data
    BY <2>4, <2>5, <2>6
  <2> QED BY <1>4, <1>6, <2>7 DEF t, e
<1> QED BY <1>5, <1>6

-----------------------------------------------------------------------------
(* The refinement *)

LEMMA GotNothing == ASSUME out = <<>> PROVE Got = <<>>
BY DEF Got

LEMMA GotNothingNext == ASSUME out' = <<>> PROVE Got' = <<>>
BY DEF Got

\* One value handed out; TRUE or FALSE stands for its kind.
LEMMA GotOne ==
    ASSUME NEW v, out' = <<v>>, NEW kind \in BOOLEAN, kind <=> v.encoding = "ascii85"
    PROVE  Got' = <<[text |-> kind, data |-> v.data]>>
<1> DEFINE Mark(w) == [text |-> w.encoding = "ascii85", data |-> w.data]
<1>1. Got' = [i \in DOMAIN <<v>> |-> Mark(<<v>>[i])]
  BY DEF Got
<1>2. Mark(v) = [text |-> kind, data |-> v.data]
  BY Zenon
<1> HIDE DEF Mark
<1>3. [i \in DOMAIN <<v>> |-> Mark(<<v>>[i])] = <<Mark(v)>>
  OBVIOUS
<1> QED BY <1>1, <1>2, <1>3

LEMMA BoxBlank ==
    ASSUME \A b \in Bus : bus_ncodec[b] = NULL
    PROVE  Members = {} /\ Box = [b \in Bus |-> <<>>]
BY DEF Members, Box

\* The box of a bus whose codec keeps its stream stays as it is.
LEMMA BoxKept ==
    ASSUME NEW b \in Bus, bus_ncodec'[b] = bus_ncodec[b],
           bus_ncodec[b] # NULL => stream'[bus_ncodec[b]] = stream[bus_ncodec[b]]
    PROVE  Box'[b] = Box[b]
BY DEF Box

LEMMA PairsMean ==
    ASSUME NEW vr \in Vr, NEW b, NEW causality
    PROVE  <<vr, b>> \in Pairs(causality) <=> b \in BusesOf(doc, vr, causality)
BY DEF Pairs

\* A reference that leads to a codec leads to the box of a bus.
LEMMA RoutedToBox ==
    ASSUME TopologyInv, add = Idle, NEW vr \in Vr, NEW causality, NEW index,
           RoutedAt(vr, index, causality)
    PROVE  IF index[vr] = NULL
           THEN {b \in Members : <<vr, b>> \in Pairs(causality)} = {}
           ELSE \E b \in Bus : /\ b \in Members /\ <<vr, b>> \in Pairs(causality)
                               /\ bus_ncodec[b] = index[vr]
<1>1. \A b \in Bus : <<vr, b>> \in Pairs(causality) <=> b \in BusesOf(doc, vr, causality)
  BY PairsMean
<1>2. BusesOf(doc, vr, causality) \subseteq Bus
  BY DEF BusesOf
<1>3. NULL \notin {bus_ncodec[b] : b \in BusesOf(doc, vr, causality)} \ {NULL}
  OBVIOUS
<1> QED BY <1>1, <1>2, <1>3 DEF RoutedAt, Members

\* No document, no plan.
LEMMA PlanBlank ==
    /\ \A vr \in Vr, causality \in {"input", "output"} : BusesOf(<<>>, vr, causality) = {}
    /\ TextOf(<<>>, "output") = {}
<1>1. \A vr \in Vr, causality \in {"input", "output"} : Has(<<>>, vr, causality) = {}
  BY DEF Has
<1> QED BY <1>1 DEF BusesOf, TextOf

LEMMA MailInit ==
    ASSUME Init
    PROVE  Mail!Init
<1>1. Got = <<>> /\ call = [op |-> "none"]
  BY GotNothing DEF Init
<1>2. Members = {} /\ Box = [b \in Bus |-> <<>>]
  BY BoxBlank DEF Init, Blank
<1>3. Plan = [input |-> {}, output |-> {}, text |-> {}]
  <2>1. Pairs("input") = {} /\ Pairs("output") = {}
    BY PlanBlank DEF Pairs, Init
  <2> QED BY <2>1, PlanBlank DEF Plan, Init
<1> QED BY <1>1, <1>2, <1>3 DEF Mail!Init, Mail!NoPlan, Mail!Blank, Init, Blank

LEMMA CreateMail ==
    ASSUME TopologyInv, NEW d \in Document, bus_topology_create(d)
    PROVE  Mail!Create
<1>1. /\ Blank /\ bus_ncodec' = bus_ncodec /\ reset_called' = reset_called
      /\ call' = [op |-> "create"] /\ out' = <<>>
  BY DEF TopologyInv, NoObject, bus_topology_create, maps, Return
<1>2. Members = {} /\ Members' = {} /\ Box' = [b \in Bus |-> <<>>]
  BY <1>1, BoxBlank DEF Blank, Members, Box
<1>3. Got' = <<>> /\ reset_called' = FALSE
  BY <1>1, GotNothingNext DEF Blank
<1> QED BY <1>1, <1>2, <1>3 DEF Mail!Create, Mail!Blank, Mail!Answer

LEMMA AddMail ==
    ASSUME TopologyInv, NEW b \in Bus, NEW c \in Codec, bus_topology_add(b, c)
    PROVE  Mail!Join(b)
<1>1. /\ bus_ncodec \in [Bus -> Codec \cup {NULL}] /\ bus_ncodec' = [bus_ncodec EXCEPT ![b] = c]
      /\ doc' = doc /\ stream' = stream /\ reset_called' = reset_called
      /\ call' = [op |-> "add"] /\ out' = <<>>
  BY DEF TopologyInv, TopologyTypeOK, bus_topology_add, Return
<1>2. Members' = Members \cup {b}
  BY <1>1 DEF Members
<1>3. \A a \in Bus \ {b} : Box'[a] = Box[a]
  BY <1>1, BoxKept
<1>4. Got' = <<>>
  BY <1>1, GotNothingNext
<1>5. Plan' = Plan
  BY <1>1 DEF Plan, Pairs
<1> QED BY <1>1, <1>2, <1>3, <1>4, <1>5 DEF Mail!Join, Mail!Answer

LEMMA ParseMail ==
    ASSUME parse_bus_topology \/ parse_binary_to_text \/ parse_end
    PROVE  UNCHANGED Mail!mailVars
<1>1. UNCHANGED <<doc, bus_ncodec, stream, reset_called, call, out>>
  BY DEF parse_bus_topology, parse_binary_to_text, parse_end, maps
<1> QED BY <1>1 DEF Mail!mailVars, Plan, Pairs, Members, Box, Got

\* A step that leaves the document and the codecs of the buses alone.
LEMMA SameBuses ==
    ASSUME doc' = doc, bus_ncodec' = bus_ncodec
    PROVE  Plan' = Plan /\ Members' = Members
BY DEF Plan, Pairs, Members

LEMMA RxMail ==
    ASSUME TopologyInv, NEW vr \in Vr, NEW data \in Data, bus_topology_rx(vr, Sent(vr, data))
    PROVE  Mail!Deliver(vr, data)
<1> DEFINE c == rx_vr_index[vr]
<1>1. /\ doc' = doc /\ bus_ncodec' = bus_ncodec /\ reset_called' = reset_called
      /\ call' = [op |-> "rx", vr |-> vr, data |-> data] /\ out' = <<>>
      /\ add = Idle
      /\ stream' = IF c = NULL THEN stream
                   ELSE [stream EXCEPT ![c] = rx_stream(stream[c], received(vr, Sent(vr, data)))]
  <2>1. Sent(vr, data).data = data
    BY DEF Sent, Text, Plain
  <2> QED BY <2>1 DEF bus_topology_rx, Ready, maps, Return
<1>2. Got' = <<>> /\ Plan' = Plan /\ Members' = Members
  BY <1>1, GotNothingNext, SameBuses
<1>3. RoutedAt(vr, rx_vr_index, "input") /\ Mail!Input(vr) = {b \in Members : <<vr, b>> \in Pairs("input")}
  BY <1>1, RoutedBetween DEF Routed, Mail!Input, Plan
<1>4. CASE c = NULL
  <2>1. Mail!Input(vr) = {}
    BY <1>1, <1>3, <1>4, RoutedToBox
  <2>2. Box' = Box
    BY <1>1, <1>4 DEF Box
  <2> QED BY <1>1, <1>2, <2>1, <2>2 DEF Mail!Deliver, Mail!Answer
<1>5. CASE c # NULL
  <2>1. PICK b \in Bus : b \in Mail!Input(vr) /\ bus_ncodec[b] = c
    BY <1>1, <1>3, <1>5, RoutedToBox
  <2>2. /\ c \in Codec /\ Sound(stream[c], Message) /\ stream \in [Codec -> Stream(Message)]
        /\ data \in Seq(Message)
    BY <1>5 DEF TopologyInv, TopologyTypeOK, Streams
  <2>3. stream' = [stream EXCEPT ![c] = rx_stream(stream[c], data)]
    BY <1>1, <1>5, ReceivedSound
  <2>4. Box[b] = tx_data(stream[c]) /\ Box'[b] = tx_data(rx_stream(stream[c], data))
    BY <1>1, <1>5, <2>1, <2>2, <2>3 DEF Box
  <2>5. ASSUME NEW a \in Bus, a # b PROVE Box'[a] = Box[a]
    <3>1. bus_ncodec[a] # c
      BY <1>5, <2>1, <2>5 DEF TopologyInv, OnOneBus
    <3>2. bus_ncodec[a] # NULL => stream'[bus_ncodec[a]] = stream[bus_ncodec[a]]
      BY <2>2, <2>3, <3>1 DEF TopologyInv, TopologyTypeOK
    <3> QED BY <1>1, <3>2, BoxKept
  <2>6. Box'[b] = IF Len(Box[b]) + Len(data) <= BUFFER_LEN THEN Box[b] \o data ELSE Box[b]
    BY <2>2, <2>4, RxContent
  <2>7. Box \in [Bus -> {Box[a] : a \in Bus}] /\ Box = [a \in Bus |-> Box[a]] /\ Box' = [a \in Bus |-> Box'[a]]
    BY DEF Box
  <2>8. Box' = IF Len(Box[b]) + Len(data) <= BUFFER_LEN THEN [Box EXCEPT ![b] = @ \o data] ELSE Box
    BY <2>5, <2>6, <2>7
  <2> QED BY <1>1, <1>2, <2>1, <2>8 DEF Mail!Deliver, Mail!Answer
<1> QED BY <1>4, <1>5

LEMMA TxMail ==
    ASSUME TopologyInv, NEW vr \in Vr, bus_topology_tx(vr)
    PROVE  Mail!Collect(vr)
<1> DEFINE c == tx_vr_index[vr]
<1>1. /\ doc' = doc /\ bus_ncodec' = bus_ncodec /\ reset_called' = FALSE /\ add = Idle
      /\ call' = [op |-> "tx", vr |-> vr]
  BY DEF bus_topology_tx, Ready, maps
<1>2. Plan' = Plan /\ Members' = Members
  BY <1>1, SameBuses
<1>3. /\ RoutedAt(vr, tx_vr_index, "output")
      /\ Mail!Output(vr) = {b \in Members : <<vr, b>> \in Pairs("output")}
  BY <1>1, RoutedBetween DEF Routed, Mail!Output, Plan
<1>4. CASE c = NULL
  <2>1. stream' = stream /\ out' = <<>>
    BY <1>4 DEF bus_topology_tx
  <2>2. Mail!Output(vr) = {}
    BY <1>1, <1>3, <1>4, RoutedToBox
  <2>3. Box' = Box /\ Got' = <<>>
    BY <1>1, <2>1, GotNothingNext DEF Box
  <2> QED BY <1>1, <1>2, <2>2, <2>3 DEF Mail!Collect
<1>5. CASE c # NULL
  <2>1. PICK b \in Bus : b \in Mail!Output(vr) /\ bus_ncodec[b] = c
    BY <1>1, <1>3, <1>5, RoutedToBox
  <2>2. c \in Codec /\ Sound(stream[c], Message) /\ stream \in [Codec -> Stream(Message)]
    BY <1>5 DEF TopologyInv, TopologyTypeOK, Streams
  <2>3. /\ stream' = [stream EXCEPT ![c] = tx_stream(stream[c])]
        /\ out' = <<IF vr \in encode_func THEN Text(tx_data(stream[c])) ELSE Plain(tx_data(stream[c]))>>
    BY <1>5 DEF bus_topology_tx
  <2>4. ASSUME NEW a \in Bus PROVE Box'[a] = Box[a]
    <3>1. CASE bus_ncodec[a] = c
      <4>1. Box[a] = tx_data(stream[c]) /\ Box'[a] = tx_data(tx_stream(stream[c]))
        BY <1>1, <1>5, <2>2, <2>3, <3>1 DEF Box
      <4> QED BY <2>2, <4>1, TxKeeps
    <3>2. CASE bus_ncodec[a] # c
      <4>1. bus_ncodec[a] # NULL => stream'[bus_ncodec[a]] = stream[bus_ncodec[a]]
        BY <2>2, <2>3, <3>2 DEF TopologyInv, TopologyTypeOK
      <4> QED BY <1>1, <4>1, BoxKept
    <3> QED BY <3>1, <3>2
  <2>5. Box' = Box
    <3>1. Box = [a \in Bus |-> Box[a]] /\ Box' = [a \in Bus |-> Box'[a]]
      BY DEF Box
    <3> QED BY <2>4, <3>1
  <2>6. vr \in encode_func <=> vr \in Plan.text
    <3>1. bus_ncodec[b] # NULL
      BY <1>5, <2>1
    <3> QED BY <1>1, <3>1 DEF TopologyInv, Encoded, Idle, Plan
  <2>7. Box[b] = tx_data(stream[c])
    BY <1>5, <2>1 DEF Box
  <2>8. Got' = <<[text |-> vr \in Plan.text, data |-> Box[b]]>>
    <3>1. CASE vr \in encode_func
      <4>1. out' = <<[encoding |-> "ascii85", data |-> Box[b]]>>
        BY <2>3, <2>7, <3>1 DEF Text
      <4> DEFINE v == [encoding |-> "ascii85", data |-> Box[b]]
      <4>2. v.encoding = "ascii85" /\ v.data = Box[b] /\ out' = <<v>>
        BY <4>1
      <4> HIDE DEF v
      <4>3. TRUE <=> v.encoding = "ascii85"
        BY <4>2
      <4>4. Got' = <<[text |-> TRUE, data |-> v.data]>>
        BY <4>2, <4>3, GotOne, Zenon
      <4>5. (vr \in Plan.text) = TRUE
        BY <2>6, <3>1
      <4> QED BY <4>2, <4>4, <4>5
    <3>2. CASE vr \notin encode_func
      <4>1. out' = <<[encoding |-> "none", data |-> Box[b]]>>
        BY <2>3, <2>7, <3>2 DEF Plain
      <4> DEFINE v == [encoding |-> "none", data |-> Box[b]]
      <4>2. v.encoding = "none" /\ v.data = Box[b] /\ out' = <<v>>
        BY <4>1
      <4> HIDE DEF v
      <4>3. FALSE <=> v.encoding = "ascii85"
        BY <4>2
      <4>4. Got' = <<[text |-> FALSE, data |-> v.data]>>
        BY <4>2, <4>3, GotOne, Zenon
      <4>5. (vr \in Plan.text) = FALSE
        BY <2>6, <3>2
      <4> QED BY <4>2, <4>4, <4>5
    <3> QED BY <3>1, <3>2
  <2> QED BY <1>1, <1>2, <2>1, <2>5, <2>8 DEF Mail!Collect
<1> QED BY <1>4, <1>5

LEMMA ResetMail ==
    ASSUME TopologyInv, bus_topology_reset
    PROVE  Mail!Empty
<1>1. /\ doc' = doc /\ bus_ncodec' = bus_ncodec /\ reset_called' = TRUE
      /\ call' = [op |-> "reset"] /\ out' = <<>>
  BY DEF bus_topology_reset, maps, Return
<1>2. Plan' = Plan /\ Members' = Members /\ Got' = <<>>
  BY <1>1, SameBuses, GotNothingNext
<1>3. CASE reset_called
  <2>1. Box' = Box
    BY <1>1, <1>3 DEF bus_topology_reset, Box
  <2> QED BY <1>1, <1>2, <1>3, <2>1 DEF Mail!Empty, Mail!Answer
<1>4. CASE ~reset_called
  <2>1. ASSUME NEW c \in Joined PROVE c \in Codec /\ tx_data(stream'[c]) = <<>>
    <3>1. c \in Codec /\ Sound(stream[c], Message)
      BY <2>1 DEF TopologyInv, TopologyTypeOK, Streams, Joined
    <3>2. stream'[c] = stream_seek(stream[c], 0, "SEEK_RESET")
      BY <1>4, <2>1, <3>1 DEF bus_topology_reset
    <3>3. Sound(stream'[c], Message)
      BY <3>1, <3>2, SeekSound
    <3>4. stream'[c].len = 0
      BY <3>2 DEF stream_seek
    <3> QED BY <3>1, <3>3, <3>4, TxEmpty
  <2>2. Box' = [b \in Bus |-> <<>>]
    BY <1>1, <2>1 DEF Box, Joined
  <2> QED BY <1>1, <1>2, <1>4, <2>2 DEF Mail!Empty, Mail!Blank, Mail!Answer
<1> QED BY <1>3, <1>4

LEMMA DestroyMail ==
    ASSUME bus_topology_destroy
    PROVE  Mail!Destroy
<1>1. /\ doc' = <<>> /\ bus_ncodec' = [b \in Bus |-> NULL] /\ reset_called' = FALSE
      /\ call' = [op |-> "destroy"] /\ out' = <<>>
  BY DEF bus_topology_destroy, Return
<1>2. Plan' = [input |-> {}, output |-> {}, text |-> {}]
  <2>1. Pairs("input")' = {} /\ Pairs("output")' = {}
    BY <1>1, PlanBlank DEF Pairs
  <2> QED BY <1>1, <2>1, PlanBlank DEF Plan
<1>3. Members' = {} /\ Box' = [b \in Bus |-> <<>>] /\ Got' = <<>>
  BY <1>1, GotNothingNext DEF Members, Box
<1> QED BY <1>1, <1>2, <1>3 DEF Mail!Destroy, Mail!NoPlan, Mail!Blank, Mail!Answer

\* What a client does with a codec that is on no bus reaches no box.
LEMMA ApartMail ==
    ASSUME TopologyInv, NEW c \in Codec, c \notin Joined,
           Open(c) \/ Close(c) \/ \E data \in Data : Work(c, data)
    PROVE  Mail!Apart
<1>1. /\ doc' = doc /\ bus_ncodec' = bus_ncodec /\ reset_called' = reset_called
      /\ call' = [op |-> "client"] /\ out' = <<>>
  BY DEF Open, Close, Work, maps, Return
<1>2. Plan' = Plan /\ Members' = Members /\ Got' = <<>>
  BY <1>1, SameBuses, GotNothingNext
<1>3. /\ stream \in [Codec -> Stream(Message)]
      /\ \A b \in Bus : bus_ncodec[b] # NULL => bus_ncodec[b] \in Codec /\ bus_ncodec[b] # c
  BY DEF TopologyInv, TopologyTypeOK, Joined
<1>4. \A b \in Bus : bus_ncodec[b] # NULL => stream'[bus_ncodec[b]] = stream[bus_ncodec[b]]
  BY <1>3 DEF Open, Close, Work, StreamsLeft
<1>5. Box' = Box
  <2>1. \A a \in Bus : Box'[a] = Box[a]
    BY <1>1, <1>4, BoxKept
  <2>2. Box = [a \in Bus |-> Box[a]] /\ Box' = [a \in Bus |-> Box'[a]]
    BY DEF Box
  <2> QED BY <2>1, <2>2
<1> QED BY <1>1, <1>2, <1>5 DEF Mail!Apart, Mail!Answer

\* What it does with the codec of a bus is the work of that bus.
LEMMA WorkMail ==
    ASSUME TopologyInv, NEW c \in Joined, NEW data \in Data, Work(c, data)
    PROVE  \E b \in Bus : Mail!Work(b, data)
<1>1. /\ doc' = doc /\ bus_ncodec' = bus_ncodec /\ reset_called' = reset_called
      /\ call' = [op |-> "client"] /\ out' = <<>>
      /\ stream' = [stream EXCEPT ![c] = stream_write(stream_seek(stream[c], 0, "SEEK_RESET"), data)]
  BY DEF Work, maps, Return
<1>2. Plan' = Plan /\ Members' = Members /\ Got' = <<>>
  BY <1>1, SameBuses, GotNothingNext
<1>3. /\ stream \in [Codec -> Stream(Message)] /\ data \in Seq(Message)
      /\ c \in Codec /\ c # NULL /\ Sound(stream[c], Message)
      /\ bus_ncodec \in [Bus -> Codec \cup {NULL}]
  BY DEF TopologyInv, TopologyTypeOK, Streams, Joined
<1>4. PICK b \in Bus : bus_ncodec[b] = c
  BY DEF Joined
<1>5. b \in Members
  BY <1>3, <1>4 DEF Members
<1>6. ASSUME NEW a \in Bus, a # b PROVE Box'[a] = Box[a]
  <2>1. bus_ncodec[a] # c
    BY <1>3, <1>4, <1>6 DEF TopologyInv, OnOneBus
  <2>2. bus_ncodec[a] # NULL => stream'[bus_ncodec[a]] = stream[bus_ncodec[a]]
    BY <1>1, <1>3, <2>1
  <2> QED BY <1>1, <2>2, BoxKept
<1>7. Box'[b] = IF Len(data) <= BUFFER_LEN THEN data ELSE <<>>
  <2>1. Box'[b] = tx_data(stream_write(stream_seek(stream[c], 0, "SEEK_RESET"), data))
    BY <1>1, <1>3, <1>4 DEF Box
  <2> QED BY <1>3, <2>1, WorkContent
<1>8. Box' = [Box EXCEPT ![b] = IF Len(data) <= BUFFER_LEN THEN data ELSE <<>>]
  <2>1. Box = [a \in Bus |-> Box[a]] /\ Box' = [a \in Bus |-> Box'[a]]
    BY DEF Box
  <2> QED BY <1>6, <1>7, <2>1
<1> QED BY <1>1, <1>2, <1>5, <1>8 DEF Mail!Work, Mail!Answer

LEMMA MailStep ==
    ASSUME TopologyInv, [Next]_topologyVars
    PROVE  [Mail!Next]_(Mail!mailVars)
<1>1. CASE UNCHANGED topologyVars
  BY <1>1 DEF topologyVars, maps, Mail!mailVars, Plan, Pairs, Members, Box, Got
<1>2. CASE Next
  <2>1. ASSUME NEW d \in Document, bus_topology_create(d) PROVE Mail!Next
    BY <2>1, CreateMail DEF Mail!Next
  <2>2. ASSUME NEW b \in Bus, NEW c \in Codec, bus_topology_add(b, c) PROVE Mail!Next
    BY <2>2, AddMail DEF Mail!Next
  <2>3. ASSUME NEW vr \in Vr, NEW data \in Data, bus_topology_rx(vr, Sent(vr, data)) PROVE Mail!Next
    BY <2>3, RxMail DEF Mail!Next
  <2>4. ASSUME NEW vr \in Vr, bus_topology_tx(vr) PROVE Mail!Next
    BY <2>4, TxMail DEF Mail!Next
  <2>5. bus_topology_reset \/ bus_topology_destroy => Mail!Next
    BY ResetMail, DestroyMail DEF Mail!Next
  <2>6. ASSUME NEW c \in Codec, Open(c) \/ Close(c) \/ \E data \in Data : Work(c, data) PROVE Mail!Next
    <3>1. CASE c \notin Joined
      BY <2>6, <3>1, ApartMail DEF Mail!Next
    <3>2. CASE c \in Joined
      <4>1. PICK data \in Data : Work(c, data)
        BY <2>6, <3>2 DEF TopologyInv, OnOneBus, Open, Close
      <4> QED BY <3>2, <4>1, WorkMail DEF Mail!Next
    <3> QED BY <3>1, <3>2
  <2> QED BY <1>2, <2>1, <2>2, <2>3, <2>4, <2>5, <2>6, ParseMail DEF Next
<1> QED BY <1>1, <1>2

\* The object implements a mail box for each bus: whatever the documents, the
\* order in which buses are added and their codecs replaced, an rx appends its
\* data to the box that the document gives its reference and changes no other,
\* and loses it, as a whole, only when the box has no room for it.
THEOREM TopologyIsMail == Spec => ImplementsBusMail
<1>1. Init => Mail!Init
  BY MailInit
<1>2. TopologyInv /\ [Next]_topologyVars => [Mail!Next]_(Mail!mailVars)
  BY MailStep
<1> QED BY <1>1, <1>2, TopologyInvariant, PTL DEF Spec, Mail!Spec, ImplementsBusMail
=============================================================================
