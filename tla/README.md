# A TLA+ model of the Network Codec and of the FMI bus topology

This directory holds a specification of the parts of this repository that move
messages: the NCodec library with its CAN and PDU codecs (`dse/ncodec`), the FMI
layered standard "bus topology" that carries its streams over FMI variables
(`modelica/fmi-ls-bus-topology`), and its text encoding
(`modelica/fmi-ls-binary-to-text`). Its modules are model-checked with TLC and
their safety properties are proved with TLAPS. Paths below are relative to the
repository.

## 1. The system

    importer --fmi2SetString--> BusTopology --rx--> BufferStream <--read/seek-- CAN codec <--ncodec_read-- FMU
             <-fmi2GetString---     "       <--tx--      "       <--write------     "    <--write/flush--
             --fmi2DoStep--------------------------------------------------------------------------------^

Everything is sequential C. What makes it hard is that the importer chooses
the order of the calls, that one stream carries both directions, and that a
codec keeps pointers into the stream from one call to the next.

| Component | State | Operations | What makes it correct | Modules |
|---|---|---|---|---|
| Bus stream (`bus-topology/code/stream.c`) | array, `pos`, `len` | read, write, seek (SET, CUR, END, RESET, 42), tell, eof | no access outside the array; it behaves as a bounded file | `BufferStream`, `StreamFile`, `ByteFile`, `TextStream` |
| CAN codec (`automotive-bus/frame_can_fbs.c`) | flatbuffer builder, parse state (`msg_ptr`, `vector`, `vector_idx`, `vector_len`), `node_id` | write, read, flush, truncate | each frame read once, in order, filtered by node; the builder never loses or repeats a frame; no pointer into replaced content is followed; a drain ends | `FbsCodec`, `CanCodec`, `CodecSession`, `FrameLog` |
| NCodec API (`dse/ncodec/codec.c`) | function tables | dispatch, trace, seek, tell | documented return codes | `NcodecLife`; seek in `FbsCodec` |
| Codec creation and configuration (`automotive-bus/codec.c`) | selectors, parameters | create from a MIME type, config, stat, close | the function table fits the MIME type; stat reports what was set; a failure leaves no memory | `NcodecLife` |
| `ncodec_open` (`bus-topology/code/ncodec.c`) | `errno` | open | `errno` tells why; nothing is lost | `NcodecLife` |
| PDU codec (`automotive-bus/pdu_fbs.c`) | as the CAN codec | write, read, flush, truncate | what was read can be written on; nothing stale in the caller's record | `FbsCodec`, `CodecSession`, `PduCodec` |
| Bus Topology object (`bus_topology.c`) | codecs by bus, value reference indices, encoders, `reset_called`, free list | create, add, rx, tx, reset, destroy | every value reaches the bus the document names and no other; no map leads to a closed codec; values live until the reset that frees them; one reset per receive cycle | `BusTopology`, `TopologyObject`, `BusMail`, `FmuInstance` |
| Example FMU (`code/example/fmu.c`) | topology, codec, stream | Instantiate, ExitInitializationMode, Get, Set, DoStep, FreeInstance | hears what was set, sends what it wrote, every call returns, what it owns is freed | `FmuInstance`, `FmuNetwork`, `FmuLife` |
| Model description parser (`parser.c`) | none; fills the maps of the Bus Topology object | two loops over the scalar variables | the maps say what the annotations say | `ModelDescription` |
| ASCII85 (`ascii85.c`) | none | encode, decode | decode(encode(x)) = x, in the memory it allocates | `Ascii85` |
| Example codec and stream (`dse/ncodec/example`) | — | stubs | — | not modelled, see section 6 |

## 2. Modules

Order of reading:

1. **`BufferStream`** — the stream as operators on a record; the array's unit
   is a parameter. `BUFFER_LEN` is its size (4096 bytes in the code).
2. **`StreamFile`** owns one stream of bytes and calls it in any order. It
   implements **`ByteFile`**, the abstract bounded file, with the mapping
   `content` = the first `len` units, `at` = `pos`.
3. **`BusTopology`** — `bus_topology_rx` and `bus_topology_tx` as operators on
   one stream.
4. **`FbsCodec`** — what both codecs do: `pdu_fbs.c` repeats the stream part of
   `frame_can_fbs.c` statement by statement. One codec instance over a stream
   whose unit is one size-prefixed message. Every API call is an action, in any
   order, as is a delivery by `bus_topology_rx`. A message keeps its file
   identifier, whether its table has a vector, and its entries; of an entry the
   module looks at its union type and its sender. The parse state is the
   code's: pointers are slots of the stream, and a cached vector whose slot was
   overwritten dereferences to any entries (`Deref`). **`CanCodec`** is
   `FbsCodec` with CAN frames, tagged with the `node_id` of the moment.
5. **`CodecSession`** — `FbsCodec` with a client that keeps to the discipline
   documented in `dse/ncodec/codec.c:205-207` (read until ENOMSG), recorded in
   `phase`. It implements **`FrameLog`**: a log of entries with a cursor and an
   outbox. `op` of the log, mapped to the call in `ret`, ties each step to its
   call: only a read may return an entry, a read without result leaves none
   that the client may see, and `used`, mapped to the length of the stream,
   says exactly which batch fits and which is lost.
6. **`PduCodec`** — a session whose entries are PDUs, with the two things
   `pdu_fbs.c` adds: the default senders of a write, and the caller's
   `NCodecPdu` that a read overwrites as far as the PDU goes. The transport is
   a C union; what a Struct writes over an Ip's address is modelled by
   `Overlaid`. The client is a gateway that may write on what it has read.
7. **`NcodecLife`** — creation, configuration, stat, dispatch and close of one
   codec, with `ncodec_open` and its `errno`, and a count of the live blocks of
   each kind of memory. `ncodec_create` configures one item of the MIME type
   per step. The calls have a return code here; what they do to messages is in
   the modules above.
8. **`FmuInstance`** — the FMU of `fmu.c`: an FMI call is a sequence of codec
   calls, one step each. It EXTENDS `CodecSession` and uses the actions of
   `CanCodec`, not those of the session; that its steps *are* session steps is
   the property `KeepsToSession`. Two variables are history and read by no
   guard: `heard`, what the step that runs has read, and `unread`, that a value
   was received since the last step and no Get has come in between.
9. **`FmuNetwork`** — several FMUs and an importer. An FMI call is one step.
   The importer is not part of the repository and is modelled from the FMI
   calls that `fmu.c` implements: `BatchNext` (step all, get all, set all) and
   `ExchangeNext` (one connection at a time, get then set). The read loop is
   `Filtered`. `WellConnected` names the connections whose messages fit.
10. **`Ascii85`** — both functions as operators on sequences, with the padding,
   the `z` shorthand and the decoder's sum modulo 2^32. The width of a byte and
   the base are parameters, so that TLC can run all bytes of a small alphabet.
11. **`TextStream`** — `StreamFile` with the calls of `bus_topology_rx` and
   `bus_topology_tx` on the same stream of bytes, through the encoding, one call
   on the stream per step. It justifies that `BusTopology` carries a text as the
   data it stands for, in one operation.
12. **`ModelDescription`** — `parser.c`. A document is the sequence of its
   scalar variables, each with the attributes and annotations the loops look
   at; one turn of each loop is an operator from a map to a map.
13. **`TopologyObject`** — the Bus Topology object with all its maps and several
   buses. A `bus_topology_add` runs the two loops of the parser, a turn per
   step. Its client opens codecs, adds, replaces and closes them, and works on
   their streams between the calls. It implements **`BusMail`**: a mail box for
   each bus that has joined, with the mapping `box` = the data in the stream of
   the bus's codec, `plan` = what the document says. `call` is history, the last
   call with its arguments, and the same in both: a delivery is given a
   reference and data, and the box of that reference gets those data; work is
   the client's and no call of the object. Only where `plan` leaves a choice,
   a reference that two buses share, does a delivery have one.
14. **`FmuLife`** — `NcodecLife` with the FMU as the one who uses the codec:
   instantiate, initialise (also again), free. `fmi2ExitInitializationMode` is a
   sequence of steps: the topology is created, `ncodec_open` parses the MIME
   type, the stat loop looks for the bus id, the codec is added to its bus.
   `lost` counts what nothing refers to any more.

`MC*.tla` and `*.cfg` are the instances TLC runs; `*Proof.tla` hold theorems.
All theorems are listed in `PROJECT.json`.
Operators whose comment begins with "Faulty:" are plausible bugs, never used
by a specification; putting one in place of the operator that follows it makes
TLC find the property it is meant for violated (`PROJECT.json`, "mutants").

### What the abstraction leaves out

A unit of the stream is a whole message, so the models do not see a message
that was cut short or a position inside one. Delivered content that is not a
message is represented by `ZERO` (a zero size prefix, what a zeroed array
holds) and by messages with another identifier. NULL instances, NULL messages
and missing streams are only in `NcodecLife`: they return an error and change
nothing. Memory is modelled there, not in the other modules; a failing `malloc`
is not modelled anywhere, the code has no path for it. In `TopologyObject` a
codec is its stream; what the codec does with it is in the modules above. In
`FmuLife` the codec is what `NcodecLife` has of it, and the topology object is
the set of its buses.

## 3. What the runs check

| Run | Question | Bounds | Result |
|---|---|---|---|
| `text_stream` | Is the stream a bounded file, also between the calls of an rx or tx, and does a text restore what is in it? `InBounds`, `ImplementsByteFile`, `RoundTrip`, `FitsAllocation` | 9 bytes of 2 values, chunks of 0, 1 and 2 bytes, a byte of 6 and a base of 5 values, seeks to 0..10 | holds, 104960 states |
| `can_codec` | What holds under any call order? `TypeOK`, `BuilderOpenIffFrames`, `VectorOfMessage`, `EnomsgIsStable` | 2 messages in the stream, 1 frame per flush, node ids modulo 2, messages that are foreign, empty, without vector, or of three frames | holds, 40045 states |
| `codec_session` | Is the codec a log of entries for a disciplined client? `NoDanglingVector`, `ImplementsFrameLog`, `DrainEnds` | 3 messages, 2 entries per flush, 2 delivered values | holds, 260942 states |
| `fmu_instance` | Does the FMU keep the discipline under any importer? `FTypeOK`, `HearsWhatWasSet`, `StepLeavesOwnMessage`, `KeepsToSession`, `CallReturns` | 3 messages, 2 values per call, one receive, one transmit, one unindexed reference | holds, 4991 states |
| `fmu_network` | Does every message arrive exactly once? `NetTypeOK`, `HeardExactlyOnce`, `GotOwnMessage`, `EveryMessageHeard` | 3 FMUs, 4 connections, rounds modulo 3 | holds, 264 states |
| `bus_topology` | Does every value reach its bus, and only that, whatever is added, replaced, closed and reset in between? `TopologyTypeOK`, `RoutedByDocument`, `NoClosedCodec`, `HeldValuesLive`, `FreeListHasAll`, `ImplementsBusMail` | 2 buses, 3 codecs, 3 value references, 2 values at a time, streams of 2 messages, 2 documents: with texts and without, references shared by variables of two buses, annotations that come twice or under the other tool, a variable without causality | holds, 433353 states |
| `pdu_codec` | Can a gateway forward what it reads? `PduTypeOK`, `ForwardsComplete` | 2 messages, PDUs of every transport, an Ip with and without its unions, senders modulo 3 behind ids modulo 2 | holds, 1398880 states |
| `ncodec_life` | Does every creation end in a working codec or in nothing, and what does an FMU leave behind? `LifeTypeOK`, `NothingLost`, `TableFitsMime`, `StatTellsNumber`, `LostIsKnown`, `BusAsNamed`, `InitReturns` | a client: both MIME types, complete, cut by one item, or with one of 7 more in front or behind; 5 configurations. An FMU: 4 MIME types, without a bus id, with one, with one that is replaced; 3 initialisations of an instance | holds, 30718 states |
| `truncate_forgets` | Does a truncate forget what was being read? | as `can_codec` | **violated** |
| `flush_reaches_stream` | Does a flush put into the stream what it reports? | as `can_codec` | **violated** |
| `fmu_exchange` | Does every message arrive under the other importer? | 2 FMUs, both ways | **violated** |
| `pdu_reset` | Is the record after a read that of the PDU? | as `pdu_codec` | **violated** |

Why the bounds are enough. The codec looks at one message at a time and at the
boundary to the next; two or three slots hold a message being read, one to skip
and one to stop at, and are few enough to be full after a few calls. `UINT8` of
2 or 4 makes `node_id` wrap. Frames of the own node, of another node and of the
union's other type, in one message, exercise each branch of the frame loop.
Rounds are counted modulo 3: a message two rounds old differs from that of
this round and from that of the last. Nine bytes hold two whole groups of
ASCII85 and the begin of a third, which is where the `z` shorthand and the
padding meet. Of three codecs two are on the buses and one replaces either;
codecs and blocks of memory are interchangeable, so the run uses symmetry. The
MIME types of the FMU are ones its codec supports, as the `MIMETYPE` of `fmu.c`
is; the `Fail` of `Opening` is there for others, which would end in `strcmp` of
NULL.

### Fairness

`CodecSession` assumes weak fairness of the read during a drain: the clients in
the repository call `ncodec_read` in a loop that only an error ends
(`fmu.c:211-215`). `FmuInstance` assumes that a call that has begun goes on
(`Running`): the code is sequential and never waits. `FmuNetwork` assumes that
the importer goes on stepping. `FmuLife` assumes that an initialisation that has
begun goes on (`Initialising`). Nothing is assumed about which call an importer
makes next.

## 4. Disagreements between the code and its documents

Shown by a run (a "violation" run, `PROJECT.json`, "findings"):

1. `can_truncate` resets the builder and the stream but not the parse state
   (`frame_can_fbs.c:219-229`). A read right after it returns the next frame of
   the truncated content, while `codec.c:296` says "internal buffers were
   truncated". Clients that drain first, as the example FMU does, are not
   affected: that is what `NoDanglingVector` and `KeepsToSession` say.
2. `can_flush` ignores the result of `stream->write` (line 212): when the stream
   is full the frames are lost and their length is returned as if they had been
   written (`codec.c:264-265`).
3. `pdu_read` says "Reset the message" (`pdu_fbs.c:455`) and resets the payload.
   The transport, and the address and adapter of an Ip, stay those of an
   earlier PDU when the present one has none. A PDU that carries everything is
   not affected (`ForwardsComplete`).
4. The stream is truncated by the first Set after a Get
   (`bus_topology.c:217-225`). An importer that serves one connection at a time
   sets into an FMU before it has got that FMU's message, which is lost; and
   what is got afterwards is the message just received, which its sender's
   peers hear as new. `README.md:302` of the layered standard claims no
   limitation with FMI importers.

Read off a definition of the models, without a run of its own:

5. A Stream table without its (optional) vector makes the read return -ENOMSG
   with messages unread, against `codec.c:202-203`, and leave `msg_ptr` set
   (`ReadNoVector`, `ReadStuck`).
6. `bus_topology_tx` leaves the stream at its end. A `fmi2GetString` between
   `fmi2SetString` and `fmi2DoStep` makes the step hear nothing, which
   `HearsWhatWasSet` says too: `unread` is then false.
7. A selector given to `ncodec_config` is stored and reported by stat, but the
   function table stays (`automotive-bus/codec.c:67`); `codec.c:102-104` says it
   takes priority over the MIME type (`ncodec_config` of `NcodecLife`, which
   leaves `codec` unchanged). `TableFitsMime` is therefore about instances whose
   selectors are those of their MIME type.
8. `ncodec_read` of NULL returns -ENOMSG, documented as -ENOSTR
   (`codec.c:230-231`); `ncodec_tell` without a stream returns -ENOSTR,
   documented as -ENOSR (`codec.c:369-370`) (`ncodec_call`, `ncodec_stream`).
9. `ncodec_stat` of NULL returns an empty item without setting the index to -1
   (`codec.c:133-135`): a loop that waits for -1 does not end (`ncodec_stat`).
10. `ncodec_open` sets EINVAL, never ENODATA (`ncodec.c:39`), when the MIME type
   is refused (`Fail`); and with a NULL stream it returns NULL for a codec it
   has created and does not close (`Complete`): the theorems about
   `NcodecLife` assume a stream.

11. `fmi2FreeInstance` closes the codec through the topology and frees the
    topology; the stream it made with `stream_create` is never freed, nor is a
    codec without bus id, and a second `fmi2ExitInitializationMode` leaves all
    three of the first behind (`fmu.c:146-147`), while `bus_topology.c:240` says
    "Destroy the `BusTopology` object and all related resources" (`LostIsKnown`).
12. A `fmi2GetString` of any reference, also of one that is on no bus, makes the
    next `fmi2SetString` truncate the streams of all buses
    (`bus_topology.c:158`, `:222`): in `BusMail`, `Collect` and `Empty`.
13. `fmu.c:126` looks for `../modelDescription.yaml`; the example has
    `modelDescription.xml`, the name in `bus_topology.c:25`. The models take
    the document as given.
14. An FMU whose transmit variable nobody gets is never truncated by the Sets
    that follow its step: `reset_called` stays set (`bus_topology.c:222`) and its
    own message stays in the stream in front of what is delivered. Only the
    filter on `node_id` keeps it from hearing it; with a `node_id` of 0, which
    turns the filter off (`frame_can_fbs.c:170`), it does. The last conjunct of
    `WellConnected`.

## 5. What is proved

Eight modules hold theorems; all their constants are arbitrary under the named
assumptions of the modules (`BufferLenAssumption`, `CodecAssumption`,
`WireAssumption`, `SessionAssumption`, `FmuAssumption`, `NetworkAssumption` and
so on), which TLC evaluates in the runs. Every safety property of a passing run,
invariant, action property or refinement, is a theorem here; what TLC shows of
the instances of section 3 is then true of every size of the stream, set of
messages, document, and number of nodes, buses and FMUs.

- **`BufferStreamProof`** — lemmas: create, write, seek, consuming read, rx and
  tx keep a stream *sound* (`Sound`: well-typed and `pos <= len`); what a write
  or an rx appends (`WriteAppends`, `RxAppends`). Later proofs cite them and
  rarely open the stream's definitions. The second half is about `FlattenSeq`,
  a fold: that it is the concatenation of its parts (`FlattenAppend`,
  `FlattenNext`). The induction theorems of the library take an operator as a
  parameter, which the provers cannot instantiate; `Induction` is the same fact
  about a *set* of numbers, shown with the pigeonhole principle for finite sets,
  and carries all inductions of this project.
- **`TextStreamProof`** — the text encoding and the stream of bytes. A whole
  group (`WholeGroup`) and the last groups of one, two and three bytes are
  restored from their digits, for every width of a byte and every base that
  satisfy `Ascii85Assumption`, 256 and 85 among them. `AllRestored` puts the
  groups together: for data of any length the decoder's scan stands at the
  begin of a group after each group (`Restored`), whether it was written as five
  digits or as a `z`, the count of `z` and the padding give back the length
  (`CountsFive`), and the last group is cut where it was padded. Of the stream:
  `StreamInBounds`, and `StreamIsFile` (every step of the stream is a step of
  the bounded file; the delicate step is the write, where content grows or is
  overwritten in the middle). `TextIsStream` says that an rx and a tx are
  callers of the stream as any others, hence `TextInBounds` and `TextIsFile`;
  `TextRoundTrip` and `TextFits` follow from `AllRestored`, since what a read
  returns is bytes (`BytesRead`).
- **`CodecSessionProof`** — of the codec under any client: `CodecTypeOK`,
  `CodecBuilder`, `CodecVector` and `CodecEnomsg`. The invariant `CodecInv` adds
  to the checked ones `AfterEnomsg`: after a read without result the stream is
  at its end and no vector is in hand. Without it `EnomsgIsStable` is not
  inductive. `read` is first reduced to what each of its ends leaves
  (`ReadOutcome`), which is all the invariant needs. Of the codec under the
  session discipline: `SessionNoDanglingVector`. `SessionInv` needs two more
  facts: that every own message in the array, also beyond `len`, has a vector
  (otherwise a drain ends with `msg_ptr` set), and that outside a drain the
  parse state is clear. `SessionIsLog` is the refinement of `FrameLog`: the log
  is the frames of all messages below the length (`LogNow`), the cursor counts
  those behind the position and `vector_idx` of the message in hand
  (`CursorNow`). Each end of a read is a step of the log: the frame returned is
  the first after the cursor that the client may see, because what was passed
  over are frames of its own node, frames of another type and messages that are
  not its codec's (`NothingUntil`), and -ENOMSG is answered when there are only
  such behind the cursor. A flush or a delivery appends exactly when it fits:
  `Appended`, from `BufferStreamProof`, is exact in both directions. `Placed` says that outside a drain the
  stream stands at its end, so that a flush appends.
- **`FmuInstanceProof`** — `FmuKeepsToSession`: every step of the FMU, under
  any importer, is a step of the session or leaves the codec alone. The
  invariant `InStep` says that a drain is inside the read loop of a step and
  that a flush comes with the stream at its end; `ArgsOK` that what a Set has
  still to deliver is what a network may deliver. With the theorem before it
  follows `FmuNoDanglingVector`, and `FmuTypeOK`. `CanIsCodec` carries the
  theorems of `FbsCodec` over to the CAN codec. `FmuReplies`
  (`StepLeavesOwnMessage`) needs `Replying`: the builder holds a frame only
  between the write and the flush of a step, and the stream is empty from the
  truncate on; otherwise the flush could carry an older frame or follow a
  received message. `FmuHears` (`HearsWhatWasSet`) needs `HeardSoFar`: with
  `unread` the stream is rewound when the step begins, and the step has heard
  what the filter lets through of the log up to its cursor; without `unread` the
  stream is at its end and the step has heard nothing. It uses the log and the
  cursor of `SessionIsLog`.
- **`FmuNetworkProof`** — the batch importer with any number of FMUs and any
  connections. `NetTyped`; `NetGotOwn` from `Spoken`, that between its step and
  the Sets an FMU's message is alone in its stream; and `NetHears`
  (`HeardExactlyOnce`) from `Carried`, that while the Sets go on a stream holds
  the messages of the senders that are done, once each. `NetHears` has the
  hypothesis `WellConnected`: the messages for an FMU fit its stream, and an FMU
  that receives but whose transmit variable nobody gets has a `node_id`. Both
  are limits of the code, not of the proof: a write to a full stream is lost,
  and see item 14 of section 4. The instance of the run satisfies it
  (`MCWellConnected`).
- **`PduCodecProof`** — `PduIsSession`, hence `PduNoDanglingVector`; `PduTypes`;
  and `PduForwards`. The invariant for the last says that the record is what
  `Decoded` leaves of the entry in `ret`; that encoding it gives the entry back
  is then a lemma about two operators.
- **`FmuLifeProof`** — of the codec: `LifeTypes`, `LifeNothingLost` and
  `LifeStat` from the invariant `LifeInv`: the live blocks are exactly those
  the instance refers to, in the middle of the parsing too (`Counted`), each
  number belongs to the string beside it (`Numbered`), and what stat has
  answered is still so (`Asked`). `LifeTableFits` needs `Parsed`: the strings
  are those of the items that are no longer to do. Its invariant `TableKept` is
  stronger than `TableFitsMime`, since the code never sets the functions again;
  for a selector configured to another value that is the disagreement of
  section 4, item 7, and no property asks for it. All assume `StreamGiven`,
  that clients of `ncodec_open` pass a stream; without it `NothingLost` is
  false. Of the FMU that owns such a codec: `FmuLifeKeeps` says that all this
  stays true though the FMU overwrites its pointer to the codec; `FmuLost`
  (`LostIsKnown`), for any number of initialisations, from `LostSoFar`, that
  each repetition has lost a topology, a codec and a stream; `FmuBus`
  (`BusAsNamed`) from `Calls`, which says where the stat loop stands and that
  the codec it asks has the values of the MIME type.
- **`TopologyObjectProof`** — `TopologyInv` follows an addition through its
  loops. In the middle of the first loop a reference is either routed as the
  document says or *pending* (`Pending`): it is annotated with the bus that is
  being added and none of its variables has had its turn. A pending reference
  may lead to a codec that is no longer on a bus; that it cannot stay pending
  when the loop ends is what makes `TopologyRouted` and `TopologyNoClosedCodec`
  true. `Encoded` says the same of the second loop and the texts, `OnOneBus`
  that a codec is on one bus at most, for which the client is responsible.
  `TopologyFreeList` and `TopologyHeldLive` are conjuncts of the same invariant.
  `TopologyIsMail` is the refinement: an rx appends its data to the content of
  one stream when they fit and leaves it otherwise (`RxContent`), a tx leaves
  what the next one reads (`TxKeeps`), a reset empties, the client's work
  replaces the content of one bus (`WorkContent`) or of none (`ApartMail`), and
  by `RoutedToBox` the stream is that of a bus of the plan. It assumes `TopologyAssumption`: documents are sequences of
  scalar variables, there is a bus, and no codec, bus or reference is `NULL`.

Only model-checked: liveness, for which TLAPS has no rules about fairness
(`DrainEnds`, `CallReturns`, `EveryMessageHeard`, `InitReturns`), and the four
properties of section 4 that a run shows violated. The importer that exchanges
one connection at a time (`ExchangeSpec`) is of interest for what it violates;
nothing is proved about it.

## 6. Not modelled

- The example codec and stream (`dse/ncodec/example`): the codec's calls are
  stubs that print or return a constant; the stream is that of
  `bus-topology/code` again.
- The layered standards' documents and XML schemas: there is no code in them.
  Where a document and the code disagree, section 4 quotes it.
- XML and XPath, hash maps and flatbuffers: libraries outside the repository,
  modelled by what the code uses of them. A document that cannot be parsed is
  outside the model.
- Failing allocations: no path of the code handles one.
- A codec without a stream on a bus: `ncodec_open` gives none out, and
  `bus_topology_rx` and `_tx` pass over it as over a reference without codec.
- The trace hooks of `codec.c`: the client's functions, called after a write or
  a read that moved data, with nothing of the library changed.

## 7. Plan

Done: the stream, both codecs, the session discipline and its log, one FMU, its
life and a network of them, the life of a codec, the text encoding, the Bus
Topology object of several buses with the parser; and a theorem for each safety
property that a passing run checks. Next:

1. That an FMU of the network is the FMU of `FmuInstance`: `FmuNetwork` takes a
   whole step of it as one operation. `FmuHears` and `FmuReplies` say of the
   detailed steps what `fmi2DoStep` says of the whole one; a refinement mapping
   would say it of both at once.
2. That the bus of `FmuInstance` and `FmuNetwork` is a box of `BusMail`, which
   joins them to the object of several buses.
3. The types of the network under `ExchangeSpec`.
