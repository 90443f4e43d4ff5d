----------------------------- MODULE FmuLifeProof -----------------------------
(***************************************************************************)
(* NcodecLife and FmuLife for every set of MIME types, texts and           *)
(* configurations and every number of initialisations: no memory of a      *)
(* codec is lost, stat tells the numbers the codec works with, and the     *)
(* FMU's codec is on the bus its MIME type names.                          *)
(*                                                                         *)
(* The invariant says more than the properties do: the memory that is live *)
(* is exactly what the instance refers to, at every step of the parsing    *)
(* too, and each number belongs to the string beside it.  For the FMU it   *)
(* adds where each call stands and what its instance has lost so far.      *)
(***************************************************************************)
EXTENDS FmuLife, TLAPS

\* A client of ncodec_open has a stream: without one the code loses the
\* instance (NothingLost fails).
StreamGiven == FALSE \notin StreamArg

\* The number of a member's string.
NumberOf(s) == IF s = NULL THEN 0 ELSE strtoul[s] % UINT8

How == [op : {"ncodec_create", "ncodec_open"}, stream : BOOLEAN]

Typed ==
    /\ stage \in {"none", "parsing", "open"}
    /\ mime \in [codec : BOOLEAN, items : Seq(Item)] /\ todo \in Seq(Item)
    /\ opening \in How
    /\ str \in [Name -> Text \cup {NULL}] /\ num \in [Number -> 0 .. UINT8 - 1]
    /\ codec \in {"none", "can", "pdu"} /\ stream \in BOOLEAN

Counted == live = Held

Numbered == \A n \in Number : num[n] = NumberOf(str[n])

\* What stat returned is still what the instance has: all that changes it
\* returns something else.
Asked == rc.op = "stat" /\ rc.code \in Number => stage = "open" /\ rc.value = str[rc.code]

\* No instance without a stream where the client passed one.
Streamed == stage = "parsing" /\ opening.op = "ncodec_open" => opening.stream

Cleared == stage = "none" => str = [n \in Name |-> NULL]

LifeInv == Typed /\ Counted /\ Numbered /\ Asked /\ Streamed /\ Cleared

-----------------------------------------------------------------------------
(* Names *)

\* The members of the instance, one by one.
LEMMA Names ==
    /\ Name = {"interface", "type", "bus", "schema",
               "bus_id", "node_id", "interface_id", "swc_id", "ecu_id"}
    /\ Number = {"bus_id", "node_id", "interface_id", "swc_id", "ecu_id"}
<1>1. Number = {Parameter[1], Parameter[2], Parameter[3], Parameter[4], Parameter[5]}
  <2>1. Len(Parameter) = 5  BY DEF Parameter
  <2> QED  BY <2>1 DEF Number
<1>2. Name = {Stat[1], Stat[2], Stat[3], Stat[4], Stat[5], Stat[6], Stat[7], Stat[8], Stat[9]}
  <2>1. Len(Stat) = 9  BY DEF Stat, Selector, Parameter
  <2> QED  BY <2>1 DEF Name
<1>3. /\ Stat[1] = "interface" /\ Stat[2] = "type" /\ Stat[3] = "bus" /\ Stat[4] = "schema"
      /\ Stat[5] = "bus_id" /\ Stat[6] = "node_id" /\ Stat[7] = "interface_id"
      /\ Stat[8] = "swc_id" /\ Stat[9] = "ecu_id"
  BY DEF Stat, Selector, Parameter
<1> QED  BY <1>1, <1>2, <1>3 DEF Parameter

\* Held, block by block, before a step and after it.
LEMMA HeldBlocks ==
    /\ Held = [b \in Block |-> Held[b]] /\ Held' = [b \in Block |-> Held'[b]]
    /\ \A n \in Name : /\ Held[n] = IF str[n] = NULL THEN 0 ELSE 1
                       /\ Held'[n] = IF str'[n] = NULL THEN 0 ELSE 1
    /\ /\ Held["_buf"] = IF stage = "parsing" THEN 1 ELSE 0
       /\ Held'["_buf"] = IF stage' = "parsing" THEN 1 ELSE 0
    /\ /\ Held["instance"] = IF stage = "none" THEN 0 ELSE 1
       /\ Held'["instance"] = IF stage' = "none" THEN 0 ELSE 1
    /\ /\ Held["builder"] = IF stage = "open" THEN 1 ELSE 0
       /\ Held'["builder"] = IF stage' = "open" THEN 1 ELSE 0
<1>1. /\ Name \subseteq Block /\ {"_buf", "instance", "builder"} \subseteq Block
      /\ \A n \in Name : n \notin {"_buf", "instance", "builder"}
      /\ "_buf" \notin Name /\ "instance" \notin Name /\ "builder" \notin Name
  BY Names DEF Block
<1>4. \A n \in Name : /\ Held[n] = IF str[n] = NULL THEN 0 ELSE 1
                     /\ Held'[n] = IF str'[n] = NULL THEN 0 ELSE 1
  BY <1>1 DEF Held
<1>5. /\ Held["_buf"] = IF stage = "parsing" THEN 1 ELSE 0
      /\ Held'["_buf"] = IF stage' = "parsing" THEN 1 ELSE 0
  BY <1>1 DEF Held
<1>6. /\ Held["instance"] = IF stage = "none" THEN 0 ELSE 1
      /\ Held'["instance"] = IF stage' = "none" THEN 0 ELSE 1
  BY <1>1 DEF Held
<1>7. /\ Held["builder"] = IF stage = "open" THEN 1 ELSE 0
      /\ Held'["builder"] = IF stage' = "open" THEN 1 ELSE 0
  BY <1>1 DEF Held
<1>2. Held = [b \in Block |-> Held[b]]
  <2>1. Held \in [Block -> 0 .. 1]
    <3>1. ASSUME NEW b \in Block PROVE Held[b] \in 0 .. 1
      BY <1>4, <1>5, <1>6, <1>7 DEF Block
    <3> QED  BY <3>1 DEF Held
  <2> QED  BY <2>1
<1>3. Held' = [b \in Block |-> Held'[b]]
  <2>1. Held' \in [Block -> 0 .. 1]
    <3>1. ASSUME NEW b \in Block PROVE Held'[b] \in 0 .. 1
      BY <1>4, <1>5, <1>6, <1>7 DEF Block
    <3> QED  BY <3>1 DEF Held
  <2> QED  BY <2>1
<1> QED  BY <1>2, <1>3, <1>4, <1>5, <1>6, <1>7

\* A configuration keeps strings typed and numbers beside them, and its
\* allocation is that of the member it sets for the first time.
LEMMA Configured ==
    ASSUME Typed, Counted, Numbered, NEW item \in Item, codec_config(item),
           stage' = stage
    PROVE  /\ str' \in [Name -> Text \cup {NULL}] /\ num' \in [Number -> 0 .. UINT8 - 1]
           /\ Counted' /\ Numbered'
<1>1. CASE item.name = "other"
  <2>1. str' = str /\ num' = num /\ live' = live
    BY <1>1 DEF codec_config
  <2>2. Held' = Held
    BY <2>1 DEF Held
  <2> QED  BY <2>1, <2>2 DEF Typed, Counted, Numbered
<1>2. CASE item.name # "other"
  <2>1. item.name \in Name /\ item.value \in Text
    BY <1>2 DEF Item
  <2>2. str' = [str EXCEPT ![item.name] = item.value]
    BY <1>2 DEF codec_config
  <2>3. num' = IF item.name \in Number
               THEN [num EXCEPT ![item.name] = strtoul[item.value] % UINT8] ELSE num
    BY <1>2 DEF codec_config
  <2>4. str' \in [Name -> Text \cup {NULL}]
    BY <2>1, <2>2 DEF Typed
  <2>5. strtoul[item.value] % UINT8 \in 0 .. UINT8 - 1
    BY <2>1, LifeAssumption
  <2>6. num' \in [Number -> 0 .. UINT8 - 1]
    BY <2>3, <2>5 DEF Typed
  <2>7. Number \subseteq Name
    BY Names
  <2>8. Numbered'
    <3> SUFFICES ASSUME NEW n \in Number PROVE num'[n] = NumberOf(str'[n])
      BY DEF Numbered, NumberOf
    <3>1. CASE n = item.name
      BY <3>1, <2>1, <2>2, <2>3, <2>7, LifeAssumption DEF NumberOf, Typed
    <3>2. CASE n # item.name
      <4>1. num'[n] = num[n]  BY <3>2, <2>3 DEF Typed
      <4>2. str'[n] = str[n]  BY <3>2, <2>2, <2>7 DEF Typed
      <4> QED  BY <4>1, <4>2 DEF Numbered, NumberOf
    <3> QED  BY <3>1, <3>2
  <2>9. Counted'
    <3>1. live' = [live EXCEPT ![item.name] = IF str[item.name] = NULL THEN live[item.name] + 1
                                              ELSE live[item.name]]
      BY <1>2 DEF codec_config
    <3>2. live = Held  BY DEF Counted
    <3>3. live' = [b \in Block |-> IF b = item.name THEN 1 ELSE Held[b]]
      <4>1. item.name \in Block  BY <2>1 DEF Block
      <4>2. (IF str[item.name] = NULL THEN Held[item.name] + 1 ELSE Held[item.name]) = 1
        BY <2>1, HeldBlocks
      <4>3. live' = [live EXCEPT ![item.name] = 1]
        BY <3>1, <3>2, <4>2
      <4>4. live = [b \in Block |-> Held[b]]
        BY <3>2, HeldBlocks
      <4> QED  BY <4>1, <4>3, <4>4
    <3>4. ASSUME NEW b \in Block PROVE (IF b = item.name THEN 1 ELSE Held[b]) = Held'[b]
      <4>1. CASE b = item.name
        <5>1. str'[b] # NULL  BY <4>1, <2>1, <2>2, LifeAssumption DEF Typed
        <5> QED  BY <5>1, <4>1, <2>1, HeldBlocks
      <4>2. CASE b # item.name /\ b \in Name
        <5>1. str'[b] = str[b]  BY <4>2, <2>2 DEF Typed
        <5> QED  BY <5>1, <4>2, HeldBlocks
      <4>3. CASE b # item.name /\ b \notin Name
        <5>1. b \in {"_buf", "instance", "builder"}  BY <4>3 DEF Block
        <5> QED  BY <5>1, <4>3, HeldBlocks
      <4> QED  BY <4>1, <4>2, <4>3
    <3>5. Held' = [b \in Block |-> Held'[b]]
      BY HeldBlocks
    <3> QED  BY <3>3, <3>4, <3>5 DEF Counted
  <2> QED  BY <2>4, <2>6, <2>8, <2>9
<1> QED  BY <1>1, <1>2

-----------------------------------------------------------------------------
(* The invariant *)

LEMMA LifeInit == Init => LifeInv
<1> SUFFICES ASSUME Init PROVE LifeInv
  OBVIOUS
<1>1. Typed
  <2>1. 0 \in 0 .. UINT8 - 1  BY LifeAssumption
  <2>2. mime \in [codec : BOOLEAN, items : Seq(Item)] /\ todo \in Seq(Item)
    BY DEF Init
  <2>3. str \in [Name -> Text \cup {NULL}] /\ num \in [Number -> 0 .. UINT8 - 1]
    BY <2>1 DEF Init
  <2> QED  BY <2>2, <2>3 DEF Init, Typed, How
<1>2. Counted
  <2>1. ASSUME NEW b \in Block PROVE Held[b] = 0
    BY HeldBlocks DEF Init, Block
  <2>2. Held = [b \in Block |-> Held[b]]  BY HeldBlocks
  <2>3. Held = [b \in Block |-> 0]  BY <2>1, <2>2
  <2> QED  BY <2>3 DEF Init, Counted, Nothing
<1>3. Numbered
  BY Names DEF Init, Numbered, NumberOf
<1>4. Asked /\ Streamed /\ Cleared
  BY DEF Init, Asked, Streamed, Cleared
<1> QED  BY <1>1, <1>2, <1>3, <1>4 DEF LifeInv

\* NULL for the client again, with nothing live.
LEMMA Gone ==
    ASSUME Typed, NoInstance, stage' = "none", live' = [b \in Block |-> 0]
    PROVE  /\ str' \in [Name -> Text \cup {NULL}] /\ num' \in [Number -> 0 .. UINT8 - 1]
           /\ codec' \in {"none", "can", "pdu"} /\ stream' \in BOOLEAN
           /\ Counted' /\ Numbered' /\ Streamed' /\ Cleared'
<1>1. str' = [n \in Name |-> NULL] /\ num' = [n \in Number |-> 0]
      /\ codec' = "none" /\ stream' = FALSE
  BY DEF NoInstance
<1>2. 0 \in 0 .. UINT8 - 1  BY LifeAssumption
<1>3. str' \in [Name -> Text \cup {NULL}] /\ num' \in [Number -> 0 .. UINT8 - 1]
  BY <1>1, <1>2
<1>4. Counted'
  <2>1. ASSUME NEW b \in Block PROVE Held'[b] = 0
    BY <1>1, HeldBlocks DEF Block
  <2>2. Held' = [b \in Block |-> Held'[b]]  BY HeldBlocks
  <2>3. Held' = [b \in Block |-> 0]  BY <2>1, <2>2
  <2> QED  BY <2>3 DEF Counted
<1>5. Numbered'
  <2>1. \A n \in Number : str'[n] = NULL /\ num'[n] = 0  BY <1>1, Names
  <2> QED  BY <2>1 DEF Numbered, NumberOf
<1>6. Streamed' /\ Cleared'
  BY <1>1 DEF Streamed, Cleared
<1> QED  BY <1>1, <1>3, <1>4, <1>5, <1>6

\* What free_codec and free leave of what was counted.
LEMMA AllFreed == Counted => Freed = [b \in Block |-> 0]
<1> SUFFICES ASSUME Counted PROVE Freed = [b \in Block |-> 0]
  OBVIOUS
<1>1. ASSUME NEW b \in Block PROVE live[b] - Held[b] = 0
  <2>1. live[b] = Held[b]  BY DEF Counted
  <2>2. Held[b] \in Int  BY HeldBlocks DEF Block
  <2> QED  BY <2>1, <2>2
<1> QED  BY <1>1 DEF Freed

\* What the actions leave alone.
LEMMA Alone ==
    ASSUME LifeInv, UNCHANGED <<stage, mime, todo, opening, instance, live>>
    PROVE  Typed' /\ Counted' /\ Numbered' /\ Streamed' /\ Cleared'
<1>1. Held' = Held
  BY DEF Held, instance
<1> QED  BY <1>1 DEF LifeInv, Typed, Counted, Numbered, Streamed, Cleared, instance

LEMMA CreateKeeps ==
    ASSUME LifeInv, NEW m \in [codec : BOOLEAN, items : Seq(Item)], NEW how \in How,
           Create(m, how), how.op = "ncodec_open" => how.stream
    PROVE  LifeInv'
<1>1. CASE ~m.codec
  <2>1. UNCHANGED <<stage, mime, todo, opening, instance, live>>
    BY <1>1 DEF Create
  <2>2. rc'.op # "stat"
    BY <1>1 DEF Create, Returned, How
  <2> QED  BY <2>1, <2>2, Alone DEF LifeInv, Asked
<1>2. CASE m.codec
  <2>1. /\ stage = "none" /\ stage' = "parsing" /\ mime' = m /\ todo' = m.items
        /\ opening' = how /\ UNCHANGED <<instance, errno, rc>>
    BY <1>2 DEF Create
  <2>3. Typed'
    BY <2>1 DEF Typed, LifeInv, instance
  <2>4. str = [n \in Name |-> NULL] /\ str' = str
    BY <2>1 DEF LifeInv, Cleared, instance
  <2>5. Counted'
    <3>1. live' = [live EXCEPT !["_buf"] = live["_buf"] + 1, !["instance"] = live["instance"] + 1]
      BY <1>2 DEF Create
    <3>2. live = Held  BY DEF LifeInv, Counted
    <3>3. live = [b \in Block |-> Held[b]]  BY <3>2, HeldBlocks
    <3>4. Held["_buf"] = 0 /\ Held["instance"] = 0  BY <2>1, HeldBlocks
    <3>5. live' = [b \in Block |-> IF b \in {"_buf", "instance"} THEN 1 ELSE Held[b]]
      <4>1. [live EXCEPT !["_buf"] = live["_buf"] + 1] = [live EXCEPT !["_buf"] = 1]
        BY <3>2, <3>4
      <4>2. live["instance"] + 1 = 1  BY <3>2, <3>4
      <4> QED  BY <3>1, <3>3, <4>1, <4>2 DEF Block
    <3>6. ASSUME NEW b \in Block
          PROVE  (IF b \in {"_buf", "instance"} THEN 1 ELSE Held[b]) = Held'[b]
      <4>1. CASE b \in Name
        BY <4>1, <2>4, HeldBlocks, Names
      <4>2. CASE b \in {"_buf", "instance", "builder"}
        BY <4>2, <2>1, HeldBlocks
      <4> QED  BY <4>1, <4>2 DEF Block
    <3>7. Held' = [b \in Block |-> Held'[b]]  BY HeldBlocks
    <3> QED  BY <3>5, <3>6, <3>7 DEF Counted
  <2>6. Numbered' /\ Asked' /\ Streamed' /\ Cleared'
    BY <2>1 DEF LifeInv, Numbered, Asked, Streamed, Cleared, instance
  <2> QED  BY <2>3, <2>5, <2>6 DEF LifeInv
<1> QED  BY <1>1, <1>2

LEMMA ParseKeeps == ASSUME LifeInv, Parse PROVE LifeInv'
<1>1. /\ stage = "parsing" /\ todo # <<>> /\ codec_config(Head(todo)) /\ todo' = Tail(todo)
      /\ UNCHANGED <<stage, mime, opening, codec, stream, errno, rc>>
  BY DEF Parse
<1>2. todo \in Seq(Item)
  BY DEF LifeInv, Typed
<1>3. Head(todo) \in Item /\ Tail(todo) \in Seq(Item)
  BY <1>1, <1>2
<1>4. /\ str' \in [Name -> Text \cup {NULL}] /\ num' \in [Number -> 0 .. UINT8 - 1]
      /\ Counted' /\ Numbered'
  BY <1>1, <1>3, Configured DEF LifeInv
<1>5. Typed'
  BY <1>1, <1>3, <1>4 DEF LifeInv, Typed
<1>6. Asked' /\ Streamed' /\ Cleared'
  BY <1>1 DEF LifeInv, Asked, Streamed, Cleared
<1> QED  BY <1>4, <1>5, <1>6 DEF LifeInv

LEMMA CompleteKeeps == ASSUME LifeInv, Complete PROVE LifeInv'
<1>1. /\ stage = "parsing" /\ Table(str) # "none" /\ UNCHANGED <<mime, todo, opening>>
      /\ live' = [live EXCEPT !["_buf"] = live["_buf"] - 1, !["builder"] = live["builder"] + 1]
  BY DEF Complete
<1>2. /\ stage' = "open" /\ codec' = Table(str) /\ stream' = opening.stream
      /\ Returned(opening.op, "instance") /\ UNCHANGED <<str, num, errno>>
  <2>1. ~(opening.op = "ncodec_open" /\ ~opening.stream)
    BY <1>1 DEF LifeInv, Streamed
  <2> QED  BY <2>1 DEF Complete
<1>3. Typed'
  <2>1. opening \in How  BY DEF LifeInv, Typed
  <2>2. codec' \in {"none", "can", "pdu"}  BY <1>2 DEF Table
  <2>3. stream' \in BOOLEAN  BY <1>2, <2>1 DEF How
  <2> QED  BY <1>1, <1>2, <2>2, <2>3 DEF LifeInv, Typed
<1>4. Counted'
  <2>1. live = Held  BY DEF LifeInv, Counted
  <2>2. live = [b \in Block |-> Held[b]]  BY <2>1, HeldBlocks
  <2>3. Held["_buf"] = 1 /\ Held["builder"] = 0  BY <1>1, HeldBlocks
  <2>4. live["_buf"] - 1 = 0 /\ live["builder"] + 1 = 1
    BY <2>1, <2>3
  <2>5. live' = [b \in Block |-> IF b = "_buf" THEN 0 ELSE IF b = "builder" THEN 1 ELSE Held[b]]
    BY <1>1, <2>2, <2>4 DEF Block
  <2>6. ASSUME NEW b \in Block
        PROVE  (IF b = "_buf" THEN 0 ELSE IF b = "builder" THEN 1 ELSE Held[b]) = Held'[b]
    <3>1. CASE b \in Name
      BY <3>1, <1>2, HeldBlocks, Names
    <3>2. CASE b \in {"_buf", "instance", "builder"}
      BY <3>2, <1>1, <1>2, HeldBlocks
    <3> QED  BY <3>1, <3>2 DEF Block
  <2>7. Held' = [b \in Block |-> Held'[b]]  BY HeldBlocks
  <2> QED  BY <2>5, <2>6, <2>7 DEF Counted
<1>5. Numbered' /\ Streamed' /\ Cleared'
  BY <1>2 DEF LifeInv, Numbered, Streamed, Cleared
<1>6. Asked'
  BY <1>2 DEF Asked, Returned, LifeInv, Typed, How
<1> QED  BY <1>3, <1>4, <1>5, <1>6 DEF LifeInv

LEMMA FailKeeps == ASSUME LifeInv, Fail PROVE LifeInv'
<1>1. /\ live' = Freed /\ NoInstance /\ stage' = "none"
      /\ Returned(opening.op, "NULL") /\ UNCHANGED <<mime, todo, opening>>
  BY DEF Fail
<1>2. live' = [b \in Block |-> 0]
  BY <1>1, AllFreed DEF LifeInv
<1>3. Typed' /\ Counted' /\ Numbered' /\ Streamed' /\ Cleared'
  BY <1>1, <1>2, Gone DEF LifeInv, Typed
<1>4. Asked'
  BY <1>1 DEF Asked, Returned, LifeInv, Typed, How
<1> QED  BY <1>3, <1>4 DEF LifeInv

LEMMA CloseKeeps == ASSUME LifeInv, ncodec_close PROVE LifeInv'
<1>1. /\ live' = Freed /\ NoInstance /\ stage' = "none"
      /\ Returned("close", "void") /\ UNCHANGED <<mime, todo, opening>>
  BY DEF ncodec_close
<1>2. live' = [b \in Block |-> 0]
  BY <1>1, AllFreed DEF LifeInv
<1>3. Typed' /\ Counted' /\ Numbered' /\ Streamed' /\ Cleared'
  BY <1>1, <1>2, Gone DEF LifeInv, Typed
<1>4. Asked'
  BY <1>1 DEF Asked, Returned
<1> QED  BY <1>3, <1>4 DEF LifeInv

LEMMA ConfigKeeps == ASSUME LifeInv, ncodec_config PROVE LifeInv'
<1>1. /\ Calling /\ Returned("config", "void")
      /\ UNCHANGED <<stage, mime, todo, opening, codec, stream, errno>>
  BY DEF ncodec_config
<1>2. Asked'
  BY <1>1 DEF Asked, Returned
<1>3. CASE stage = "open"
  <2>1. PICK item \in ConfigItem : codec_config(item)
    BY <1>3 DEF ncodec_config
  <2>2. item \in Item  BY LifeAssumption
  <2>3. /\ str' \in [Name -> Text \cup {NULL}] /\ num' \in [Number -> 0 .. UINT8 - 1]
        /\ Counted' /\ Numbered'
    BY <1>1, <2>1, <2>2, Configured DEF LifeInv
  <2>4. Typed'
    BY <1>1, <2>3 DEF LifeInv, Typed
  <2>5. Streamed' /\ Cleared'
    BY <1>1, <1>3 DEF Streamed, Cleared
  <2> QED  BY <1>2, <2>3, <2>4, <2>5 DEF LifeInv
<1>4. CASE stage # "open"
  <2>1. UNCHANGED <<stage, mime, todo, opening, instance, live>>
    BY <1>1, <1>4 DEF ncodec_config, instance
  <2> QED  BY <1>2, <2>1, Alone DEF LifeInv
<1> QED  BY <1>3, <1>4

\* codec_stat, for the client and for __get_ncodec_bus_id.
LEMMA StatKeeps ==
    ASSUME LifeInv, NEW i \in 0 .. Len(Stat), rc' = codec_stat(i), Calling,
           UNCHANGED <<stage, mime, todo, opening, instance, live>>
    PROVE  LifeInv'
<1>1. rc' = IF stage = "none" THEN [op |-> "stat", code |-> "empty", index |-> i]
            ELSE IF i = Len(Stat) THEN [op |-> "stat", code |-> "empty", index |-> -1]
            ELSE [op |-> "stat", code |-> Stat[i + 1], value |-> str[Stat[i + 1]]]
  BY DEF codec_stat
<1>2. Asked'
  <2>1. CASE rc'.code = "empty"
    BY <2>1, Names DEF Asked
  <2>2. CASE rc'.code # "empty"
    <3>1. stage # "none"  BY <1>1, <2>2
    <3>2. stage = "open"  BY <3>1 DEF Calling
    <3>3. i # Len(Stat)  BY <1>1, <2>2, <3>1
    <3>4. rc'.value = str[rc'.code]  BY <1>1, <3>1, <3>3
    <3> QED  BY <3>2, <3>4 DEF Asked, instance
  <2> QED  BY <2>1, <2>2
<1> QED  BY <1>2, Alone DEF LifeInv

LEMMA CallKeeps == ASSUME LifeInv, ncodec_call \/ ncodec_stream PROVE LifeInv'
<1>1. UNCHANGED <<stage, mime, todo, opening, instance, live>>
  BY DEF ncodec_call, ncodec_stream
<1>2. rc'.op # "stat"
  <2>1. CASE ncodec_call  BY <2>1 DEF ncodec_call, Returned
  <2>2. CASE ncodec_stream  BY <2>2 DEF ncodec_stream, Returned
  <2> QED  BY <2>1, <2>2
<1> QED  BY <1>1, <1>2, Alone DEF LifeInv, Asked

\* Every action of the client and every step of the creation.
LEMMA LifeNext == ASSUME StreamGiven, LifeInv, [Next]_lifeVars PROVE LifeInv'
<1>0. MimeType \subseteq [codec : BOOLEAN, items : Seq(Item)]
  BY LifeAssumption
<1>1. CASE ncodec_create
  <2>1. PICK m \in MimeType : Create(m, [op |-> "ncodec_create", stream |-> FALSE])
    BY <1>1 DEF ncodec_create
  <2>2. [op |-> "ncodec_create", stream |-> FALSE] \in How  BY DEF How
  <2> QED  BY <1>0, <2>1, <2>2, CreateKeeps
<1>2. CASE ncodec_open
  <2>1. PICK m \in MimeType, s \in StreamArg : Create(m, [op |-> "ncodec_open", stream |-> s])
    BY <1>2 DEF ncodec_open
  <2>2. s = TRUE  BY LifeAssumption DEF StreamGiven
  <2>3. [op |-> "ncodec_open", stream |-> s] \in How  BY <2>2 DEF How
  <2> QED  BY <1>0, <2>1, <2>2, <2>3, CreateKeeps
<1>3. CASE ncodec_stat
  <2>1. PICK i \in 0 .. Len(Stat) : rc' = codec_stat(i)
    BY <1>3 DEF ncodec_stat
  <2>2. Calling /\ UNCHANGED <<stage, mime, todo, opening, instance, live>>
    BY <1>3 DEF ncodec_stat
  <2> QED  BY <2>1, <2>2, StatKeeps
<1>4. CASE UNCHANGED lifeVars
  BY <1>4, Alone DEF lifeVars, LifeInv, Asked, instance
<1> QED  BY <1>1, <1>2, <1>3, <1>4, ParseKeeps, CompleteKeeps, FailKeeps, ConfigKeeps,
            CallKeeps, CloseKeeps DEF Next

-----------------------------------------------------------------------------
(* Theorems *)

LEMMA LifeInvariant == ASSUME StreamGiven PROVE Spec => []LifeInv
<1>1. LifeInv /\ [Next]_lifeVars => LifeInv'
  BY LifeNext
<1> QED  BY LifeInit, <1>1, PTL DEF Spec

\* What the invariant says of the properties.
LEMMA InvTypes == LifeInv => LifeTypeOK
<1> SUFFICES ASSUME LifeInv PROVE LifeTypeOK
  OBVIOUS
<1>1. live \in [Block -> 0 .. 1]
  <2>1. ASSUME NEW b \in Block PROVE Held[b] \in 0 .. 1
    BY HeldBlocks DEF Block
  <2>2. live = [b \in Block |-> Held[b]]
    BY HeldBlocks DEF LifeInv, Counted
  <2> QED  BY <2>1, <2>2
<1> QED  BY <1>1 DEF LifeInv, Typed, LifeTypeOK

LEMMA InvNothingLost == LifeInv => NothingLost
<1> SUFFICES ASSUME LifeInv, stage = "none" PROVE live = Nothing
  BY DEF NothingLost
<1>1. ASSUME NEW b \in Block PROVE Held[b] = 0
  <2>1. CASE b \in Name
    BY <2>1, HeldBlocks DEF LifeInv, Cleared
  <2>2. CASE b \in {"_buf", "instance", "builder"}
    BY <2>2, HeldBlocks
  <2> QED  BY <2>1, <2>2 DEF Block
<1>2. live = [b \in Block |-> Held[b]]
  BY HeldBlocks DEF LifeInv, Counted
<1> QED  BY <1>1, <1>2 DEF Nothing

LEMMA InvStat == LifeInv => StatTellsNumber
BY DEF LifeInv, Asked, Numbered, NumberOf, StatTellsNumber

\* Strings, numbers and counts keep their types: no member's string is
\* allocated twice, whatever is configured how often (codec_config).
THEOREM LifeTypes == ASSUME StreamGiven PROVE Spec => []LifeTypeOK
BY InvTypes, LifeInvariant, PTL

\* Whatever the MIME type, and wherever its creation fails, nothing of the
\* instance is left when the client has NULL (create_fail, codec_close).
THEOREM LifeNothingLost == ASSUME StreamGiven PROVE Spec => []NothingLost
BY InvNothingLost, LifeInvariant, PTL

\* The string stat returns names the number the codec uses, for every text
\* and every order of configurations (codec_config, codec_stat).
THEOREM LifeStat == ASSUME StreamGiven PROVE Spec => []StatTellsNumber
BY InvStat, LifeInvariant, PTL

-----------------------------------------------------------------------------
(* The function table *)

\* v is the value the first k of the items leave in n.
After(items, k, n, v) ==
    \/ v = NULL /\ \A i \in 1 .. k : items[i].name # n
    \/ \E i \in 1 .. k : /\ items[i].name = n /\ v = items[i].value
                         /\ \A j \in i + 1 .. k : items[j].name # n

\* The creation has configured the items that are not left to do.
Parsed ==
    stage = "parsing" =>
        \E k \in 0 .. Len(mime.items) :
            /\ Len(todo) = Len(mime.items) - k
            /\ \A i \in 1 .. Len(todo) : todo[i] = mime.items[k + i]
            /\ \A n \in Name : After(mime.items, k, n, str[n])

\* After all items that is the last value of the name.
LEMMA AfterAll ==
    ASSUME Typed, NEW n \in Name, NEW v, After(mime.items, Len(mime.items), n, v)
    PROVE  v = Given(n)
<1> DEFINE at == {i \in 1 .. Len(mime.items) : mime.items[i].name = n}
<1>1. CASE v = NULL /\ \A i \in 1 .. Len(mime.items) : mime.items[i].name # n
  <2>1. at = {}  BY <1>1
  <2> QED  BY <1>1, <2>1 DEF Given, LastValue
<1>2. ASSUME NEW i \in 1 .. Len(mime.items),
             mime.items[i].name = n, v = mime.items[i].value,
             \A j \in i + 1 .. Len(mime.items) : mime.items[j].name # n
      PROVE  v = Given(n)
  <2>1. Len(mime.items) \in Nat  BY DEF Typed
  <2>2. i \in at /\ \A j \in at : j <= i  BY <1>2, <2>1
  <2>3. \A h \in at : (\A j \in at : j <= h) => h = i  BY <2>1, <2>2
  <2>4. (CHOOSE h \in at : \A j \in at : j <= h) = i
    BY <2>2, <2>3
  <2>5. Given(n) = mime.items[CHOOSE h \in at : \A j \in at : j <= h].value
    BY <2>2 DEF Given, LastValue
  <2> QED  BY <1>2, <2>4, <2>5
<1> QED  BY <1>1, <1>2 DEF After

LEMMA ParseFollows == ASSUME LifeInv, Parsed, Parse PROVE Parsed'
<1>1. /\ stage = "parsing" /\ todo # <<>> /\ codec_config(Head(todo)) /\ todo' = Tail(todo)
      /\ mime' = mime
  BY DEF Parse
<1>2. PICK k \in 0 .. Len(mime.items) :
        /\ Len(todo) = Len(mime.items) - k
        /\ \A i \in 1 .. Len(todo) : todo[i] = mime.items[k + i]
        /\ \A n \in Name : After(mime.items, k, n, str[n])
  BY <1>1 DEF Parsed
<1>3. /\ todo \in Seq(Item) /\ mime.items \in Seq(Item) /\ Len(mime.items) \in Nat
  BY DEF LifeInv, Typed
<1>4. Len(todo) \in Nat \ {0}
  BY <1>1, <1>3
<1>5. Head(todo) = mime.items[k + 1] /\ k + 1 \in 1 .. Len(mime.items)
  BY <1>1, <1>2, <1>3, <1>4
<1>6. Len(todo') = Len(mime.items) - (k + 1)
  BY <1>1, <1>2, <1>3, <1>4
<1>7. \A i \in 1 .. Len(todo') : todo'[i] = mime.items[k + 1 + i]
  <2> SUFFICES ASSUME NEW i \in 1 .. Len(todo') PROVE todo'[i] = mime.items[k + 1 + i]
    OBVIOUS
  <2>1. Len(todo') = Len(todo) - 1  BY <1>1, <1>3, <1>4
  <2>2. i + 1 \in 1 .. Len(todo)  BY <2>1, <1>4
  <2>3. todo'[i] = todo[i + 1]  BY <1>1, <1>3, <1>4, <2>1
  <2>4. k + 1 + i = k + (i + 1)  BY <2>2
  <2> QED  BY <2>2, <2>3, <2>4, <1>2
<1>8. ASSUME NEW n \in Name
      PROVE  \/ str'[n] = NULL /\ \A i \in 1 .. k + 1 : mime.items[i].name # n
             \/ \E i \in 1 .. k + 1 : /\ mime.items[i].name = n /\ str'[n] = mime.items[i].value
                                      /\ \A j \in i + 1 .. k + 1 : mime.items[j].name # n
  <2>1. CASE mime.items[k + 1].name = n
    <3>1. n # "other"  BY Names
    <3>2. str'[n] = mime.items[k + 1].value
      BY <1>1, <1>5, <2>1, <3>1 DEF codec_config, LifeInv, Typed
    <3>3. k + 1 \in 1 .. k + 1 /\ k + 1 + 1 .. k + 1 = {}
      BY <1>5
    <3> QED  BY <2>1, <3>2, <3>3
  <2>2. CASE mime.items[k + 1].name # n
    <3>1. str'[n] = str[n]
      BY <1>1, <1>5, <2>2 DEF codec_config, LifeInv, Typed
    <3>2. After(mime.items, k, n, str[n])  BY <1>2
    <3>3. 1 .. k + 1 = 1 .. k \cup {k + 1}  BY <1>5
    <3>4. \A i \in 1 .. k : i + 1 .. k + 1 = i + 1 .. k \cup {k + 1}  BY <1>5
    <3>5. CASE str[n] = NULL /\ \A i \in 1 .. k : mime.items[i].name # n
      BY <2>2, <3>1, <3>3, <3>5
    <3>6. CASE \E i \in 1 .. k : /\ mime.items[i].name = n /\ str[n] = mime.items[i].value
                                 /\ \A j \in i + 1 .. k : mime.items[j].name # n
      <4>1. PICK i \in 1 .. k : /\ mime.items[i].name = n /\ str[n] = mime.items[i].value
                                /\ \A j \in i + 1 .. k : mime.items[j].name # n
        BY <3>6
      <4>2. \A j \in i + 1 .. k + 1 : mime.items[j].name # n
        BY <4>1, <2>2, <3>4
      <4>3. i \in 1 .. k + 1
        BY <3>3
      <4> QED  BY <4>1, <4>2, <4>3, <3>1
    <3> QED  BY <3>2, <3>5, <3>6 DEF After
  <2> QED  BY <2>1, <2>2
<1> QED
  <2>1. k + 1 \in 0 .. Len(mime'.items)  BY <1>1, <1>5
  <2>2. /\ Len(todo') = Len(mime'.items) - (k + 1)
        /\ \A i \in 1 .. Len(todo') : todo'[i] = mime'.items[k + 1 + i]
    BY <1>1, <1>6, <1>7
  <2>3. \A n \in Name : After(mime'.items, k + 1, n, str'[n])
    BY <1>1, <1>8 DEF After
  <2> QED  BY <2>1, <2>2, <2>3 DEF Parsed

\* With nothing left to do, each member has the last value of its name.
LEMMA ParsedAll ==
    ASSUME LifeInv, Parsed, stage = "parsing", todo = <<>>
    PROVE  \A n \in Name : str[n] = Given(n)
<1> SUFFICES ASSUME NEW n \in Name PROVE str[n] = Given(n)
  OBVIOUS
<1>1. PICK k \in 0 .. Len(mime.items) :
        /\ Len(todo) = Len(mime.items) - k
        /\ \A m \in Name : After(mime.items, k, m, str[m])
  BY DEF Parsed
<1>2. Len(mime.items) \in Nat  BY DEF LifeInv, Typed
<1>3. k = Len(mime.items)  BY <1>1, <1>2
<1> QED  BY <1>1, <1>3, AfterAll DEF LifeInv

\* What the steps keep: no step but the end of a creation sets the functions.
TableKept ==
    stage = "open" => /\ Supported
                      /\ codec = IF Given("type") = "frame" THEN "can" ELSE "pdu"

\* The guards let only supported MIME types through, and pick their functions.
LEMMA CompleteFits == ASSUME LifeInv, Parsed, Complete PROVE TableKept'
<1>1. stage = "parsing" /\ todo = <<>> /\ Table(str) # "none" /\ mime' = mime
  BY DEF Complete
<1>2. codec' = Table(str)
  <2>1. ~(opening.op = "ncodec_open" /\ ~opening.stream)
    BY <1>1 DEF LifeInv, Streamed
  <2> QED  BY <2>1 DEF Complete
<1>3. \A n \in Name : str[n] = Given(n)
  BY <1>1, ParsedAll
<1>4. /\ str["interface"] = Given("interface") /\ str["type"] = Given("type")
      /\ str["bus"] = Given("bus") /\ str["schema"] = Given("schema")
  BY <1>3, Names
<1>5. Supported /\ codec' = IF Given("type") = "frame" THEN "can" ELSE "pdu"
  BY <1>1, <1>2, <1>4 DEF Table, Supported
<1> QED  BY <1>1, <1>5 DEF TableKept, Supported, Given

LEMMA CreateFits ==
    ASSUME LifeInv, Parsed, TableKept,
           NEW m \in [codec : BOOLEAN, items : Seq(Item)], NEW how \in How, Create(m, how)
    PROVE  Parsed' /\ TableKept'
<1>1. CASE ~m.codec
  <2>1. UNCHANGED <<stage, mime, todo, instance>>
    BY <1>1 DEF Create
  <2>2. Parsed'
    BY <2>1 DEF Parsed, instance
  <2>3. TableKept'
    BY <2>1 DEF TableKept, Supported, Given, instance
  <2> QED  BY <2>2, <2>3
<1>2. CASE m.codec
  <2>1. /\ stage' = "parsing" /\ todo' = mime'.items /\ mime' = m /\ str' = [n \in Name |-> NULL]
    BY <1>2 DEF Create, instance, LifeInv, Cleared
  <2>2. Len(m.items) \in Nat
    OBVIOUS
  <2>3. Parsed'
    <3>1. 0 \in 0 .. Len(mime'.items) /\ Len(todo') = Len(mime'.items) - 0
      BY <2>1, <2>2
    <3>2. \A i \in 1 .. Len(todo') : todo'[i] = mime'.items[0 + i]
      BY <2>1, <2>2
    <3>3. \A n \in Name : str'[n] = NULL /\ \A i \in 1 .. 0 : mime'.items[i].name # n
      BY <2>1
    <3> QED  BY <3>1, <3>2, <3>3 DEF Parsed, After
  <2> QED  BY <2>1, <2>3 DEF TableKept
<1> QED  BY <1>1, <1>2

\* The steps of ncodec_create and ncodec_open, and the close.
LEMMA ParsingFits ==
    ASSUME LifeInv, Parsed, TableKept, Parse \/ Complete \/ Fail \/ ncodec_close
    PROVE  Parsed' /\ TableKept'
<1>1. CASE Parse
  <2>1. stage' = "parsing"  BY <1>1 DEF Parse
  <2> QED  BY <1>1, <2>1, ParseFollows DEF TableKept
<1>2. CASE Complete
  <2>1. stage' # "parsing"  BY <1>2 DEF Complete
  <2> QED  BY <1>2, <2>1, CompleteFits DEF Parsed
<1>3. CASE Fail \/ ncodec_close
  BY <1>3 DEF Fail, ncodec_close, Parsed, TableKept
<1> QED  BY <1>1, <1>2, <1>3

\* What leaves the instance and its MIME type alone.
LEMMA AloneFits ==
    ASSUME Parsed, TableKept, UNCHANGED <<stage, mime, todo, instance>>
    PROVE  Parsed' /\ TableKept'
<1>1. TableKept'
  BY DEF TableKept, Supported, Given, instance
<1>2. Parsed'
  BY DEF Parsed, instance
<1> QED  BY <1>1, <1>2

LEMMA FitsNext ==
    ASSUME StreamGiven, LifeInv, Parsed, TableKept, [Next]_lifeVars
    PROVE  Parsed' /\ TableKept'
<1>1. CASE ncodec_create \/ ncodec_open
  <2>1. PICK m \in MimeType, how \in How : Create(m, how)
    BY <1>1, LifeAssumption DEF ncodec_create, ncodec_open, How
  <2>2. m \in [codec : BOOLEAN, items : Seq(Item)]
    BY LifeAssumption
  <2> QED  BY <2>1, <2>2, CreateFits
<1>2. CASE ncodec_config
  <2>1. stage' = stage /\ mime' = mime /\ codec' = codec /\ stage # "parsing"
    BY <1>2 DEF ncodec_config, Calling
  <2> QED  BY <2>1 DEF Parsed, TableKept, Supported, Given
<1>3. CASE ncodec_stat \/ ncodec_call \/ ncodec_stream \/ UNCHANGED lifeVars
  <2>1. UNCHANGED <<stage, mime, todo, instance>>
    BY <1>3 DEF ncodec_stat, ncodec_call, ncodec_stream, lifeVars
  <2> QED  BY <2>1, AloneFits
<1> QED  BY <1>1, <1>2, <1>3, ParsingFits DEF Next

\* An instance is of a supported MIME type, and while its selectors are the MIME
\* type's its functions are those of its type, for every sequence of items: the
\* last of each name counts (ncodec_create).
THEOREM LifeTableFits == ASSUME StreamGiven PROVE Spec => []TableFitsMime
<1>1. Init => Parsed /\ TableKept
  BY DEF Init, Parsed, TableKept
<1>2. LifeInv /\ Parsed /\ TableKept /\ [Next]_lifeVars => Parsed' /\ TableKept'
  BY FitsNext
<1>3. TableKept => TableFitsMime
  BY DEF TableKept, TableFitsMime
<1> QED  BY LifeInvariant, <1>1, <1>2, <1>3, PTL DEF Spec

-----------------------------------------------------------------------------
(* The FMU *)

\* Where a call stands: the codec is being made, or is there with the values
\* of its MIME type, and is on no bus yet.
Calls ==
    /\ fmu \in {"absent", "none", "instance"} /\ inits \in Nat
    /\ call \in {"none", "open", "opening", "stat", "crashed"}
    /\ fmu # "instance" => call = "none"
    /\ call \in {"open", "opening", "stat"} => buses = {}
    /\ call = "open" => stage = "none"
    /\ call = "opening" => stage = "parsing"
    /\ call = "stat" =>
          /\ index \in 0 .. Len(Selector)
          /\ stage = "none" \/ (stage = "open" /\ \A n \in Name : str[n] = Given(n))

Repeated == IF inits = 0 THEN 0 ELSE inits - 1

\* What is lost while there is an instance: all that an earlier initialisation
\* made.
LostSoFar ==
    fmu = "instance" => lost = [topology |-> Repeated, codec |-> Repeated, stream |-> Repeated]

FmuLifeInv ==
    /\ LifeInv /\ Parsed /\ TableKept
    /\ Calls /\ LostSoFar /\ LostIsKnown /\ BusAsNamed

\* The codec's pointer is overwritten, or goes with the instance, as if it had
\* been closed.
LEMMA LeftKeeps ==
    ASSUME LifeInv, NoInstance, stage' = "none", live' = [b \in Block |-> 0],
           NEW op, Returned(op, rc'.code), op # "stat", UNCHANGED <<mime, todo, opening>>
    PROVE  LifeInv' /\ Parsed' /\ TableKept'
<1>1. Typed' /\ Counted' /\ Numbered' /\ Streamed' /\ Cleared'
  BY Gone DEF LifeInv, Typed
<1>2. Asked'
  BY DEF Asked, Returned
<1> QED  BY <1>1, <1>2 DEF LifeInv, Parsed, TableKept

\* The fifth member that codec_stat counts is the bus id, and none before it.
LEMMA BusIdIsFifth ==
    /\ Len(Selector) = 4 /\ Len(Stat) = 9 /\ Stat[5] = "bus_id"
    /\ \A i \in 0 .. 3 : Stat[i + 1] # "bus_id"
    /\ \A i \in 0 .. 4 : Stat[i + 1] # "empty"
<1>1. /\ Stat[1] = "interface" /\ Stat[2] = "type" /\ Stat[3] = "bus" /\ Stat[4] = "schema"
      /\ Stat[5] = "bus_id"
  BY DEF Stat, Selector, Parameter
<1>2. Len(Stat) = 9 /\ Len(Selector) = 4
  BY DEF Stat, Selector, Parameter
<1> QED  BY <1>1, <1>2

LEMMA FmuLifeInit == FLInit => FmuLifeInv
<1> SUFFICES ASSUME FLInit PROVE FmuLifeInv
  OBVIOUS
<1>1. LifeInv
  BY LifeInit DEF FLInit
<1>2. Parsed /\ TableKept
  BY DEF FLInit, Init, Parsed, TableKept
<1>3. Calls /\ LostSoFar /\ LostIsKnown /\ BusAsNamed
  BY DEF FLInit, Calls, LostSoFar, LostIsKnown, NothingYet, BusAsNamed
<1> QED  BY <1>1, <1>2, <1>3 DEF FmuLifeInv

LEMMA ClientKeeps == ASSUME StreamGiven, FmuLifeInv, Client PROVE FmuLifeInv'
<1>1. fmu = "absent" /\ Next /\ UNCHANGED <<fmu, call, index, buses, inits, lost>>
  BY DEF Client, ownVars
<1>2. LifeInv' /\ Parsed' /\ TableKept'
  BY <1>1, LifeNext, FitsNext DEF FmuLifeInv
<1>3. Calls' /\ LostSoFar' /\ LostIsKnown' /\ BusAsNamed'
  BY <1>1 DEF FmuLifeInv, Calls, LostSoFar, LostIsKnown, BusAsNamed
<1> QED  BY <1>2, <1>3 DEF FmuLifeInv

LEMMA InstantiateKeeps == ASSUME StreamGiven, FmuLifeInv, fmi2Instantiate PROVE FmuLifeInv'
<1>1. /\ fmu = "none" /\ fmu' = "instance" /\ inits' = 0 /\ lost' = NothingYet
      /\ UNCHANGED <<lifeVars, call, index>> /\ buses' = {}
  BY DEF fmi2Instantiate
<1>2. LifeInv' /\ Parsed' /\ TableKept'
  BY <1>1, LifeNext, FitsNext DEF FmuLifeInv
<1>3. call' = "none"
  BY <1>1 DEF FmuLifeInv, Calls
<1>4. Calls' /\ LostSoFar' /\ LostIsKnown' /\ BusAsNamed'
  BY <1>1, <1>3 DEF Calls, LostSoFar, Repeated, NothingYet, LostIsKnown, BusAsNamed
<1> QED  BY <1>2, <1>4 DEF FmuLifeInv

LEMMA ExitKeeps == ASSUME FmuLifeInv, fmi2ExitInitializationMode PROVE FmuLifeInv'
<1>1. /\ fmu = "instance" /\ fmu' = "instance" /\ call = "none" /\ call' = "open"
      /\ inits' = inits + 1 /\ buses' = {} /\ Forgotten
      /\ lost' = IF inits = 0 THEN lost ELSE [r \in DOMAIN lost |-> lost[r] + 1]
      /\ UNCHANGED <<mime, todo, opening>>
  BY DEF fmi2ExitInitializationMode
<1>2. LifeInv' /\ Parsed' /\ TableKept' /\ stage' = "none"
  BY <1>1, LeftKeeps DEF FmuLifeInv, Forgotten, Nothing, Returned
<1>3. inits \in Nat /\ lost = [topology |-> Repeated, codec |-> Repeated, stream |-> Repeated]
  BY <1>1 DEF FmuLifeInv, Calls, LostSoFar
<1>4. Calls' /\ LostIsKnown' /\ BusAsNamed'
  BY <1>1, <1>2, <1>3 DEF Calls, LostIsKnown, BusAsNamed
<1>5. LostSoFar'
  <2>1. CASE inits = 0
    BY <1>1, <1>3, <2>1 DEF LostSoFar, Repeated
  <2>2. CASE inits # 0
    <3>1. lost' = [topology |-> inits, codec |-> inits, stream |-> inits]
      BY <1>1, <1>3, <2>2 DEF Repeated
    <3>2. Repeated' = inits
      BY <1>1, <1>3 DEF Repeated
    <3> QED  BY <3>1, <3>2 DEF LostSoFar
  <2> QED  BY <2>1, <2>2
<1> QED  BY <1>2, <1>4, <1>5 DEF FmuLifeInv

LEMMA OpenKeeps == ASSUME FmuLifeInv, OpenCodec \/ Opening PROVE FmuLifeInv'
<1>1. /\ call \in {"open", "opening"} /\ UNCHANGED <<fmu, buses, inits, lost>>
      /\ call' \in {"opening", "stat"} /\ (call' = "opening" => stage' = "parsing")
  <2>1. CASE OpenCodec
    <3>1. PICK m \in FmuMimeType : Create(m, [op |-> "ncodec_open", stream |-> TRUE])
      BY <2>1 DEF OpenCodec
    <3>2. m.codec
      BY FmuLifeAssumption
    <3> QED  BY <2>1, <3>1, <3>2 DEF OpenCodec, Create, ownVars
  <2>2. CASE Opening
    BY <2>2 DEF Opening, ownVars
  <2> QED  BY <2>1, <2>2
<1>2. fmu = "instance" /\ buses = {} /\ inits \in Nat
  BY <1>1 DEF FmuLifeInv, Calls
<1>3. LifeInv' /\ Parsed' /\ TableKept'
  <2>1. CASE OpenCodec
    <3>1. PICK m \in FmuMimeType : Create(m, [op |-> "ncodec_open", stream |-> TRUE])
      BY <2>1 DEF OpenCodec
    <3>2. m \in [codec : BOOLEAN, items : Seq(Item)]
      BY FmuLifeAssumption
    <3>3. [op |-> "ncodec_open", stream |-> TRUE] \in How
      BY DEF How
    <3> QED  BY <3>1, <3>2, <3>3, CreateKeeps, CreateFits DEF FmuLifeInv
  <2>2. CASE Opening
    BY <2>2, ParseKeeps, CompleteKeeps, FailKeeps, ParsingFits DEF Opening, FmuLifeInv
  <2> QED  BY <2>1, <2>2
<1>4. ASSUME call' = "stat"
      PROVE  /\ index' \in 0 .. Len(Selector)
             /\ stage' = "none" \/ (stage' = "open" /\ \A n \in Name : str'[n] = Given(n)')
  <2>1. Opening /\ index' = 0 /\ stage' # "parsing"
    BY <1>4 DEF OpenCodec, Opening
  <2>2. CASE Parse
    BY <2>1, <2>2 DEF Parse
  <2>3. CASE Fail
    BY <2>1, <2>3, BusIdIsFifth DEF Fail
  <2>4. CASE Complete
    <3>1. stage = "parsing" /\ todo = <<>> /\ mime' = mime
      BY <2>4 DEF Complete
    <3>2. stage' = "open" /\ str' = str
      BY <2>4, <3>1 DEF Complete, FmuLifeInv, LifeInv, Streamed
    <3>3. \A n \in Name : str[n] = Given(n)
      BY <3>1, ParsedAll DEF FmuLifeInv
    <3> QED  BY <2>1, <3>1, <3>2, <3>3, BusIdIsFifth DEF Given
  <2> QED  BY <2>1, <2>2, <2>3, <2>4 DEF Opening
<1>5. Calls'
  BY <1>1, <1>2, <1>4 DEF Calls
<1>6. LostSoFar' /\ LostIsKnown' /\ BusAsNamed'
  BY <1>1, <1>2 DEF FmuLifeInv, LostSoFar, Repeated, LostIsKnown, BusAsNamed
<1> QED  BY <1>3, <1>5, <1>6 DEF FmuLifeInv

LEMMA StatTurnKeeps == ASSUME FmuLifeInv, StatTurn PROVE FmuLifeInv'
<1>1. /\ call = "stat" /\ rc' = codec_stat(index)
      /\ UNCHANGED <<stage, mime, todo, opening, instance, live, errno, fmu, inits, lost>>
  BY DEF StatTurn
<1>2. /\ fmu = "instance" /\ buses = {} /\ inits \in Nat /\ index \in 0 .. 4
      /\ stage = "none" \/ (stage = "open" /\ \A n \in Name : str[n] = Given(n))
  BY <1>1, BusIdIsFifth DEF FmuLifeInv, Calls
<1>3. LifeInv' /\ Parsed' /\ TableKept'
  <2>1. index \in 0 .. Len(Stat) /\ Calling
    BY <1>2, BusIdIsFifth DEF Calling
  <2> QED  BY <1>1, <2>1, StatKeeps, AloneFits DEF FmuLifeInv
<1>4. Given("bus_id")' = Given("bus_id") /\ str' = str
  BY <1>1 DEF Given, instance
<1>5. LostSoFar' /\ LostIsKnown'
  BY <1>1, <1>2 DEF FmuLifeInv, LostSoFar, Repeated, LostIsKnown
<1>6. CASE stage = "none"
  <2>1. rc'.code = "empty"
    BY <1>1, <1>6 DEF codec_stat
  <2>2. call' = "crashed"
    BY <2>1 DEF StatTurn
  <2> QED  BY <1>1, <1>2, <1>3, <1>5, <2>2 DEF FmuLifeInv, Calls, BusAsNamed
<1>7. CASE stage = "open" /\ index # 4
  <2>1. index \in 0 .. 3 /\ index # Len(Stat)
    BY <1>2, <1>7, BusIdIsFifth
  <2>2. rc'.code = Stat[index + 1]
    BY <1>1, <1>7, <2>1 DEF codec_stat
  <2>3. index' = index + 1 /\ call' = call /\ buses' = buses
    BY <2>1, <2>2, BusIdIsFifth DEF StatTurn
  <2>4. index' \in 0 .. Len(Selector)
    BY <2>1, <2>3, BusIdIsFifth
  <2>5. Calls'
    <3>1. \A n \in Name : str'[n] = Given(n)'
      BY <1>1, <1>2, <1>4, <1>7 DEF Given
    <3> QED  BY <1>1, <1>2, <1>7, <2>3, <2>4, <3>1 DEF Calls
  <2>6. BusAsNamed'
    BY <1>1, <2>3 DEF BusAsNamed
  <2> QED  BY <1>3, <1>5, <2>5, <2>6 DEF FmuLifeInv
<1>8. CASE stage = "open" /\ index = 4
  <2>1. rc'.code = "bus_id" /\ rc'.value = str["bus_id"]
    BY <1>1, <1>8, BusIdIsFifth DEF codec_stat
  <2>2. str["bus_id"] = Given("bus_id")
    BY <1>2, <1>8, Names
  <2>3. call' = "none" /\ buses' = {Given("bus_id")} \ {NULL}
    BY <1>2, <2>1, <2>2 DEF StatTurn
  <2>4. live' = Held'
    BY <1>3 DEF LifeInv, Counted
  <2> QED  BY <1>1, <1>2, <1>3, <1>4, <1>5, <1>8, <2>3, <2>4 DEF FmuLifeInv, Calls, BusAsNamed
<1> QED  BY <1>2, <1>6, <1>7, <1>8

LEMMA FreeKeeps == ASSUME FmuLifeInv, fmi2FreeInstance PROVE FmuLifeInv'
<1>1. /\ fmu = "instance" /\ fmu' = "none" /\ call = "none" /\ call' = call /\ buses' = {}
      /\ inits' = inits /\ UNCHANGED <<mime, todo, opening>>
      /\ lost' = IF inits = 0 THEN lost
                 ELSE [lost EXCEPT !.codec = IF buses = {} THEN lost.codec + 1 ELSE lost.codec,
                                   !.stream = lost.stream + 1]
  BY DEF fmi2FreeInstance
<1>2. LifeInv' /\ Parsed' /\ TableKept'
  <2>1. CASE buses # {}
    <3>1. live' = [b \in Block |-> 0]
      BY <2>1, AllFreed DEF fmi2FreeInstance, FmuLifeInv, LifeInv
    <3> QED  BY <1>1, <2>1, <3>1, LeftKeeps DEF fmi2FreeInstance, FmuLifeInv, Returned
  <2>2. CASE buses = {}
    BY <1>1, <2>2, LeftKeeps DEF fmi2FreeInstance, FmuLifeInv, Forgotten, Nothing, Returned
  <2> QED  BY <2>1, <2>2
<1>3. inits \in Nat /\ lost = [topology |-> Repeated, codec |-> Repeated, stream |-> Repeated]
  BY <1>1 DEF FmuLifeInv, Calls, LostSoFar
<1>4. Calls' /\ LostSoFar' /\ BusAsNamed'
  BY <1>1, <1>3 DEF Calls, LostSoFar, BusAsNamed
<1>5. LostIsKnown'
  <2>1. CASE inits = 0
    BY <1>1, <1>3, <2>1 DEF LostIsKnown, Repeated
  <2>2. CASE inits # 0
    <3>1. inits > 0 /\ Repeated = inits - 1 /\ Repeated + 1 = inits
      BY <1>3, <2>2 DEF Repeated
    <3>2. buses = {} <=> Given("bus_id") = NULL
      BY <1>1, <3>1 DEF FmuLifeInv, BusAsNamed
    <3>3. lost' = [topology |-> Repeated,
                   codec |-> IF Given("bus_id") = NULL THEN inits ELSE Repeated,
                   stream |-> inits]
      <4>1. lost.codec = Repeated /\ lost.stream = Repeated
        BY <1>3
      <4>2. lost' = [lost EXCEPT !.codec = IF Given("bus_id") = NULL THEN inits ELSE Repeated,
                                 !.stream = inits]
        BY <1>1, <2>2, <3>1, <3>2, <4>1
      <4> QED  BY <1>3, <4>2
    <3> QED  BY <1>1, <3>1, <3>3 DEF LostIsKnown, Given, Repeated
  <2> QED  BY <2>1, <2>2
<1> QED  BY <1>2, <1>4, <1>5 DEF FmuLifeInv

LEMMA FmuLifeNext == ASSUME StreamGiven, FmuLifeInv, [FLNext]_fmuLifeVars PROVE FmuLifeInv'
<1>1. CASE UNCHANGED fmuLifeVars
  <2>1. UNCHANGED lifeVars /\ UNCHANGED <<fmu, call, index, buses, inits, lost>>
    BY <1>1 DEF fmuLifeVars, ownVars
  <2>2. LifeInv' /\ Parsed' /\ TableKept'
    BY <2>1, LifeNext, FitsNext DEF FmuLifeInv
  <2>3. UNCHANGED <<stage, mime, str, live>> /\ Held' = Held
    BY <2>1 DEF lifeVars, instance, Held
  <2>4. Calls' /\ LostSoFar' /\ LostIsKnown' /\ BusAsNamed'
    BY <2>1, <2>3 DEF FmuLifeInv, Calls, LostSoFar, Repeated, LostIsKnown, BusAsNamed, Given
  <2> QED  BY <2>2, <2>4 DEF FmuLifeInv
<1> QED  BY <1>1, ClientKeeps, InstantiateKeeps, ExitKeeps, OpenKeeps, StatTurnKeeps, FreeKeeps
         DEF FLNext, Initialising

LEMMA FmuLifeInvariant == ASSUME StreamGiven PROVE FmuLifeSpec => []FmuLifeInv
<1>1. FmuLifeInv /\ [FLNext]_fmuLifeVars => FmuLifeInv'
  BY FmuLifeNext
<1> QED  BY FmuLifeInit, <1>1, PTL DEF FmuLifeSpec

\* What a codec promises its client it promises the FMU, which opens it anew in
\* every initialisation and may never close it.
THEOREM FmuLifeKeeps ==
    ASSUME StreamGiven
    PROVE  FmuLifeSpec => [](LifeTypeOK /\ NothingLost /\ TableFitsMime /\ StatTellsNumber)
<1>1. FmuLifeInv => LifeTypeOK /\ NothingLost /\ TableFitsMime /\ StatTellsNumber
  BY InvTypes, InvNothingLost, InvStat DEF FmuLifeInv, TableKept, TableFitsMime
<1> QED  BY <1>1, FmuLifeInvariant, PTL

\* After the instance is freed it is known what is left of it: the topology of
\* every repeated initialisation, every stream, and the codecs that were
\* repeated or on no bus (fmi2ExitInitializationMode, fmi2FreeInstance).
THEOREM FmuLost == ASSUME StreamGiven PROVE FmuLifeSpec => []LostIsKnown
<1>1. FmuLifeInv => LostIsKnown
  BY DEF FmuLifeInv
<1> QED  BY <1>1, FmuLifeInvariant, PTL

\* The codec of an initialised FMU is on the bus its MIME type names last, for
\* every MIME type the codec accepts (__get_ncodec_bus_id, bus_topology_add).
THEOREM FmuBus == ASSUME StreamGiven PROVE FmuLifeSpec => []BusAsNamed
<1>1. FmuLifeInv => BusAsNamed
  BY DEF FmuLifeInv
<1> QED  BY <1>1, FmuLifeInvariant, PTL
=============================================================================
