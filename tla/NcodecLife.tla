----------------------------- MODULE NcodecLife -----------------------------
(***************************************************************************)
(* The life of one NCODEC of the automotive-bus library: created from a    *)
(* MIME type, opened on a stream, configured, asked, called and closed by  *)
(* a client that may also call with the NULL it got for a failure.         *)
(*                                                                         *)
(* ncodec_create configures one parameter of the MIME type per step.  Each *)
(* block of memory is counted where the code allocates and frees it.  What *)
(* the calls do to messages and stream is in FbsCodec; here they have a    *)
(* return code.                                                            *)
(***************************************************************************)
EXTENDS Integers, Sequences

CONSTANTS
    UINT8,      \* 2^8 in the code
    Text,       \* values of parameters, "stream" .. "fbs" among them
    strtoul,    \* the number that begins a text; 0 without one
    MimeType,   \* what a client creates from: is it this library's, and its items
    ConfigItem, \* what a client configures
    StreamArg   \* what a client passes as stream: a stream (TRUE) or NULL

\* Members of the instance, in the order codec_stat counts them.
Selector == <<"interface", "type", "bus", "schema">>
Parameter == <<"bus_id", "node_id", "interface_id", "swc_id", "ecu_id">>
Stat == Selector \o Parameter

Name == {Stat[i] : i \in 1 .. Len(Stat)}
Number == {Parameter[i] : i \in 1 .. Len(Parameter)}
NULL == "NULL"

\* A name=value of a MIME type or a config call; codec_config knows no "other".
Item == [name : Name \cup {"other"}, value : Text]

ASSUME LifeAssumption ==
    /\ UINT8 \in Nat \ {0}
    /\ NULL \notin Text /\ strtoul \in [Text -> Nat]
    /\ MimeType \subseteq [codec : BOOLEAN, items : Seq(Item)]
    /\ ConfigItem \subseteq Item
    /\ StreamArg \subseteq BOOLEAN

VARIABLES
    stage,      \* "none": the client has NULL; "parsing"; "open"
    mime,       \* the MIME type of the instance
    todo,       \* its items that ncodec_create has still to configure
    opening,    \* what the client called: ncodec_create, or ncodec_open with a stream
    str, num,   \* the strings and the uint8_t of the instance
    codec,      \* its function table
    stream,     \* it has a stream
    live,       \* live blocks of memory of each kind
    errno,
    rc          \* the last call and what it returned

instance == <<str, num, codec, stream>>
lifeVars == <<stage, mime, todo, opening, instance, live, errno, rc>>

Block == Name \cup {"_buf", "instance", "builder"}
Nothing == [b \in Block |-> 0]

Init ==
    /\ stage = "none" /\ mime = [codec |-> FALSE, items |-> <<>>] /\ todo = <<>>
    /\ opening = [op |-> "ncodec_create", stream |-> FALSE]
    /\ str = [n \in Name |-> NULL] /\ num = [n \in Number |-> 0]
    /\ codec = "none" /\ stream = FALSE
    /\ live = Nothing /\ errno = "0"
    /\ rc = [op |-> "none", code |-> "0"]

Returned(op, code) == rc' = [op |-> op, code |-> code]

-----------------------------------------------------------------------------
(* codec_config *)

\* Faulty: the string it replaces is not freed.
codec_config_leaks(item) ==
    IF item.name = "other" THEN UNCHANGED <<str, num, live>>
    ELSE /\ str' = [str EXCEPT ![item.name] = item.value]
         /\ num' = IF item.name \in Number
                   THEN [num EXCEPT ![item.name] = strtoul[item.value] % UINT8] ELSE num
         /\ live' = [live EXCEPT ![item.name] = @ + 1]

\* Faulty: a parameter that is set again keeps its number.
codec_config_once(item) ==
    IF item.name = "other" THEN UNCHANGED <<str, num, live>>
    ELSE /\ str' = [str EXCEPT ![item.name] = item.value]
         /\ num' = IF item.name \in Number /\ str[item.name] = NULL
                   THEN [num EXCEPT ![item.name] = strtoul[item.value] % UINT8] ELSE num
         /\ live' = [live EXCEPT ![item.name] = IF str[item.name] = NULL THEN @ + 1 ELSE @]

\* The string it had is freed, the new one is duplicated.
codec_config(item) ==
    IF item.name = "other" THEN UNCHANGED <<str, num, live>>
    ELSE /\ str' = [str EXCEPT ![item.name] = item.value]
         /\ num' = IF item.name \in Number
                   THEN [num EXCEPT ![item.name] = strtoul[item.value] % UINT8] ELSE num
         /\ live' = [live EXCEPT ![item.name] = IF str[item.name] = NULL THEN @ + 1 ELSE @]

\* The blocks the instance, or ncodec_create at work on it, refers to.
Held == [b \in Block |->
            CASE b \in Name      -> IF str[b] = NULL THEN 0 ELSE 1
              [] b = "_buf"     -> IF stage = "parsing" THEN 1 ELSE 0
              [] b = "instance" -> IF stage = "none" THEN 0 ELSE 1
              [] b = "builder"  -> IF stage = "open" THEN 1 ELSE 0]

\* free_codec, and free of the instance and of _buf.
Freed == [b \in Block |-> live[b] - Held[b]]

NoInstance ==
    /\ str' = [n \in Name |-> NULL] /\ num' = [n \in Number |-> 0]
    /\ codec' = "none" /\ stream' = FALSE

-----------------------------------------------------------------------------
(* ncodec_create, ncodec_open *)

\* The codec's name is compared before anything but _buf is allocated.
Create(m, how) ==
    /\ stage = "none"
    /\ IF m.codec
       THEN /\ stage' = "parsing" /\ mime' = m /\ todo' = m.items /\ opening' = how
            /\ live' = [live EXCEPT !["_buf"] = @ + 1, !["instance"] = @ + 1]
            /\ UNCHANGED <<instance, errno, rc>>
       ELSE /\ errno' = IF how.op = "ncodec_open" THEN "EINVAL" ELSE errno
            /\ Returned(how.op, "NULL")
            /\ UNCHANGED <<stage, mime, todo, opening, instance, live>>

ncodec_create == \E m \in MimeType : Create(m, [op |-> "ncodec_create", stream |-> FALSE])
ncodec_open ==
    \E m \in MimeType, s \in StreamArg : Create(m, [op |-> "ncodec_open", stream |-> s])

\* One turn of the loop over the MIME type.
Parse ==
    /\ stage = "parsing" /\ todo # <<>>
    /\ codec_config(Head(todo))
    /\ todo' = Tail(todo)
    /\ UNCHANGED <<stage, mime, opening, codec, stream, errno, rc>>

\* Faulty: the bus of a frame codec is not looked at.
Table_any_bus(s) ==
    IF s["interface"] # "stream" \/ s["schema"] # "fbs" THEN "none"
    ELSE IF s["type"] = "frame" THEN "can"
    ELSE IF s["type"] = "pdu" THEN "pdu" ELSE "none"

\* The guards, and the choice of the function table.
Table(s) ==
    IF s["interface"] # "stream" \/ s["schema"] # "fbs" THEN "none"
    ELSE IF s["type"] = "frame" /\ s["bus"] = "can" THEN "can"
    ELSE IF s["type"] = "pdu" THEN "pdu" ELSE "none"

\* The loop is done, and the instance is complete.
Complete ==
    /\ stage = "parsing" /\ todo = <<>>
    /\ Table(str) # "none"
    /\ live' = [live EXCEPT !["_buf"] = @ - 1, !["builder"] = @ + 1]
    /\ IF opening.op = "ncodec_open" /\ ~opening.stream
       THEN \* NULL for the client, who cannot reach the instance any more.
            /\ stage' = "none" /\ errno' = "EINVAL" /\ NoInstance
            /\ Returned(opening.op, "NULL")
       ELSE /\ stage' = "open"
            /\ codec' = Table(str) /\ stream' = opening.stream
            /\ Returned(opening.op, "instance")
            /\ UNCHANGED <<str, num, errno>>
    /\ UNCHANGED <<mime, todo, opening>>

\* Faulty: only the instance itself is freed.
Fail_instance_only ==
    /\ stage = "parsing" /\ todo = <<>>
    /\ Table(str) = "none"
    /\ live' = [live EXCEPT !["_buf"] = @ - 1, !["instance"] = @ - 1]
    /\ NoInstance /\ stage' = "none"
    /\ errno' = IF opening.op = "ncodec_open" THEN "EINVAL" ELSE errno
    /\ Returned(opening.op, "NULL")
    /\ UNCHANGED <<mime, todo, opening>>

\* A guard fails: create_fail.
Fail ==
    /\ stage = "parsing" /\ todo = <<>>
    /\ Table(str) = "none"
    /\ live' = Freed
    /\ NoInstance /\ stage' = "none"
    /\ errno' = IF opening.op = "ncodec_open" THEN "EINVAL" ELSE errno
    /\ Returned(opening.op, "NULL")
    /\ UNCHANGED <<mime, todo, opening>>

-----------------------------------------------------------------------------
(* Calls of the client *)

Calling == stage \in {"none", "open"}

\* ncodec_config returns nothing, whatever codec_config does.
ncodec_config ==
    /\ Calling
    /\ \E item \in ConfigItem : IF stage = "open" THEN codec_config(item)
                                ELSE UNCHANGED <<str, num, live>>
    /\ Returned("config", "void")
    /\ UNCHANGED <<stage, mime, todo, opening, codec, stream, errno>>

\* The item at the client's index; beyond the last, the index becomes -1.
codec_stat(index) ==
    IF stage = "none" THEN [op |-> "stat", code |-> "empty", index |-> index]
    ELSE IF index = Len(Stat) THEN [op |-> "stat", code |-> "empty", index |-> -1]
    ELSE [op |-> "stat", code |-> Stat[index + 1], value |-> str[Stat[index + 1]]]

ncodec_stat ==
    /\ Calling
    /\ \E index \in 0 .. Len(Stat) : rc' = codec_stat(index)
    /\ UNCHANGED <<stage, mime, todo, opening, instance, live, errno>>

\* write, read, flush and truncate go to the function table.  "0" stands for
\* all that is not negative.
ncodec_call ==
    /\ Calling
    /\ \E op \in {"write", "read", "flush", "truncate"}, msg \in BOOLEAN :
          IF stage = "none" THEN Returned(op, IF op = "read" THEN "ENOMSG" ELSE "ENOSTR")
          ELSE IF op \in {"write", "read"} /\ ~msg THEN Returned(op, "EINVAL")
          ELSE IF ~stream THEN Returned(op, "ENOSR")
          ELSE Returned(op, "0") \/ (op = "read" /\ Returned(op, "ENOMSG"))
    /\ UNCHANGED <<stage, mime, todo, opening, instance, live, errno>>

\* seek and tell go to the stream.
ncodec_stream ==
    /\ Calling
    /\ \E op \in {"seek", "tell"} : Returned(op, IF stream THEN "0" ELSE "ENOSTR")
    /\ UNCHANGED <<stage, mime, todo, opening, instance, live, errno>>

\* The client does not use the instance any more.
ncodec_close ==
    /\ stage = "open"
    /\ live' = Freed
    /\ NoInstance /\ stage' = "none"
    /\ Returned("close", "void")
    /\ UNCHANGED <<mime, todo, opening, errno>>

Next ==
    \/ ncodec_create \/ ncodec_open \/ Parse \/ Complete \/ Fail
    \/ ncodec_config \/ ncodec_stat \/ ncodec_call \/ ncodec_stream \/ ncodec_close

Spec == Init /\ [][Next]_lifeVars

-----------------------------------------------------------------------------
(* Properties *)

\* Each variable of the instance has its type, and no member's string is
\* allocated twice.
LifeTypeOK ==
    /\ stage \in {"none", "parsing", "open"}
    /\ str \in [Name -> Text \cup {NULL}] /\ num \in [Number -> 0 .. UINT8 - 1]
    /\ codec \in {"none", "can", "pdu"} /\ stream \in BOOLEAN
    /\ live \in [Block -> 0 .. 1]

\* When the client holds no instance, no memory of one is left: whatever the
\* items of the MIME type, set again or failing a guard, and whatever was
\* configured before the close.
NothingLost == stage = "none" => live = Nothing

\* The last value of a name in a sequence of items.
LastValue(items, n) ==
    LET at == {i \in 1 .. Len(items) : items[i].name = n}
    IN  IF at = {} THEN NULL ELSE items[CHOOSE i \in at : \A j \in at : j <= i].value

Given(n) == LastValue(mime.items, n)

\* What the documentation of the codec lists: "interface=stream; type=frame;
\* bus=can; schema=fbs" and "interface=stream; type=pdu; schema=fbs".
Supported == /\ Given("interface") = "stream" /\ Given("schema") = "fbs"
             /\ \/ Given("type") = "frame" /\ Given("bus") = "can"
                \/ Given("type") = "pdu"

\* No selector has been configured to another value than the MIME type's.
SelectedByMime == \A i \in 1 .. Len(Selector) : str[Selector[i]] = Given(Selector[i])

\* An instance exists only of a supported MIME type, in whatever order and
\* however often the items come, and its functions are those of its type while
\* the selectors are the MIME type's: no configuration of another parameter,
\* and none that gives a selector its own value again, changes them. Of an
\* instance one of whose selectors was configured to another value nothing is
\* said: ncodec_config documents that this value has priority.
TableFitsMime ==
    stage = "open" =>
        /\ Supported
        /\ SelectedByMime => codec = IF Given("type") = "frame" THEN "can" ELSE "pdu"

\* What stat reports of a parameter is the number the codec works with, cut to
\* its eight bits.
StatTellsNumber ==
    rc.op = "stat" /\ rc.code \in Number =>
        num[rc.code] = IF rc.value = NULL THEN 0 ELSE strtoul[rc.value] % UINT8
=============================================================================
