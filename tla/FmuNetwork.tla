----------------------------- MODULE FmuNetwork -----------------------------
(***************************************************************************)
(* FMUs of fmi-ls-bus-topology on one simulation bus: an importer moves    *)
(* the value of each transmit variable to the receive variables it is      *)
(* connected to, and steps the FMUs.  Each FMU has one codec on one        *)
(* stream, used for both directions.                                       *)
(*                                                                         *)
(* An FMI call is one step here; FmuInstance has the codec calls inside.   *)
(* A message stands for the frame an FMU sends in a round.                 *)
(***************************************************************************)
EXTENDS BusTopology, SequencesExt

CONSTANTS
    Fmu,
    Channel,    \* connections <<sender, receiver>> of the system
    NodeOf,     \* node_id of each FMU's codec
    Rounds      \* rounds are counted modulo this

ASSUME NetworkAssumption ==
    /\ Channel \subseteq Fmu \X Fmu
    /\ NodeOf \in [Fmu -> Nat]
    /\ Rounds \in Nat \ (0 .. 2)

VARIABLES
    stream, reset_called,   \* of each FMU
    value,                  \* of each FMU's transmit variable, as got
    heard,                  \* what each FMU has read in its last step
    round, stage, todo      \* the importer: what is left to do in a stage

netVars == <<stream, reset_called, value, heard, round, stage, todo>>

Messages == [from : Fmu, round : 0 .. Rounds - 1]
Blank == [from |-> "", round |-> 0]   \* the zeroes of a new stream
Sender == {c[1] : c \in Channel}

previous == (round + Rounds - 1) % Rounds

-----------------------------------------------------------------------------
Init ==
    /\ stream = [f \in Fmu |-> stream_create(Blank)]
    /\ reset_called = [f \in Fmu |-> FALSE]
    /\ value = [f \in Fmu |-> Text(<<>>)]
    /\ heard = [f \in Fmu |-> <<>>]
    /\ round = 0 /\ stage = "first" /\ todo = Fmu

\* fmi2GetString with the FMU's transmit variable.
fmi2GetString(f) ==
    /\ value' = [value EXCEPT ![f] = Text(tx_data(stream[f]))]
    /\ stream' = [stream EXCEPT ![f] = tx_stream(@)]
    /\ reset_called' = [reset_called EXCEPT ![f] = FALSE]

\* Faulty: every Set truncates.
reset_stream_always(f) == stream_seek(stream[f], 0, "SEEK_RESET")

\* bus_topology_reset: truncate, unless done since the last GetString.
reset_stream(f) ==
    IF reset_called[f] THEN stream[f] ELSE stream_seek(stream[f], 0, "SEEK_RESET")

\* fmi2SetString with a receive variable; text is the value connected to it.
fmi2SetString(f, text) ==
    /\ stream' = [stream EXCEPT ![f] = rx_stream(reset_stream(f), decoded(text))]
    /\ reset_called' = [reset_called EXCEPT ![f] = TRUE]

\* The codec's filter on the sender's node_id.
Visible(f, m) == m \in Messages /\ (NodeOf[f] = 0 \/ NodeOf[m.from] # NodeOf[f])
Filtered(f, ms) ==
    FlattenSeq([k \in 1 .. Len(ms) |-> IF Visible(f, ms[k]) THEN <<ms[k]>> ELSE <<>>])

\* Faulty: no truncate before the write.
fmi2DoStep_no_truncate(f) ==
    /\ heard' = [heard EXCEPT ![f] = Filtered(f, stream_read(stream[f]))]
    /\ stream' = [stream EXCEPT ![f] =
                     stream_write(stream_seek(@, 0, "SEEK_END"), <<[from |-> f, round |-> round]>>)]

\* fmi2DoStep: read all from the position on, truncate, write and flush.
fmi2DoStep(f) ==
    /\ heard' = [heard EXCEPT ![f] = Filtered(f, stream_read(stream[f]))]
    /\ stream' = [stream EXCEPT ![f] =
                     stream_write(stream_seek(@, 0, "SEEK_RESET"),
                                  <<[from |-> f, round |-> round]>>)]

-----------------------------------------------------------------------------
(* Importers *)

Enter(s, work) == stage' = s /\ todo' = work

\* When item is the last of a stage, the importer enters the next one.
Finish(item, s, work) ==
    IF todo = {item} THEN Enter(s, work) ELSE todo' = todo \ {item} /\ UNCHANGED stage

Step(f, s, work) ==
    /\ stage \in {"first", "step"} /\ f \in todo
    /\ fmi2DoStep(f)
    /\ Finish(f, s, work)
    /\ UNCHANGED <<reset_called, value, round>>

NextRound == IF stage' = "step" THEN round' = (round + 1) % Rounds ELSE UNCHANGED round

\* The co-simulation loop: step all, get all outputs, set all inputs; any
\* order within a stage.
BatchGet(f) ==
    /\ stage = "get" /\ f \in todo
    /\ fmi2GetString(f)
    /\ Finish(f, "set", Channel)
    /\ UNCHANGED <<heard, round>>

BatchSet(c) ==
    /\ stage = "set" /\ c \in todo
    /\ fmi2SetString(c[2], value[c[1]])
    /\ Finish(c, "step", Fmu)
    /\ NextRound
    /\ UNCHANGED <<value, heard>>

BatchNext ==
    \/ \E f \in Fmu : Step(f, "get", Sender) \/ BatchGet(f)
    \/ \E c \in Channel : BatchSet(c)

\* An importer that serves one connection at a time, get then set.
Exchange(c) ==
    /\ stage = "exchange" /\ c \in todo
    /\ stream' = [stream EXCEPT ![c[1]] = tx_stream(@),
                                ![c[2]] = rx_stream(reset_stream(c[2]), tx_data(stream[c[1]]))]
    /\ reset_called' = [reset_called EXCEPT ![c[1]] = FALSE, ![c[2]] = TRUE]
    /\ value' = [value EXCEPT ![c[1]] = Text(tx_data(stream[c[1]]))]
    /\ Finish(c, "step", Fmu)
    /\ NextRound
    /\ UNCHANGED heard

ExchangeNext ==
    \/ \E f \in Fmu : Step(f, "exchange", Channel)
    \/ \E c \in Channel : Exchange(c)

BatchSpec == Init /\ [][BatchNext]_netVars /\ WF_netVars(BatchNext)
ExchangeSpec == Init /\ [][ExchangeNext]_netVars

-----------------------------------------------------------------------------
(* Properties *)

NetTypeOK ==
    /\ \A f \in Fmu : /\ stream[f] \in Stream(Messages \cup {Blank})
                      /\ stream[f].pos <= stream[f].len
    /\ reset_called \in [Fmu -> BOOLEAN]
    /\ \A f \in Fmu : heard[f] \in Seq(Messages)
    /\ round \in 0 .. Rounds - 1 /\ stage \in {"first", "step", "get", "set", "exchange"}

\* Each FMU connected to f.
Into(f) == {g \in Fmu : <<g, f>> \in Channel}

\* Whose messages the stream of f may hold at once: the own one stays in it
\* when nobody gets the transmit variable of f.
Keepers(f) == Into(f) \cup ({f} \ Sender)

\* The connections the code serves: the messages for an FMU fit its stream (a
\* write that does not fit is lost), and an FMU whose own message stays has a
\* node_id to filter it by.
WellConnected ==
    \A f \in Fmu : Into(f) # {} => /\ IsFiniteSet(Keepers(f)) /\ Cardinality(Keepers(f)) <= BUFFER_LEN
                                   /\ f \in Sender \/ NodeOf[f] # 0

\* In its step of a round an FMU hears the previous round's message of each
\* FMU connected to it that has another node_id: each exactly once, nothing
\* older, nothing of its own, nothing that was not meant for it.
Due(f) == {m \in [from : Into(f), round : {previous}] : Visible(f, m)}

HeardExactlyOnce ==
    stage = "step" =>
        \A f \in Fmu \ todo :
            IsInjective(heard[f]) /\ Range(heard[f]) = Due(f)

\* What is got of a transmit variable is the FMU's own message of the round
\* alone: a received message is never passed on.
GotOwnMessage ==
    stage = "set" => \A f \in Sender : value[f] = Text(<<[from |-> f, round |-> round]>>)

\* The message of every step reaches every connected FMU.
Heard(f, m) == m \in Range(heard[f])

EveryMessageHeard ==
    \A c \in Channel, r \in 0 .. Rounds - 1 :
        NodeOf[c[1]] # NodeOf[c[2]] /\ stage \in {"first", "step"} /\ round = r /\ c[1] \notin todo
            ~> Heard(c[2], [from |-> c[1], round |-> r])
=============================================================================
