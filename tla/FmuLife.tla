------------------------------ MODULE FmuLife -------------------------------
(***************************************************************************)
(* The life of the example FMU and of what it owns: the Bus Topology       *)
(* object, the codec it opens from its MIME type and the stream it makes   *)
(* for it.  The codec is the instance of NcodecLife; it belongs either to  *)
(* a client of its own or to the FMU, whose importer may initialise it     *)
(* more than once before it frees it.                                      *)
(*                                                                         *)
(* fmi2GetString, fmi2SetString and fmi2DoStep leave all of this alone;    *)
(* they are in FmuInstance.  The other FMI calls (fmi2Reset and            *)
(* fmi2Terminate among them) only assert their argument and return fmi2OK. *)
(***************************************************************************)
EXTENDS NcodecLife

CONSTANTS
    FmuMimeType,    \* what the MIMETYPE of an FMU may be
    MaxInit         \* bound: initialisations of one instance

ASSUME FmuLifeAssumption ==
    /\ FmuMimeType \subseteq [codec : {TRUE}, items : Seq(Item)]
    /\ MaxInit \in Nat

VARIABLES
    fmu,      \* "absent": the codec has a client of its own; "none"; "instance"
    call,     \* where fmi2ExitInitializationMode is; "crashed": strcmp of NULL
    index,    \* of __get_ncodec_bus_id
    buses,    \* the buses of the Bus Topology object
    inits,    \* initialisations of this instance
    lost      \* what it allocated, or had allocated, and cannot reach any more

ownVars == <<buses, inits, lost>>
fmuLifeVars == <<lifeVars, fmu, call, index, ownVars>>

NothingYet == [topology |-> 0, codec |-> 0, stream |-> 0]

FLInit ==
    /\ Init
    /\ fmu \in {"absent", "none"}
    /\ call = "none" /\ index = 0
    /\ buses = {} /\ inits = 0 /\ lost = NothingYet

\* The codec is used without an FMU.
Client == fmu = "absent" /\ Next /\ UNCHANGED <<fmu, call, index, ownVars>>

-----------------------------------------------------------------------------
(* fmi2Instantiate, fmi2ExitInitializationMode *)

fmi2Instantiate ==
    /\ fmu = "none"
    /\ fmu' = "instance"
    /\ buses' = {} /\ inits' = 0 /\ lost' = NothingYet
    /\ UNCHANGED <<lifeVars, call, index>>

\* Nothing refers to the codec any more, and nothing freed it.
Forgotten == /\ live' = Nothing /\ NoInstance /\ stage' = "none"
             /\ Returned("none", "0")

\* bus_topology_create.  What an earlier initialisation made is overwritten.
fmi2ExitInitializationMode ==
    /\ fmu = "instance" /\ call = "none"
    /\ inits < MaxInit
    /\ inits' = inits + 1 /\ buses' = {}
    /\ lost' = IF inits = 0 THEN lost ELSE [r \in DOMAIN lost |-> lost[r] + 1]
    /\ call' = "open"
    /\ Forgotten
    /\ UNCHANGED <<mime, todo, opening, errno, fmu, index>>

\* ncodec_open with the stream of stream_create.
OpenCodec ==
    /\ call = "open"
    /\ \E m \in FmuMimeType : Create(m, [op |-> "ncodec_open", stream |-> TRUE])
    /\ call' = "opening"
    /\ UNCHANGED <<fmu, index, ownVars>>

Opening ==
    /\ call = "opening"
    /\ Parse \/ Complete \/ Fail
    /\ call' = IF stage' = "parsing" THEN "opening" ELSE "stat"
    /\ index' = 0
    /\ UNCHANGED <<fmu, ownVars>>

\* Faulty: the names of the items are not compared.
StatTurn_any_name ==
    /\ call = "stat"
    /\ rc' = codec_stat(index)
    /\ IF rc'.code = "empty"
       THEN call' = "crashed" /\ UNCHANGED <<index, buses>>
       ELSE IF rc'.value # NULL
       THEN /\ call' = "none" /\ UNCHANGED index
            /\ buses' = buses \cup {rc'.value}
       ELSE index' = index + 1 /\ UNCHANGED <<call, buses>>
    /\ UNCHANGED <<stage, mime, todo, opening, instance, live, errno, fmu, inits, lost>>

\* Faulty: the index is not advanced.
StatTurn_same_index ==
    /\ call = "stat"
    /\ rc' = codec_stat(index)
    /\ IF rc'.code = "empty"
       THEN call' = "crashed" /\ UNCHANGED <<index, buses>>
       ELSE IF rc'.code = "bus_id"
       THEN /\ call' = "none" /\ UNCHANGED index
            /\ buses' = IF rc'.value = NULL THEN buses ELSE buses \cup {rc'.value}
       ELSE UNCHANGED <<call, index, buses>>
    /\ UNCHANGED <<stage, mime, todo, opening, instance, live, errno, fmu, inits, lost>>

\* A turn of __get_ncodec_bus_id; with the bus id, bus_topology_add, without
\* one none.
StatTurn ==
    /\ call = "stat"
    /\ rc' = codec_stat(index)
    /\ IF rc'.code = "empty"
       THEN call' = "crashed" /\ UNCHANGED <<index, buses>>
       ELSE IF rc'.code = "bus_id"
       THEN /\ call' = "none" /\ UNCHANGED index
            /\ buses' = IF rc'.value = NULL THEN buses ELSE buses \cup {rc'.value}
       ELSE index' = index + 1 /\ UNCHANGED <<call, buses>>
    /\ UNCHANGED <<stage, mime, todo, opening, instance, live, errno, fmu, inits, lost>>

-----------------------------------------------------------------------------
(* fmi2FreeInstance *)

\* Faulty: the codecs of the buses are not closed.
fmi2FreeInstance_keeps_codec ==
    /\ fmu = "instance" /\ call = "none"
    /\ fmu' = "none"
    /\ Forgotten
    /\ buses' = {}
    /\ lost' = IF inits = 0 THEN lost
               ELSE [lost EXCEPT !.codec = @ + 1, !.stream = @ + 1]
    /\ UNCHANGED <<mime, todo, opening, errno, call, index, inits>>

\* bus_topology_destroy closes the codecs of its buses.  A codec that is on
\* none goes with the instance; the stream always does.
fmi2FreeInstance ==
    /\ fmu = "instance" /\ call = "none"
    /\ fmu' = "none"
    /\ IF buses # {} THEN /\ live' = Freed /\ NoInstance /\ stage' = "none"
                         /\ Returned("close", "void")
       ELSE Forgotten
    /\ buses' = {}
    /\ lost' = IF inits = 0 THEN lost
               ELSE [lost EXCEPT !.codec = IF buses = {} THEN @ + 1 ELSE @, !.stream = @ + 1]
    /\ UNCHANGED <<mime, todo, opening, errno, call, index, inits>>

-----------------------------------------------------------------------------
Initialising == OpenCodec \/ Opening \/ StatTurn

FLNext == Client \/ fmi2Instantiate \/ fmi2ExitInitializationMode \/ Initialising \/ fmi2FreeInstance

\* A call that has begun runs on: the code is sequential and never waits.
FmuLifeSpec == FLInit /\ [][FLNext]_fmuLifeVars /\ WF_fmuLifeVars(Initialising)

-----------------------------------------------------------------------------
(* Properties *)

\* What is left behind when an instance is freed, and no more: the topology
\* object and the codec of every initialisation that was repeated, every
\* stream, and the last codec if its MIME type names no bus.
LostIsKnown ==
    fmu = "none" =>
        LET repeated == IF inits = 0 THEN 0 ELSE inits - 1
        IN  lost = [topology |-> repeated,
                    codec    |-> IF Given("bus_id") = NULL THEN inits ELSE repeated,
                    stream   |-> inits]

\* The codec of an initialised FMU is on the bus its MIME type names last, on
\* no other and on none without a name, and its memory is allocated.
BusAsNamed ==
    fmu = "instance" /\ call = "none" /\ inits > 0 =>
        /\ buses = {Given("bus_id")} \ {NULL}
        /\ stage = "open" /\ live = Held

\* An initialisation comes to its end: the loop that looks for the bus id
\* finds it, set or not, before the items are at their end.
InitReturns == call # "none" ~> call = "none"
=============================================================================
