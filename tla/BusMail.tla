------------------------------ MODULE BusMail ------------------------------
(***************************************************************************)
(* What a Bus Topology object promises: a mail box for each bus that has   *)
(* joined, and a plan, taken from the model description, that says which   *)
(* box a value reference belongs to and which values are texts.            *)
(*                                                                         *)
(* What is delivered is appended to the box of its variable, and is lost,  *)
(* as a whole, only when the box has no room for it; nothing else reaches  *)
(* a box but what its own bus does.  All boxes are emptied together, at    *)
(* most once between two collections.                                      *)
(*                                                                         *)
(* call names the call a step is, with what it is given: what happens to   *)
(* the boxes is the promise of that call and of no other.                  *)
(***************************************************************************)
EXTENDS Integers, Sequences

CONSTANTS
    Bus, Vr,
    Data,     \* what a variable may deliver, or a bus put in its box
    Size      \* what a box can hold

VARIABLES
    plan,     \* input, output: pairs of Vr and Bus; text: references of output texts
    joined, box,
    emptied,  \* since the last collection
    call,     \* the last call: its op, and what it was given
    got       \* what it has collected: a sequence of at most one value

mailVars == <<plan, joined, box, emptied, call, got>>

Blank == [b \in Bus |-> <<>>]
NoPlan == [input |-> {}, output |-> {}, text |-> {}]

Init ==
    /\ plan = NoPlan /\ joined = {} /\ box = Blank /\ emptied = FALSE
    /\ call = [op |-> "none"] /\ got = <<>>

Answer(called, values) == call' = called /\ got' = values

\* An object is made of a document, with nothing in it.
Create ==
    /\ Answer([op |-> "create"], <<>>)
    /\ joined = {}
    /\ box' = Blank /\ emptied' = FALSE
    /\ UNCHANGED joined

\* A bus joins, or its codec is replaced by another, with what that one holds.
Join(b) ==
    /\ Answer([op |-> "add"], <<>>)
    /\ joined' = joined \cup {b}
    /\ \A other \in Bus \ {b} : box'[other] = box[other]
    /\ UNCHANGED <<plan, emptied>>

Input(vr) == {b \in joined : <<vr, b>> \in plan.input}
Output(vr) == {b \in joined : <<vr, b>> \in plan.output}

Deliver(vr, data) ==
    /\ Answer([op |-> "rx", vr |-> vr, data |-> data], <<>>)
    /\ \/ Input(vr) = {} /\ UNCHANGED box
       \/ \E b \in Input(vr) :
             box' = IF Len(box[b]) + Len(data) <= Size THEN [box EXCEPT ![b] = @ \o data]
                    ELSE box
    /\ UNCHANGED <<plan, joined, emptied>>

\* A collection leaves the boxes as they are and ends the cycle, also when
\* the reference belongs to no box.
Collect(vr) ==
    /\ call' = [op |-> "tx", vr |-> vr]
    /\ \/ Output(vr) = {} /\ got' = <<>>
       \/ \E b \in Output(vr) : got' = <<[text |-> vr \in plan.text, data |-> box[b]]>>
    /\ emptied' = FALSE
    /\ UNCHANGED <<plan, joined, box>>

Empty ==
    /\ Answer([op |-> "reset"], <<>>)
    /\ box' = IF emptied THEN box ELSE Blank
    /\ emptied' = TRUE
    /\ UNCHANGED <<plan, joined>>

\* The bus itself puts what it has to send in the place of what it has got.
Work(b, data) ==
    /\ Answer([op |-> "client"], <<>>)
    /\ b \in joined
    /\ box' = [box EXCEPT ![b] = IF Len(data) <= Size THEN data ELSE <<>>]
    /\ UNCHANGED <<plan, joined, emptied>>

\* The client does something with a codec that is on no bus.
Apart ==
    /\ Answer([op |-> "client"], <<>>)
    /\ UNCHANGED <<plan, joined, box, emptied>>

Destroy ==
    /\ Answer([op |-> "destroy"], <<>>)
    /\ plan' = NoPlan /\ joined' = {} /\ box' = Blank /\ emptied' = FALSE

Next ==
    \/ Create \/ Empty \/ Destroy \/ Apart
    \/ \E b \in Bus : Join(b) \/ \E data \in Data : Work(b, data)
    \/ \E vr \in Vr : Collect(vr) \/ \E data \in Data : Deliver(vr, data)

Spec == Init /\ [][Next]_mailVars
=============================================================================
