--------------------------- MODULE MCFmuNetwork ---------------------------
(***************************************************************************)
(* Three FMUs for TLC.  f1 and f2 talk both ways, f3 hears both and is     *)
(* never read (no GetString, so its reset_called stays set).               *)
(***************************************************************************)
EXTENDS FmuNetwork

MCChannel == {<<"f1", "f2">>, <<"f2", "f1">>, <<"f1", "f3">>, <<"f2", "f3">>}
MCNodeOf == [f \in Fmu |-> CASE f = "f1" -> 1 [] f = "f2" -> 2 [] f = "f3" -> 3]

\* Two FMUs on one bus, for the importer that serves one connection at a time.
MCPair == {<<"f1", "f2">>, <<"f2", "f1">>}

\* The networks of these runs are among those the proofs are about.
ASSUME MCWellConnected == WellConnected
=============================================================================
