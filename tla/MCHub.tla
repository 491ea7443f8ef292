------------------------------- MODULE MCHub -------------------------------
(***************************************************************************)
(* Hub on three channels, two agents and three messages: enough for two     *)
(* overlapping broadcasts to two clients while a listener comes and goes,  *)
(* with a third call after both.                                           *)
(***************************************************************************)
EXTENDS Hub, TLC

Interchangeable == Permutations(Chans) \cup Permutations(Agents) \cup Permutations(Calls)

=============================================================================
