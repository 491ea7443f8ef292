---------------------------- MODULE MCLiveBoard ----------------------------
(***************************************************************************)
(* LiveBoard with two events of one agent and a page with two connections  *)
(* at most, of which the second may open while the first lives on. Either  *)
(* event may be a question.                                                *)
(***************************************************************************)
EXTENDS LiveBoard, TLC

Interchangeable == Permutations(Requests) \cup Permutations(Agents)

=============================================================================
