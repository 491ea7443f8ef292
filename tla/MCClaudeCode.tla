----------------------------- MODULE MCClaudeCode -----------------------------
(* The instance of ClaudeCode that TLC checks. *)
EXTENDS ClaudeCode

(* Installs, and paths, differ in nothing. *)
Interchangeable == Permutations(Installs) \cup Permutations(Paths)

=============================================================================
