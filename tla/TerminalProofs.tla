--------------------------- MODULE TerminalProofs ---------------------------
(***************************************************************************)
(* Proofs about Terminal for every size of the PTY's buffers and every     *)
(* number of frames.                                                       *)
(***************************************************************************)
EXTENDS Terminal, TLAPS

(* What the goroutines owe to the Once: whoever holds it is at its         *)
(* cleanup, main waits for the process after the cleanup only, and nothing *)
(* is reaped, nor the PTY left open, before it.                            *)
OnceInv ==
  /\ once = "main" => main = "cleanup"
  /\ once = "reader" => reader = "cleanup"
  /\ once # "free" => ptmx = "closed"
  /\ main = "waiting" \/ program = "reaped" => once = "done"
  /\ main = "upgraded" => ptmx = "none" /\ program = "none" /\ once = "free"
                          /\ reader = "none"

(* The inductive invariant. *)
CleanupInv == TypeOK /\ OnceInv /\ HupBeforeReap /\ ReturnedMeansReleased

LEMMA CleanupStep ==
  ASSUME CleanupInv, [Next]_vars
  PROVE  CleanupInv'
<1> USE TerminalAssumption DEF CleanupInv, OnceInv, TypeOK, HupBeforeReap,
        ReturnedMeansReleased, goVars, netVars, ptyVars, programVars
<1>1. CASE PeerSends \/ PeerLeaves
  BY <1>1 DEF PeerSends, PeerLeaves
<1>2. CASE ProgramReads \/ ProgramWrites \/ ProgramExits \/ SlaveReleased
  BY <1>2 DEF ProgramReads, ProgramWrites, ProgramExits, SlaveReleased
<1>3. CASE StartProgram \/ StartFails
  BY <1>3 DEF StartProgram, StartFails
<1>4. CASE ReadFrame \/ WriteInput \/ WriteError \/ SocketError
  BY <1>4 DEF ReadFrame, WriteInput, WriteError, SocketError
<1>5. CASE ReadOutput \/ ReadError \/ SendOutput \/ SendError
  BY <1>5 DEF ReadOutput, ReadError, SendOutput, SendError
<1>6. ASSUME NEW g \in {"main", "reader"}, Cleanup(g) PROVE CleanupInv'
  <2>1. CASE CleanupBegins(g)
    BY <1>6, <2>1 DEF CleanupBegins, At
  <2>2. CASE CleanupEnds(g)
    BY <1>6, <2>2 DEF CleanupEnds, Resume
  <2>3. CASE CleanupJoined(g)
    BY <1>6, <2>3 DEF CleanupJoined, Resume, At
  <2>. QED
    BY <1>6, <2>1, <2>2, <2>3 DEF Cleanup
<1>7. CASE CloseConn \/ Return
  BY <1>7 DEF CloseConn, Return
<1>8. CASE UNCHANGED vars
  BY <1>8 DEF vars
<1>. QED
  BY <1>1, <1>2, <1>3, <1>4, <1>5, <1>6, <1>7, <1>8 DEF Next, MainStep, ReaderStep

(* The invariant holds in every reachable state. *)
THEOREM CleanupCorrect == Spec => []CleanupInv
<1>1. Init => CleanupInv
  <2> SUFFICES ASSUME Init PROVE CleanupInv
    OBVIOUS
  <2>1. TypeOK
    <3>1. 0 \in 0 .. Room /\ 0 \in 0 .. MaxInput /\ 0 \in 0 .. 0
      BY TerminalAssumption
    <3>2. typed \in 0 .. MaxInput /\ inbox \in 0 .. typed
      BY <3>1 DEF Init
    <3>3. toProgram \in 0 .. Room /\ fromProgram \in 0 .. Room
      BY <3>1 DEF Init
    <3>. QED
      BY <3>2, <3>3 DEF Init, TypeOK
  <2>2. OnceInv /\ HupBeforeReap /\ ReturnedMeansReleased
    BY DEF Init, OnceInv, HupBeforeReap, ReturnedMeansReleased
  <2>. QED
    BY <2>1, <2>2 DEF CleanupInv
<1>. QED
  BY <1>1, CleanupStep, PTL DEF Spec

(* Every variable of a terminal call keeps its type. *)
THEOREM TypeCorrect == Spec => []TypeOK
BY CleanupCorrect, PTL DEF CleanupInv

(* No SIGHUP is sent to a process that has been reaped, whichever of the   *)
(* two goroutines comes to the cleanup first.                              *)
THEOREM SignalsLivingProcess == Spec => []HupBeforeReap
BY CleanupCorrect, PTL DEF CleanupInv

(* A call that returns has closed socket and PTY and reaped its process.   *)
THEOREM ReturnReleases == Spec => []ReturnedMeansReleased
BY CleanupCorrect, PTL DEF CleanupInv

=============================================================================
