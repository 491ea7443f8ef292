------------------------------ MODULE Terminal ------------------------------
(***************************************************************************)
(* A browser terminal: one call of ServeWebSocket                          *)
(* (internal/terminal/handler.go). The call starts a program, a tmux       *)
(* client or a shell, in a PTY. Two goroutines copy: main, the call        *)
(* itself, from the socket to the PTY, and the reader from the PTY to the  *)
(* socket. Each runs the cleanup when its loop ends, and sync.Once lets    *)
(* one of them do it while the other waits.                                *)
(*                                                                         *)
(* Calls share nothing, so there is one. Data is counted, not kept.        *)
(***************************************************************************)
EXTENDS Naturals

CONSTANTS
  Room,      (* how much input, or output, the PTY holds                   *)
  MaxInput   (* bound: frames the peer sends                               *)

ASSUME TerminalAssumption == Room \in Nat \ {0} /\ MaxInput \in Nat

VARIABLES
  main,     (* where ServeWebSocket is                                     *)
  reader,   (* where its goroutine is                                      *)
  once,     (* the Once: free, main or reader while one runs it, or done   *)
  conn,     (* the socket on this side: open or closed                     *)
  peer,     (* the browser: up or gone                                     *)
  typed,    (* frames the peer has sent                                    *)
  inbox,    (* and those of them main has not read                         *)
  ptmx,     (* the PTY's file: none, open or closed                        *)
  toProgram, fromProgram,  (* what the PTY holds in each direction         *)
  program,  (* none, running, exited (a zombie) or reaped                  *)
  slave,    (* the program's end of the PTY is held or released            *)
  hup,      (* SIGHUP was sent                                             *)
  lateHup   (* history: it was sent to a process already reaped            *)

goVars == <<main, reader, once>>
netVars == <<conn, peer, typed, inbox>>
ptyVars == <<ptmx, toProgram, fromProgram>>
programVars == <<program, slave, hup, lateHup>>
vars == <<goVars, netVars, ptyVars, programVars>>

Init ==
  /\ main = "upgraded" /\ reader = "none" /\ once = "free"
  /\ conn = "open" /\ peer = "up" /\ typed = 0 /\ inbox = 0
  /\ ptmx = "none" /\ toProgram = 0 /\ fromProgram = 0
  /\ program = "none" /\ slave = "released"
  /\ hup = FALSE /\ lateHup = FALSE

-----------------------------------------------------------------------------
(* The browser. *)

PeerSends ==
  /\ peer = "up" /\ conn = "open"
  /\ typed < MaxInput
  /\ typed' = typed + 1 /\ inbox' = inbox + 1
  /\ UNCHANGED <<goVars, conn, peer, ptyVars, programVars>>

PeerLeaves ==
  /\ peer = "up"
  /\ peer' = "gone"
  /\ UNCHANGED <<goVars, conn, typed, inbox, ptyVars, programVars>>

-----------------------------------------------------------------------------
(* The program. Its exit and the release of its end of the PTY are apart:  *)
(* what it started may hold that longer.                                   *)

ProgramReads ==
  /\ program = "running" /\ toProgram > 0
  /\ toProgram' = toProgram - 1
  /\ UNCHANGED <<goVars, netVars, ptmx, fromProgram, programVars>>

ProgramWrites ==
  /\ program = "running"
  /\ fromProgram < Room
  /\ fromProgram' = fromProgram + 1
  /\ UNCHANGED <<goVars, netVars, ptmx, toProgram, programVars>>

ProgramExits ==
  /\ program = "running"
  /\ program' = "exited"
  /\ UNCHANGED <<goVars, netVars, ptyVars, slave, hup, lateHup>>

SlaveReleased ==
  /\ program \in {"exited", "reaped"} /\ slave = "held"
  /\ slave' = "released"
  /\ UNCHANGED <<goVars, netVars, ptyVars, program, hup, lateHup>>

-----------------------------------------------------------------------------
(* Main: from the upgrade to the loop that reads the socket. *)

StartProgram ==
  /\ main = "upgraded"
  /\ ptmx' = "open"
  /\ program' = "running" /\ slave' = "held"
  /\ main' = "reading" /\ reader' = "reading"
  /\ UNCHANGED <<once, netVars, toProgram, fromProgram, hup, lateHup>>

(* pty.Start fails: the close frame, and the deferred conn.Close. *)
StartFails ==
  /\ main = "upgraded"
  /\ main' = "returned" /\ conn' = "closed"
  /\ UNCHANGED <<reader, once, peer, typed, inbox, ptyVars, programVars>>

(* A text frame may resize the PTY and is not input; a binary one is. *)
ReadFrame ==
  /\ main = "reading"
  /\ conn = "open" /\ inbox > 0
  /\ inbox' = inbox - 1
  /\ \/ UNCHANGED main
     \/ main' = "writing"
  /\ UNCHANGED <<reader, once, conn, peer, typed, ptyVars, programVars>>

(* ptmx.Write waits until the PTY has room for the frame. Whether it can   *)
(* finish once the reader has closed the file depends on the build.        *)
WriteInput ==
  /\ main = "writing"
  /\ slave = "held"
  /\ toProgram < Room
  /\ toProgram' = toProgram + 1
  /\ main' = "reading"
  /\ UNCHANGED <<reader, once, netVars, ptmx, fromProgram, programVars>>

(* It fails when the PTY is closed at either end. That is never io.EOF, so *)
(* the loop goes on.                                                       *)
WriteError ==
  /\ main = "writing"
  /\ ptmx = "closed" \/ slave = "released"
  /\ main' = "reading"
  /\ UNCHANGED <<reader, once, netVars, ptyVars, programVars>>

SocketError ==
  /\ main = "reading"
  /\ peer = "gone" \/ conn = "closed"
  /\ main' = "cleanup"
  /\ UNCHANGED <<reader, once, netVars, ptyVars, programVars>>

-----------------------------------------------------------------------------
(* The reader. *)

ReadOutput ==
  /\ reader = "reading"
  /\ fromProgram > 0
  /\ fromProgram' = fromProgram - 1
  /\ reader' = "sending"
  /\ UNCHANGED <<main, once, netVars, ptmx, toProgram, programVars>>

(* EIO once the program's end is released and the PTY drained. Closing the *)
(* file ends a Read that waits on it in some builds; in others the Read    *)
(* goes on, and may still deliver.                                         *)
ReadError ==
  /\ reader = "reading"
  /\ \/ slave = "released" /\ fromProgram = 0
     \/ ptmx = "closed"
  /\ reader' = "cleanup"
  /\ UNCHANGED <<main, once, netVars, ptyVars, programVars>>

SendOutput ==
  /\ reader = "sending"
  /\ peer = "up" /\ conn = "open"
  /\ reader' = "reading"
  /\ UNCHANGED <<main, once, netVars, ptyVars, programVars>>

SendError ==
  /\ reader = "sending"
  /\ peer = "gone" \/ conn = "closed"
  /\ reader' = "cleanup"
  /\ UNCHANGED <<main, once, netVars, ptyVars, programVars>>

-----------------------------------------------------------------------------
(* The cleanup, and the ends of both goroutines. *)

At(g) == IF g = "main" THEN main ELSE reader

(* Where g goes on after the cleanup. *)
Resume(g) ==
  IF g = "main" THEN main' = "waiting" /\ UNCHANGED reader
                ELSE reader' = "closing" /\ UNCHANGED main

(* once.Do, for the first that comes: the PTY is closed. *)
CleanupBegins(g) ==
  /\ At(g) = "cleanup"
  /\ once = "free"
  /\ once' = g
  /\ ptmx' = "closed"
  /\ UNCHANGED <<main, reader, netVars, toProgram, fromProgram, programVars>>

(* Faulty variant: the PTY is closed and nobody is signalled. *)
CleanupOnlyCloses(g) ==
  /\ once = g
  /\ once' = "done"
  /\ Resume(g)
  /\ UNCHANGED <<netVars, ptyVars, programVars>>

(* SIGHUP is sent; Go keeps it from a process it has reaped. *)
CleanupEnds(g) ==
  /\ once = g
  /\ once' = "done"
  /\ hup' = (hup \/ program = "running")
  /\ lateHup' = (program = "reaped")
  /\ Resume(g)
  /\ UNCHANGED <<netVars, ptyVars, program, slave>>

(* Faulty variant: a flag in place of the Once: the second does not wait.  *)
CleanupSkipped(g) ==
  /\ At(g) = "cleanup"
  /\ once \notin {"free", g}
  /\ Resume(g)
  /\ UNCHANGED <<once, netVars, ptyVars, programVars>>

(* once.Do, for the other: it returns when the cleanup is done. *)
CleanupJoined(g) ==
  /\ At(g) = "cleanup"
  /\ once = "done"
  /\ Resume(g)
  /\ UNCHANGED <<once, netVars, ptyVars, programVars>>

(* Faulty variant: the reader leaves the socket open. *)
EndWithoutClose ==
  /\ reader = "closing"
  /\ reader' = "ended"
  /\ UNCHANGED <<main, once, netVars, ptyVars, programVars>>

CloseConn ==
  /\ reader = "closing"
  /\ reader' = "ended"
  /\ conn' = "closed"
  /\ UNCHANGED <<main, once, peer, typed, inbox, ptyVars, programVars>>

(* Faulty variant: nobody waits for the process. *)
ReturnWithoutWait ==
  /\ main = "waiting"
  /\ main' = "returned"
  /\ conn' = "closed"
  /\ UNCHANGED <<reader, once, peer, typed, inbox, ptyVars, programVars>>

(* cmd.Wait returns; then the deferred calls, of which conn.Close is left. *)
Return ==
  /\ main = "waiting"
  /\ program = "exited"
  /\ program' = "reaped"
  /\ main' = "returned"
  /\ conn' = "closed"
  /\ UNCHANGED <<reader, once, peer, typed, inbox, ptyVars, slave, hup, lateHup>>

Cleanup(g) == CleanupBegins(g) \/ CleanupEnds(g) \/ CleanupJoined(g)

MainStep ==
  \/ StartProgram \/ StartFails
  \/ ReadFrame \/ WriteInput \/ SocketError
  \/ Cleanup("main") \/ Return

ReaderStep == ReadOutput \/ SendError \/ Cleanup("reader") \/ CloseConn

Next ==
  \/ PeerSends \/ PeerLeaves
  \/ ProgramReads \/ ProgramWrites \/ ProgramExits \/ SlaveReleased
  \/ MainStep \/ WriteError
  \/ ReaderStep \/ ReadError \/ SendOutput

Spec == Init /\ [][Next]_vars

(* The goroutines go on when they can, but nothing relies on closing the   *)
(* PTY to interrupt them. A program exits on SIGHUP, and what it started   *)
(* lets go of the PTY after it. Neither program nor browser has to read.   *)
FairSpec ==
  /\ Spec
  /\ WF_vars(MainStep) /\ WF_vars(WriteError /\ slave = "released")
  /\ WF_vars(ReaderStep) /\ WF_vars(ReadError /\ slave = "released")
  /\ WF_vars(ProgramExits /\ hup)
  /\ WF_vars(SlaveReleased)

-----------------------------------------------------------------------------

TypeOK ==
  /\ main \in {"upgraded", "reading", "writing", "cleanup", "waiting", "returned"}
  /\ reader \in {"none", "reading", "sending", "cleanup", "closing", "ended"}
  /\ once \in {"free", "main", "reader", "done"}
  /\ conn \in {"open", "closed"} /\ peer \in {"up", "gone"}
  /\ typed \in 0 .. MaxInput /\ inbox \in 0 .. typed
  /\ ptmx \in {"none", "open", "closed"}
  /\ toProgram \in 0 .. Room /\ fromProgram \in 0 .. Room
  /\ program \in {"none", "running", "exited", "reaped"}
  /\ slave \in {"held", "released"}
  /\ hup \in BOOLEAN /\ lateHup \in BOOLEAN

(* The cleanup of either goroutine has signalled the process before main   *)
(* reaps it: no SIGHUP goes to a pid that may be another's by then         *)
(* (handler.go:83-92, 138-139).                                            *)
HupBeforeReap == ~ lateHup

(* When ServeWebSocket returns, the socket and the PTY are closed and the  *)
(* process is reaped (handler.go:43, 81-92, 138-139).                      *)
ReturnedMeansReleased ==
  main = "returned" =>
    /\ conn = "closed" /\ ptmx # "open"
    /\ program \in {"none", "reaped"}

(* The design says that on a disconnection the program is killed and the   *)
(* PTY closed: ServeWebSocket returns after the browser has gone           *)
(* (handler.go:115-139).                                                   *)
DisconnectEnds == peer = "gone" ~> main = "returned"

(* It does, wherever the two goroutines are when the browser goes, if the  *)
(* program does not leave its input full for ever: main sees that the      *)
(* browser has gone only between two writes (handler.go:115-139).          *)
DisconnectEndsIfRead == []<>(toProgram < Room) => DisconnectEnds

(* When the program has exited and its end of the PTY is released, both    *)
(* goroutines end, each of which may be waiting on the other's side, if    *)
(* the browser takes or refuses what it is sent (handler.go:95-119).       *)
ExitEnds ==
  []<>(reader # "sending") =>
    ((program = "exited" /\ slave = "released")
       ~> (main = "returned" /\ reader = "ended"))

=============================================================================
