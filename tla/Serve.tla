-------------------------------- MODULE Serve --------------------------------
(***************************************************************************)
(* The life of `awayteam serve` (cmdServe in cmd/awayteam/main.go): the    *)
(* configuration, the store and its schema, the goroutine that listens,    *)
(* the requests of its connections, and the shutdown.                      *)
(*                                                                         *)
(* Several instances may share the database and compete for a port, as     *)
(* when one is started while another still shuts down. net/http and the    *)
(* kernel are modelled from their use: Shutdown closes the listener, then  *)
(* idle connections, forgets those a WebSocket has taken over, and waits   *)
(* for the others; the end of a process ends everything of it.             *)
(***************************************************************************)
EXTENDS Naturals, Sequences

CONSTANTS
  Procs,          (* instances of serve                                    *)
  Conns,          (* connections of clients                                *)
  Ports, DefaultPort, NoPort,
  NoProc

ASSUME ServeAssumption ==
  /\ DefaultPort \in Ports /\ NoPort \notin Ports /\ NoProc \notin Procs

(* What migrate creates, in order. *)
Schema == <<"events", "indexes", "agent_state">>

VARIABLES
  tables,     (* what the database file has                                *)
  main,       (* where the main goroutine of each instance is              *)
  port,
  migrated,   (* how many statements of migrate it has executed            *)
  store,      (* its handle of the database: none, open or closed          *)
  signalled,  (* whether ctx is done                                       *)
  listener,   (* none, starting, bound or closed                           *)
  conn,       (* of each connection: none, new, active, storing (in a call *)
              (* of the store), idle, hijacked, closed or cut (ended with a *)
              (* request unanswered)                                       *)
  owner       (* the instance that accepted it                             *)

procVars == <<main, port, migrated, store, signalled, listener>>
connVars == <<conn, owner>>
vars == <<tables, procVars, connVars>>

Exited == {"clean", "fatal", "killed"}
Running(p) == main[p] \notin Exited \cup {"off"}
ConnsOf(p, states) == {c \in Conns : owner[c] = p /\ conn[c] \in states}

Init ==
  /\ tables = {}
  /\ main = [p \in Procs |-> "off"]
  /\ port = [p \in Procs |-> NoPort]
  /\ migrated = [p \in Procs |-> 0]
  /\ store = [p \in Procs |-> "none"]
  /\ signalled = [p \in Procs |-> FALSE]
  /\ listener = [p \in Procs |-> "none"]
  /\ conn = [c \in Conns |-> "none"]
  /\ owner = [c \in Conns |-> NoProc]

(* The process ends, and with it its sockets and goroutines. *)
Exit(p, how) ==
  /\ main' = [main EXCEPT ![p] = how]
  /\ listener' = [listener EXCEPT ![p] = "closed"]
  /\ conn' = [c \in Conns |->
                IF owner[c] # p THEN conn[c]
                ELSE IF conn[c] \in {"active", "storing"} THEN "cut" ELSE "closed"]
  /\ UNCHANGED <<tables, port, migrated, signalled, owner>>

Fatal(p) == Exit(p, "fatal") /\ UNCHANGED store

-----------------------------------------------------------------------------
(* Start. *)

(* The port config.Load returns: the environment's if it parses, else the  *)
(* file's, else the default. A missing file is no error.                   *)
Load(file, env) ==
  IF env \in Ports THEN env ELSE IF file \in Ports THEN file ELSE DefaultPort

LoadConfig(p, file, env) ==
  /\ main[p] = "off"
  /\ IF file = "bad"
       THEN Fatal(p)
       ELSE /\ main' = [main EXCEPT ![p] = "loaded"]
            /\ port' = [port EXCEPT ![p] = Load(file, env)]
            /\ UNCHANGED <<tables, migrated, store, signalled, listener, connVars>>

(* Faulty variant: a database that has tables is taken to have them all. *)
OpenMigratingNew(p) ==
  /\ main[p] = "loaded"
  /\ main' = [main EXCEPT ![p] = "migrating"]
  /\ migrated' = [migrated EXCEPT ![p] = IF tables = {} THEN 0 ELSE Len(Schema)]
  /\ store' = [store EXCEPT ![p] = "open"]
  /\ UNCHANGED <<tables, port, signalled, listener, connVars>>

(* NewSQLiteStore up to migrate. *)
OpenStore(p) ==
  /\ main[p] = "loaded"
  /\ main' = [main EXCEPT ![p] = "migrating"]
  /\ store' = [store EXCEPT ![p] = "open"]
  /\ UNCHANGED <<tables, port, migrated, signalled, listener, connVars>>

(* CREATE ... IF NOT EXISTS, each on its own. *)
Create(p) ==
  /\ main[p] = "migrating" /\ migrated[p] < Len(Schema)
  /\ migrated' = [migrated EXCEPT ![p] = @ + 1]
  /\ tables' = tables \cup {Schema[migrated[p] + 1]}
  /\ UNCHANGED <<main, port, store, signalled, listener, connVars>>

(* The pragmas or a statement of migrate fail: the handle is closed. *)
StoreFails(p) ==
  /\ main[p] = "migrating" /\ migrated[p] < Len(Schema)
  /\ Exit(p, "fatal")
  /\ store' = [store EXCEPT ![p] = "closed"]

(* NotifyContext, and the goroutine that listens. *)
Serve(p) ==
  /\ main[p] = "migrating" /\ migrated[p] = Len(Schema)
  /\ main' = [main EXCEPT ![p] = "serving"]
  /\ listener' = [listener EXCEPT ![p] = "starting"]
  /\ UNCHANGED <<tables, port, migrated, store, signalled, connVars>>

Taken(n) == \E q \in Procs : listener[q] = "bound" /\ port[q] = n

(* ListenAndServe: ErrServerClosed once Shutdown has been called; an error *)
(* of Listen, which may still be under way then, ends the process.         *)
Listen(p) ==
  /\ listener[p] = "starting" /\ ~(main[p] = "serving" /\ Taken(port[p]))
  /\ listener' = [listener EXCEPT ![p] =
                    IF main[p] = "serving" THEN "bound" ELSE "closed"]
  /\ UNCHANGED <<tables, main, port, migrated, store, signalled, connVars>>

ListenFails(p) == listener[p] = "starting" /\ Fatal(p)

-----------------------------------------------------------------------------
(* Connections. *)

Become(c, from, to) ==
  /\ conn[c] \in from
  /\ conn' = [conn EXCEPT ![c] = to]
  /\ UNCHANGED <<tables, procVars, owner>>

Accept(c, p) ==
  /\ conn[c] = "none" /\ listener[p] = "bound"
  /\ conn' = [conn EXCEPT ![c] = "new"]
  /\ owner' = [owner EXCEPT ![c] = p]
  /\ UNCHANGED <<tables, procVars>>

(* A request is read; its handler may call the store. *)
Request(c) == Become(c, {"new", "idle"}, "active")
CallStore(c) == Become(c, {"active"}, "storing")

(* A request is answered with or without a call. The connection is kept    *)
(* unless Shutdown has been called.                                        *)
Answer(c) ==
  Become(c, {"active", "storing"},
         IF main[owner[c]] = "serving" THEN "idle" ELSE "closed")

(* The WebSocket routes take the connection over, the terminal's after it  *)
(* has looked its session up in the store.                                 *)
Upgrade(c) == Become(c, {"active", "storing"}, "hijacked")

PeerCloses(c) == Become(c, {"new", "idle", "hijacked"}, "closed")

-----------------------------------------------------------------------------
(* Stop. *)

(* SIGINT or SIGTERM. Before NotifyContext they kill the process. *)
Signal(p) ==
  /\ Running(p)
  /\ IF main[p] \in {"loaded", "migrating"}
       THEN Exit(p, "killed") /\ UNCHANGED store
       ELSE /\ signalled' = [signalled EXCEPT ![p] = TRUE]
            /\ UNCHANGED <<tables, main, port, migrated, store, listener, connVars>>

Killed(p) == Running(p) /\ Exit(p, "killed") /\ UNCHANGED store

(* Shutdown is called. *)
Shutdown(p) ==
  /\ main[p] = "serving" /\ signalled[p]
  /\ main' = [main EXCEPT ![p] = "draining"]
  /\ listener' = [listener EXCEPT ![p] = IF @ = "bound" THEN "closed" ELSE @]
  /\ UNCHANGED <<tables, port, migrated, store, signalled, connVars>>

(* Shutdown closes a connection that is idle, or has sent nothing for 5 s. *)
CloseIdle(c) ==
  /\ owner[c] # NoProc /\ main[owner[c]] = "draining"
  /\ Become(c, {"new", "idle"}, "closed")

(* Shutdown returns nil; the deferred st.Close runs. *)
Drained(p) ==
  /\ main[p] = "draining"
  /\ ConnsOf(p, {"new", "idle", "active", "storing"}) = {}
  /\ main' = [main EXCEPT ![p] = "returning"]
  /\ store' = [store EXCEPT ![p] = "closed"]
  /\ UNCHANGED <<tables, port, migrated, signalled, listener, connVars>>

(* Faulty variants: the error of Shutdown is only logged; the deadline is  *)
(* looked at when no handler is in the store.                              *)
DeadlineLogged(p) ==
  /\ main[p] = "draining"
  /\ main' = [main EXCEPT ![p] = "returning"]
  /\ store' = [store EXCEPT ![p] = "closed"]
  /\ UNCHANGED <<tables, port, migrated, signalled, listener, connVars>>

DeadlineAfterStore(p) ==
  /\ main[p] = "draining" /\ ConnsOf(p, {"storing"}) = {}
  /\ Fatal(p)

(* Five seconds have passed: log.Fatalf, which runs no deferred call. *)
Deadline(p) ==
  /\ main[p] = "draining"
  /\ Fatal(p)

Return(p) ==
  /\ main[p] = "returning"
  /\ Exit(p, "clean") /\ UNCHANGED store

MainStep(p) == OpenStore(p) \/ Create(p) \/ Serve(p) \/ Shutdown(p) \/ Drained(p) \/ Return(p)

Next ==
  \/ \E p \in Procs :
       \/ \E file \in Ports \cup {"absent", "bad"}, env \in Ports \cup {"unset", "garbage"} :
            LoadConfig(p, file, env)
       \/ MainStep(p) \/ StoreFails(p) \/ Listen(p) \/ ListenFails(p)
       \/ Signal(p) \/ Killed(p) \/ Deadline(p)
  \/ \E c \in Conns :
       \/ \E p \in Procs : Accept(c, p)
       \/ Request(c) \/ CallStore(c) \/ Answer(c) \/ Upgrade(c)
       \/ PeerCloses(c) \/ CloseIdle(c)

Spec == Init /\ [][Next]_vars

(* The main goroutine goes on, and the deadline passes.                    *)
(* Nothing is assumed of handlers and clients.                             *)
FairSpec ==
  /\ Spec
  /\ \A p \in Procs : WF_vars(MainStep(p)) /\ WF_vars(Deadline(p))

-----------------------------------------------------------------------------

TypeOK ==
  /\ tables \subseteq {Schema[i] : i \in DOMAIN Schema}
  /\ main \in [Procs -> {"off", "loaded", "migrating", "serving", "draining",
                         "returning"} \cup Exited]
  /\ port \in [Procs -> Ports \cup {NoPort}]
  /\ migrated \in [Procs -> 0 .. Len(Schema)]
  /\ store \in [Procs -> {"none", "open", "closed"}]
  /\ signalled \in [Procs -> BOOLEAN]
  /\ listener \in [Procs -> {"none", "starting", "bound", "closed"}]
  /\ conn \in [Conns -> {"none", "new", "active", "storing", "idle", "hijacked",
                         "closed", "cut"}]
  /\ owner \in [Conns -> Procs \cup {NoProc}]

(* A handler in a call of the store finds it open and with every table: no *)
(* request is served before the schema is complete, although migrate may   *)
(* have been cut off before or be under way in another instance, nor after *)
(* the deferred Close (main.go:57-99, sqlite.go:24-61).                    *)
StoreReadyWhenUsed ==
  \A c \in Conns : conn[c] = "storing" =>
    store[owner[c]] = "open" /\ \A i \in DOMAIN Schema : Schema[i] \in tables

(* An instance that returns has answered every request it has read; only   *)
(* one that gives up or is killed cuts requests off (main.go:93-98).       *)
CleanExitCutsNothing ==
  \A p \in Procs : main[p] \in {"returning", "clean"} => ConnsOf(p, {"cut"}) = {}

(* An instance that was told to stop does, whatever its handlers and       *)
(* clients do: open terminals, boards and requests that hang only delay it *)
(* by the deadline (main.go:82-98).                                        *)
StopsWhenTold == \A p \in Procs : signalled[p] ~> main[p] \in Exited

=============================================================================
