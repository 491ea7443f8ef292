----------------------------- MODULE EventStore -----------------------------
(***************************************************************************)
(* The SQLite store (internal/store/sqlite.go): SaveEvent run by           *)
(* concurrent request goroutines, each in a transaction of its own on a    *)
(* pooled connection, over one database file in WAL mode.                  *)
(*                                                                         *)
(* SQLite is modelled from how SaveEvent uses it: a deferred transaction   *)
(* takes the single write lock at its first INSERT, or gives up when       *)
(* busy_timeout runs out; staged rows are invisible until COMMIT; a        *)
(* rollback or a crash of the process discards them.                       *)
(***************************************************************************)
EXTENDS Naturals, Sequences

CONSTANTS
  Ids, Agents, Bodies, NoRow,  (* see EventLog                             *)
  Requests,                    (* concurrent calls of SaveEvent            *)
  Nobody                       (* nobody holds the write lock              *)

ASSUME StoreAssumption ==
  /\ NoRow \notin Bodies
  /\ Nobody \notin Requests

VARIABLES
  log, agentState,  (* the committed tables                                *)
  evt,              (* the event each request saves; never changes         *)
  pc,               (* how far each call of SaveEvent is                   *)
  staged,           (* the writes of each open transaction                 *)
  writer            (* the request whose transaction holds the write lock  *)

vars == <<log, agentState, evt, pc, staged, writer>>

Log == INSTANCE EventLog

OpenTx == {"begun", "inserted", "upserted"}
Running == OpenTx \cup {"committed"}
Ended == {"saved", "failed", "lost"}

Init ==
  /\ Log!Init
  /\ evt \in [Requests -> Log!Event]
  /\ pc = [r \in Requests |-> "idle"]
  /\ staged = [r \in Requests |-> {}]
  /\ writer = Nobody

-----------------------------------------------------------------------------

(* BeginTx: a deferred BEGIN, which takes no lock yet. *)
BeginTx(r) ==
  /\ pc[r] = "idle"
  /\ pc' = [pc EXCEPT ![r] = "begun"]
  /\ UNCHANGED <<log, agentState, evt, staged, writer>>

(* Faulty variant: the INSERT does not wait for the write lock. *)
InsertUnlocked(r) ==
  /\ pc[r] = "begun"
  /\ Log!Unrecorded(evt[r].id)
  /\ writer' = r
  /\ staged' = [staged EXCEPT ![r] = {"event"}]
  /\ pc' = [pc EXCEPT ![r] = "inserted"]
  /\ UNCHANGED <<log, agentState, evt>>

(* Faulty variant: INSERT OR IGNORE, which goes on after a conflict. *)
InsertOrIgnore(r) ==
  /\ pc[r] = "begun"
  /\ writer = Nobody
  /\ writer' = r
  /\ staged' = [staged EXCEPT ![r] = IF Log!Unrecorded(evt[r].id) THEN {"event"} ELSE {}]
  /\ pc' = [pc EXCEPT ![r] = "inserted"]
  /\ UNCHANGED <<log, agentState, evt>>

(* The INSERT into events, once the write lock is free. *)
InsertEvent(r) ==
  /\ pc[r] = "begun"
  /\ writer = Nobody
  /\ Log!Unrecorded(evt[r].id)
  /\ writer' = r
  /\ staged' = [staged EXCEPT ![r] = {"event"}]
  /\ pc' = [pc EXCEPT ![r] = "inserted"]
  /\ UNCHANGED <<log, agentState, evt>>

(* The deferred tx.Rollback(), reached by every error return of SaveEvent. *)
Rollback(r) ==
  /\ staged' = [staged EXCEPT ![r] = {}]
  /\ writer' = IF writer = r THEN Nobody ELSE writer
  /\ pc' = [pc EXCEPT ![r] = "failed"]
  /\ UNCHANGED <<log, agentState, evt>>

(* Faulty variant: a conflicting INSERT is tried again for ever. *)
RetryConflict(r) ==
  /\ pc[r] = "begun"
  /\ writer = Nobody
  /\ ~ Log!Unrecorded(evt[r].id)
  /\ UNCHANGED vars

(* The INSERT fails on the primary key: the id is already recorded. *)
InsertConflict(r) ==
  /\ pc[r] = "begun"
  /\ writer = Nobody
  /\ ~ Log!Unrecorded(evt[r].id)
  /\ Rollback(r)

(* The INSERT waits for another writer longer than busy_timeout. *)
InsertBusy(r) ==
  /\ pc[r] = "begun"
  /\ writer \notin {Nobody, r}
  /\ Rollback(r)

(* Faulty variant: the upsert runs on the database, not in the transaction. *)
UpsertOutsideTx(r) ==
  /\ pc[r] = "inserted"
  /\ agentState' = [agentState EXCEPT ![evt[r].agent] = evt[r].body]
  /\ pc' = [pc EXCEPT ![r] = "upserted"]
  /\ UNCHANGED <<log, evt, staged, writer>>

(* The upsert of the agent's row; the lock is already ours. *)
UpsertState(r) ==
  /\ pc[r] = "inserted"
  /\ staged' = [staged EXCEPT ![r] = @ \cup {"row"}]
  /\ pc' = [pc EXCEPT ![r] = "upserted"]
  /\ UNCHANGED <<log, agentState, evt, writer>>

(* Faulty variant: the upsert of an existing row is DO NOTHING. *)
CommitKeepsRow(r) ==
  /\ pc[r] = "upserted"
  /\ log' = Append(log, evt[r])
  /\ agentState' = [agentState EXCEPT ![evt[r].agent] =
                       IF @ = NoRow THEN evt[r].body ELSE @]
  /\ staged' = [staged EXCEPT ![r] = {}]
  /\ writer' = Nobody
  /\ pc' = [pc EXCEPT ![r] = "committed"]
  /\ UNCHANGED evt

(* Faulty variant: the row is filled from the wrong columns of the event. *)
CommitWrongColumns(r) ==
  /\ pc[r] = "upserted"
  /\ log' = Append(log, evt[r])
  /\ agentState' = [agentState EXCEPT ![evt[r].agent] = evt[r].id]
  /\ staged' = [staged EXCEPT ![r] = {}]
  /\ writer' = Nobody
  /\ pc' = [pc EXCEPT ![r] = "committed"]
  /\ UNCHANGED evt

(* tx.Commit() publishes whatever the transaction staged: from here on the *)
(* rows are durable, although the caller has no answer yet.                *)
Commit(r) ==
  /\ pc[r] = "upserted"
  /\ log' = IF "event" \in staged[r] THEN Append(log, evt[r]) ELSE log
  /\ agentState' = IF "row" \in staged[r]
                     THEN [agentState EXCEPT ![evt[r].agent] = evt[r].body]
                     ELSE agentState
  /\ staged' = [staged EXCEPT ![r] = {}]
  /\ writer' = Nobody
  /\ pc' = [pc EXCEPT ![r] = "committed"]
  /\ UNCHANGED evt

(* Commit has returned, and SaveEvent returns its nil to the handler; the  *)
(* deferred Rollback finds the transaction done.                           *)
Return(r) ==
  /\ pc[r] = "committed"
  /\ pc' = [pc EXCEPT ![r] = "saved"]
  /\ UNCHANGED <<log, agentState, evt, staged, writer>>

(* The poster hangs up: the request context ends, and the transaction with *)
(* it, at any statement before the commit (also a failed BeginTx).         *)
Cancel(r) ==
  /\ pc[r] \in OpenTx \cup {"idle"}
  /\ Rollback(r)

(* The serve process dies: every open transaction is gone, the committed   *)
(* tables stay, and no call that was running is answered, a committed one  *)
(* included. Requests that are still idle are posted to the next process.  *)
Crash ==
  /\ \E r \in Requests : pc[r] \in Running
  /\ pc' = [r \in Requests |-> IF pc[r] \in Running THEN "lost" ELSE pc[r]]
  /\ staged' = [r \in Requests |-> {}]
  /\ writer' = Nobody
  /\ UNCHANGED <<log, agentState, evt>>

(* One statement of SaveEvent, in the order the function runs them. *)
Step(r) ==
  \/ InsertEvent(r)
  \/ InsertConflict(r)
  \/ InsertBusy(r)
  \/ UpsertState(r)
  \/ Commit(r)
  \/ Return(r)

Next ==
  \/ \E r \in Requests : BeginTx(r) \/ Step(r) \/ Cancel(r)
  \/ Crash

Spec == Init /\ [][Next]_vars

(* A goroutine inside SaveEvent keeps running; nobody has to post, to      *)
(* cancel or to crash.                                                     *)
FairSpec == Spec /\ \A r \in Requests : WF_vars(Step(r))

-----------------------------------------------------------------------------

TypeOK ==
  /\ log \in Seq(Log!Event)
  /\ agentState \in [Agents -> Bodies \cup {NoRow}]
  /\ evt \in [Requests -> Log!Event]
  /\ pc \in [Requests -> Running \cup Ended \cup {"idle"}]
  /\ staged \in [Requests -> SUBSET {"event", "row"}]
  /\ writer \in Requests \cup {Nobody}

(* The commit of the call succeeded, and no crash has cut it off. *)
Acknowledged(r) == pc[r] \in {"committed", "saved"}

(* The events table and agent_state agree after any interleaving of        *)
(* transactions, cancellations and crashes (sqlite.go:69-98).              *)
RowIsLatest == Log!RowIsLatest

(* What an answer of SaveEvent tells its caller. Nil means that the event  *)
(* is stored; of the requests that carry one id, one at most is told so;   *)
(* and each row of the events table is that of a call that got nil, or is  *)
(* about to, or lost its answer to a crash: an error is never the answer   *)
(* to the call whose row is stored (sqlite.go:69-98).                      *)
SavedOnce ==
  /\ \A r \in Requests : Acknowledged(r) => \E i \in DOMAIN log : log[i] = evt[r]
  /\ \A r, q \in Requests :
       Acknowledged(r) /\ Acknowledged(q) /\ evt[r].id = evt[q].id => r = q
  /\ \A i \in DOMAIN log :
       \E r \in Requests :
         (Acknowledged(r) \/ pc[r] = "lost") /\ log[i] = evt[r]

(* SaveEvent behaves as the single indivisible step of EventLog: the       *)
(* uniqueness its INSERT tested still holds when it commits.               *)
ImplementsEventLog == Log!Spec

(* A call of SaveEvent that has begun returns, whoever holds the write     *)
(* lock meanwhile.                                                         *)
SaveReturns ==
  \A r \in Requests : pc[r] \in Running ~> pc[r] \in Ended

(* The inductive strengthening: an open transaction past its INSERT holds  *)
(* the write lock, staged exactly what its statements wrote, and its id is *)
(* still absent from the committed table.                                  *)
TxInv ==
  \A r \in Requests :
    /\ pc[r] \in {"inserted", "upserted"} =>
         /\ writer = r
         /\ Log!Unrecorded(evt[r].id)
    /\ writer = r => pc[r] \in {"inserted", "upserted"}
    /\ pc[r] = "upserted" => staged[r] = {"event", "row"}
    /\ pc[r] = "inserted" => staged[r] = {"event"}

=============================================================================
