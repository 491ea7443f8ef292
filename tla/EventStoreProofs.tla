-------------------------- MODULE EventStoreProofs --------------------------
(***************************************************************************)
(* Proofs about EventStore for every set of requests, ids, agents and      *)
(* bodies: SaveEvent is atomic, isolated, and answers truthfully.          *)
(***************************************************************************)
EXTENDS EventStore, TLAPS

(* Every variable keeps its type in every reachable state. *)
THEOREM TypeCorrect == Spec => []TypeOK
<1>1. Init => TypeOK
  BY DEF Init, Log!Init, TypeOK, OpenTx, Running, Ended
<1>2. TypeOK /\ [Next]_vars => TypeOK'
  <2> SUFFICES ASSUME TypeOK, [Next]_vars PROVE TypeOK'
    OBVIOUS
  <2> USE DEF TypeOK, OpenTx, Running, Ended
  <2>1. ASSUME NEW r \in Requests, BeginTx(r) PROVE TypeOK'
    BY <2>1 DEF BeginTx
  <2>2. ASSUME NEW r \in Requests, Rollback(r) PROVE TypeOK'
    BY <2>2 DEF Rollback
  <2>3. ASSUME NEW r \in Requests, Step(r) PROVE TypeOK'
    <3>1. CASE InsertEvent(r)
      BY <3>1 DEF InsertEvent
    <3>2. CASE UpsertState(r)
      BY <3>2 DEF UpsertState
    <3>3. CASE Commit(r)
      <4>1. evt[r] \in Log!Event /\ evt[r].agent \in Agents /\ evt[r].body \in Bodies
        BY DEF Log!Event
      <4>2. log' \in Seq(Log!Event)
        BY <3>3, <4>1 DEF Commit
      <4>3. agentState' \in [Agents -> Bodies \cup {NoRow}]
        BY <3>3, <4>1 DEF Commit
      <4>. QED
        BY <3>3, <4>2, <4>3 DEF Commit
    <3>4. CASE Return(r)
      BY <3>4 DEF Return, Log!Unrecorded
    <3>. QED
      BY <2>2, <2>3, <3>1, <3>2, <3>3, <3>4 DEF Step, InsertConflict, InsertBusy
  <2>4. CASE Crash
    BY <2>4 DEF Crash
  <2>5. CASE UNCHANGED vars
    BY <2>5 DEF vars
  <2>. QED
    BY <2>1, <2>2, <2>3, <2>4, <2>5 DEF Next, Cancel
<1>. QED
  BY <1>1, <1>2, PTL DEF Spec

(* What the commit relies on: the transaction past its INSERT is the only  *)
(* one, and the id it tested is still absent.                              *)
THEOREM TransactionsIsolated == Spec => []TxInv
<1>1. Init => TxInv
  BY StoreAssumption DEF Init, TxInv
<1>2. TypeOK /\ TxInv /\ [Next]_vars => TxInv'
  <2> SUFFICES ASSUME TypeOK, TxInv, [Next]_vars PROVE TxInv'
    OBVIOUS
  <2> USE StoreAssumption DEF TypeOK, TxInv, OpenTx, Running, Ended
  <2>1. ASSUME NEW r \in Requests, BeginTx(r) PROVE TxInv'
    BY <2>1 DEF BeginTx, Log!Unrecorded
  <2>2. ASSUME NEW r \in Requests, Rollback(r) PROVE TxInv'
    BY <2>2 DEF Rollback, Log!Unrecorded
  <2>3. ASSUME NEW r \in Requests, Step(r) PROVE TxInv'
    <3>1. CASE InsertEvent(r)
      BY <3>1 DEF InsertEvent, Log!Unrecorded
    <3>2. CASE UpsertState(r)
      BY <3>2 DEF UpsertState, Log!Unrecorded
    <3>3. CASE Commit(r)
      BY <3>3 DEF Commit
    <3>4. CASE Return(r)
      BY <3>4 DEF Return, Log!Unrecorded
    <3>. QED
      BY <2>2, <2>3, <3>1, <3>2, <3>3, <3>4 DEF Step, InsertConflict, InsertBusy
  <2>4. CASE Crash
    BY <2>4 DEF Crash
  <2>5. CASE UNCHANGED vars
    BY <2>5 DEF vars, Log!Unrecorded
  <2>. QED
    BY <2>1, <2>2, <2>3, <2>4, <2>5 DEF Next, Cancel
<1>. QED
  BY <1>1, <1>2, TypeCorrect, PTL DEF Spec

(* The commit publishes exactly the request's event and row. *)
LEMMA CommitRecords ==
  ASSUME TypeOK, TxInv, NEW r \in Requests, Commit(r)
  PROVE  /\ evt[r] \in Log!Event
         /\ evt[r].agent \in Agents
         /\ Log!Record(evt[r])
BY DEF TypeOK, TxInv, Commit, Log!Record, Log!Event

(* Every other step leaves the committed tables alone. *)
LEMMA OthersKeepTables ==
  ASSUME TypeOK, [Next]_vars, \A r \in Requests : ~ Commit(r)
  PROVE  UNCHANGED <<log, agentState>>
BY DEF Next, vars, BeginTx, Step, InsertEvent, InsertConflict, InsertBusy,
       UpsertState, Return, Cancel, Crash, Rollback

(* SaveEvent implements the one-step Record of EventLog. *)
THEOREM StoreImplementsLog == Spec => ImplementsEventLog
<1>1. Init => Log!Init
  BY DEF Init
<1>2. TypeOK /\ TxInv /\ [Next]_vars => [Log!Next]_(Log!logVars)
  <2> SUFFICES ASSUME TypeOK, TxInv, [Next]_vars
               PROVE  [Log!Next]_(Log!logVars)
    OBVIOUS
  <2>1. CASE \E r \in Requests : Commit(r)
    BY <2>1, CommitRecords DEF Log!Next
  <2>2. CASE \A r \in Requests : ~ Commit(r)
    BY <2>2, OthersKeepTables DEF Log!logVars
  <2>. QED
    BY <2>1, <2>2
<1>. QED
  BY <1>1, <1>2, TypeCorrect, TransactionsIsolated, PTL
     DEF Spec, ImplementsEventLog, Log!Spec

(* The events table and agent_state agree in every reachable state. *)
THEOREM TablesAgree == Spec => []RowIsLatest
<1>1. Init => RowIsLatest
  BY DEF Init, Log!Init, RowIsLatest, Log!RowIsLatest
<1>2. TypeOK /\ TxInv /\ RowIsLatest /\ [Next]_vars => RowIsLatest'
  <2> SUFFICES ASSUME TypeOK, TxInv, RowIsLatest, [Next]_vars
               PROVE  RowIsLatest'
    OBVIOUS
  <2>1. ASSUME NEW r \in Requests, Commit(r) PROVE RowIsLatest'
    <3> DEFINE e == evt[r]
               n == Len(log) + 1
    <3>1. /\ e \in Log!Event /\ e.agent \in Agents
          /\ log \in Seq(Log!Event)
          /\ log' = Append(log, e)
          /\ agentState' = [agentState EXCEPT ![e.agent] = e.body]
          /\ agentState \in [Agents -> Bodies \cup {NoRow}]
      BY <2>1, CommitRecords DEF Log!Record, TypeOK
    <3>2. /\ n \in Nat /\ DOMAIN log' = DOMAIN log \cup {n}
          /\ n \notin DOMAIN log /\ n \in DOMAIN log'
          /\ log'[n] = e
          /\ \A i \in DOMAIN log : log'[i] = log[i] /\ i < n /\ i \in Nat
      BY <3>1
    <3>3. SUFFICES ASSUME NEW a \in Agents
                   PROVE  \/ /\ agentState'[a] = NoRow
                             /\ \A i \in DOMAIN log' : log'[i].agent # a
                          \/ \E i \in DOMAIN log' :
                               /\ log'[i].agent = a
                               /\ \A j \in DOMAIN log' : j > i => log'[j].agent # a
                               /\ agentState'[a] = log'[i].body
      BY DEF RowIsLatest, Log!RowIsLatest, Log!IsLatest
    <3>4. CASE a = e.agent
      <4>1. agentState'[a] = log'[n].body /\ log'[n].agent = a
        BY <3>1, <3>2, <3>4
      <4>2. \A j \in DOMAIN log' : ~ (j > n)
        BY <3>2
      <4>. QED
        BY <4>1, <4>2, <3>2
    <3>5. CASE a # e.agent
      <4>1. agentState'[a] = agentState[a] /\ log'[n].agent # a
        BY <3>1, <3>2, <3>5
      <4>2. CASE agentState[a] = NoRow /\ \A i \in DOMAIN log : log[i].agent # a
        BY <4>1, <4>2, <3>2
      <4>3. CASE \E i \in DOMAIN log : Log!IsLatest(i, a) /\ agentState[a] = log[i].body
        <5>1. PICK i \in DOMAIN log : Log!IsLatest(i, a) /\ agentState[a] = log[i].body
          BY <4>3
        <5>2. /\ i \in DOMAIN log' /\ log'[i].agent = a
              /\ agentState'[a] = log'[i].body
          BY <5>1, <4>1, <3>2 DEF Log!IsLatest
        <5>3. \A j \in DOMAIN log' : j > i => log'[j].agent # a
          BY <5>1, <4>1, <3>2 DEF Log!IsLatest
        <5>. QED
          BY <5>2, <5>3
      <4>. QED
        BY <4>2, <4>3 DEF RowIsLatest, Log!RowIsLatest
    <3>. QED
      BY <3>4, <3>5
  <2>2. CASE \A r \in Requests : ~ Commit(r)
    BY <2>2, OthersKeepTables DEF RowIsLatest, Log!RowIsLatest, Log!IsLatest
  <2>. QED
    BY <2>1, <2>2
<1>. QED
  BY <1>1, <1>2, TypeCorrect, TransactionsIsolated, PTL DEF Spec

(* A step that does not commit acknowledges nobody, and a call that was    *)
(* acknowledged stays so unless a crash takes its answer.                  *)
LEMMA OthersKeepAnswers ==
  ASSUME TypeOK, [Next]_vars, \A r \in Requests : ~ Commit(r)
  PROVE  \A r \in Requests :
           /\ evt'[r] = evt[r]
           /\ Acknowledged(r)' => Acknowledged(r)
           /\ Acknowledged(r) => Acknowledged(r)' \/ pc'[r] = "lost"
           /\ pc[r] = "lost" => pc'[r] = "lost"
<1> USE DEF TypeOK, OpenTx, Running, Ended, Acknowledged
<1>1. CASE Crash
  BY <1>1 DEF Crash
<1>2. CASE UNCHANGED vars
  BY <1>2 DEF vars
<1>3. ASSUME NEW r \in Requests, BeginTx(r) \/ Step(r) \/ Cancel(r)
      PROVE  \A q \in Requests :
               /\ evt'[q] = evt[q]
               /\ Acknowledged(q)' => Acknowledged(q)
               /\ Acknowledged(q) => Acknowledged(q)'
               /\ pc[q] = "lost" => pc'[q] = "lost"
  BY <1>3 DEF BeginTx, Step, InsertEvent, InsertConflict, InsertBusy,
       UpsertState, Return, Cancel, Rollback
<1>. QED
  BY <1>1, <1>2, <1>3 DEF Next

(* Nil from SaveEvent means stored, for one caller of an id at most, and   *)
(* only a crash leaves a row whose caller was not told so.                 *)
THEOREM AnswersTruthful == Spec => []SavedOnce
<1>1. Init => SavedOnce
  BY DEF Init, Log!Init, SavedOnce, Acknowledged
<1>2. TypeOK /\ TxInv /\ SavedOnce /\ [Next]_vars => SavedOnce'
  <2> SUFFICES ASSUME TypeOK, TxInv, SavedOnce, [Next]_vars
               PROVE  SavedOnce'
    OBVIOUS
  <2>1. ASSUME NEW r \in Requests, Commit(r) PROVE SavedOnce'
    <3>1. /\ log \in Seq(Log!Event) /\ evt[r] \in Log!Event
          /\ log' = Append(log, evt[r])
          /\ Log!Unrecorded(evt[r].id)
      BY <2>1, CommitRecords DEF Log!Record, TypeOK
    <3>2. /\ evt' = evt /\ pc' = [pc EXCEPT ![r] = "committed"]
          /\ pc[r] = "upserted"
          /\ pc \in [Requests -> Running \cup Ended \cup {"idle"}]
      BY <2>1 DEF Commit, TypeOK
    <3>3. /\ Len(log) + 1 \in DOMAIN log'
          /\ log'[Len(log) + 1] = evt[r]
          /\ DOMAIN log' = DOMAIN log \cup {Len(log) + 1}
          /\ \A i \in DOMAIN log : log'[i] = log[i]
      BY <3>1
    <3>4. \A q \in Requests :
            /\ Acknowledged(q)' <=> (q = r \/ Acknowledged(q))
            /\ pc'[q] = "lost" <=> pc[q] = "lost"
      BY <3>2 DEF Acknowledged
    <3>5. \A q \in Requests : Acknowledged(q) => evt[q].id # evt[r].id
      BY <3>1 DEF SavedOnce, Log!Unrecorded
    <3>6. \A q \in Requests : Acknowledged(q)' =>
            \E i \in DOMAIN log' : log'[i] = evt'[q]
      BY <3>2, <3>3, <3>4 DEF SavedOnce
    <3>7. \A i \in DOMAIN log' :
            \E q \in Requests :
              (Acknowledged(q)' \/ pc'[q] = "lost") /\ log'[i] = evt'[q]
      BY <3>2, <3>3, <3>4 DEF SavedOnce
    <3>8. \A p, q \in Requests :
            Acknowledged(p)' /\ Acknowledged(q)' /\ evt'[p].id = evt'[q].id => p = q
      BY <3>2, <3>4, <3>5 DEF SavedOnce
    <3>. QED
      BY <3>6, <3>7, <3>8 DEF SavedOnce
  <2>2. CASE \A r \in Requests : ~ Commit(r)
    <3>1. log' = log
      BY <2>2, OthersKeepTables
    <3>. QED
      BY <2>2, <3>1, OthersKeepAnswers DEF SavedOnce
  <2>. QED
    BY <2>1, <2>2
<1>. QED
  BY <1>1, <1>2, TypeCorrect, TransactionsIsolated, PTL DEF Spec

=============================================================================
