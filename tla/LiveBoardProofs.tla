-------------------------- MODULE LiveBoardProofs --------------------------
(***************************************************************************)
(* Proofs about LiveBoard for every set of requests, agents and statuses,  *)
(* every channel capacity and every number of connections: its types, the  *)
(* cards from stored events, and what a page at rest shows.                *)
(***************************************************************************)
EXTENDS LiveBoard, TLAPS

-----------------------------------------------------------------------------
(* Lemmas about queues of events. *)

LEMMA AppendToQueue ==
  ASSUME NEW S, NEW q \in Seq(S), NEW e \in S
  PROVE  /\ Append(q, e) \in Seq(S)
         /\ Len(Append(q, e)) = Len(q) + 1
         /\ DOMAIN Append(q, e) = DOMAIN q \cup {Len(q) + 1}
         /\ Append(q, e)[Len(q) + 1] = e
         /\ \A i \in DOMAIN q : Append(q, e)[i] = q[i]
OBVIOUS

LEMMA TailOfQueue ==
  ASSUME NEW S, NEW q \in Seq(S), q # <<>>
  PROVE  /\ Tail(q) \in Seq(S)
         /\ Len(Tail(q)) + 1 = Len(q)
         /\ Head(q) \in S
         /\ 1 \in DOMAIN q /\ Head(q) = q[1]
         /\ \A i \in DOMAIN Tail(q) : i + 1 \in DOMAIN q /\ Tail(q)[i] = q[i + 1]
OBVIOUS

LEMMA HeadMovesOver ==
  ASSUME NEW S, NEW p \in Seq(S), NEW q \in Seq(S), q # <<>>
  PROVE  Append(p, Head(q)) \o Tail(q) = p \o q
<1>1. Append(p, Head(q)) \in Seq(S) /\ Tail(q) \in Seq(S)
  OBVIOUS
<1>2. Len(Append(p, Head(q)) \o Tail(q)) = Len(p \o q)
  BY <1>1
<1>3. ASSUME NEW k \in 1 .. Len(p) + Len(q)
      PROVE  (Append(p, Head(q)) \o Tail(q))[k] = (p \o q)[k]
  <2>1. CASE k <= Len(p)
    BY <1>1, <2>1
  <2>2. CASE k = Len(p) + 1
    BY <1>1, <2>2
  <2>3. CASE k > Len(p) + 1
    BY <1>1, <2>3
  <2>. QED
    BY <2>1, <2>2, <2>3
<1>. QED
  BY <1>1, <1>2, <1>3

LEMMA HeadOfJoined ==
  ASSUME NEW S, NEW p \in Seq(S), NEW q \in Seq(S), p # <<>>
  PROVE  /\ Tail(p) \o q = Tail(p \o q)
         /\ Head(p \o q) = Head(p) /\ p \o q # <<>>
         /\ 1 \in DOMAIN (p \o q) /\ (p \o q)[1] = Head(p)
<1>1. Tail(p) \o q = Tail(p \o q)
  OBVIOUS
<1>2. Head(p \o q) = Head(p) /\ p \o q # <<>>
  OBVIOUS
<1>3. 1 \in DOMAIN (p \o q) /\ (p \o q)[1] = Head(p)
  OBVIOUS
<1>. QED
  BY <1>1, <1>2, <1>3

LEMMA FirstInJoined ==
  ASSUME NEW S, NEW p \in Seq(S), NEW q \in Seq(S), NEW k \in DOMAIN p
  PROVE  k \in DOMAIN (p \o q) /\ (p \o q)[k] = p[k]
<1>1. k \in 1 .. Len(p) /\ Len(p) \in Nat /\ Len(q) \in Nat
  OBVIOUS
<1>. QED
  BY <1>1

LEMMA PlaceInJoined ==
  ASSUME NEW S, NEW p \in Seq(S), NEW q \in Seq(S), NEW k \in DOMAIN (p \o q)
  PROVE  \/ k \in DOMAIN p /\ (p \o q)[k] = p[k]
         \/ k - Len(p) \in DOMAIN q /\ (p \o q)[k] = q[k - Len(p)]
<1>1. k \in 1 .. Len(p) + Len(q) /\ Len(p) \in Nat /\ Len(q) \in Nat
  OBVIOUS
<1>2. CASE k <= Len(p)
  BY <1>1, <1>2
<1>3. CASE k > Len(p)
  <2>1. k - Len(p) \in 1 .. Len(q)
    BY <1>1, <1>3
  <2>. QED
    BY <1>1, <1>3, <2>1
<1>. QED
  BY <1>1, <1>2, <1>3

LEMMA AppendToJoined ==
  ASSUME NEW S, NEW p \in Seq(S), NEW q \in Seq(S), NEW e \in S
  PROVE  p \o Append(q, e) = Append(p \o q, e)
OBVIOUS

(* The row of the log CHOOSE finds for a request that has one. *)
LEMMA PositionFound ==
  ASSUME Log!TypeOK, NEW r \in Requests, ~ Log!Unrecorded(r)
  PROVE  Position(r) \in DOMAIN log /\ log[Position(r)] \in Log!Event
BY DEF Log!Unrecorded, Log!TypeOK, Position

-----------------------------------------------------------------------------

(* A request past SaveEvent has a row: without it the event it broadcasts  *)
(* need not be one.                                                        *)
SavedHasRow == \A r \in Requests : post[r] = "saved" => ~ Log!Unrecorded(r)

BoardTyped == TypeOK /\ SavedHasRow

LEMMA BoardTypedAlways == Spec => []BoardTyped
<1> USE DEF BoardTyped
<1>1. Init => BoardTyped
  BY BoardAssumption DEF Init, Log!Init, Log!TypeOK, TypeOK, SavedHasRow, Conns
<1>2. BoardTyped /\ [Next]_vars => BoardTyped'
  <2> SUFFICES ASSUME BoardTyped, [Next]_vars PROVE BoardTyped'
    OBVIOUS
  <2> USE DEF TypeOK, Log!TypeOK, SavedHasRow, Log!Unrecorded,
              storeVars, linkVars, fetchVars, history
  <2>1. ASSUME NEW r \in Requests, Refuse(r) PROVE BoardTyped'
    BY <2>1 DEF Refuse
  <2>2. ASSUME NEW r \in Requests, NEW a \in Agents, NEW s \in Statuses, Save(r, a, s)
        PROVE  BoardTyped'
    <3> DEFINE e == [id |-> r, agent |-> a, body |-> s]
    <3>1. e \in Log!Event /\ e.id = r /\ e.agent = a /\ e.body = s
      BY DEF Log!Event
    <3>2. log' = Append(log, e) /\ agentState' = [agentState EXCEPT ![a] = s]
      BY <2>2, <3>1 DEF Save, Log!Record
    <3>3. /\ log' \in Seq(Log!Event)
          /\ DOMAIN log' = DOMAIN log \cup {Len(log) + 1}
          /\ log'[Len(log) + 1] = e
          /\ \A i \in DOMAIN log : log'[i] = log[i]
      BY <3>1, <3>2, AppendToQueue
    <3>4. SavedHasRow'
      <4> SUFFICES ASSUME NEW q \in Requests, post'[q] = "saved"
                   PROVE  \E i \in DOMAIN log' : log'[i].id = q
        OBVIOUS
      <4>1. CASE q = r
        BY <4>1, <3>1, <3>3
      <4>2. CASE q # r
        <5>1. post[q] = "saved"
          BY <4>2, <2>2 DEF Save
        <5>2. PICK i \in DOMAIN log : log[i].id = q
          BY <5>1
        <5>. QED
          BY <5>2, <3>3
      <4>. QED
        BY <4>1, <4>2
    <3>5. agentState' \in [Agents -> Statuses \cup {NoRow}]
      BY <3>2
    <3>. HIDE DEF e
    <3>6. TypeOK'
      BY <2>2, <3>3, <3>5 DEF Save
    <3>. QED
      BY <3>4, <3>6
  <2>3. ASSUME NEW r \in Requests, Broadcast(r) PROVE BoardTyped'
    <3>1. log[Position(r)] \in Log!Event
      BY <2>3, PositionFound DEF Broadcast
    <3>2. \A n \in Conns : /\ Append(chan[n], log[Position(r)]) \in Seq(Log!Event)
                           /\ Len(Append(chan[n], log[Position(r)])) = Len(chan[n]) + 1
                           /\ Len(chan[n]) \in Nat
      BY <3>1, AppendToQueue
    <3>3. chan' = [n \in Conns |-> IF n \in Registered /\ Len(chan[n]) < Cap
                                     THEN Append(chan[n], log[Position(r)]) ELSE chan[n]]
      BY <2>3 DEF Broadcast, SendToAll
    <3>4. chan' \in [Conns -> Seq(Log!Event)] /\ \A n \in Conns : Len(chan'[n]) <= Cap
      BY <3>2, <3>3, BoardAssumption
    <3>. QED
      <4> HIDE DEF TypeOK, SavedHasRow, Log!Unrecorded
      <4>1. SavedHasRow'
        BY <2>3 DEF Broadcast, SavedHasRow, Log!Unrecorded, TypeOK
      <4>2. TypeOK'
        BY <2>3, <3>4 DEF Broadcast, TypeOK
      <4>. QED
        BY <4>1, <4>2
  <2>4. CASE Open
    <3>1. conn' \in 0 .. MaxConns
      BY <2>4, BoardAssumption DEF Open, OpenWith
    <3>. QED
      BY <2>4, <3>1 DEF Open, OpenWith
  <2>5. ASSUME NEW n \in Conns, Register(n) PROVE BoardTyped'
    BY <2>5 DEF Register
  <2>6. ASSUME NEW n \in Conns, Write(n) PROVE BoardTyped'
    <3>1. /\ chan[n] # <<>> /\ chan[n] \in Seq(Log!Event) /\ wire[n] \in Seq(Log!Event)
          /\ wire' = [wire EXCEPT ![n] = Append(wire[n], Head(chan[n]))]
          /\ chan' = [chan EXCEPT ![n] = Tail(chan[n])]
      BY <2>6 DEF Write
    <3>2. /\ Tail(chan[n]) \in Seq(Log!Event) /\ Len(Tail(chan[n])) <= Len(chan[n])
          /\ Len(Tail(chan[n])) \in Nat /\ Len(chan[n]) \in Nat
          /\ Append(wire[n], Head(chan[n])) \in Seq(Log!Event)
      BY <3>1, TailOfQueue, AppendToQueue
    <3>3. /\ wire' \in [Conns -> Seq(Log!Event)] /\ chan' \in [Conns -> Seq(Log!Event)]
          /\ \A m \in Conns : Len(chan'[m]) <= Cap
      <4>1. wire' \in [Conns -> Seq(Log!Event)] /\ chan' \in [Conns -> Seq(Log!Event)]
        BY <3>1, <3>2
      <4>2. ASSUME NEW m \in Conns PROVE Len(chan'[m]) <= Cap
        <5>1. Len(chan[m]) <= Cap /\ chan \in [Conns -> Seq(Log!Event)] /\ Cap \in Nat
          BY BoardAssumption
        <5>2. CASE m = n
          BY <3>1, <3>2, <5>1, <5>2
        <5>3. CASE m # n
          BY <3>1, <5>1, <5>3
        <5>. QED
          BY <5>2, <5>3
      <4>. QED
        BY <4>1, <4>2
    <3>. QED
      BY <2>6, <3>3 DEF Write
  <2>7. ASSUME NEW n \in Conns, Disconnect(n) \/ Leave(n) PROVE BoardTyped'
    <3>1. /\ chan' = [chan EXCEPT ![n] = <<>>]
          /\ wire' = wire \/ wire' = [wire EXCEPT ![n] = <<>>]
      BY <2>7 DEF Disconnect, Leave
    <3>2. /\ wire' \in [Conns -> Seq(Log!Event)] /\ chan' \in [Conns -> Seq(Log!Event)]
          /\ \A m \in Conns : chan'[m] = chan[m] \/ chan'[m] = <<>>
      <4>1. <<>> \in Seq(Log!Event)
        OBVIOUS
      <4>2. chan' \in [Conns -> Seq(Log!Event)]
        BY <3>1, <4>1
      <4>3. wire' \in [Conns -> Seq(Log!Event)]
        BY <3>1, <4>1
      <4>4. \A m \in Conns : chan'[m] = chan[m] \/ chan'[m] = <<>>
        BY <3>1
      <4>. QED
        BY <4>2, <4>3, <4>4
    <3>3. \A m \in Conns : Len(chan'[m]) <= Cap
      BY <3>2, BoardAssumption
    <3>. QED
      BY <3>3, <2>7, <3>2 DEF Disconnect, Leave
  <2>8. CASE Restart
    <3>1. /\ chan' \in [Conns -> Seq(Log!Event)] /\ \A m \in Conns : Len(chan'[m]) <= Cap
      BY <2>8, BoardAssumption DEF Restart
    <3>. QED
      BY <2>8, <3>1 DEF Restart
  <2>9. ASSUME NEW n \in Conns, HandleEvent(n) \/ HandleThrows(n) PROVE BoardTyped'
    <3>1. /\ wire[n] # <<>> /\ wire[n] \in Seq(Log!Event) /\ wire' = [wire EXCEPT ![n] = Tail(wire[n])]
      BY <2>9 DEF HandleEvent, HandleThrows, Receive
    <3>2. Tail(wire[n]) \in Seq(Log!Event) /\ Head(wire[n]) \in Log!Event
      BY <3>1, TailOfQueue
    <3>3. /\ Head(wire[n]).id \in Requests
          /\ Head(wire[n]).agent \in Agents
          /\ Head(wire[n]).body \in Statuses
      BY <3>2 DEF Log!Event
    <3>4. wire' \in [Conns -> Seq(Log!Event)]
      BY <3>1, <3>2
    <3>. QED
      BY <2>9, <3>3, <3>4 DEF HandleEvent, HandleThrows, Receive
  <2>10. ASSUME NEW n \in Conns, ReadAgents(n) PROVE BoardTyped'
    BY <2>10 DEF ReadAgents
  <2>11. ASSUME NEW n \in Conns, SetAgents(n) PROVE BoardTyped'
    BY <2>11 DEF SetAgents
  <2>12. ASSUME NEW n \in Conns, FetchFails(n) PROVE BoardTyped'
    BY <2>12 DEF FetchFails
  <2>13. CASE UNCHANGED vars
    BY <2>13 DEF vars
  <2>. QED
    BY <2>1, <2>2, <2>3, <2>4, <2>5, <2>6, <2>7, <2>8, <2>9, <2>10, <2>11,
       <2>12, <2>13 DEF Next
<1>. QED
  BY <1>1, <1>2, PTL DEF Spec

(* Every variable of the board keeps its type, and the channel its bound.  *)
THEOREM TypeCorrect == Spec => []TypeOK
BY BoardTypedAlways, PTL DEF BoardTyped

-----------------------------------------------------------------------------

(* Some event of agent a stored so far has status s. *)
Stored(a, s) == \E i \in DOMAIN log : log[i].agent = a /\ log[i].body = s

StoredRows(row) == \A a \in Agents : row[a] # NoRow => Stored(a, row[a])

StoredEvents(queue) == \A i \in DOMAIN queue : Stored(queue[i].agent, queue[i].body)

(* Wherever a card can take a status from, the status was stored before.   *)
SourcesStored ==
  /\ StoredRows(agentState)
  /\ \A n \in Conns : StoredRows(snap[n])
  /\ \A n \in Conns : StoredEvents(chan[n]) /\ StoredEvents(wire[n])
  /\ StoredRows(board)

LEMMA NothingStored == StoredEvents(<<>>)
BY DEF StoredEvents

LEMMA SourcesStoredStep ==
  ASSUME BoardTyped, SourcesStored, [Next]_vars
  PROVE  SourcesStored'
<1> USE DEF SourcesStored, StoredRows, StoredEvents, BoardTyped, TypeOK, Log!TypeOK,
            storeVars, linkVars, fetchVars, history
<1>1. ASSUME NEW r \in Requests, NEW a \in Agents, NEW s \in Statuses, Save(r, a, s)
      PROVE  SourcesStored'
  <2> DEFINE e == [id |-> r, agent |-> a, body |-> s]
  <2>1. e \in Log!Event /\ e.agent = a /\ e.body = s
    BY DEF Log!Event
  <2>2. log' = Append(log, e) /\ agentState' = [agentState EXCEPT ![a] = s]
    BY <1>1, <2>1 DEF Save, Log!Record
  <2>3. /\ DOMAIN log' = DOMAIN log \cup {Len(log) + 1}
        /\ log'[Len(log) + 1] = e
        /\ \A i \in DOMAIN log : log'[i] = log[i]
    BY <2>1, <2>2, AppendToQueue
  <2>4. \A x, y : Stored(x, y) => Stored(x, y)'
    BY <2>3 DEF Stored
  <2>. HIDE DEF e
  <2>5. Stored(a, s)'
    <3>1. Len(log) + 1 \in DOMAIN log'
      BY <2>3
    <3>2. log'[Len(log) + 1].agent = a /\ log'[Len(log) + 1].body = s
      BY <2>1, <2>3
    <3>. QED
      BY <3>1, <3>2 DEF Stored
  <2>6. UNCHANGED <<chan, wire, snap, board>>
    BY <1>1 DEF Save
  <2>7. StoredRows(agentState)'
    BY <2>2, <2>4, <2>5
  <2>. QED
    BY <2>4, <2>6, <2>7
<1>2. ASSUME NEW r \in Requests, Broadcast(r) PROVE SourcesStored'
  <2>1. Position(r) \in DOMAIN log /\ log[Position(r)] \in Log!Event
    BY <1>2, PositionFound DEF Broadcast, SavedHasRow
  <2>2. UNCHANGED <<log, agentState, wire, snap, board>>
    BY <1>2 DEF Broadcast
  <2>3. \A x, y : Stored(x, y)' <=> Stored(x, y)
    BY <2>2 DEF Stored
  <2>4. Stored(log[Position(r)].agent, log[Position(r)].body)
    BY <2>1 DEF Stored
  <2>5. \A n \in Conns : chan'[n] = chan[n] \/ chan'[n] = Append(chan[n], log[Position(r)])
    BY <1>2 DEF Broadcast, SendToAll
  <2>6. ASSUME NEW n \in Conns PROVE StoredEvents(chan'[n])
    <3>1. CASE chan'[n] = chan[n]
      BY <3>1
    <3>2. CASE chan'[n] = Append(chan[n], log[Position(r)])
      <4>1. /\ DOMAIN chan'[n] = DOMAIN chan[n] \cup {Len(chan[n]) + 1}
            /\ chan'[n][Len(chan[n]) + 1] = log[Position(r)]
            /\ \A i \in DOMAIN chan[n] : chan'[n][i] = chan[n][i]
        BY <2>1, <3>2, AppendToQueue
      <4>. QED
        BY <4>1, <2>4
    <3>. QED
      BY <2>5, <3>1, <3>2
  <2>. QED
    BY <2>2, <2>3, <2>6
<1>3. ASSUME NEW n \in Conns, Write(n) PROVE SourcesStored'
  <2>1. /\ UNCHANGED <<log, agentState, snap, board>>
        /\ chan[n] # <<>> /\ chan[n] \in Seq(Log!Event) /\ wire[n] \in Seq(Log!Event)
        /\ wire' = [wire EXCEPT ![n] = Append(wire[n], Head(chan[n]))]
        /\ chan' = [chan EXCEPT ![n] = Tail(chan[n])]
    BY <1>3 DEF Write
  <2>2. \A x, y : Stored(x, y)' <=> Stored(x, y)
    BY <2>1 DEF Stored
  <2>3. StoredEvents(Tail(chan[n]))
    BY <2>1, TailOfQueue
  <2>4. Stored(Head(chan[n]).agent, Head(chan[n]).body) /\ Head(chan[n]) \in Log!Event
    BY <2>1, TailOfQueue
  <2>5. StoredEvents(Append(wire[n], Head(chan[n])))
    BY <2>1, <2>4, AppendToQueue
  <2>6. \A m \in Conns : StoredEvents(chan'[m]) /\ StoredEvents(wire'[m])
    BY <2>1, <2>3, <2>5
  <2>. QED
    BY <2>1, <2>2, <2>6
<1>4. ASSUME NEW n \in Conns, HandleEvent(n) \/ HandleThrows(n) PROVE SourcesStored'
  <2>1. /\ UNCHANGED <<log, agentState, snap, chan>>
        /\ wire[n] # <<>> /\ wire[n] \in Seq(Log!Event)
        /\ wire' = [wire EXCEPT ![n] = Tail(wire[n])]
        /\ \/ board' = board
           \/ board' = [board EXCEPT ![Head(wire[n]).agent] = Head(wire[n]).body]
    BY <1>4 DEF HandleEvent, HandleThrows, Receive
  <2>2. \A x, y : Stored(x, y)' <=> Stored(x, y)
    BY <2>1 DEF Stored
  <2>3. StoredEvents(Tail(wire[n]))
    BY <2>1, TailOfQueue
  <2>4. Stored(Head(wire[n]).agent, Head(wire[n]).body)
    BY <2>1, TailOfQueue
  <2>5. StoredRows(board')
    BY <2>1, <2>4
  <2>6. \A m \in Conns : StoredEvents(chan'[m]) /\ StoredEvents(wire'[m])
    BY <2>1, <2>3
  <2>. QED
    BY <2>1, <2>2, <2>5, <2>6
<1>5. ASSUME NEW n \in Conns, ReadAgents(n) PROVE SourcesStored'
  <2>1. /\ UNCHANGED <<log, agentState, chan, wire, board>>
        /\ snap' = [snap EXCEPT ![n] = agentState]
    BY <1>5 DEF ReadAgents
  <2>2. \A x, y : Stored(x, y)' <=> Stored(x, y)
    BY <2>1 DEF Stored
  <2>3. \A m \in Conns : snap'[m] = snap[m] \/ snap'[m] = agentState
    BY <2>1
  <2>. QED
    BY <2>1, <2>2, <2>3
<1>6. ASSUME NEW n \in Conns, SetAgents(n) PROVE SourcesStored'
  BY <1>6 DEF SetAgents, Stored
<1>7. ASSUME Restart \/ \E n \in Conns : Leave(n) \/ Disconnect(n) PROVE SourcesStored'
  <2>1. /\ UNCHANGED <<log, agentState, snap, board>>
        /\ \A m \in Conns : /\ chan'[m] = <<>> \/ chan'[m] = chan[m]
                            /\ wire'[m] = <<>> \/ wire'[m] = wire[m]
    BY <1>7 DEF Leave, Disconnect, Restart
  <2>2. \A x, y : Stored(x, y)' <=> Stored(x, y)
    BY <2>1 DEF Stored
  <2>3. ASSUME NEW m \in Conns PROVE StoredEvents(chan[m])' /\ StoredEvents(wire[m])'
    <3> HIDE DEF StoredEvents
    <3>1. StoredEvents(chan'[m])
      BY <2>1, NothingStored
    <3>2. StoredEvents(wire'[m])
      BY <2>1, NothingStored
    <3> USE DEF StoredEvents
    <3>. QED
      BY <2>2, <3>1, <3>2
  <2>. QED
    BY <2>1, <2>2, <2>3
<1>8. CASE UNCHANGED <<log, agentState, snap, chan, wire, board>>
  BY <1>8 DEF Stored
<1>. QED
  BY <1>1, <1>2, <1>3, <1>4, <1>5, <1>6, <1>7, <1>8
     DEF Next, vars, Refuse, Open, OpenWith, Register, FetchFails

(* Every card shows the status of a stored event of its agent, through any *)
(* number of connections, restarts and overlapping fetches.                *)
THEOREM CardsAreStored == Spec => []CardsFromStoredEvents
<1>1. Init => SourcesStored
  BY DEF Init, Log!Init, SourcesStored, StoredRows, StoredEvents
<1>2. SourcesStored => CardsFromStoredEvents
  BY DEF SourcesStored, StoredRows, Stored, CardsFromStoredEvents, Rows
<1>. QED
  BY <1>1, <1>2, SourcesStoredStep, BoardTypedAlways, PTL DEF Spec

-----------------------------------------------------------------------------
(* The board at rest. What makes it right is that news of an agent that    *)
(* was not raced cannot be lost: until the page shows the latest row, that *)
(* row is still to be broadcast or is in the pipe, behind every older row  *)
(* of the agent that could overwrite it.                                   *)

(* What is on its way to the page by a connection, in the order it gets    *)
(* there.                                                                  *)
Pipe(n) == wire[n] \o chan[n]

Carries(n, a) == \E k \in DOMAIN Pipe(n) : Pipe(n)[k].agent = a
Queued(n, i) == \E k \in DOMAIN Pipe(n) : Pipe(n)[k] = log[i]
Pending(i) == post[log[i].id] = "saved" \/ \E n \in Conns : Queued(n, i)

(* Each row belongs to a request that was saved, and has been broadcast    *)
(* when and only when it was answered. A restart cuts all of them off.     *)
RowsInv ==
  /\ Log!UniqueIds /\ Log!RowIsLatest
  /\ \A i \in DOMAIN log : post[log[i].id] \in {"saved", "answered", "lost"}
  /\ sentOut = {r \in Requests : post[r] = "answered"}
  /\ \A i, j \in DOMAIN log :
       i < j /\ post[log[i].id] = "saved" => post[log[j].id] # "lost"

(* What agentState held for agent a when the log had the given length. *)
RowAsOf(len, a, row) ==
  \/ row = NoRow /\ \A i \in Rows(a) : i > len
  \/ \E i \in Rows(a) : /\ i <= len /\ row = log[i].body
                        /\ \A j \in Rows(a) : j <= len => j <= i

(* What the fetches have read.                                             *)
ReadInv ==
  /\ \A n \in Conns : snapLen[n] <= Len(log)
  /\ \A n \in Conns : fetch[n] \in {"read", "applied"} =>
       \A a \in Agents : RowAsOf(snapLen[n], a, snap[n][a])

(* The connections opened so far, and how the fetch of the last one stands. *)
LastInv ==
  /\ \A n \in Conns : link[n] # "down" => n <= conn
  /\ Alive /\ fetch[conn] \notin {"asked", "read", "applied"} =>
       \A a \in Agents : Raced(a)

(* What a connection can carry in each state of it.                        *)
LinkCarries(n) ==
  /\ link[n] # "registered" => chan[n] = <<>>
  /\ link[n] \in {"down", "opened"} => wire[n] = <<>>
  /\ link[n] = "left" => \A a \in Agents : Carries(n, a) => Raced(a)

(* Unless its agent was raced, a row in the pipe is followed there by each *)
(* later row of the agent that is not still to be broadcast.               *)
Followed(n, a) ==
  \A k \in DOMAIN Pipe(n) : \A i, j \in Rows(a) :
    Pipe(n)[k] = log[i] /\ i < j =>
      \/ post[log[j].id] = "saved"
      \/ \E l \in DOMAIN Pipe(n) : k < l /\ Pipe(n)[l] = log[j]

PipeInvOf(n) ==
  /\ LinkCarries(n)
  /\ \A k \in DOMAIN Pipe(n) : \E i \in DOMAIN log : Pipe(n)[k] = log[i]
  /\ \A a \in Agents : ~ Raced(a) => Followed(n, a)

PipeInv == \A n \in Conns : PipeInvOf(n)

(* What the last fetch did not read, the page has or will have.            *)
NewsInv ==
  Alive /\ fetch[conn] \in {"read", "applied"} =>
    \A a \in Agents : ~ Raced(a) =>
      \A i \in Rows(a) : i > snapLen[conn] => Pending(i) \/ log[i].id \in handled

(* Once the last fetch was applied a card is right, or will be.            *)
CardInv ==
  Alive /\ fetch[conn] = "applied" =>
    \A a \in Agents : ~ Raced(a) =>
      board[a] = agentState[a] \/ \E i \in Rows(a) : Log!IsLatest(i, a) /\ Pending(i)

-----------------------------------------------------------------------------
(* What the steps do. *)

LEMMA SaveFacts ==
  ASSUME BoardTyped, NEW r \in Requests, NEW a \in Agents, NEW s \in Statuses, Save(r, a, s)
  PROVE  \E k \in Nat \ {0} :
           /\ k = Len(log) + 1 /\ k = Len(log')
           /\ DOMAIN log = 1 .. k - 1 /\ DOMAIN log' = 1 .. k
           /\ log'[k].id = r /\ log'[k].agent = a /\ log'[k].body = s
           /\ \A j \in DOMAIN log : log'[j] = log[j] /\ log[j].id # r
<1> DEFINE e == [id |-> r, agent |-> a, body |-> s]
<1>1. e \in Log!Event /\ e.id = r /\ e.agent = a /\ e.body = s
  BY DEF Log!Event
<1>2. log' = Append(log, e) /\ \A j \in DOMAIN log : log[j].id # r
  BY DEF Save, Log!Record, Log!Unrecorded
<1>3. log \in Seq(Log!Event)
  BY DEF BoardTyped, TypeOK, Log!TypeOK
<1>. HIDE DEF e
<1>4. /\ Len(log) + 1 \in Nat \ {0} /\ Len(log') = Len(log) + 1
      /\ DOMAIN log = 1 .. Len(log) + 1 - 1 /\ DOMAIN log' = 1 .. Len(log) + 1
      /\ log'[Len(log) + 1] = e
      /\ \A j \in DOMAIN log : log'[j] = log[j]
  BY <1>1, <1>2, <1>3
<1>. QED
  BY <1>1, <1>2, <1>4

LEMMA RowTyped ==
  ASSUME BoardTyped, NEW i \in DOMAIN log
  PROVE  /\ log[i] \in Log!Event
         /\ log[i].id \in Requests /\ log[i].agent \in Agents /\ log[i].body \in Statuses
         /\ DOMAIN log = 1 .. Len(log) /\ Len(log) \in Nat /\ i \in Nat
<1>1. log \in Seq(Log!Event)
  BY DEF BoardTyped, TypeOK, Log!TypeOK
<1>2. log[i] \in Log!Event
  BY <1>1
<1>. QED
  BY <1>1, <1>2 DEF Log!Event

(* A broadcast is of the row of its request, and spoils what it should.    *)
LEMMA BroadcastFacts ==
  ASSUME BoardTyped, RowsInv, NEW r \in Requests, Broadcast(r)
  PROVE  \E i \in DOMAIN log :
           /\ log[i].id = r /\ post[r] = "saved"
           /\ SendToAll(log[i])
           /\ races \subseteq races' /\ log' = log
           /\ \A n \in Registered : Len(chan[n]) >= Cap => Raced(log[i].agent)'
           /\ Alive /\ Registered = {} /\ fetch[conn] # "asked" => Raced(log[i].agent)'
           /\ \A j \in Rows(log[i].agent) :
                j > i /\ post[log[j].id] = "answered" => Raced(log[i].agent)'
<1>1. post[r] = "saved" /\ ~ Log!Unrecorded(r)
  BY DEF Broadcast, BoardTyped, SavedHasRow
<1>2. Position(r) \in DOMAIN log /\ log[Position(r)].id = r
  BY <1>1 DEF Log!Unrecorded, Position
<1>3. PICK i \in DOMAIN log :
        /\ log[i].id = r
        /\ SendToAll(log[i])
        /\ races' = races \cup {<<log[i].agent, k>> : k \in BroadcastRaces(i)}
  BY <1>2 DEF Broadcast
<1>4. log' = log
  BY DEF Broadcast, storeVars
<1>5. \A k \in {"overtaken", "dropped", "unheard"} :
        k \in BroadcastRaces(i) => Raced(log[i].agent)'
  BY <1>3, <1>4 DEF Raced, Causes
<1>6. \A n \in Registered : Len(chan[n]) >= Cap => "dropped" \in BroadcastRaces(i)
  BY DEF BroadcastRaces
<1>7. Alive /\ Registered = {} /\ fetch[conn] # "asked" => "unheard" \in BroadcastRaces(i)
  BY DEF BroadcastRaces
<1>8. ASSUME NEW j \in Rows(log[i].agent), j > i, post[log[j].id] = "answered"
      PROVE  "overtaken" \in BroadcastRaces(i)
  <2>1. log[j].id \in sentOut
    BY <1>8, RowTyped DEF RowsInv, Rows
  <2>. QED
    BY <1>8, <2>1 DEF BroadcastRaces
<1>9. races \subseteq races'
  BY <1>3
<1>10. /\ \A n \in Registered : Len(chan[n]) >= Cap => Raced(log[i].agent)'
       /\ Alive /\ Registered = {} /\ fetch[conn] # "asked" => Raced(log[i].agent)'
       /\ \A j \in Rows(log[i].agent) :
            j > i /\ post[log[j].id] = "answered" => Raced(log[i].agent)'
  BY <1>5, <1>6, <1>7, <1>8
<1>. QED
  BY <1>1, <1>3, <1>4, <1>9, <1>10

LEMMA PipeTyped ==
  ASSUME BoardTyped, NEW n \in Conns
  PROVE  /\ wire[n] \in Seq(Log!Event) /\ chan[n] \in Seq(Log!Event)
         /\ Pipe(n) \in Seq(Log!Event)
         /\ wire[n] = <<>> /\ chan[n] = <<>> <=> Pipe(n) = <<>>
<1>1. wire[n] \in Seq(Log!Event) /\ chan[n] \in Seq(Log!Event)
  BY DEF BoardTyped, TypeOK
<1>2. Pipe(n) \in Seq(Log!Event)
  BY <1>1 DEF Pipe
<1>3. wire[n] = <<>> /\ chan[n] = <<>> <=> Pipe(n) = <<>>
  BY <1>1 DEF Pipe
<1>. QED
  BY <1>1, <1>2, <1>3

(* A write leaves every pipe as it is.                                     *)
LEMMA WriteFacts ==
  ASSUME BoardTyped, NEW n \in Conns, Write(n), NEW m \in Conns
  PROVE  /\ Pipe(m)' = Pipe(m) /\ chan[n] # <<>>
         /\ m # n => wire'[m] = wire[m] /\ chan'[m] = chan[m]
<1>1. /\ chan[n] # <<>> /\ wire \in [Conns -> Seq(Log!Event)] /\ chan \in [Conns -> Seq(Log!Event)]
      /\ wire' = [wire EXCEPT ![n] = Append(wire[n], Head(chan[n]))]
      /\ chan' = [chan EXCEPT ![n] = Tail(chan[n])]
  BY DEF Write, BoardTyped, TypeOK
<1>2. CASE m = n
  <2>1. wire'[n] = Append(wire[n], Head(chan[n])) /\ chan'[n] = Tail(chan[n])
    BY <1>1
  <2>2. Append(wire[n], Head(chan[n])) \o Tail(chan[n]) = wire[n] \o chan[n]
    BY <1>1, PipeTyped, HeadMovesOver
  <2>. QED
    BY <1>1, <1>2, <2>1, <2>2 DEF Pipe
<1>3. CASE m # n
  BY <1>1, <1>3 DEF Pipe
<1>. QED
  BY <1>2, <1>3

(* The page takes the first element of a pipe, and the others stay.        *)
LEMMA ReceiveFacts ==
  ASSUME BoardTyped, NEW n \in Conns, Receive(n)
  PROVE  /\ Pipe(n) # <<>> /\ Head(wire[n]) = Head(Pipe(n)) /\ Pipe(n)' = Tail(Pipe(n))
         /\ 1 \in DOMAIN Pipe(n) /\ Pipe(n)[1] = Head(wire[n])
         /\ \A m \in Conns : m # n => Pipe(m)' = Pipe(m)
<1>1. /\ wire[n] # <<>> /\ wire' = [wire EXCEPT ![n] = Tail(wire[n])] /\ chan' = chan
      /\ wire \in [Conns -> Seq(Log!Event)] /\ chan \in [Conns -> Seq(Log!Event)]
  BY DEF Receive, BoardTyped, TypeOK, linkVars
<1>2. /\ Tail(wire[n]) \o chan[n] = Tail(wire[n] \o chan[n])
      /\ Head(wire[n] \o chan[n]) = Head(wire[n]) /\ wire[n] \o chan[n] # <<>>
      /\ 1 \in DOMAIN (wire[n] \o chan[n]) /\ (wire[n] \o chan[n])[1] = Head(wire[n])
  BY <1>1, PipeTyped, HeadOfJoined
<1>3. wire'[n] = Tail(wire[n]) /\ chan'[n] = chan[n]
  BY <1>1
<1>4. \A m \in Conns : m # n => wire'[m] = wire[m] /\ chan'[m] = chan[m]
  BY <1>1
<1>. QED
  BY <1>2, <1>3, <1>4 DEF Pipe

(* What is sent goes to the end of the pipes that have room for it.        *)
LEMMA SendFacts ==
  ASSUME BoardTyped, NEW e \in Log!Event, SendToAll(e), wire' = wire, NEW n \in Conns
  PROVE  IF n \in Registered /\ Len(chan[n]) < Cap
           THEN /\ Pipe(n)' = Append(Pipe(n), e)
                /\ DOMAIN Pipe(n)' = DOMAIN Pipe(n) \cup {Len(Pipe(n)) + 1}
                /\ Pipe(n)'[Len(Pipe(n)) + 1] = e
                /\ \A k \in DOMAIN Pipe(n) : Pipe(n)'[k] = Pipe(n)[k] /\ k < Len(Pipe(n)) + 1
           ELSE Pipe(n)' = Pipe(n) /\ chan'[n] = chan[n]
<1>1. wire[n] \in Seq(Log!Event) /\ chan[n] \in Seq(Log!Event) /\ Pipe(n) \in Seq(Log!Event)
  BY PipeTyped
<1>2. chan'[n] = IF n \in Registered /\ Len(chan[n]) < Cap THEN Append(chan[n], e) ELSE chan[n]
  BY DEF SendToAll
<1>3. CASE n \in Registered /\ Len(chan[n]) < Cap
  <2>1. wire[n] \o Append(chan[n], e) = Append(wire[n] \o chan[n], e)
    <3>1. \A p, q \in Seq(Log!Event) : p \o Append(q, e) = Append(p \o q, e)
      BY AppendToJoined
    <3>. QED
      BY <1>1, <3>1
  <2>2. Pipe(n)' = Append(Pipe(n), e)
    BY <1>2, <1>3, <2>1 DEF Pipe
  <2>3. \A k \in DOMAIN Pipe(n) : k < Len(Pipe(n)) + 1
    BY <1>1
  <2>. QED
    BY <1>1, <1>3, <2>2, <2>3, AppendToQueue
<1>4. CASE ~ (n \in Registered /\ Len(chan[n]) < Cap)
  BY <1>2, <1>4 DEF Pipe
<1>. QED
  BY <1>3, <1>4

(* A connection that breaks races every agent with a row in its pipe, and  *)
(* the others stay.                                                        *)
LEMMA BreakFacts ==
  ASSUME BoardTyped, PipeInv, Restart \/ \E n \in Conns : Leave(n) \/ Disconnect(n),
         NEW m \in Conns
  PROVE  /\ log' = log /\ races \subseteq races'
         /\ \/ link'[m] = link[m] /\ chan'[m] = chan[m] /\ wire'[m] = wire[m]
            \/ /\ chan'[m] = <<>>
               /\ \/ link'[m] = "left"
                  \/ link'[m] = "down" /\ wire'[m] = <<>>
               /\ \A k \in DOMAIN Pipe(m)' : \E j \in DOMAIN Pipe(m) : Pipe(m)'[k] = Pipe(m)[j]
               /\ \A a \in Agents : Carries(m, a) => Raced(a)'
<1>1. /\ wire[m] \in Seq(Log!Event) /\ chan[m] \in Seq(Log!Event)
      /\ Pipe(m) \in Seq(Log!Event)
  BY PipeTyped
<1>2. ASSUME Underway(m) \X {"severed"} \subseteq races', NEW a \in Agents, Carries(m, a)
      PROVE  Raced(a)'
  <2>1. PICK k \in DOMAIN Pipe(m) : Pipe(m)[k].agent = a
    BY <1>2 DEF Carries
  <2>2. \/ k \in DOMAIN wire[m] /\ Pipe(m)[k] = wire[m][k]
        \/ k - Len(wire[m]) \in DOMAIN chan[m] /\ Pipe(m)[k] = chan[m][k - Len(wire[m])]
    BY <1>1, PlaceInJoined DEF Pipe
  <2>3. \E q \in {chan[m], wire[m]} : \E i \in DOMAIN q : q[i].agent = a
    BY <2>1, <2>2
  <2>4. <<a, "severed">> \in races'
    BY <1>2, <2>3 DEF Underway
  <2>. QED
    BY <2>4 DEF Raced, Causes
<1>6. ASSUME chan'[m] = <<>>, wire'[m] = <<>> \/ wire'[m] = wire[m]
      PROVE  \A k \in DOMAIN Pipe(m)' : \E j \in DOMAIN Pipe(m) : Pipe(m)'[k] = Pipe(m)[j]
  <2>1. Pipe(m)' = wire'[m] \o chan'[m]
    BY DEF Pipe
  <2>2. CASE wire'[m] = <<>>
    BY <1>6, <2>1, <2>2
  <2>3. CASE wire'[m] = wire[m]
    <3>1. ASSUME NEW k \in DOMAIN Pipe(m)' PROVE k \in DOMAIN wire[m] /\ Pipe(m)'[k] = wire[m][k]
      <4>1. <<>> \in Seq(Log!Event) /\ DOMAIN <<>> = {}
        OBVIOUS
      <4>2. Pipe(m)' = wire[m] \o <<>>
        BY <1>6, <2>1, <2>3
      <4>3. k \in DOMAIN (wire[m] \o <<>>)
        BY <3>1, <4>2
      <4>4. k \in DOMAIN wire[m] /\ (wire[m] \o <<>>)[k] = wire[m][k]
        BY <1>1, <4>1, <4>3, PlaceInJoined
      <4>5. Pipe(m)'[k] = (wire[m] \o <<>>)[k]
        BY <4>2
      <4>. QED
        BY <4>4, <4>5
    <3>2. \A k \in DOMAIN wire[m] : k \in DOMAIN Pipe(m) /\ Pipe(m)[k] = wire[m][k]
      BY <1>1, FirstInJoined DEF Pipe
    <3>. QED
      BY <3>1, <3>2
  <2>. QED
    BY <1>6, <2>2, <2>3
<1>3. /\ link \in [Conns -> {"down", "opened", "registered", "left"}]
      /\ chan \in [Conns -> Seq(Log!Event)] /\ wire \in [Conns -> Seq(Log!Event)]
  BY DEF BoardTyped, TypeOK
<1>4. ASSUME NEW n \in Conns, Leave(n) \/ Disconnect(n)
      PROVE  /\ log' = log /\ races \subseteq races'
             /\ \/ link'[m] = link[m] /\ chan'[m] = chan[m] /\ wire'[m] = wire[m]
                \/ /\ chan'[m] = <<>>
                   /\ \/ link'[m] = "down" /\ wire'[m] = <<>>
                      \/ link'[m] = "left" /\ wire'[m] = wire[m]
                   /\ Underway(m) \X {"severed"} \subseteq races'
  <2>1. /\ log' = log /\ races' = races \cup (Underway(n) \X {"severed"})
        /\ chan' = [chan EXCEPT ![n] = <<>>]
        /\ \/ link' = [link EXCEPT ![n] = "down"] /\ wire' = [wire EXCEPT ![n] = <<>>]
           \/ link' = [link EXCEPT ![n] = "left"] /\ wire' = wire
    BY <1>4 DEF Leave, Disconnect, storeVars
  <2>2. CASE m = n
    BY <1>3, <2>1, <2>2
  <2>3. CASE m # n
    BY <1>3, <2>1, <2>3
  <2>. QED
    BY <2>2, <2>3
<1>5. ASSUME Restart
      PROVE  /\ log' = log /\ races \subseteq races'
             /\ \/ link'[m] = link[m] /\ chan'[m] = chan[m] /\ wire'[m] = wire[m]
                \/ /\ chan'[m] = <<>>
                   /\ \/ link'[m] = "down" /\ wire'[m] = <<>>
                      \/ link'[m] = "left" /\ wire'[m] = wire[m]
                   /\ Underway(m) \X {"severed"} \subseteq races'
  <2>1. /\ log' = log /\ wire' = wire /\ chan'[m] = <<>>
        /\ link'[m] = IF link[m] = "down" THEN "down" ELSE "left"
        /\ races' = races \cup ((UNION {Underway(n) : n \in Conns}) \X {"severed"})
    BY <1>5 DEF Restart, storeVars
  <2>2. Underway(m) \X {"severed"} \subseteq races'
    BY <2>1
  <2>3. link[m] = "down" => wire[m] = <<>> /\ chan[m] = <<>>
    BY <1>3 DEF PipeInv, PipeInvOf, LinkCarries
  <2>. QED
    BY <1>3, <2>1, <2>2, <2>3
<1>7. /\ log' = log /\ races \subseteq races'
      /\ \/ link'[m] = link[m] /\ chan'[m] = chan[m] /\ wire'[m] = wire[m]
         \/ /\ chan'[m] = <<>>
            /\ \/ link'[m] = "down" /\ wire'[m] = <<>>
               \/ link'[m] = "left" /\ wire'[m] = wire[m]
            /\ Underway(m) \X {"severed"} \subseteq races'
  BY <1>4, <1>5
<1>8. CASE link'[m] = link[m] /\ chan'[m] = chan[m] /\ wire'[m] = wire[m]
  BY <1>7, <1>8
<1>9. CASE /\ chan'[m] = <<>>
           /\ \/ link'[m] = "down" /\ wire'[m] = <<>>
              \/ link'[m] = "left" /\ wire'[m] = wire[m]
           /\ Underway(m) \X {"severed"} \subseteq races'
  <2>1. \A a \in Agents : Carries(m, a) => Raced(a)'
    BY <1>2, <1>9
  <2>2. \A k \in DOMAIN Pipe(m)' : \E j \in DOMAIN Pipe(m) : Pipe(m)'[k] = Pipe(m)[j]
    BY <1>6, <1>9
  <2>3. \/ link'[m] = "left"
        \/ link'[m] = "down" /\ wire'[m] = <<>>
    BY <1>9
  <2>4. chan'[m] = <<>> /\ log' = log /\ races \subseteq races'
    BY <1>7, <1>9
  <2>. QED
    BY <2>1, <2>2, <2>3, <2>4
<1>. QED
  BY <1>7, <1>8, <1>9

-----------------------------------------------------------------------------
(* Rows. *)

LEMMA RowsStep ==
  ASSUME BoardTyped, RowsInv, [Next]_vars
  PROVE  RowsInv'
<1> USE DEF storeVars, linkVars, fetchVars, history
<1>1. ASSUME NEW r \in Requests, Refuse(r) PROVE RowsInv'
  <2>1. /\ post[r] = "idle" /\ post' = [post EXCEPT ![r] = "refused"]
        /\ UNCHANGED <<log, agentState, sentOut>>
    BY <1>1 DEF Refuse
  <2>2. \A i \in DOMAIN log : post'[log[i].id] = post[log[i].id]
    BY <2>1, RowTyped DEF RowsInv
  <2>3. sentOut' = {q \in Requests : post'[q] = "answered"}
    BY <2>1 DEF RowsInv, BoardTyped, TypeOK
  <2>. QED
    BY <2>1, <2>2, <2>3 DEF RowsInv, Log!UniqueIds, Log!RowIsLatest, Log!IsLatest
<1>2. ASSUME NEW r \in Requests, NEW a \in Agents, NEW s \in Statuses, Save(r, a, s)
      PROVE  RowsInv'
  <2>1. PICK k \in Nat \ {0} :
           /\ DOMAIN log = 1 .. k - 1 /\ DOMAIN log' = 1 .. k
           /\ log'[k].id = r /\ log'[k].agent = a /\ log'[k].body = s
           /\ \A j \in DOMAIN log : log'[j] = log[j] /\ log[j].id # r
    BY <1>2, SaveFacts
  <2>2. /\ post[r] = "idle" /\ post'[r] = "saved" /\ sentOut' = sentOut
        /\ \A q \in Requests \ {r} : post'[q] = post[q]
        /\ agentState' = [agentState EXCEPT ![a] = s]
    BY <1>2 DEF Save, Log!Record, BoardTyped, TypeOK
  <2>3. \A i \in DOMAIN log : post'[log'[i].id] = post[log[i].id]
    BY <2>1, <2>2, RowTyped
  <2>4. Log!UniqueIds'
    BY <2>1 DEF RowsInv, Log!UniqueIds
  <2>5. Log!RowIsLatest'
    <3> SUFFICES ASSUME NEW b \in Agents
                 PROVE  \/ /\ agentState'[b] = NoRow
                           /\ \A i \in DOMAIN log' : log'[i].agent # b
                        \/ \E i \in DOMAIN log' :
                             Log!IsLatest(i, b)' /\ agentState'[b] = log'[i].body
      BY DEF Log!RowIsLatest
    <3>1. CASE b = a
      <4>1. Log!IsLatest(k, b)'
        BY <2>1, <3>1 DEF Log!IsLatest
      <4>2. agentState'[b] = log'[k].body
        BY <2>1, <2>2, <3>1 DEF BoardTyped, TypeOK, Log!TypeOK
      <4>. QED
        BY <2>1, <4>1, <4>2
    <3>2. CASE b # a
      <4>1. agentState'[b] = agentState[b]
        BY <2>2, <3>2 DEF BoardTyped, TypeOK, Log!TypeOK
      <4>2. \A i \in DOMAIN log : Log!IsLatest(i, b) => Log!IsLatest(i, b)'
        BY <2>1, <3>2 DEF Log!IsLatest
      <4>3. \/ /\ agentState[b] = NoRow
               /\ \A i \in DOMAIN log : log[i].agent # b
            \/ \E i \in DOMAIN log : Log!IsLatest(i, b) /\ agentState[b] = log[i].body
        BY DEF RowsInv, Log!RowIsLatest
      <4>. QED
        BY <2>1, <3>2, <4>1, <4>2, <4>3
    <3>. QED
      BY <3>1, <3>2
  <2>6. \A i \in DOMAIN log' : post'[log'[i].id] \in {"saved", "answered", "lost"}
    BY <2>1, <2>2, <2>3 DEF RowsInv
  <2>7. sentOut' = {q \in Requests : post'[q] = "answered"}
    BY <2>2 DEF RowsInv
  <2>8. \A i, j \in DOMAIN log' :
          i < j /\ post'[log'[i].id] = "saved" => post'[log'[j].id] # "lost"
    BY <2>1, <2>2, <2>3 DEF RowsInv
  <2>. QED
    BY <2>4, <2>5, <2>6, <2>7, <2>8 DEF RowsInv
<1>3. ASSUME NEW r \in Requests, Broadcast(r) PROVE RowsInv'
  <2>1. /\ post'[r] = "answered" /\ post[r] = "saved" /\ sentOut' = sentOut \cup {r}
        /\ \A q \in Requests \ {r} : post'[q] = post[q]
        /\ UNCHANGED <<log, agentState>>
    BY <1>3 DEF Broadcast, BoardTyped, TypeOK
  <2>2. sentOut' = {q \in Requests : post'[q] = "answered"}
    BY <2>1 DEF RowsInv
  <2>3. \A i \in DOMAIN log : \/ post'[log[i].id] = post[log[i].id]
                              \/ post'[log[i].id] = "answered"
    BY <2>1, RowTyped
  <2>. QED
    BY <2>1, <2>2, <2>3 DEF RowsInv, Log!UniqueIds, Log!RowIsLatest, Log!IsLatest
<1>4. CASE Restart
  <2>1. /\ post' = [r \in Requests |-> IF post[r] = "saved" THEN "lost" ELSE post[r]]
        /\ UNCHANGED <<log, agentState, sentOut>>
    BY <1>4 DEF Restart
  <2>2. \A i \in DOMAIN log : post'[log[i].id] \in {"answered", "lost"}
    BY <2>1, RowTyped DEF RowsInv
  <2>3. sentOut' = {q \in Requests : post'[q] = "answered"}
    BY <2>1 DEF RowsInv
  <2>. QED
    BY <2>1, <2>2, <2>3 DEF RowsInv, Log!UniqueIds, Log!RowIsLatest, Log!IsLatest
<1>5. CASE UNCHANGED <<log, agentState, post, sentOut>>
  BY <1>5 DEF RowsInv, Log!UniqueIds, Log!RowIsLatest, Log!IsLatest
<1>. QED
  BY <1>1, <1>2, <1>3, <1>4, <1>5
     DEF Next, vars, Open, OpenWith, Register, Write, Leave, Disconnect, Receive,
         HandleEvent, HandleThrows, ReadAgents, SetAgents, FetchFails

-----------------------------------------------------------------------------
(* What was raced stays so while the page has a connection, and what a     *)
(* fetch has read depends on the first rows only.                          *)

LEMMA RacedStays ==
  ASSUME races \subseteq races', NEW a, Raced(a)
  PROVE  Raced(a)'
BY DEF Raced

LEMMA RacesGrow ==
  ASSUME [Next]_vars, ~ Open
  PROVE  races \subseteq races'
BY DEF Next, vars, history, Refuse, Save, Broadcast, Register, Write, Leave, Disconnect,
       Restart, Receive, HandleEvent, HandleThrows, ReadAgents, SetAgents, FetchFails

(* Only a new connection brings the page back.                             *)
LEMMA AliveStays ==
  ASSUME BoardTyped, [Next]_vars, ~ Open, Alive'
  PROVE  Alive /\ conn' = conn /\ ~ Restart
<1> USE DEF linkVars
<1>1. link \in [Conns -> {"down", "opened", "registered", "left"}]
  BY DEF BoardTyped, TypeOK
<1>2. ASSUME link' = link, conn' = conn PROVE Alive /\ conn' = conn
  BY <1>2 DEF Alive
<1>3. ASSUME NEW n \in Conns, Register(n) \/ Leave(n) \/ Disconnect(n)
      PROVE  Alive /\ conn' = conn
  <2>1. /\ conn' = conn
        /\ \/ link[n] = "opened" /\ link' = [link EXCEPT ![n] = "registered"]
           \/ link' = [link EXCEPT ![n] = "left"]
           \/ link' = [link EXCEPT ![n] = "down"]
    BY <1>3 DEF Register, Leave, Disconnect
  <2>2. PICK m \in Conns : link'[m] \in {"opened", "registered"}
    BY DEF Alive
  <2>3. link[m] \in {"opened", "registered"}
    BY <1>1, <2>1, <2>2
  <2>. QED
    BY <2>1, <2>3 DEF Alive
<1>4. ~ Restart
  BY <1>1 DEF Restart, Alive
<1>. QED
  BY <1>2, <1>3, <1>4
     DEF Next, vars, Refuse, Save, Broadcast, Write, Receive, HandleEvent, HandleThrows,
         ReadAgents, SetAgents, FetchFails

(* While the page is connected its last connection has been numbered.      *)
LEMMA LastConn ==
  ASSUME BoardTyped, LastInv, Alive
  PROVE  conn \in Conns
<1>1. PICK m \in Conns : link[m] # "down"
  BY DEF Alive
<1>2. m <= conn /\ conn \in 0 .. MaxConns /\ MaxConns \in Nat
  BY <1>1, BoardAssumption DEF LastInv, BoardTyped, TypeOK
<1>. QED
  BY <1>2 DEF Conns

(* What follows the opening of a connection.                               *)
LEMMA OpenFacts ==
  ASSUME BoardTyped, Open
  PROVE  /\ conn' = conn + 1 /\ conn' \in Conns /\ conn \in Nat
         /\ fetch' = [fetch EXCEPT ![conn'] = "asked"] /\ fetch'[conn'] = "asked"
         /\ link' = [link EXCEPT ![conn'] = "opened"]
         /\ UNCHANGED <<log, agentState, post, chan, wire, snap, snapLen, board, handled>>
         /\ races' = races \/ \A n \in Conns : link[n] = "down"
BY BoardAssumption DEF Open, OpenWith, Conns, BoardTyped, TypeOK, storeVars

LEMMA LatestRow ==
  ASSUME RowsInv, NEW a \in Agents
  PROVE  \/ agentState[a] = NoRow /\ Rows(a) = {}
         \/ \E i \in Rows(a) : Log!IsLatest(i, a) /\ agentState[a] = log[i].body
BY DEF RowsInv, Log!RowIsLatest, Log!IsLatest, Rows

LEMMA RowAsOfNow ==
  ASSUME BoardTyped, RowsInv, NEW a \in Agents
  PROVE  RowAsOf(Len(log), a, agentState[a])
<1>1. \A i \in Rows(a) : i <= Len(log) /\ i \in Nat
  BY RowTyped DEF Rows
<1>2. ASSUME NEW i \in Rows(a), Log!IsLatest(i, a) PROVE \A j \in Rows(a) : j <= i
  BY <1>1, <1>2 DEF Log!IsLatest, Rows
<1>. QED
  BY <1>1, <1>2, LatestRow DEF RowAsOf

(* A fetch that read every row of an agent has the agent's current status. *)
LEMMA RowAsOfAll ==
  ASSUME BoardTyped, RowsInv, NEW a \in Agents, NEW len \in Nat, NEW row,
         RowAsOf(len, a, row), \A i \in Rows(a) : Log!IsLatest(i, a) => i <= len
  PROVE  row = agentState[a]
<1>1. \A i \in Rows(a) : i \in Nat
  BY RowTyped DEF Rows
<1>2. CASE agentState[a] = NoRow /\ Rows(a) = {}
  BY <1>2 DEF RowAsOf
<1>3. ASSUME NEW i \in Rows(a), Log!IsLatest(i, a), agentState[a] = log[i].body
      PROVE  row = agentState[a]
  <2>1. i <= len
    BY <1>3
  <2>2. PICK x \in Rows(a) : row = log[x].body /\ \A j \in Rows(a) : j <= len => j <= x
    BY <1>1, <2>1 DEF RowAsOf
  <2>3. i <= x /\ x <= i
    BY <1>1, <1>3, <2>1, <2>2 DEF Log!IsLatest, Rows
  <2>4. i = x
    BY <1>1, <2>3
  <2>. QED
    BY <1>3, <2>2, <2>4
<1>. QED
  BY <1>2, <1>3, LatestRow

LEMMA RowAsOfStays ==
  ASSUME BoardTyped, NEW r \in Requests, NEW a \in Agents, NEW s \in Statuses, Save(r, a, s),
         NEW len \in Nat, len <= Len(log), NEW b \in Agents, NEW row, RowAsOf(len, b, row)
  PROVE  RowAsOf(len, b, row)'
<1>1. PICK k \in Nat \ {0} :
         /\ k = Len(log) + 1 /\ DOMAIN log = 1 .. k - 1 /\ DOMAIN log' = 1 .. k
         /\ \A j \in DOMAIN log : log'[j] = log[j]
  BY SaveFacts
<1>2. Len(log) \in Nat
  BY DEF BoardTyped, TypeOK, Log!TypeOK
<1>3. Rows(b) \subseteq Rows(b)' /\ Rows(b)' \subseteq Rows(b) \cup {k} /\ k > len
  BY <1>1, <1>2 DEF Rows
<1>4. CASE row = NoRow /\ \A i \in Rows(b) : i > len
  BY <1>3, <1>4 DEF RowAsOf
<1>5. ASSUME NEW i \in Rows(b), i <= len, row = log[i].body,
             \A j \in Rows(b) : j <= len => j <= i
      PROVE  RowAsOf(len, b, row)'
  <2>1. log'[i] = log[i]
    BY <1>1, <1>5 DEF Rows
  <2>2. \A j \in Rows(b)' : j <= len => j <= i
    BY <1>2, <1>3, <1>5
  <2>3. i \in Rows(b)' /\ i <= len /\ row = log'[i].body
    BY <1>3, <1>5, <2>1
  <2>. QED
    BY <2>2, <2>3 DEF RowAsOf
<1>. QED
  BY <1>4, <1>5 DEF RowAsOf

-----------------------------------------------------------------------------
(* Fetches. *)

LEMMA ReadStep ==
  ASSUME BoardTyped, RowsInv, ReadInv, [Next]_vars
  PROVE  ReadInv'
<1> USE DEF storeVars, linkVars, fetchVars, history
<1>1. /\ Len(log) \in Nat
      /\ fetch \in [Conns -> {"none", "asked", "read", "applied", "failed"}]
      /\ snapLen \in [Conns -> Nat] /\ snap \in [Conns -> [Agents -> Statuses \cup {NoRow}]]
  BY DEF BoardTyped, TypeOK, Log!TypeOK
<1>2. ASSUME NEW r \in Requests, NEW a \in Agents, NEW s \in Statuses, Save(r, a, s)
      PROVE  ReadInv'
  <2>1. UNCHANGED <<fetch, snap, snapLen>>
    BY <1>2 DEF Save
  <2>2. Len(log') = Len(log) + 1
    <3>1. PICK k \in Nat \ {0} : k = Len(log) + 1 /\ k = Len(log')
      BY <1>2, SaveFacts
    <3>. QED
      BY <3>1
  <2>3. \A n \in Conns : snapLen'[n] <= Len(log')
    BY <1>1, <2>1, <2>2 DEF ReadInv
  <2>4. ASSUME NEW n \in Conns, fetch'[n] \in {"read", "applied"}, NEW b \in Agents
        PROVE  RowAsOf(snapLen[n], b, snap[n][b])'
    <3>1. RowAsOf(snapLen[n], b, snap[n][b]) /\ snapLen[n] <= Len(log) /\ snapLen[n] \in Nat
      BY <1>1, <2>1, <2>4 DEF ReadInv
    <3>2. PICK len \in Nat, row \in Statuses \cup {NoRow} :
            len = snapLen[n] /\ row = snap[n][b]
      BY <1>1, <3>1
    <3>3. RowAsOf(len, b, row)'
      BY <1>2, <3>1, <3>2, RowAsOfStays
    <3>. QED
      BY <2>1, <3>2, <3>3
  <2>. QED
    BY <2>1, <2>3, <2>4 DEF ReadInv
<1>3. ASSUME NEW n \in Conns, ReadAgents(n) PROVE ReadInv'
  <2>1. /\ fetch' = [fetch EXCEPT ![n] = "read"]
        /\ snap' = [snap EXCEPT ![n] = agentState]
        /\ snapLen' = [snapLen EXCEPT ![n] = Len(log)]
        /\ log' = log
    BY <1>3 DEF ReadAgents
  <2>2. \A m \in Conns : snapLen'[m] <= Len(log')
    BY <1>1, <2>1 DEF ReadInv
  <2>3. ASSUME NEW m \in Conns, fetch'[m] \in {"read", "applied"}, NEW a \in Agents
        PROVE  RowAsOf(snapLen'[m], a, snap'[m][a])
    <3>1. CASE m = n
      <4>1. snapLen'[m] = Len(log) /\ snap'[m] = agentState
        BY <1>1, <2>1, <3>1
      <4>. QED
        BY <4>1, RowAsOfNow
    <3>2. CASE m # n
      <4>1. snapLen'[m] = snapLen[m] /\ snap'[m] = snap[m] /\ fetch'[m] = fetch[m]
        BY <1>1, <2>1, <3>2
      <4>. QED
        BY <2>3, <4>1 DEF ReadInv
    <3>. QED
      BY <3>1, <3>2
  <2>. QED
    BY <2>1, <2>2, <2>3 DEF ReadInv, RowAsOf, Rows
<1>4. ASSUME UNCHANGED <<log, snap, snapLen>>,
             \A n \in Conns : fetch'[n] \in {"read", "applied"} => fetch[n] \in {"read", "applied"}
      PROVE  ReadInv'
  BY <1>4 DEF ReadInv, RowAsOf, Rows
<1>5. ASSUME NEW n \in Conns, SetAgents(n) \/ FetchFails(n) PROVE ReadInv'
  <2>1. /\ UNCHANGED <<log, snap, snapLen>>
        /\ \/ fetch[n] = "read" /\ fetch' = [fetch EXCEPT ![n] = "applied"]
           \/ fetch' = [fetch EXCEPT ![n] = "failed"]
    BY <1>5 DEF SetAgents, FetchFails
  <2>. QED
    BY <1>1, <1>4, <2>1
<1>6. CASE Open
  <2>1. UNCHANGED <<log, snap, snapLen>> /\ fetch' = [fetch EXCEPT ![conn + 1] = "asked"]
    BY <1>6 DEF Open, OpenWith
  <2>. QED
    BY <1>1, <1>4, <2>1
<1>7. CASE Restart
  <2>1. /\ UNCHANGED <<log, snap, snapLen>>
        /\ fetch' = [n \in Conns |-> IF fetch[n] = "asked" THEN "failed" ELSE fetch[n]]
    BY <1>7 DEF Restart
  <2>. QED
    BY <1>1, <1>4, <2>1
<1>8. CASE UNCHANGED <<log, fetch, snap, snapLen>>
  BY <1>4, <1>8
<1>. QED
  BY <1>2, <1>3, <1>5, <1>6, <1>7, <1>8
     DEF Next, vars, Refuse, Broadcast, Register, Write, Leave, Disconnect, Receive,
         HandleEvent, HandleThrows

LEMMA LastStep ==
  ASSUME BoardTyped, LastInv, [Next]_vars
  PROVE  LastInv'
<1> USE DEF storeVars, linkVars, fetchVars, history
<1>1. /\ fetch \in [Conns -> {"none", "asked", "read", "applied", "failed"}]
      /\ link \in [Conns -> {"down", "opened", "registered", "left"}]
  BY DEF BoardTyped, TypeOK
<1>2. CASE Open
  <2>1. /\ conn' = conn + 1 /\ conn' \in Conns /\ conn \in Nat /\ fetch'[conn'] = "asked"
        /\ link' = [link EXCEPT ![conn'] = "opened"]
    BY <1>2, OpenFacts
  <2>2. \A n \in Conns : n \in Nat
    BY DEF Conns
  <2>3. \A n \in Conns : n # conn' => link'[n] = link[n]
    BY <1>1, <2>1
  <2>4. \A n \in Conns : link'[n] # "down" => n <= conn'
    BY <2>1, <2>2, <2>3 DEF LastInv
  <2>. QED
    BY <2>1, <2>4 DEF LastInv
<1>3. CASE ~ Open
  <2>1. conn' = conn /\ \A n \in Conns : link'[n] # "down" => link[n] # "down"
    <3>1. ASSUME NEW n \in Conns, Register(n) \/ Leave(n) \/ Disconnect(n)
          PROVE  conn' = conn /\ \A m \in Conns : link'[m] # "down" => link[m] # "down"
      <4>1. /\ conn' = conn /\ link[n] # "down"
            /\ \/ link' = [link EXCEPT ![n] = "registered"]
               \/ link' = [link EXCEPT ![n] = "left"]
               \/ link' = [link EXCEPT ![n] = "down"]
        BY <3>1 DEF Register, Leave, Disconnect
      <4>. QED
        BY <1>1, <4>1
    <3>2. CASE Restart
      BY <3>2 DEF Restart
    <3>3. CASE UNCHANGED <<conn, link>>
      BY <3>3
    <3>. QED
      BY <1>3, <3>1, <3>2, <3>3
         DEF Next, vars, Refuse, Save, Broadcast, Write, Receive, HandleEvent, HandleThrows,
             ReadAgents, SetAgents, FetchFails
  <2>2. ASSUME Alive', fetch'[conn'] \notin {"asked", "read", "applied"}, NEW a \in Agents
        PROVE  Raced(a)'
    <3>1. Alive /\ conn' = conn /\ ~ Restart
      BY <1>3, <2>2, AliveStays
    <3>2. conn \in Conns
      BY <3>1, LastConn
    <3>3. CASE fetch[conn] \notin {"asked", "read", "applied"}
      BY <1>3, <3>1, <3>3, RacesGrow, RacedStays DEF LastInv
    <3>4. CASE fetch[conn] \in {"asked", "read", "applied"}
      <4>1. fetch' # fetch
        BY <2>2, <3>1, <3>4
      <4>2. PICK n \in Conns : ReadAgents(n) \/ SetAgents(n) \/ FetchFails(n)
        BY <1>3, <3>1, <4>1
           DEF Next, vars, Refuse, Save, Broadcast, Register, Write, Leave, Disconnect,
               Receive, HandleEvent, HandleThrows
      <4>3. /\ fetch' = [fetch EXCEPT ![n] = "failed"]
            /\ n = conn => races' = races \cup (Agents \X {"unfetched"})
        <5>1. ~ ReadAgents(n) /\ ~ SetAgents(n)
          BY <1>1, <2>2, <3>1, <3>2, <3>4 DEF ReadAgents, SetAgents
        <5>. QED
          BY <4>2, <5>1 DEF FetchFails
      <4>4. n = conn
        BY <1>1, <2>2, <3>1, <3>2, <3>4, <4>3
      <4>. QED
        BY <4>3, <4>4 DEF Raced, Causes
    <3>. QED
      BY <3>3, <3>4
  <2>. QED
    BY <2>1, <2>2 DEF LastInv
<1>. QED
  BY <1>2, <1>3

-----------------------------------------------------------------------------
(* The pipe. *)

(* A row that is in the pipe is the row of its position only. *)
LEMMA SameRow ==
  ASSUME RowsInv, NEW i \in DOMAIN log, NEW j \in DOMAIN log, log[i].id = log[j].id
  PROVE  i = j
BY DEF RowsInv, Log!UniqueIds

(* As long as a pipe does not change and no row goes back, PipeInvOf stays. *)
LEMMA PipeFrame ==
  ASSUME BoardTyped, NEW n \in Conns, PipeInvOf(n), LinkCarries(n)',
         log' = log, Pipe(n)' = Pipe(n),
         \A i \in DOMAIN log : post[log[i].id] = "saved" => post'[log[i].id] = "saved",
         races \subseteq races' \/ Pipe(n) = <<>>
  PROVE  PipeInvOf(n)'
<1>1. CASE Pipe(n) = <<>>
  <2>1. Pipe(n)' = <<>>
    BY <1>1
  <2>2. DOMAIN Pipe(n)' = {}
    BY <2>1
  <2>. QED
    BY <2>2 DEF PipeInvOf, Followed
<1>2. CASE races \subseteq races'
  <2>1. \A a \in Agents : (~ Raced(a)' => ~ Raced(a)) /\ Rows(a)' = Rows(a)
    BY <1>2 DEF Raced, Rows
  <2>2. \A k \in DOMAIN Pipe(n)' : \E i \in DOMAIN log' : Pipe(n)'[k] = log'[i]
    BY DEF PipeInvOf
  <2>3. ASSUME NEW a \in Agents, ~ Raced(a)' PROVE Followed(n, a)'
    <3>1. Followed(n, a)
      BY <2>1, <2>3 DEF PipeInvOf
    <3>2. ASSUME NEW k \in DOMAIN Pipe(n)', NEW i \in Rows(a), NEW j \in Rows(a),
                 Pipe(n)'[k] = log[i], i < j
          PROVE  \/ post'[log[j].id] = "saved"
                 \/ \E l \in DOMAIN Pipe(n)' : k < l /\ Pipe(n)'[l] = log[j]
      <4>1. j \in DOMAIN log
        BY DEF Rows
      <4>. QED
        BY <3>1, <3>2, <4>1 DEF Followed
    <3>. QED
      BY <2>1, <2>3, <3>2 DEF Followed
  <2>. QED
    BY <2>2, <2>3 DEF PipeInvOf
<1>. QED
  BY <1>1, <1>2

LEMMA PipeStepSave ==
  ASSUME BoardTyped, RowsInv, NEW n \in Conns, PipeInvOf(n),
         NEW r \in Requests, NEW a \in Agents, NEW s \in Statuses, Save(r, a, s)
  PROVE  PipeInvOf(n)'
<1> USE DEF storeVars, linkVars, fetchVars, history
<1>1. PICK x \in Nat \ {0} :
         /\ DOMAIN log = 1 .. x - 1 /\ DOMAIN log' = 1 .. x
         /\ log'[x].id = r
         /\ \A j \in DOMAIN log : log'[j] = log[j] /\ log[j].id # r
  BY SaveFacts
<1>2. /\ post'[r] = "saved" /\ \A q \in Requests \ {r} : post'[q] = post[q]
      /\ UNCHANGED <<link, wire, chan, races>>
  BY DEF Save, BoardTyped, TypeOK
<1>3. Pipe(n)' = Pipe(n) /\ \A b \in Agents : Raced(b)' <=> Raced(b)
  BY <1>2 DEF Pipe, Raced
<1>4. \A k \in DOMAIN Pipe(n)' : \E i \in DOMAIN log' : Pipe(n)'[k] = log'[i]
  BY <1>1, <1>3 DEF PipeInvOf
<1>5. LinkCarries(n)'
  BY <1>2, <1>3 DEF PipeInvOf, LinkCarries, Carries
<1>6. ASSUME NEW b \in Agents, ~ Raced(b)', NEW k \in DOMAIN Pipe(n)', NEW i \in Rows(b)',
             NEW j \in Rows(b)', Pipe(n)'[k] = log'[i], i < j
      PROVE  \/ post'[log'[j].id] = "saved"
             \/ \E l \in DOMAIN Pipe(n)' : k < l /\ Pipe(n)'[l] = log'[j]
  <2>1. i \in DOMAIN log' /\ j \in DOMAIN log' /\ log'[i].agent = b /\ log'[j].agent = b
    BY DEF Rows
  <2>2. CASE j = x
    BY <1>1, <1>2, <2>2
  <2>3. CASE j # x
    <3>1. i \in Rows(b) /\ j \in Rows(b) /\ log'[i] = log[i] /\ log'[j] = log[j]
      BY <1>1, <1>6, <2>1, <2>3 DEF Rows
    <3>2. log[j].id \in Requests \ {r}
      BY <1>1, <3>1, RowTyped DEF Rows
    <3>3. Followed(n, b)
      BY <1>3, <1>6 DEF PipeInvOf
    <3>. QED
      BY <1>2, <1>3, <1>6, <3>1, <3>2, <3>3 DEF Followed
  <2>. QED
    BY <2>2, <2>3
<1>7. \A b \in Agents : ~ Raced(b)' => Followed(n, b)'
  BY <1>6 DEF Followed
<1>. QED
  BY <1>4, <1>5, <1>7 DEF PipeInvOf

LEMMA PipeStepBroadcast ==
  ASSUME BoardTyped, RowsInv, NEW n \in Conns, PipeInvOf(n), NEW r \in Requests, Broadcast(r)
  PROVE  PipeInvOf(n)'
<1> USE DEF storeVars, linkVars, fetchVars, history
<1>1. PICK x \in DOMAIN log :
         /\ log[x].id = r /\ post[r] = "saved"
         /\ SendToAll(log[x])
         /\ races \subseteq races' /\ log' = log
         /\ \A m \in Registered : Len(chan[m]) >= Cap => Raced(log[x].agent)'
         /\ \A j \in Rows(log[x].agent) :
              j > x /\ post[log[j].id] = "answered" => Raced(log[x].agent)'
  BY BroadcastFacts
<1>2. /\ post'[r] = "answered" /\ \A q \in Requests \ {r} : post'[q] = post[q]
      /\ UNCHANGED <<link, wire>> /\ Len(chan[n]) \in Nat /\ Cap \in Nat
  BY BoardAssumption DEF Broadcast, BoardTyped, TypeOK
<1>3. \A b \in Agents : /\ ~ Raced(b)' => ~ Raced(b)
                        /\ Rows(b)' = Rows(b)
  BY <1>1 DEF Raced, Rows
<1>4. \A j \in DOMAIN log : j # x => post'[log[j].id] = post[log[j].id]
  BY <1>1, <1>2, RowTyped, SameRow
<1>5. CASE n \in Registered /\ Len(chan[n]) < Cap
  <2>1. /\ DOMAIN Pipe(n)' = DOMAIN Pipe(n) \cup {Len(Pipe(n)) + 1}
        /\ Pipe(n)'[Len(Pipe(n)) + 1] = log[x]
        /\ \A k \in DOMAIN Pipe(n) : Pipe(n)'[k] = Pipe(n)[k] /\ k < Len(Pipe(n)) + 1
    BY <1>1, <1>2, <1>5, RowTyped, SendFacts
  <2>2. \A k \in DOMAIN Pipe(n)' : \E i \in DOMAIN log' : Pipe(n)'[k] = log'[i]
    BY <1>1, <2>1 DEF PipeInvOf
  <2>3. ASSUME NEW b \in Agents, ~ Raced(b)', NEW k \in DOMAIN Pipe(n)', NEW i \in Rows(b),
               NEW j \in Rows(b), Pipe(n)'[k] = log[i], i < j
        PROVE  \/ post'[log[j].id] = "saved"
               \/ \E l \in DOMAIN Pipe(n)' : k < l /\ Pipe(n)'[l] = log[j]
    <3>1. i \in DOMAIN log /\ j \in DOMAIN log /\ log[i].agent = b /\ log[j].agent = b
      BY DEF Rows
    <3>2. CASE k \in DOMAIN Pipe(n)
      <4>1. \/ post[log[j].id] = "saved"
            \/ \E l \in DOMAIN Pipe(n) : k < l /\ Pipe(n)[l] = log[j]
        BY <1>3, <2>1, <2>3, <3>2 DEF PipeInvOf, Followed
      <4>. QED
        BY <1>4, <2>1, <3>1, <3>2, <4>1
    <3>3. CASE k = Len(Pipe(n)) + 1
      <4>1. i = x
        BY <2>1, <2>3, <3>1, <3>3, SameRow
      <4>2. post[log[j].id] # "lost" /\ post[log[j].id] # "answered"
        BY <1>1, <2>3, <3>1, <4>1, RowTyped DEF RowsInv
      <4>3. post[log[j].id] = "saved" /\ j # x
        BY <2>3, <3>1, <4>1, <4>2, RowTyped DEF RowsInv
      <4>. QED
        BY <1>4, <3>1, <4>3
    <3>. QED
      BY <2>1, <3>2, <3>3
  <2>4. \A b \in Agents : ~ Raced(b)' => Followed(n, b)'
    BY <1>1, <1>3, <2>3 DEF Followed
  <2>5. LinkCarries(n)'
    BY <1>2, <1>5 DEF LinkCarries, PipeInvOf, Registered
  <2>. QED
    BY <2>2, <2>4, <2>5 DEF PipeInvOf
<1>6. CASE ~ (n \in Registered /\ Len(chan[n]) < Cap)
  <2>1. Pipe(n)' = Pipe(n) /\ chan'[n] = chan[n]
    BY <1>1, <1>2, <1>6, RowTyped, SendFacts
  <2>2. n \in Registered => Raced(log[x].agent)'
    BY <1>1, <1>2, <1>6
  <2>3. log[x].agent \in Agents
    BY RowTyped
  <2>4. n \notin Registered =>
          (\A k \in DOMAIN Pipe(n) : \A b \in Agents : Pipe(n)[k].agent = b => Raced(b))
    <3>1. link[n] \in {"down", "opened", "registered", "left"}
      BY DEF BoardTyped, TypeOK
    <3>2. CASE link[n] \in {"down", "opened"}
      <4>1. Pipe(n) = <<>>
        BY <3>2, PipeTyped DEF PipeInvOf, LinkCarries
      <4>. QED
        BY <4>1
    <3>3. CASE link[n] = "left"
      BY <3>3 DEF PipeInvOf, LinkCarries, Carries
    <3>. QED
      BY <3>1, <3>2, <3>3 DEF Registered
  <2>5. ASSUME NEW b \in Agents, ~ Raced(b)', NEW k \in DOMAIN Pipe(n), NEW i \in Rows(b),
               NEW j \in Rows(b), Pipe(n)[k] = log[i], i < j
        PROVE  \/ post'[log[j].id] = "saved"
               \/ \E l \in DOMAIN Pipe(n) : k < l /\ Pipe(n)[l] = log[j]
    <3>1. i \in DOMAIN log /\ j \in DOMAIN log /\ log[i].agent = b /\ log[j].agent = b
      BY DEF Rows
    <3>2. n \in Registered
      BY <1>3, <2>4, <2>5, <3>1
    <3>3. j # x
      <4>1. Raced(log[x].agent)'
        BY <2>2, <3>2
      <4>2. j = x => log[x].agent = b
        BY <3>1
      <4>3. b = log[x].agent => Raced(b)'
        BY <1>1, <4>1 DEF Raced
      <4>. QED
        BY <2>5, <4>2, <4>3
    <3>4. Followed(n, b)
      BY <1>3, <2>5 DEF PipeInvOf
    <3>. QED
      BY <1>4, <2>5, <3>1, <3>3, <3>4 DEF Followed
  <2>6. \A b \in Agents : ~ Raced(b)' => Followed(n, b)'
    BY <1>1, <1>3, <2>1, <2>5 DEF Followed
  <2>7. LinkCarries(n)'
    BY <1>1, <1>2, <2>1, RacedStays DEF LinkCarries, PipeInvOf, Carries
  <2>8. \A k \in DOMAIN Pipe(n)' : \E i \in DOMAIN log' : Pipe(n)'[k] = log'[i]
    BY <1>1, <2>1 DEF PipeInvOf
  <2>. QED
    BY <2>6, <2>7, <2>8 DEF PipeInvOf
<1>. QED
  BY <1>5, <1>6

LEMMA PipeStepReceive ==
  ASSUME BoardTyped, NEW n \in Conns, PipeInvOf(n), Receive(n), races \subseteq races'
  PROVE  PipeInvOf(n)'
<1> USE DEF storeVars, linkVars, fetchVars, history
<1>1. /\ UNCHANGED <<log, post, link, chan>> /\ wire[n] # <<>>
      /\ \A b \in Agents : (~ Raced(b)' => ~ Raced(b)) /\ Rows(b)' = Rows(b)
  BY DEF Receive, Raced, Rows
<1>2. Pipe(n) # <<>> /\ Pipe(n)' = Tail(Pipe(n)) /\ Pipe(n) \in Seq(Log!Event)
  BY ReceiveFacts, PipeTyped
<1>3. \A k \in DOMAIN Pipe(n)' :
        k + 1 \in DOMAIN Pipe(n) /\ Pipe(n)'[k] = Pipe(n)[k + 1] /\ k \in Nat
  BY <1>2
<1>4. \A l \in DOMAIN Pipe(n) :
        l > 1 => l - 1 \in DOMAIN Pipe(n)' /\ Pipe(n)'[l - 1] = Pipe(n)[l] /\ l \in Nat
  BY <1>2
<1>5. \A k \in DOMAIN Pipe(n)' : \E i \in DOMAIN log' : Pipe(n)'[k] = log'[i]
  BY <1>1, <1>3 DEF PipeInvOf
<1>6. ASSUME NEW b \in Agents, ~ Raced(b)', NEW k \in DOMAIN Pipe(n)', NEW i \in Rows(b),
             NEW j \in Rows(b), Pipe(n)'[k] = log[i], i < j
      PROVE  \/ post[log[j].id] = "saved"
             \/ \E l \in DOMAIN Pipe(n)' : k < l /\ Pipe(n)'[l] = log[j]
  <2>1. CASE post[log[j].id] = "saved"
    BY <2>1
  <2>2. CASE \E l \in DOMAIN Pipe(n) : k + 1 < l /\ Pipe(n)[l] = log[j]
    <3>1. PICK l \in DOMAIN Pipe(n) : k + 1 < l /\ Pipe(n)[l] = log[j]
      BY <2>2
    <3>2. l - 1 \in DOMAIN Pipe(n)' /\ Pipe(n)'[l - 1] = log[j] /\ k < l - 1
      BY <1>2, <1>3, <1>4, <3>1
    <3>. QED
      BY <3>2
  <2>3. Followed(n, b)
    BY <1>1, <1>6 DEF PipeInvOf
  <2>. QED
    BY <1>3, <1>6, <2>1, <2>2, <2>3 DEF Followed
<1>7. \A b \in Agents : ~ Raced(b)' => Followed(n, b)'
  BY <1>1, <1>6 DEF Followed
<1>8. LinkCarries(n)'
  <2>1. link[n] \notin {"down", "opened"}
    BY <1>1 DEF PipeInvOf, LinkCarries
  <2>2. \A a \in Agents : Carries(n, a)' => Carries(n, a)
    BY <1>3 DEF Carries
  <2>. QED
    BY <1>1, <2>1, <2>2 DEF PipeInvOf, LinkCarries
<1>. QED
  BY <1>5, <1>7, <1>8 DEF PipeInvOf

LEMMA PipeStepBreak ==
  ASSUME BoardTyped, RowsInv, PipeInv, Restart \/ \E m \in Conns : Leave(m) \/ Disconnect(m),
         NEW n \in Conns
  PROVE  PipeInvOf(n)'
<1> USE DEF storeVars, linkVars, fetchVars, history
<1>1. /\ log' = log /\ races \subseteq races' /\ PipeInvOf(n)
      /\ \A b \in Agents : (~ Raced(b)' => ~ Raced(b)) /\ Rows(b)' = Rows(b)
  BY BreakFacts DEF PipeInv, Raced, Rows
<1>2. ASSUME \A k \in DOMAIN Pipe(n)' : \E j \in DOMAIN Pipe(n) : Pipe(n)'[k] = Pipe(n)[j],
             \A a \in Agents : Carries(n, a) => Raced(a)',
             chan'[n] = <<>>, link'[n] = "left" \/ (link'[n] = "down" /\ wire'[n] = <<>>)
      PROVE  PipeInvOf(n)'
  <2>1. \A a \in Agents : Carries(n, a)' => Raced(a)'
    BY <1>2 DEF Carries
  <2>2. LinkCarries(n)'
    BY <1>2, <2>1 DEF LinkCarries
  <2>3. \A k \in DOMAIN Pipe(n)' : \E i \in DOMAIN log' : Pipe(n)'[k] = log'[i]
    BY <1>1, <1>2 DEF PipeInvOf
  <2>4. ASSUME NEW b \in Agents, ~ Raced(b)' PROVE Followed(n, b)'
    <3>1. \A k \in DOMAIN Pipe(n)' : \A i \in Rows(b) : Pipe(n)'[k] # log[i]
      BY <1>1, <2>1, <2>4 DEF Carries, Rows
    <3>. QED
      BY <1>1, <3>1 DEF Followed
  <2>. QED
    BY <2>2, <2>3, <2>4 DEF PipeInvOf
<1>3. ASSUME link'[n] = link[n], chan'[n] = chan[n], wire'[n] = wire[n]
      PROVE  PipeInvOf(n)'
  <2>1. Pipe(n)' = Pipe(n)
    BY <1>3 DEF Pipe
  <2>2. LinkCarries(n)'
    BY <1>1, <1>3, <2>1, RacedStays DEF PipeInvOf, LinkCarries, Carries
  <2>3. CASE ~ Restart
    <3>1. post' = post
      BY <2>3 DEF Leave, Disconnect
    <3>. QED
      BY <1>1, <2>1, <2>2, <3>1, PipeFrame
  <2>4. CASE Restart
    <3>1. link'[n] = "down" \/ link'[n] = "left"
      BY <2>4 DEF Restart
    <3>2. \A a \in Agents : Carries(n, a) => Raced(a)'
      <4>1. CASE link[n] = "left"
        BY <1>1, <4>1, RacedStays DEF PipeInvOf, LinkCarries
      <4>2. CASE link[n] = "down"
        <5>1. Pipe(n) = <<>>
          BY <1>1, <4>2, PipeTyped DEF PipeInvOf, LinkCarries
        <5>. QED
          BY <5>1 DEF Carries
      <4>. QED
        BY <1>3, <3>1, <4>1, <4>2
    <3>3. chan'[n] = <<>> /\ (link'[n] = "down" => wire'[n] = <<>>)
      BY <1>1, <1>3, <2>4, <3>1 DEF PipeInvOf, LinkCarries
    <3>. QED
      BY <1>2, <2>1, <3>1, <3>2, <3>3
  <2>. QED
    BY <2>3, <2>4
<1>. QED
  BY <1>2, <1>3, BreakFacts

(* A connection about to open has not been opened before.                  *)
LEMMA NextIsDown ==
  ASSUME BoardTyped, LastInv, Open
  PROVE  link[conn'] = "down"
<1>1. conn' = conn + 1 /\ conn' \in Conns /\ conn \in Nat
  BY OpenFacts
<1>2. ~ (conn' <= conn)
  BY <1>1
<1>. QED
  BY <1>1, <1>2 DEF LastInv

LEMMA PipeStep ==
  ASSUME BoardTyped, RowsInv, LastInv, PipeInv, [Next]_vars
  PROVE  PipeInv'
<1> USE DEF storeVars, linkVars, fetchVars, history
<1> SUFFICES ASSUME NEW n \in Conns PROVE PipeInvOf(n)'
  BY DEF PipeInv
<1>1. /\ PipeInvOf(n) /\ LinkCarries(n)
      /\ link \in [Conns -> {"down", "opened", "registered", "left"}]
      /\ wire \in [Conns -> Seq(Log!Event)] /\ chan \in [Conns -> Seq(Log!Event)]
  BY DEF PipeInv, PipeInvOf, BoardTyped, TypeOK
<1>2. ASSUME log' = log, Pipe(n)' = Pipe(n), races \subseteq races', chan'[n] = chan[n],
             wire'[n] = wire[n], link'[n] = link[n] \/ link'[n] = "registered",
             \A i \in DOMAIN log : post[log[i].id] = "saved" => post'[log[i].id] = "saved"
      PROVE  PipeInvOf(n)'
  <2>1. LinkCarries(n)'
    BY <1>1, <1>2, RacedStays DEF LinkCarries, Carries
  <2>. QED
    BY <1>1, <1>2, <2>1, PipeFrame
<1>3. ASSUME NEW r \in Requests, Refuse(r) PROVE PipeInvOf(n)'
  <2>1. /\ UNCHANGED <<log, link, wire, chan, races>>
        /\ post[r] = "idle" /\ post' = [post EXCEPT ![r] = "refused"]
    BY <1>3 DEF Refuse
  <2>2. \A i \in DOMAIN log : post'[log[i].id] = post[log[i].id]
    BY <2>1, RowTyped DEF RowsInv
  <2>3. Pipe(n)' = Pipe(n)
    BY <2>1 DEF Pipe
  <2>. QED
    BY <1>2, <2>1, <2>2, <2>3
<1>4. CASE Open
  <2>1. /\ link' = [link EXCEPT ![conn'] = "opened"] /\ conn' \in Conns
        /\ UNCHANGED <<log, post, wire, chan>>
        /\ races' = races \/ \A m \in Conns : link[m] = "down"
    BY <1>4, OpenFacts
  <2>2. Pipe(n)' = Pipe(n)
    BY <2>1 DEF Pipe
  <2>3. (\A m \in Conns : link[m] = "down") => Pipe(n) = <<>>
    BY <1>1, PipeTyped DEF LinkCarries
  <2>4. LinkCarries(n)'
    <3>1. CASE \A m \in Conns : link[m] = "down"
      <4>1. wire'[n] = <<>> /\ chan'[n] = <<>> /\ link'[n] # "left"
        BY <1>1, <2>1, <3>1 DEF LinkCarries
      <4>. QED
        BY <4>1 DEF LinkCarries
    <3>2. CASE races' = races /\ n # conn'
      BY <1>1, <2>1, <2>2, <3>2, RacedStays DEF LinkCarries, Carries
    <3>3. CASE n = conn'
      <4>1. link[n] = "down"
        BY <1>4, <3>3, NextIsDown
      <4>2. wire'[n] = <<>> /\ chan'[n] = <<>> /\ link'[n] = "opened"
        BY <1>1, <2>1, <3>3, <4>1 DEF LinkCarries
      <4>. QED
        BY <4>2 DEF LinkCarries
    <3>. QED
      BY <2>1, <3>1, <3>2, <3>3
  <2>. QED
    BY <1>1, <2>1, <2>2, <2>3, <2>4, PipeFrame
<1>5. CASE Restart \/ \E m \in Conns : Leave(m) \/ Disconnect(m)
  BY <1>5, PipeStepBreak
<1>6. ASSUME NEW m \in Conns, HandleEvent(m) \/ HandleThrows(m) PROVE PipeInvOf(n)'
  <2>1. Receive(m) /\ races \subseteq races'
    BY <1>6 DEF HandleEvent, HandleThrows
  <2>2. CASE m = n
    BY <1>1, <2>1, <2>2, PipeStepReceive
  <2>3. CASE m # n
    <3>1. Pipe(n)' = Pipe(n)
      BY <2>1, <2>3, ReceiveFacts
    <3>2. UNCHANGED <<log, post, link, chan>> /\ wire' = [wire EXCEPT ![m] = Tail(@)]
      BY <2>1 DEF Receive
    <3>3. wire'[n] = wire[n]
      BY <1>1, <2>3, <3>2
    <3>. QED
      BY <1>2, <2>1, <3>1, <3>2, <3>3
  <2>. QED
    BY <2>2, <2>3
<1>7. ASSUME NEW m \in Conns, Write(m) PROVE PipeInvOf(n)'
  <2>1. UNCHANGED <<log, post, link, races>> /\ Pipe(n)' = Pipe(n)
    BY <1>7, WriteFacts DEF Write
  <2>2. CASE m = n
    <3>1. link[n] = "registered"
      BY <1>1, <1>7, <2>2, WriteFacts DEF LinkCarries
    <3>2. LinkCarries(n)'
      BY <2>1, <3>1 DEF LinkCarries
    <3>. QED
      BY <1>1, <2>1, <3>2, PipeFrame
  <2>3. CASE m # n
    <3>1. wire'[n] = wire[n] /\ chan'[n] = chan[n]
      BY <1>7, <2>3, WriteFacts
    <3>. QED
      BY <1>2, <2>1, <3>1
  <2>. QED
    BY <2>2, <2>3
<1>8. ASSUME NEW m \in Conns, Register(m) PROVE PipeInvOf(n)'
  <2>1. /\ UNCHANGED <<log, post, wire, chan, races>>
        /\ link' = [link EXCEPT ![m] = "registered"]
    BY <1>8 DEF Register
  <2>2. Pipe(n)' = Pipe(n) /\ (link'[n] = link[n] \/ link'[n] = "registered")
    BY <1>1, <2>1 DEF Pipe
  <2>. QED
    BY <1>2, <2>1, <2>2
<1>9. CASE UNCHANGED <<log, post, link, wire, chan>> /\ races \subseteq races'
  <2>1. Pipe(n)' = Pipe(n)
    BY <1>9 DEF Pipe
  <2>. QED
    BY <1>2, <1>9, <2>1
<1>10. ASSUME NEW m \in Conns, ReadAgents(m) \/ SetAgents(m) \/ FetchFails(m)
       PROVE  PipeInvOf(n)'
  BY <1>9, <1>10 DEF ReadAgents, SetAgents, FetchFails
<1>11. CASE UNCHANGED vars
  BY <1>9, <1>11 DEF vars
<1>12. ASSUME NEW r \in Requests, NEW a \in Agents, NEW s \in Statuses, Save(r, a, s)
       PROVE  PipeInvOf(n)'
  BY <1>1, <1>12, PipeStepSave
<1>13. ASSUME NEW r \in Requests, Broadcast(r) PROVE PipeInvOf(n)'
  BY <1>1, <1>13, PipeStepBroadcast
<1>. QED
  BY <1>3, <1>4, <1>5, <1>6, <1>7, <1>8, <1>10, <1>11, <1>12, <1>13 DEF Next

-----------------------------------------------------------------------------
(* News, and the cards. *)

(* What a row is due to do to the board it stays due to do.                *)
LEMMA PendingStays ==
  ASSUME NEW i, log'[i] = log[i], post'[log[i].id] = post[log[i].id],
         \A n \in Conns : \A k \in DOMAIN Pipe(n) : k \in DOMAIN Pipe(n)' /\ Pipe(n)'[k] = Pipe(n)[k],
         Pending(i)
  PROVE  Pending(i)'
BY DEF Pending, Queued

(* Of every row, what a broadcast leaves pending or races.                 *)
LEMMA PendingAfterBroadcast ==
  ASSUME BoardTyped, RowsInv, NEW r \in Requests, Broadcast(r), Alive, fetch[conn] # "asked",
         NEW a \in Agents, ~ Raced(a)', NEW i \in Rows(a), Pending(i)
  PROVE  Pending(i)'
<1>1. PICK x \in DOMAIN log :
         /\ log[x].id = r /\ post[r] = "saved"
         /\ SendToAll(log[x])
         /\ races \subseteq races' /\ log' = log
         /\ \A n \in Registered : Len(chan[n]) >= Cap => Raced(log[x].agent)'
         /\ Alive /\ Registered = {} /\ fetch[conn] # "asked" => Raced(log[x].agent)'
  BY BroadcastFacts
<1>2. /\ \A q \in Requests \ {r} : post'[q] = post[q]
      /\ wire' = wire
  BY DEF Broadcast, BoardTyped, TypeOK
<1>3. i \in DOMAIN log /\ log[i].agent = a /\ log[i].id \in Requests /\ i \in Nat
  BY RowTyped DEF Rows
<1>4. log[x] \in Log!Event
  BY RowTyped
<1>5. \A n \in Conns : \A k \in DOMAIN Pipe(n) : k \in DOMAIN Pipe(n)' /\ Pipe(n)'[k] = Pipe(n)[k]
  BY <1>1, <1>2, <1>4, SendFacts
<1>6. CASE i # x
  <2>1. log[i].id # r
    BY <1>1, <1>3, <1>6, SameRow
  <2>. QED
    BY <1>1, <1>2, <1>3, <1>5, <2>1, PendingStays
<1>7. CASE i = x
  <2>1. ~ Raced(log[x].agent)'
    BY <1>1, <1>3, <1>7 DEF Raced
  <2>2. PICK n \in Registered : Len(chan[n]) < Cap
    <3>1. PICK n \in Registered : ~ (Len(chan[n]) >= Cap)
      BY <1>1, <2>1
    <3>2. Len(chan[n]) \in Nat /\ Cap \in Nat
      BY BoardAssumption DEF BoardTyped, TypeOK, Registered
    <3>. QED
      BY <3>1, <3>2
  <2>3. n \in Conns
    BY DEF Registered
  <2>4. Len(Pipe(n)) + 1 \in DOMAIN Pipe(n)' /\ Pipe(n)'[Len(Pipe(n)) + 1] = log[x]
    BY <1>1, <1>2, <1>4, <2>2, <2>3, SendFacts
  <2>5. Queued(n, i)'
    BY <1>1, <1>7, <2>4 DEF Queued
  <2>. QED
    BY <2>3, <2>5 DEF Pending
<1>. QED
  BY <1>6, <1>7

(* The page takes the first frame of a pipe; every other row waits on.     *)
LEMMA PendingAfterReceive ==
  ASSUME BoardTyped, NEW n \in Conns, Receive(n), NEW i \in DOMAIN log, Pending(i)
  PROVE  Pending(i)' \/ log[i] = Head(wire[n])
<1>1. /\ log' = log /\ post' = post /\ Pipe(n) \in Seq(Log!Event)
      /\ Pipe(n) # <<>> /\ Head(wire[n]) = Head(Pipe(n)) /\ Pipe(n)' = Tail(Pipe(n))
      /\ \A m \in Conns : m # n => Pipe(m)' = Pipe(m)
  BY ReceiveFacts, PipeTyped DEF Receive, storeVars
<1>2. CASE post[log[i].id] = "saved"
  BY <1>1, <1>2 DEF Pending
<1>3. ASSUME NEW m \in Conns, Queued(m, i), m # n PROVE Pending(i)'
  <2>1. Queued(m, i)'
    BY <1>1, <1>3 DEF Queued
  <2>. QED
    BY <2>1 DEF Pending
<1>4. CASE Queued(n, i)
  <2>1. PICK k \in DOMAIN Pipe(n) : Pipe(n)[k] = log[i]
    BY <1>4 DEF Queued
  <2>2. k = 1 => log[i] = Head(wire[n])
    BY <1>1, <2>1
  <2>3. k # 1 => k - 1 \in DOMAIN Pipe(n)' /\ Pipe(n)'[k - 1] = log[i]
    BY <1>1, <2>1
  <2>4. k # 1 => Queued(n, i)'
    BY <1>1, <2>3 DEF Queued
  <2>. QED
    BY <2>2, <2>4 DEF Pending
<1>. QED
  BY <1>2, <1>3, <1>4 DEF Pending

(* When a connection breaks, what it carried is raced, and the rest stays. *)
LEMMA PendingAfterBreak ==
  ASSUME BoardTyped, PipeInv, NEW n \in Conns, Leave(n) \/ Disconnect(n),
         NEW a \in Agents, ~ Raced(a)', NEW i \in Rows(a), Pending(i)
  PROVE  Pending(i)'
<1>1. log' = log /\ post' = post /\ i \in DOMAIN log /\ log[i].agent = a
  BY DEF Leave, Disconnect, storeVars, Rows
<1>2. ASSUME NEW m \in Conns, Queued(m, i) PROVE Queued(m, i)'
  <2>1. Carries(m, a)
    BY <1>1, <1>2 DEF Queued, Carries
  <2>2. chan'[m] = chan[m] /\ wire'[m] = wire[m]
    BY <2>1, BreakFacts
  <2>3. Pipe(m)' = Pipe(m)
    BY <2>2 DEF Pipe
  <2>. QED
    BY <1>1, <1>2, <2>3 DEF Queued
<1>. QED
  BY <1>1, <1>2 DEF Pending

(* Nothing becomes of a row by the other steps.                            *)
LEMMA PendingElse ==
  ASSUME BoardTyped, RowsInv, log' = log, \A n \in Conns : Pipe(n)' = Pipe(n),
         post' = post \/ \E r \in Requests : Refuse(r), NEW i \in DOMAIN log
  PROVE  Pending(i)' <=> Pending(i)
<1>1. post'[log[i].id] = post[log[i].id]
  <2>1. ASSUME NEW r \in Requests, Refuse(r) PROVE post'[log[i].id] = post[log[i].id]
    <3>1. post[r] = "idle" /\ post' = [post EXCEPT ![r] = "refused"]
      BY <2>1 DEF Refuse
    <3>. QED
      BY <3>1, RowTyped DEF RowsInv
  <2>. QED
    BY <2>1
<1>2. \A n \in Conns : Queued(n, i)' <=> Queued(n, i)
  BY DEF Queued
<1>. QED
  BY <1>1, <1>2 DEF Pending

LEMMA NewsStep ==
  ASSUME BoardTyped, RowsInv, LastInv, PipeInv, NewsInv, [Next]_vars
  PROVE  NewsInv'
<1> USE DEF storeVars, linkVars, fetchVars, history
<1>1. SUFFICES ASSUME Alive', fetch'[conn'] \in {"read", "applied"},
                      NEW a \in Agents, ~ Raced(a)', NEW i \in Rows(a)',
                      i > snapLen'[conn']
               PROVE  Pending(i)' \/ log'[i].id \in handled'
  BY DEF NewsInv
<1>2. /\ Len(log) \in Nat
      /\ fetch \in [Conns -> {"none", "asked", "read", "applied", "failed"}]
      /\ snapLen \in [Conns -> Nat]
      /\ post \in [Requests -> {"idle", "saved", "answered", "refused", "lost"}]
  BY DEF BoardTyped, TypeOK, Log!TypeOK
<1>3. ~ Open /\ ~ Restart /\ Alive /\ conn' = conn /\ conn \in Conns
  <2>1. ~ Open
    BY <1>1, OpenFacts
  <2>. QED
    BY <1>1, <2>1, AliveStays, LastConn
<1>4. ~ Raced(a)
  BY <1>1, <1>3, RacesGrow, RacedStays
<1>5. ASSUME fetch[conn] \in {"read", "applied"}, i \in Rows(a), i > snapLen[conn]
      PROVE  Pending(i) \/ log[i].id \in handled
  BY <1>3, <1>4, <1>5 DEF NewsInv
<1>6. ASSUME NEW r \in Requests, NEW b \in Agents, NEW s \in Statuses, Save(r, b, s)
      PROVE  Pending(i)' \/ log'[i].id \in handled'
  <2>1. PICK k \in Nat \ {0} :
           /\ DOMAIN log = 1 .. k - 1 /\ DOMAIN log' = 1 .. k /\ log'[k].id = r
           /\ \A j \in DOMAIN log : log'[j] = log[j] /\ log[j].id # r
    BY <1>6, SaveFacts
  <2>2. /\ post' = [post EXCEPT ![r] = "saved"]
        /\ UNCHANGED <<conn, link, wire, chan, fetch, snapLen, handled>>
    BY <1>6 DEF Save
  <2>3. CASE i = k
    BY <1>2, <2>1, <2>2, <2>3 DEF Pending
  <2>4. CASE i # k
    <3>1. i \in DOMAIN log /\ i \in Rows(a) /\ log'[i] = log[i]
      BY <1>1, <2>1, <2>4 DEF Rows
    <3>2. post'[log[i].id] = post[log[i].id] /\ \A n \in Conns : Pipe(n)' = Pipe(n)
      BY <1>2, <2>1, <2>2, <3>1 DEF Pipe
    <3>3. Pending(i) => Pending(i)'
      BY <3>1, <3>2, PendingStays
    <3>. QED
      BY <1>1, <1>5, <2>2, <3>1, <3>3
  <2>. QED
    BY <2>3, <2>4
<1>7. ASSUME NEW r \in Requests, Broadcast(r)
      PROVE  Pending(i)' \/ log'[i].id \in handled'
  <2>1. UNCHANGED <<log, conn, link, fetch, snapLen, handled>>
    BY <1>7 DEF Broadcast
  <2>2. i \in Rows(a) /\ i > snapLen[conn] /\ fetch[conn] \in {"read", "applied"}
    BY <1>1, <2>1 DEF Rows
  <2>. QED
    BY <1>1, <1>3, <1>5, <1>7, <2>1, <2>2, PendingAfterBroadcast
<1>8. ASSUME NEW n \in Conns, HandleEvent(n) \/ HandleThrows(n)
      PROVE  Pending(i)' \/ log'[i].id \in handled'
  <2>1. /\ Receive(n) /\ UNCHANGED <<log, fetch, snapLen>>
        /\ \/ handled' = handled \cup {Head(wire[n]).id}
           \/ handled' = handled /\ races' = races \cup {<<Head(wire[n]).agent, "thrown">>}
    BY <1>8 DEF HandleEvent, HandleThrows, Receive
  <2>2. i \in Rows(a) /\ i \in DOMAIN log /\ log[i].agent = a
    BY <1>1, <2>1 DEF Rows
  <2>3. CASE log[i] = Head(wire[n])
    <3>1. ~ (races' = races \cup {<<Head(wire[n]).agent, "thrown">>})
      BY <1>1, <2>2, <2>3 DEF Raced, Causes
    <3>. QED
      BY <2>1, <2>3, <3>1
  <2>4. CASE log[i] # Head(wire[n])
    BY <1>1, <1>3, <1>5, <2>1, <2>2, <2>4, PendingAfterReceive
  <2>. QED
    BY <2>3, <2>4
<1>9. ASSUME NEW n \in Conns, ReadAgents(n), n = conn
      PROVE  Pending(i)' \/ log'[i].id \in handled'
  <2>1. snapLen'[conn'] = Len(log) /\ log' = log
    BY <1>2, <1>3, <1>9 DEF ReadAgents
  <2>2. i <= Len(log)
    BY <1>1, <2>1, RowTyped DEF Rows
  <2>. QED
    BY <1>1, <1>2, <2>1, <2>2, RowTyped DEF Rows
<1>10. ASSUME UNCHANGED <<log, handled>>, \A n \in Conns : Pipe(n)' = Pipe(n),
              post' = post \/ \E r \in Requests : Refuse(r),
              fetch[conn] \in {"read", "applied"}, snapLen'[conn] = snapLen[conn]
       PROVE  Pending(i)' \/ log'[i].id \in handled'
  <2>1. i \in Rows(a) /\ i \in DOMAIN log
    BY <1>1, <1>10 DEF Rows
  <2>2. Pending(i)' <=> Pending(i)
    BY <1>10, <2>1, PendingElse
  <2>. QED
    BY <1>1, <1>3, <1>5, <1>10, <2>1, <2>2
<1>11. ASSUME NEW n \in Conns, ReadAgents(n), n # conn
       PROVE  Pending(i)' \/ log'[i].id \in handled'
  <2>1. /\ fetch'[conn] = fetch[conn] /\ snapLen'[conn] = snapLen[conn]
        /\ UNCHANGED <<log, handled, post, wire, chan>>
    BY <1>2, <1>3, <1>11 DEF ReadAgents
  <2>2. \A m \in Conns : Pipe(m)' = Pipe(m)
    BY <2>1 DEF Pipe
  <2>. QED
    BY <1>1, <1>3, <1>10, <2>1, <2>2
<1>12. ASSUME NEW n \in Conns, SetAgents(n) \/ FetchFails(n)
       PROVE  Pending(i)' \/ log'[i].id \in handled'
  <2>1. /\ UNCHANGED <<log, handled, wire, chan, post, snapLen>>
        /\ \/ fetch[n] = "read" /\ fetch' = [fetch EXCEPT ![n] = "applied"]
           \/ fetch' = [fetch EXCEPT ![n] = "failed"]
    BY <1>12 DEF SetAgents, FetchFails
  <2>2. fetch[conn] \in {"read", "applied"}
    BY <1>1, <1>2, <1>3, <2>1
  <2>3. \A m \in Conns : Pipe(m)' = Pipe(m)
    BY <2>1 DEF Pipe
  <2>. QED
    BY <1>1, <1>10, <2>1, <2>2, <2>3
<1>13. CASE (\E n \in Conns : Register(n)) \/ (\E r \in Requests : Refuse(r)) \/ UNCHANGED vars
  <2>1. UNCHANGED <<log, handled, wire, chan, fetch, snapLen>>
    BY <1>13 DEF Register, Refuse, vars
  <2>2. post' = post \/ \E r \in Requests : Refuse(r)
    BY <1>13 DEF Register, vars
  <2>3. \A m \in Conns : Pipe(m)' = Pipe(m)
    BY <2>1 DEF Pipe
  <2>. QED
    BY <1>1, <1>3, <1>10, <2>1, <2>2, <2>3
<1>14. ASSUME NEW n \in Conns, Write(n)
       PROVE  Pending(i)' \/ log'[i].id \in handled'
  <2>1. UNCHANGED <<log, post, fetch, snapLen, handled>>
    BY <1>14 DEF Write
  <2>2. \A m \in Conns : Pipe(m)' = Pipe(m)
    BY <1>14, WriteFacts
  <2>. QED
    BY <1>1, <1>3, <1>10, <2>1, <2>2
<1>15. ASSUME NEW n \in Conns, Leave(n) \/ Disconnect(n)
       PROVE  Pending(i)' \/ log'[i].id \in handled'
  <2>1. UNCHANGED <<log, fetch, snapLen, handled>>
    BY <1>15 DEF Leave, Disconnect
  <2>2. i \in Rows(a)
    BY <1>1, <2>1 DEF Rows
  <2>. QED
    BY <1>1, <1>3, <1>5, <1>15, <2>1, <2>2, PendingAfterBreak
<1>. QED
  BY <1>3, <1>6, <1>7, <1>8, <1>9, <1>11, <1>12, <1>13, <1>14, <1>15 DEF Next

LEMMA CardStep ==
  ASSUME BoardTyped, RowsInv, ReadInv, LastInv, PipeInv, NewsInv, CardInv, [Next]_vars
  PROVE  CardInv'
<1> USE DEF storeVars, linkVars, fetchVars, history
<1> DEFINE Due(a) == \E i \in Rows(a) : Log!IsLatest(i, a) /\ Pending(i)
<1>1. SUFFICES ASSUME Alive', fetch'[conn'] = "applied", NEW a \in Agents, ~ Raced(a)'
               PROVE  board'[a] = agentState'[a] \/ Due(a)'
  BY DEF CardInv
<1>2. /\ fetch \in [Conns -> {"none", "asked", "read", "applied", "failed"}]
      /\ snapLen \in [Conns -> Nat]
      /\ post \in [Requests -> {"idle", "saved", "answered", "refused", "lost"}]
      /\ board \in [Agents -> Statuses \cup {NoRow}]
      /\ agentState \in [Agents -> Statuses \cup {NoRow}]
      /\ snap \in [Conns -> [Agents -> Statuses \cup {NoRow}]]
  BY DEF BoardTyped, TypeOK, Log!TypeOK
<1>3. ~ Open /\ ~ Restart /\ Alive /\ conn' = conn /\ conn \in Conns
  <2>1. ~ Open
    BY <1>1, OpenFacts
  <2>. QED
    BY <1>1, <2>1, AliveStays, LastConn
<1>4. ~ Raced(a)
  BY <1>1, <1>3, RacesGrow, RacedStays
<1>5. ASSUME fetch[conn] = "applied" PROVE board[a] = agentState[a] \/ Due(a)
  BY <1>3, <1>4, <1>5 DEF CardInv
<1>6. ASSUME NEW r \in Requests, NEW b \in Agents, NEW s \in Statuses, Save(r, b, s)
      PROVE  board'[a] = agentState'[a] \/ Due(a)'
  <2>1. PICK k \in Nat \ {0} :
           /\ k = Len(log) + 1
           /\ DOMAIN log = 1 .. k - 1 /\ DOMAIN log' = 1 .. k
           /\ log'[k].id = r /\ log'[k].agent = b
           /\ \A j \in DOMAIN log : log'[j] = log[j] /\ log[j].id # r
    BY <1>6, SaveFacts
  <2>2. /\ post' = [post EXCEPT ![r] = "saved"] /\ agentState' = [agentState EXCEPT ![b] = s]
        /\ UNCHANGED <<conn, link, wire, chan, fetch, snapLen, board>>
    BY <1>6 DEF Save, Log!Record
  <2>3. CASE a = b
    <3>1. k \in Rows(a)' /\ Log!IsLatest(k, a)'
      BY <2>1, <2>3 DEF Rows, Log!IsLatest
    <3>2. Pending(k)'
      BY <1>2, <2>1, <2>2 DEF Pending
    <3>. QED
      BY <3>1, <3>2
  <2>4. CASE a # b
    <3>1. /\ Rows(a)' = Rows(a) /\ agentState'[a] = agentState[a]
          /\ \A n \in Conns : Pipe(n)' = Pipe(n)
      BY <1>2, <2>1, <2>2, <2>4 DEF Rows, Pipe
    <3>2. ASSUME NEW i \in Rows(a), Log!IsLatest(i, a), Pending(i)
          PROVE  Log!IsLatest(i, a)' /\ Pending(i)'
      <4>1. log'[i] = log[i] /\ log[i].id # r /\ i \in DOMAIN log
        BY <2>1 DEF Rows
      <4>2. post'[log[i].id] = post[log[i].id]
        BY <1>2, <2>2, <4>1, RowTyped
      <4>3. Log!IsLatest(i, a)'
        BY <2>1, <2>4, <3>2, <4>1 DEF Log!IsLatest
      <4>. QED
        BY <3>1, <3>2, <4>1, <4>2, <4>3, PendingStays
    <3>. QED
      BY <1>1, <1>3, <1>5, <2>2, <3>1, <3>2
  <2>. QED
    BY <2>3, <2>4
<1>7. ASSUME UNCHANGED <<log, agentState, fetch, board>>,
             \A i \in Rows(a) : Pending(i) => Pending(i)'
      PROVE  board'[a] = agentState'[a] \/ Due(a)'
  <2>1. Rows(a)' = Rows(a) /\ \A i \in Rows(a) : Log!IsLatest(i, a)' <=> Log!IsLatest(i, a)
    BY <1>7 DEF Rows, Log!IsLatest
  <2>. QED
    BY <1>1, <1>3, <1>5, <1>7, <2>1
<1>8. ASSUME NEW r \in Requests, Broadcast(r)
      PROVE  board'[a] = agentState'[a] \/ Due(a)'
  <2>1. UNCHANGED <<log, agentState, fetch, board>>
    BY <1>8 DEF Broadcast
  <2>2. \A i \in Rows(a) : Pending(i) => Pending(i)'
    BY <1>1, <1>3, <1>8, <2>1, PendingAfterBroadcast
  <2>. QED
    BY <1>7, <2>1, <2>2
<1>9. ASSUME NEW n \in Conns, Leave(n) \/ Disconnect(n)
      PROVE  board'[a] = agentState'[a] \/ Due(a)'
  <2>1. UNCHANGED <<log, agentState, fetch, board>>
    BY <1>9 DEF Leave, Disconnect
  <2>2. \A i \in Rows(a) : Pending(i) => Pending(i)'
    BY <1>1, <1>9, PendingAfterBreak
  <2>. QED
    BY <1>7, <2>1, <2>2
<1>10. ASSUME NEW n \in Conns, HandleEvent(n) \/ HandleThrows(n)
       PROVE  board'[a] = agentState'[a] \/ Due(a)'
  <2>1. /\ Receive(n) /\ UNCHANGED <<log, agentState, fetch, snapLen, post>>
        /\ \/ board' = [board EXCEPT ![Head(wire[n]).agent] = Head(wire[n]).body]
           \/ /\ board' = board
              /\ races' = races \cup {<<Head(wire[n]).agent, "thrown">>}
    BY <1>10 DEF HandleEvent, HandleThrows, Receive
  <2>2. Rows(a)' = Rows(a) /\ \A i \in Rows(a) : Log!IsLatest(i, a)' <=> Log!IsLatest(i, a)
    BY <2>1 DEF Rows, Log!IsLatest
  <2>3. /\ 1 \in DOMAIN Pipe(n) /\ Pipe(n)[1] = Head(wire[n])
        /\ PipeInvOf(n) /\ \A m \in Conns : m # n => Pipe(m)' = Pipe(m)
    BY <2>1, ReceiveFacts DEF PipeInv
  <2>4. PICK x \in DOMAIN log : log[x] = Head(wire[n])
    BY <2>3 DEF PipeInvOf
  <2>5. CASE a # Head(wire[n]).agent
    <3>1. board'[a] = board[a]
      BY <1>2, <2>1, <2>5
    <3>2. ASSUME NEW i \in Rows(a), Pending(i) PROVE Pending(i)'
      BY <2>1, <2>5, <3>2, PendingAfterReceive DEF Rows
    <3>. QED
      BY <1>1, <1>3, <1>5, <2>1, <2>2, <3>1, <3>2
  <2>6. CASE a = Head(wire[n]).agent
    <3>1. ~ (races' = races \cup {<<Head(wire[n]).agent, "thrown">>})
      BY <1>1, <2>6 DEF Raced, Causes
    <3>2. x \in Rows(a) /\ board'[a] = log[x].body
      BY <1>2, <2>1, <2>4, <2>6, <3>1 DEF Rows
    <3>3. PICK i \in Rows(a) : Log!IsLatest(i, a) /\ agentState[a] = log[i].body
      BY <3>2, LatestRow
    <3>4. CASE i = x
      BY <2>1, <3>2, <3>3, <3>4
    <3>5. CASE i # x
      <4>1. x < i
        BY <3>2, <3>3, <3>5, RowTyped DEF Log!IsLatest, Rows
      <4>2. \/ post[log[i].id] = "saved"
            \/ \E l \in DOMAIN Pipe(n) : 1 < l /\ Pipe(n)[l] = log[i]
        BY <1>4, <2>3, <2>4, <3>2, <4>1 DEF PipeInvOf, Followed
      <4>3. Pending(i)
        BY <4>2 DEF Pending, Queued
      <4>4. log[i] # Head(wire[n])
        BY <2>4, <3>3, <3>5, SameRow DEF Rows
      <4>5. Pending(i)'
        BY <2>1, <4>3, <4>4, PendingAfterReceive DEF Rows
      <4>. QED
        BY <2>1, <2>2, <3>3, <4>5
    <3>. QED
      BY <3>4, <3>5
  <2>. QED
    BY <2>5, <2>6
<1>11. ASSUME NEW n \in Conns, SetAgents(n)
       PROVE  board'[a] = agentState'[a] \/ Due(a)'
  <2>1. /\ fetch[n] = "read" /\ fetch' = [fetch EXCEPT ![n] = "applied"]
        /\ board' = snap[n]
        /\ UNCHANGED <<log, agentState, conn, link, wire, chan, snapLen, post>>
    BY <1>11 DEF SetAgents
  <2>2. /\ Rows(a)' = Rows(a) /\ \A i \in Rows(a) : Log!IsLatest(i, a)' <=> Log!IsLatest(i, a)
        /\ \A i \in Rows(a) : Pending(i)' <=> Pending(i)
    BY <2>1 DEF Rows, Log!IsLatest, Pending, Queued, Pipe
  <2>3. fetch[conn] \in {"read", "applied"}
    BY <1>1, <1>2, <1>3, <2>1
  <2>4. ~ Outdated(n, a)
    <3>1. races' = races \cup {<<x, "outdated">> : x \in {y \in Agents : Outdated(n, y)}}
      BY <1>11 DEF SetAgents
    <3>2. Outdated(n, a) => <<a, "outdated">> \in races'
      BY <3>1
    <3>. QED
      BY <1>1, <3>2 DEF Raced, Causes
  <2>5. RowAsOf(snapLen[n], a, snap[n][a]) /\ snapLen[n] \in Nat /\ snapLen[conn] \in Nat
    BY <1>2, <1>3, <2>1 DEF ReadInv
  <2>6. (\A i \in Rows(a) : Log!IsLatest(i, a) => i <= snapLen[n]) => board'[a] = agentState[a]
    BY <2>1, <2>5, RowAsOfAll
  <2>7. ASSUME NEW i \in Rows(a), Log!IsLatest(i, a), ~ (i <= snapLen[n]) PROVE Pending(i)
    <3>1. i \in Nat /\ i > snapLen[n]
      BY <2>5, <2>7, RowTyped DEF Rows
    <3>2. i > snapLen[conn]
      <4>1. CASE conn = n
        BY <3>1, <4>1
      <4>2. CASE conn # n
        <5>1. fetch[conn] = "applied"
          BY <1>1, <1>2, <1>3, <2>1, <4>2
        <5>2. ~ (snapLen[n] < i /\ i <= snapLen[conn])
          BY <1>3, <2>4, <5>1 DEF Outdated
        <5>. QED
          BY <2>5, <3>1, <5>2
      <4>. QED
        BY <4>1, <4>2
    <3>3. log[i].id \notin handled
      BY <2>4, <3>1 DEF Outdated
    <3>. QED
      BY <1>3, <1>4, <2>3, <3>2, <3>3 DEF NewsInv
  <2>. QED
    BY <2>1, <2>2, <2>6, <2>7
<1>12. ASSUME UNCHANGED <<log, agentState, board>>, \A n \in Conns : Pipe(n)' = Pipe(n),
              post' = post \/ \E r \in Requests : Refuse(r), fetch[conn] = "applied"
       PROVE  board'[a] = agentState'[a] \/ Due(a)'
  <2>1. /\ Rows(a)' = Rows(a) /\ \A i \in Rows(a) : Log!IsLatest(i, a)' <=> Log!IsLatest(i, a)
        /\ \A i \in Rows(a) : i \in DOMAIN log
    BY <1>12 DEF Rows, Log!IsLatest
  <2>2. \A i \in Rows(a) : Pending(i)' <=> Pending(i)
    BY <1>12, <2>1, PendingElse
  <2>. QED
    BY <1>5, <1>12, <2>1, <2>2
<1>13. ASSUME NEW n \in Conns, ReadAgents(n) \/ FetchFails(n)
       PROVE  board'[a] = agentState'[a] \/ Due(a)'
  <2>1. /\ UNCHANGED <<log, agentState, wire, chan, post, board>>
        /\ \/ fetch' = [fetch EXCEPT ![n] = "read"]
           \/ fetch' = [fetch EXCEPT ![n] = "failed"]
    BY <1>13 DEF ReadAgents, FetchFails
  <2>2. \A m \in Conns : Pipe(m)' = Pipe(m)
    BY <2>1 DEF Pipe
  <2>3. fetch[conn] = "applied"
    BY <1>1, <1>2, <1>3, <2>1
  <2>. QED
    BY <1>12, <2>1, <2>2, <2>3
<1>14. CASE (\E n \in Conns : Register(n)) \/ (\E r \in Requests : Refuse(r)) \/ UNCHANGED vars
  <2>1. UNCHANGED <<log, agentState, board, wire, chan, fetch>>
    BY <1>14 DEF Register, Refuse, vars
  <2>2. post' = post \/ \E r \in Requests : Refuse(r)
    BY <1>14 DEF Register, vars
  <2>3. \A m \in Conns : Pipe(m)' = Pipe(m)
    BY <2>1 DEF Pipe
  <2>. QED
    BY <1>1, <1>3, <1>12, <2>1, <2>2, <2>3
<1>15. ASSUME NEW n \in Conns, Write(n)
       PROVE  board'[a] = agentState'[a] \/ Due(a)'
  <2>1. UNCHANGED <<log, agentState, post, fetch, board>>
    BY <1>15 DEF Write
  <2>2. \A m \in Conns : Pipe(m)' = Pipe(m)
    BY <1>15, WriteFacts
  <2>. QED
    BY <1>1, <1>3, <1>12, <2>1, <2>2
<1>. QED
  BY <1>3, <1>6, <1>8, <1>9, <1>10, <1>11, <1>13, <1>14, <1>15 DEF Next

-----------------------------------------------------------------------------

RaceInv == RowsInv /\ ReadInv /\ LastInv /\ PipeInv /\ NewsInv /\ CardInv

(* A page at rest shows every agent's current status, unless one of the    *)
(* seven causes befell the agent: through any number of requests, restarts *)
(* and connections, one at a time or several, and of overlapping fetches,  *)
(* nothing else leaves a board wrong.                                      *)
THEOREM BoardAtRestRight == Spec => []BoardRightUnlessRaced
<1>1. Init => RaceInv
  <2> SUFFICES ASSUME Init PROVE RaceInv
    OBVIOUS
  <2>1. RowsInv
    BY DEF Init, Log!Init, RowsInv, Log!UniqueIds, Log!RowIsLatest
  <2>2. \A n \in Conns : link[n] = "down" /\ chan[n] = <<>> /\ wire[n] = <<>>
    BY DEF Init
  <2>3. ReadInv
    BY DEF Init, Log!Init, ReadInv
  <2>4. ~ Alive
    BY <2>2 DEF Alive
  <2>5. NewsInv /\ CardInv
    BY <2>4 DEF NewsInv, CardInv
  <2>6. LastInv
    <3>1. \A n \in Conns : link[n] # "down" => n <= conn
      BY <2>2
    <3>2. Alive /\ fetch[conn] \notin {"asked", "read", "applied"} => \A a \in Agents : Raced(a)
      BY <2>4
    <3>. QED
      BY <3>1, <3>2 DEF LastInv
  <2>7. ASSUME NEW n \in Conns PROVE DOMAIN Pipe(n) = {} /\ LinkCarries(n)
    <3>1. link[n] = "down" /\ chan[n] = <<>> /\ wire[n] = <<>>
      BY <2>2
    <3>2. <<>> \o <<>> = <<>> /\ DOMAIN <<>> = {}
      OBVIOUS
    <3>3. DOMAIN Pipe(n) = {}
      BY <3>1, <3>2 DEF Pipe
    <3>4. LinkCarries(n)
      BY <3>1 DEF LinkCarries
    <3>. QED
      BY <3>3, <3>4
  <2>8. PipeInv
    BY <2>7 DEF PipeInv, PipeInvOf, Followed
  <2>. QED
    BY <2>1, <2>3, <2>5, <2>6, <2>8 DEF RaceInv
<1>2. BoardTyped /\ RaceInv /\ [Next]_vars => RaceInv'
  BY RowsStep, ReadStep, LastStep, PipeStep, NewsStep, CardStep DEF RaceInv
<1>3. BoardTyped /\ RaceInv => BoardRightUnlessRaced
  <2> SUFFICES ASSUME BoardTyped, RaceInv, AtRest, NEW a \in Agents, ~ Raced(a)
               PROVE  board[a] = agentState[a]
    BY DEF BoardRightUnlessRaced
  <2>1. /\ Alive /\ conn \in Conns /\ fetch[conn] \notin {"asked", "read"}
        /\ \A r \in Requests : post[r] # "saved"
        /\ \A n \in Conns : Pipe(n) = <<>>
    BY LastConn, PipeTyped DEF AtRest, RaceInv
  <2>2. fetch[conn] = "applied"
    BY <2>1 DEF RaceInv, LastInv
  <2>3. \A n \in Conns : DOMAIN Pipe(n) = {}
    BY <2>1
  <2>4. \A i \in Rows(a) : ~ Pending(i)
    BY <2>1, <2>3, RowTyped DEF Pending, Queued, Rows
  <2>. QED
    BY <2>1, <2>2, <2>4 DEF RaceInv, CardInv
<1>. QED
  BY <1>1, <1>2, <1>3, BoardTypedAlways, PTL DEF Spec

=============================================================================
