------------------------------ MODULE LiveBoard ------------------------------
(***************************************************************************)
(* One dashboard page against the server: requests that post events        *)
(* (handlers.go), the store as EventLog, the page's /ws connections        *)
(* (server.go, hub.go) and the page itself (useWebSocket.ts, agents.ts).   *)
(*                                                                         *)
(* A page learns of an agent in two ways that race each other: frames of   *)
(* a live connection, and the GET /api/v1/agents it issues whenever a      *)
(* connection opens, whose answer replaces the whole board. A page opens   *)
(* its next connection when the last has closed, but while an old effect's *)
(* close event revives a chain (Reconnect) it has several at a time. They  *)
(* are numbered in the order they open.                                    *)
(*                                                                         *)
(* Broadcast reaches the page's channels in one step: the lock keeps their *)
(* set fixed meanwhile, and each is read by a writer of its own. A request *)
(* stands for the id of the event it posts.                                *)
(***************************************************************************)
EXTENDS Naturals, Sequences

CONSTANTS
  Requests,   (* POST /api/v1/events                                       *)
  Questions,  (* those that post a question.asked                          *)
  Agents,
  Statuses,   (* the statuses events are posted with                       *)
  NoRow,      (* no agent_state row, no card                               *)
  Cap,        (* capacity of a connection's channel (256 in the code)      *)
  MaxConns    (* bound: connections the page opens                         *)

(* The statuses Validate accepts. *)
validStatuses == {"queued", "active", "waiting", "done", "error"}

ASSUME BoardAssumption ==
  /\ Questions \subseteq Requests
  /\ Statuses \subseteq validStatuses
  /\ NoRow \notin Statuses
  /\ Cap \in Nat \ {0} /\ MaxConns \in Nat

Conns == 1 .. MaxConns

VARIABLES
  log, agentState,  (* the store                                           *)
  post,       (* idle, saved, answered (201), refused (400, 500) or lost   *)
  conn,       (* how many connections the page has opened                  *)
  link,       (* of each: down, opened, registered in the hub, or left by  *)
              (* the server while the page may still receive from it       *)
  chan, wire, (* its channel, and the frames on their way to the page      *)
  fetch,      (* its fetch: none, asked, read, applied or failed           *)
  snap,       (* the rows each fetch read                                  *)
  snapLen,    (* and the length of the log at that moment                  *)
  board,      (* the status on each card of the page                       *)
  handled,    (* history: requests whose frame the page has handled        *)
  sentOut,    (* history: requests whose Broadcast has run                 *)
  races       (* history: pairs of an agent and what went wrong for it     *)

storeVars == <<log, agentState>>
linkVars == <<conn, link, chan, wire>>
fetchVars == <<fetch, snap, snapLen>>
history == <<handled, sentOut, races>>
vars == <<storeVars, post, linkVars, fetchVars, board, history>>

Log == INSTANCE EventLog WITH Ids <- Requests, Bodies <- Statuses

Init ==
  /\ Log!Init
  /\ post = [r \in Requests |-> "idle"]
  /\ conn = 0 /\ link = [n \in Conns |-> "down"]
  /\ chan = [n \in Conns |-> <<>>] /\ wire = [n \in Conns |-> <<>>]
  /\ fetch = [n \in Conns |-> "none"]
  /\ snap = [n \in Conns |-> [a \in Agents |-> NoRow]]
  /\ snapLen = [n \in Conns |-> 0]
  /\ board = [a \in Agents |-> NoRow]
  /\ handled = {} /\ sentOut = {} /\ races = {}

(* The positions of the log at which an event of agent a is. *)
Rows(a) == {i \in DOMAIN log : log[i].agent = a}

Position(r) == CHOOSE i \in DOMAIN log : log[i].id = r

(* The server takes some connection of the page for open. *)
Registered == {n \in Conns : link[n] = "registered"}
Alive == \E n \in Conns : link[n] \in {"opened", "registered"}

-----------------------------------------------------------------------------
(* handlePostEvent. *)

(* 400: the body does not decode or validate; 500: SaveEvent failed. *)
Refuse(r) ==
  /\ post[r] = "idle"
  /\ post' = [post EXCEPT ![r] = "refused"]
  /\ UNCHANGED <<storeVars, linkVars, fetchVars, board, history>>

Save(r, a, s) ==
  /\ post[r] = "idle"
  /\ Log!Record([id |-> r, agent |-> a, body |-> s])
  /\ post' = [post EXCEPT ![r] = "saved"]
  /\ UNCHANGED <<linkVars, fetchVars, board, history>>

(* What a Broadcast of the event at position i can spoil for its agent. *)
BroadcastRaces(i) ==
  {k \in {"overtaken", "dropped", "unheard"} :
     CASE k = "overtaken" -> \E j \in Rows(log[i].agent) : j > i /\ log[j].id \in sentOut
       [] k = "dropped"   -> \E n \in Registered : Len(chan[n]) >= Cap
       [] k = "unheard"   -> Alive /\ Registered = {} /\ fetch[conn] # "asked"}

(* Each channel of the page takes e unless it is full. *)
SendToAll(e) ==
  chan' = [n \in Conns |-> IF n \in Registered /\ Len(chan[n]) < Cap
                             THEN Append(chan[n], e) ELSE chan[n]]

(* Faulty variant: the event is broadcast before it is saved. *)
BroadcastUnsaved(r) ==
  /\ post[r] = "idle"
  /\ \E a \in Agents, s \in Statuses : SendToAll([id |-> r, agent |-> a, body |-> s])
  /\ UNCHANGED <<storeVars, post, conn, link, wire, fetchVars, board, history>>

(* Faulty variant: a full channel takes the message all the same. *)
BroadcastUnbounded(r) ==
  /\ post[r] = "saved"
  /\ chan' = [n \in Conns |-> IF n \in Registered THEN Append(chan[n], log[Position(r)])
                                                  ELSE chan[n]]
  /\ sentOut' = sentOut \cup {r}
  /\ post' = [post EXCEPT ![r] = "answered"]
  /\ UNCHANGED <<storeVars, conn, link, wire, fetchVars, board, handled, races>>

(* Broadcast, and the 201. *)
Broadcast(r) ==
  /\ post[r] = "saved"
  /\ LET i == Position(r)
     IN  /\ SendToAll(log[i])
         /\ races' = races \cup {<<log[i].agent, k>> : k \in BroadcastRaces(i)}
  /\ sentOut' = sentOut \cup {r}
  /\ post' = [post EXCEPT ![r] = "answered"]
  /\ UNCHANGED <<storeVars, conn, link, wire, fetchVars, board, handled>>

-----------------------------------------------------------------------------
(* The connections. *)

OpenWith(how) ==
  /\ conn < MaxConns
  /\ conn' = conn + 1
  /\ link' = [link EXCEPT ![conn + 1] = "opened"]
  /\ fetch' = [fetch EXCEPT ![conn + 1] = how]
  /\ races' = IF \A n \in Conns : link[n] = "down" THEN {} ELSE races
  /\ UNCHANGED <<storeVars, post, chan, wire, snap, snapLen, board, handled, sentOut>>

(* Faulty variant: only the first connection fetches the agents. *)
OpenFetchingOnce == OpenWith(IF conn = 0 THEN "asked" ELSE "applied")

(* The upgrade completes: onopen sends GET /api/v1/agents, while the       *)
(* handler has yet to register its channel.                                *)
Open == OpenWith("asked")

Register(n) ==
  /\ link[n] = "opened"
  /\ link' = [link EXCEPT ![n] = "registered"]
  /\ UNCHANGED <<storeVars, post, conn, chan, wire, fetchVars, board, history>>

(* The writer goroutine writes the next message to the socket. *)
Write(n) ==
  /\ chan[n] # <<>>
  /\ wire' = [wire EXCEPT ![n] = Append(@, Head(chan[n]))]
  /\ chan' = [chan EXCEPT ![n] = Tail(@)]
  /\ UNCHANGED <<storeVars, post, conn, link, fetchVars, board, history>>

(* Agents of which connection n has an event queued or under way. *)
Underway(n) ==
  {a \in Agents : \E q \in {chan[n], wire[n]} : \E i \in DOMAIN q : q[i].agent = a}

(* The server's end breaks first, and the handler returns: what is queued  *)
(* is lost, what is under way may still arrive.                            *)
Leave(n) ==
  /\ link[n] \in {"opened", "registered"}
  /\ link' = [link EXCEPT ![n] = "left"]
  /\ chan' = [chan EXCEPT ![n] = <<>>]
  /\ races' = races \cup (Underway(n) \X {"severed"})
  /\ UNCHANGED <<storeVars, post, conn, wire, fetchVars, board, handled, sentOut>>

(* The page's end breaks, or its close event comes: it receives no more. A *)
(* fetch that is under way goes on.                                        *)
Disconnect(n) ==
  /\ link[n] # "down"
  /\ link' = [link EXCEPT ![n] = "down"]
  /\ chan' = [chan EXCEPT ![n] = <<>>] /\ wire' = [wire EXCEPT ![n] = <<>>]
  /\ races' = races \cup (Underway(n) \X {"severed"})
  /\ UNCHANGED <<storeVars, post, conn, fetchVars, board, handled, sentOut>>

(* serve is restarted: requests under way end, saved or not, unanswered,   *)
(* and so do fetches whose rows have not been read.                        *)
Restart ==
  /\ post' = [r \in Requests |-> IF post[r] = "saved" THEN "lost" ELSE post[r]]
  /\ link' = [n \in Conns |-> IF link[n] = "down" THEN "down" ELSE "left"]
  /\ chan' = [n \in Conns |-> <<>>]
  /\ fetch' = [n \in Conns |-> IF fetch[n] = "asked" THEN "failed" ELSE fetch[n]]
  /\ races' = races \cup ((UNION {Underway(n) : n \in Conns}) \X {"severed"})
  /\ UNCHANGED <<storeVars, conn, wire, snap, snapLen, board, handled, sentOut>>

-----------------------------------------------------------------------------
(* The page. *)

Receive(n) ==
  /\ wire[n] # <<>>
  /\ wire' = [wire EXCEPT ![n] = Tail(@)]
  /\ UNCHANGED <<storeVars, post, conn, link, chan, fetchVars, sentOut>>

(* onmessage: handleEvent sets the agent's card from the event. *)
HandleEvent(n) ==
  /\ Receive(n)
  /\ LET e == Head(wire[n])
     IN  /\ board' = [board EXCEPT ![e.agent] = e.body]
         /\ handled' = handled \cup {e.id}
  /\ UNCHANGED races

(* Where the browser has no Notification, or does not let a page construct *)
(* one, a question throws inside the update, which is lost with it.        *)
HandleThrows(n) ==
  /\ Receive(n)
  /\ Head(wire[n]).id \in Questions
  /\ races' = races \cup {<<Head(wire[n]).agent, "thrown">>}
  /\ UNCHANGED <<board, handled>>

(* handleGetAgents reads the rows in one query. *)
ReadAgents(n) ==
  /\ fetch[n] = "asked"
  /\ fetch' = [fetch EXCEPT ![n] = "read"]
  /\ snap' = [snap EXCEPT ![n] = agentState]
  /\ snapLen' = [snapLen EXCEPT ![n] = Len(log)]
  /\ UNCHANGED <<storeVars, post, linkVars, board, history>>

(* The page has already shown an event of a newer than fetch n knows. *)
Outdated(n, a) ==
  \/ \E i \in Rows(a) : i > snapLen[n] /\ log[i].id \in handled
  \/ \E m \in Conns : /\ fetch[m] = "applied"
                      /\ \E i \in Rows(a) : snapLen[n] < i /\ i <= snapLen[m]

(* setAgents replaces the board by the rows of the answer. *)
SetAgents(n) ==
  /\ fetch[n] = "read"
  /\ board' = snap[n]
  /\ fetch' = [fetch EXCEPT ![n] = "applied"]
  /\ races' = races \cup {<<a, "outdated">> : a \in {x \in Agents : Outdated(n, x)}}
  /\ UNCHANGED <<storeVars, post, linkVars, snap, snapLen, handled, sentOut>>

(* The request fails, or its answer is not ok: the error is swallowed, and *)
(* nothing fetches again before the next connection.                       *)
FetchFails(n) ==
  /\ fetch[n] \in {"asked", "read"}
  /\ fetch' = [fetch EXCEPT ![n] = "failed"]
  /\ races' = IF n = conn THEN races \cup (Agents \X {"unfetched"}) ELSE races
  /\ UNCHANGED <<storeVars, post, linkVars, snap, snapLen, board, handled, sentOut>>

Next ==
  \/ \E r \in Requests :
       \/ Refuse(r) \/ Broadcast(r)
       \/ \E a \in Agents, s \in Statuses : Save(r, a, s)
  \/ Open \/ Restart
  \/ \E n \in Conns :
       \/ Register(n) \/ Write(n) \/ Leave(n) \/ Disconnect(n)
       \/ HandleEvent(n) \/ HandleThrows(n)
       \/ ReadAgents(n) \/ SetAgents(n) \/ FetchFails(n)

Spec == Init /\ [][Next]_vars

-----------------------------------------------------------------------------

TypeOK ==
  /\ Log!TypeOK
  /\ post \in [Requests -> {"idle", "saved", "answered", "refused", "lost"}]
  /\ conn \in 0 .. MaxConns
  /\ link \in [Conns -> {"down", "opened", "registered", "left"}]
  /\ chan \in [Conns -> Seq(Log!Event)] /\ wire \in [Conns -> Seq(Log!Event)]
  /\ \A n \in Conns : Len(chan[n]) <= Cap
  /\ fetch \in [Conns -> {"none", "asked", "read", "applied", "failed"}]
  /\ snap \in [Conns -> [Agents -> Statuses \cup {NoRow}]]
  /\ snapLen \in [Conns -> Nat]
  /\ board \in [Agents -> Statuses \cup {NoRow}]
  /\ handled \subseteq Requests /\ sentOut \subseteq Requests

(* Nothing is on its way to the page, which is connected. *)
AtRest ==
  /\ Alive
  /\ \A n \in Conns : chan[n] = <<>> /\ wire[n] = <<>>
  /\ \A r \in Requests : post[r] # "saved"
  /\ \A n \in Conns : fetch[n] \notin {"asked", "read"}

Causes == {"overtaken", "dropped", "unheard", "severed", "thrown", "outdated", "unfetched"}

Raced(a) == \E k \in Causes : <<a, k>> \in races

(* A page at rest shows each agent's current status, unless one of seven   *)
(* things has happened to the agent since the page opened a connection     *)
(* while it had none: two of its events were broadcast in the other order  *)
(* than they were saved; one met a full channel; one was broadcast after   *)
(* the page's last fetch had read, when none of its channels was yet       *)
(* registered; a connection broke with one queued or under way, and the    *)
(* page had another; a question threw in the page; a fetch was applied     *)
(* after something newer; or the last connection's fetch failed. With one  *)
(* connection at a time, no disconnection, restart or late fetch of an     *)
(* earlier connection leaves a board wrong, and with several no order in   *)
(* which their frames arrive does (useWebSocket.ts:24-54, agents.ts:24-85).*)
BoardRightUnlessRaced ==
  AtRest => \A a \in Agents : board[a] = agentState[a] \/ Raced(a)

(* Every card shows a status some stored event of that agent has: an event *)
(* that was refused or not saved is never seen (handlers.go:29-42).        *)
CardsFromStoredEvents ==
  \A a \in Agents : board[a] # NoRow =>
    \E i \in Rows(a) : log[i].body = board[a]

=============================================================================
