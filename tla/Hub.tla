-------------------------------- MODULE Hub --------------------------------
(***************************************************************************)
(* The WebSocket hub (internal/ws/hub.go): the registry of client channels *)
(* and agent listeners, guarded by one sync.RWMutex. Broadcast holds the   *)
(* read lock while it loops over the clients; the operations that change   *)
(* the registry take the write lock, so each is one step that waits until  *)
(* no Broadcast is inside its loop.                                        *)
(*                                                                         *)
(* The operations do what the methods do, whoever calls them. Next adds    *)
(* the discipline the hub needs of its callers: a channel is registered    *)
(* once, as a client or as the listener of one agent, and a message is     *)
(* sent by one call. Server shows that the handlers keep it.               *)
(***************************************************************************)
EXTENDS Naturals, Sequences

CONSTANTS
  Chans,   (* the channels callers make                                    *)
  Agents,  (* agent ids                                                    *)
  Calls,   (* calls of Broadcast and RouteResponse; a call stands for its  *)
           (* message                                                      *)
  Cap,     (* capacity of a channel (256 in the code)                      *)
  NoChan   (* an agent without a listener                                  *)

ASSUME HubAssumption ==
  /\ Cap \in Nat \ {0}
  /\ NoChan \notin Chans

VARIABLES
  clients,         (* h.clients                                            *)
  agentListeners,  (* h.agentListeners                                     *)
  closed,          (* channels that have been closed                       *)
  used,            (* channels some caller has already registered          *)
  sent,            (* everything ever put into a channel, in order         *)
  got,             (* how much of it the receiver has taken out            *)
  call,            (* idle, sending (inside the loop), or done             *)
  pending,         (* clients the loop of a Broadcast has yet to visit     *)
  audience,        (* history: the clients when the Broadcast locked       *)
  dropped,         (* history: messages that found the channel full        *)
  earlier,         (* history: calls that were done when this one began    *)
  panicked         (* a send on, or a close of, a closed channel           *)

registry == <<clients, agentListeners, closed, used>>
chanVars == <<sent, got, dropped>>
callVars == <<call, pending, audience, earlier>>
vars == <<registry, chanVars, callVars, panicked>>

Queued(ch) == Len(sent[ch]) - got[ch]

WriteLockFree == \A b \in Calls : call[b] # "sending"

Init ==
  /\ clients = {} /\ closed = {} /\ used = {}
  /\ agentListeners = [a \in Agents |-> NoChan]
  /\ sent = [ch \in Chans |-> <<>>]
  /\ got = [ch \in Chans |-> 0]
  /\ dropped = [ch \in Chans |-> {}]
  /\ call = [b \in Calls |-> "idle"]
  /\ pending = [b \in Calls |-> {}]
  /\ audience = [b \in Calls |-> {}]
  /\ earlier = [b \in Calls |-> {}]
  /\ panicked = FALSE

-----------------------------------------------------------------------------
(* Operations that hold the write lock. *)

Register(ch) ==
  /\ WriteLockFree
  /\ clients' = clients \cup {ch}
  /\ used' = used \cup {ch}
  /\ UNCHANGED <<agentListeners, closed, chanVars, callVars, panicked>>

(* close(ch), which panics when the channel is closed already. *)
Close(ch) ==
  /\ closed' = closed \cup {ch}
  /\ panicked' = (panicked \/ ch \in closed)

(* Faulty variant: the read lock is taken instead of the write lock. *)
UnregisterReadLocked(ch) ==
  /\ ch \in clients
  /\ clients' = clients \ {ch}
  /\ Close(ch)
  /\ UNCHANGED <<agentListeners, used, chanVars, callVars>>

(* Unregistering a channel that is not a client changes nothing. *)
Unregister(ch) ==
  /\ WriteLockFree
  /\ IF ch \in clients
       THEN Close(ch) /\ clients' = clients \ {ch}
       ELSE UNCHANGED <<clients, closed, panicked>>
  /\ UNCHANGED <<agentListeners, used, chanVars, callVars>>

(* A second listener of an agent replaces the first, which stays open. *)
RegisterAgent(a, ch) ==
  /\ WriteLockFree
  /\ agentListeners' = [agentListeners EXCEPT ![a] = ch]
  /\ used' = used \cup {ch}
  /\ UNCHANGED <<clients, closed, chanVars, callVars, panicked>>

UnregisterAgent(a) ==
  /\ WriteLockFree
  /\ IF agentListeners[a] # NoChan
       THEN /\ Close(agentListeners[a])
            /\ agentListeners' = [agentListeners EXCEPT ![a] = NoChan]
       ELSE UNCHANGED <<agentListeners, closed, panicked>>
  /\ UNCHANGED <<clients, used, chanVars, callVars>>

-----------------------------------------------------------------------------
(* Operations that hold the read lock. *)

(* select { case ch <- data: default: } *)
TrySend(b, ch) ==
  /\ panicked' = (panicked \/ ch \in closed)
  /\ IF ch \notin closed /\ Queued(ch) < Cap
       THEN /\ sent' = [sent EXCEPT ![ch] = Append(@, b)]
            /\ UNCHANGED dropped
       ELSE /\ dropped' = [dropped EXCEPT ![ch] = @ \cup {b}]
            /\ UNCHANGED sent
  /\ UNCHANGED got

(* Broadcast: RLock, and the start of the loop over h.clients. *)
BroadcastLock(b) ==
  /\ call' = [call EXCEPT ![b] = "sending"]
  /\ pending' = [pending EXCEPT ![b] = clients]
  /\ audience' = [audience EXCEPT ![b] = clients]
  /\ earlier' = [earlier EXCEPT ![b] = {c \in Calls : call[c] = "done"}]
  /\ UNCHANGED <<registry, chanVars, panicked>>

(* Faulty variant: the visited client is offered the message again. *)
OfferAgain(b, ch) ==
  /\ ch \in pending[b]
  /\ \/ pending' = [pending EXCEPT ![b] = @ \ {ch}]
     \/ UNCHANGED pending
  /\ TrySend(b, ch)
  /\ UNCHANGED <<registry, call, audience, earlier>>

(* Faulty variant: a plain send, which waits for room in the channel. *)
OfferBlocking(b, ch) ==
  /\ ch \in pending[b]
  /\ Queued(ch) < Cap
  /\ pending' = [pending EXCEPT ![b] = @ \ {ch}]
  /\ TrySend(b, ch)
  /\ UNCHANGED <<registry, call, audience, earlier>>

(* One turn of the loop; a map is ranged over in any order. *)
Offer(b, ch) ==
  /\ ch \in pending[b]
  /\ pending' = [pending EXCEPT ![b] = @ \ {ch}]
  /\ TrySend(b, ch)
  /\ UNCHANGED <<registry, call, audience, earlier>>

(* Faulty variant: the call returns while a goroutine of its own goes on   *)
(* with the sends.                                                         *)
BroadcastReturnsEarly(b) ==
  /\ call[b] = "sending"
  /\ call' = [call EXCEPT ![b] = "done"]
  /\ UNCHANGED <<registry, chanVars, pending, audience, earlier, panicked>>

(* The end of the loop, and the deferred RUnlock. *)
BroadcastUnlock(b) ==
  /\ call[b] = "sending"
  /\ pending[b] = {}
  /\ call' = [call EXCEPT ![b] = "done"]
  /\ UNCHANGED <<registry, chanVars, pending, audience, earlier, panicked>>

(* RouteResponse makes at most one send, so it is one step. *)
RouteResponse(b, a) ==
  /\ call' = [call EXCEPT ![b] = "done"]
  /\ earlier' = [earlier EXCEPT ![b] = {c \in Calls : call[c] = "done"}]
  /\ IF agentListeners[a] = NoChan
       THEN UNCHANGED <<chanVars, panicked>>
       ELSE TrySend(b, agentListeners[a])
  /\ UNCHANGED <<registry, pending, audience>>

-----------------------------------------------------------------------------

(* Faulty variant: the receiver does not wait for a message. *)
ReceiveNothing(ch) ==
  /\ got' = [got EXCEPT ![ch] = @ + 1]
  /\ UNCHANGED <<registry, sent, dropped, callVars, panicked>>

(* The goroutine that ranges over the channel takes the next message; what *)
(* was buffered can still be taken after the channel is closed.            *)
Receive(ch) ==
  /\ Queued(ch) > 0
  /\ got' = [got EXCEPT ![ch] = @ + 1]
  /\ UNCHANGED <<registry, sent, dropped, callVars, panicked>>

(* A channel no caller has registered, and a message no call has sent. *)
FreshChans == Chans \ used
FreshCalls == {b \in Calls : call[b] = "idle"}

Next ==
  \/ \E ch \in FreshChans : Register(ch)
  \/ \E ch \in Chans : Unregister(ch) \/ Receive(ch)
  \/ \E a \in Agents : UnregisterAgent(a)
  \/ \E a \in Agents, ch \in FreshChans : RegisterAgent(a, ch)
  \/ \E b \in FreshCalls : BroadcastLock(b)
  \/ \E b \in Calls : BroadcastUnlock(b)
  \/ \E b \in Calls, ch \in Chans : Offer(b, ch)
  \/ \E b \in FreshCalls, a \in Agents : RouteResponse(b, a)

Spec == Init /\ [][Next]_vars

-----------------------------------------------------------------------------

TypeOK ==
  /\ clients \subseteq Chans /\ closed \subseteq Chans /\ used \subseteq Chans
  /\ agentListeners \in [Agents -> Chans \cup {NoChan}]
  /\ sent \in [Chans -> Seq(Calls)]
  /\ got \in [Chans -> Nat]
  /\ dropped \in [Chans -> SUBSET Calls]
  /\ call \in [Calls -> {"idle", "sending", "done"}]
  /\ pending \in [Calls -> SUBSET Chans]
  /\ audience \in [Calls -> SUBSET Chans]
  /\ earlier \in [Calls -> SUBSET Calls]
  /\ panicked \in BOOLEAN
  /\ \A ch \in Chans : Queued(ch) \in 0 .. Cap

(* No goroutine sends on a closed channel or closes one twice, whatever    *)
(* Register, Unregister, Broadcast and RouteResponse calls overlap         *)
(* (hub.go:24-42).                                                         *)
NoPanic == ~ panicked

(* What NoPanic rests on: the hub reaches open channels only, no channel   *)
(* from two places, and a loop only visits channels that are still         *)
(* registered.                                                             *)
RegistryInv ==
  /\ clients \subseteq used \ closed
  /\ closed \subseteq used
  /\ \A a \in Agents : agentListeners[a] # NoChan =>
       /\ agentListeners[a] \in used \ (clients \cup closed)
       /\ \A o \in Agents : agentListeners[o] = agentListeners[a] => o = a
  /\ \A b \in Calls :
       /\ pending[b] \subseteq clients
       /\ pending[b] # {} => call[b] = "sending"

InChannel(b, ch) == \E i \in DOMAIN sent[ch] : sent[ch][i] = b

(* Every Broadcast that has returned has put its message once into each    *)
(* channel that was registered when it began, or dropped it there, never   *)
(* both and never neither; a client registered later has neither           *)
(* (hub.go:33-42).                                                         *)
Accounted ==
  /\ \A ch \in Chans : \A i, j \in DOMAIN sent[ch] : sent[ch][i] = sent[ch][j] => i = j
  /\ \A b \in Calls, ch \in Chans :
       call[b] = "done" =>
         /\ ch \in audience[b] => (InChannel(b, ch) <=> b \notin dropped[ch])
         /\ ch \in clients \ audience[b] => ~ InChannel(b, ch) /\ b \notin dropped[ch]

(* A client sees events in the order in which they were posted: no message *)
(* precedes one whose Broadcast had returned before its own began.         *)
OrderKept ==
  \A ch \in Chans : \A i, j \in DOMAIN sent[ch] :
    i < j => sent[ch][j] \notin earlier[sent[ch][i]]

=============================================================================
