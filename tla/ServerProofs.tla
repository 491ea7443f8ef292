---------------------------- MODULE ServerProofs ----------------------------
(***************************************************************************)
(* The server implements the hub, for every set of connections, events and *)
(* responses; so what HubProofs proves of the hub's callers holds of the   *)
(* WebSocket handlers.                                                     *)
(***************************************************************************)
EXTENDS Server, TLAPS

HP == INSTANCE HubProofs

InboxOK == inbox \in [Chans -> Seq(Responses)]

(* The types the callers' discipline is about.                             *)
CallerTypes ==
  /\ InboxOK
  /\ handler \in [Chans -> {"idle", "upgraded", "reading", "leaving", "returned"}]
  /\ call \in [Calls -> {"idle", "sending", "done"}]

(* What happens to a message is happening to it alone: it is put into one  *)
(* inbox, or taken out and perhaps routed, or an event is broadcast.       *)
LEMMA CallsTyped ==
  ASSUME CallerTypes, [Next]_vars
  PROVE  CallerTypes'
<1> USE DEF CallerTypes, InboxOK
<1>1. ASSUME NEW c \in Chans, NEW r \in Responses, PeerSends(c, r) PROVE CallerTypes'
  BY <1>1 DEF PeerSends, hubVars
<1>2. ASSUME NEW c \in Chans, ReadMessage(c) PROVE CallerTypes'
  <2>1. Tail(inbox[c]) \in Seq(Responses) /\ Head(inbox[c]) \in Calls
    BY <1>2 DEF ReadMessage, Calls
  <2>2. InboxOK'
    BY <1>2, <2>1 DEF ReadMessage
  <2>3. call' \in [Calls -> {"idle", "sending", "done"}]
    BY <1>2, <2>1 DEF ReadMessage, H!RouteResponse, hubVars
  <2>. QED
    BY <1>2, <2>2, <2>3 DEF ReadMessage
<1>3. ASSUME NEW c \in Chans, Upgrade(c) PROVE CallerTypes'
  BY <1>3 DEF Upgrade, hubVars
<1>4. ASSUME NEW c \in Chans, StartConn(c) PROVE CallerTypes'
  BY <1>4 DEF StartConn, netVars, H!Register, H!callVars
<1>5. ASSUME NEW c \in Chans, ReadError(c) PROVE CallerTypes'
  BY <1>5 DEF ReadError, netVars, hubVars
<1>6. ASSUME NEW c \in Chans, EndConn(c) PROVE CallerTypes'
  BY <1>6 DEF EndConn, netVars, H!Unregister, H!callVars
<1>7. ASSUME NEW b \in Events, BroadcastStart(b) \/ BroadcastStep(b) PROVE CallerTypes'
  BY <1>7 DEF BroadcastStart, BroadcastStep, H!BroadcastLock, H!BroadcastUnlock,
              H!Offer, netVars, Calls
<1>8. CASE UNCHANGED <<inbox, handler, call>>
  BY <1>8
<1>. QED
  BY <1>1, <1>2, <1>3, <1>4, <1>5, <1>6, <1>7, <1>8
     DEF Next, vars, netVars, hubVars, HandlerStep, WriterStep, WriterTakes, WriterFails,
         WriterEnds, WriterSends, PeerLeaves, KernelGivesUp, H!Receive, H!callVars

(* A handler registers its own channel, once, and a response is routed by  *)
(* the one handler that reads it.                                          *)
LEMMA CallerStep ==
  ASSUME CallerTypes, CallerInv, [Next]_vars
  PROVE  CallerInv'
<1> USE DEF CallerTypes, InboxOK, CallerInv
<1>1. ASSUME NEW c \in Chans, NEW r \in Responses, PeerSends(c, r) PROVE CallerInv'
  <2> DEFINE n == Len(inbox[c]) + 1
  <2>1. /\ DOMAIN inbox'[c] = DOMAIN inbox[c] \cup {n}
        /\ inbox'[c][n] = r /\ n \notin DOMAIN inbox[c]
        /\ \A i \in DOMAIN inbox[c] : inbox'[c][i] = inbox[c][i]
    <3>1. inbox[c] \in Seq(Responses) /\ inbox'[c] = Append(inbox[c], r)
      BY <1>1 DEF PeerSends
    <3>. QED
      BY <3>1
  <2>2. \A d \in Chans \ {c} : inbox'[d] = inbox[d]
    BY <1>1 DEF PeerSends
  <2>3. /\ call[r] = "idle" /\ UNCHANGED <<call, handler, used>>
        /\ \A d \in Chans : \A i \in DOMAIN inbox[d] : inbox[d][i] # r
    BY <1>1 DEF PeerSends, Typed, hubVars
  <2>4. ASSUME NEW d \in Chans, NEW i \in DOMAIN inbox'[d]
        PROVE  /\ call'[inbox'[d][i]] = "idle"
               /\ \/ i \in DOMAIN inbox[d] /\ inbox'[d][i] = inbox[d][i]
                  \/ d = c /\ i = n /\ inbox'[d][i] = r
    <3>1. CASE d = c
      BY <2>1, <2>3, <3>1
    <3>2. CASE d # c
      <4>1. inbox'[d] = inbox[d]
        BY <2>2, <3>2, Zenon
      <4>. QED
        BY <4>1, <2>3, <3>2
    <3>. QED
      BY <3>1, <3>2
  <2>6. \A d, e \in Chans : \A i \in DOMAIN inbox[d] : \A j \in DOMAIN inbox[e] :
          inbox[d][i] = inbox[e][j] => d = e /\ i = j
    BY DEF CallerInv
  <2> HIDE DEF CallerTypes, InboxOK, CallerInv
  <2>5. ASSUME NEW d \in Chans, NEW e \in Chans, NEW i \in DOMAIN inbox'[d],
               NEW j \in DOMAIN inbox'[e], inbox'[d][i] = inbox'[e][j]
        PROVE  d = e /\ i = j
    <3>1. CASE i \in DOMAIN inbox[d] /\ inbox'[d][i] = inbox[d][i]
      <4>1. j \in DOMAIN inbox[e] /\ inbox'[e][j] = inbox[e][j]
        BY <2>3, <2>4, <2>5, <3>1
      <4>2. inbox[d][i] = inbox[e][j]
        BY <2>5, <3>1, <4>1
      <4>. QED
        BY <2>6, <3>1, <4>1, <4>2
    <3>2. CASE d = c /\ i = n /\ inbox'[d][i] = r
      <4>1. e = c /\ j = n
        BY <2>3, <2>4, <2>5, <3>2
      <4>. QED
        BY <3>2, <4>1, Zenon
    <3>. QED
      BY <2>4, <3>1, <3>2, Zenon
  <2>. QED
    BY <2>3, <2>4, <2>5 DEF CallerInv
<1>2. ASSUME NEW c \in Chans, ReadMessage(c) PROVE CallerInv'
  <2>1. /\ inbox'[c] = Tail(inbox[c]) /\ inbox[c] # <<>> /\ inbox[c] \in Seq(Responses)
        /\ \A d \in Chans \ {c} : inbox'[d] = inbox[d]
        /\ UNCHANGED <<handler, used>>
    BY <1>2 DEF ReadMessage, H!RouteResponse, hubVars, H!registry
  <2>2. /\ \A i \in DOMAIN inbox'[c] : /\ i + 1 \in DOMAIN inbox[c] /\ i \in Nat \ {0}
                                       /\ inbox'[c][i] = inbox[c][i + 1]
        /\ 1 \in DOMAIN inbox[c] /\ Head(inbox[c]) = inbox[c][1]
    BY <2>1
  <2>3. ASSUME NEW d \in Chans, NEW i \in DOMAIN inbox'[d]
        PROVE  /\ call'[inbox'[d][i]] = "idle"
               /\ \E k \in DOMAIN inbox[d] : /\ inbox'[d][i] = inbox[d][k]
                                             /\ k = (IF d = c THEN i + 1 ELSE i)
    <3>1. PICK k \in DOMAIN inbox[d] : /\ inbox'[d][i] = inbox[d][k]
                                       /\ k = (IF d = c THEN i + 1 ELSE i)
      BY <2>1, <2>2
    <3>2. inbox[d][k] # Head(inbox[c]) /\ call[inbox[d][k]] = "idle"
      BY <2>1, <2>2, <3>1
    <3>3. \A r \in Calls \ {Head(inbox[c])} : call'[r] = call[r]
      BY <1>2 DEF ReadMessage, H!RouteResponse, hubVars
    <3>4. inbox[d][k] \in Calls
      BY DEF Calls
    <3>. QED
      BY <3>1, <3>2, <3>3, <3>4
  <2>6. \A d, e \in Chans : \A i \in DOMAIN inbox[d] : \A j \in DOMAIN inbox[e] :
          inbox[d][i] = inbox[e][j] => d = e /\ i = j
    BY DEF CallerInv
  <2> HIDE DEF CallerTypes, InboxOK, CallerInv
  <2>4. ASSUME NEW d \in Chans, NEW e \in Chans, NEW i \in DOMAIN inbox'[d],
               NEW j \in DOMAIN inbox'[e], inbox'[d][i] = inbox'[e][j]
        PROVE  d = e /\ i = j
    <3>1. i \in Nat /\ j \in Nat
      <4>1. \A x \in Chans : inbox'[x] \in Seq(Responses)
        BY CallsTyped DEF CallerTypes, InboxOK
      <4>. QED
        BY <4>1
    <3>2. PICK k \in DOMAIN inbox[d] : /\ inbox'[d][i] = inbox[d][k]
                                       /\ k = (IF d = c THEN i + 1 ELSE i)
      BY <2>3
    <3>3. PICK l \in DOMAIN inbox[e] : /\ inbox'[e][j] = inbox[e][l]
                                       /\ l = (IF e = c THEN j + 1 ELSE j)
      BY <2>3
    <3>4. inbox[d][k] = inbox[e][l]
      BY <2>4, <3>2, <3>3
    <3>5. d = e /\ k = l
      BY <2>6, <3>2, <3>3, <3>4
    <3>. QED
      BY <3>1, <3>2, <3>3, <3>5
  <2>. QED
    BY <2>1, <2>3, <2>4 DEF CallerInv
<1>3. ASSUME NEW c \in Chans, StartConn(c) PROVE CallerInv'
  BY <1>3 DEF StartConn, netVars, H!Register, H!callVars
<1>4. ASSUME NEW c \in Chans, Upgrade(c) \/ ReadError(c) PROVE CallerInv'
  BY <1>4 DEF Upgrade, ReadError, netVars, hubVars
<1>5. ASSUME NEW c \in Chans, EndConn(c) PROVE CallerInv'
  BY <1>5 DEF EndConn, netVars, H!Unregister, H!callVars
<1>6. ASSUME NEW b \in Events, BroadcastStart(b) \/ BroadcastStep(b) PROVE CallerInv'
  <2>1. UNCHANGED <<handler, used, inbox>>
    BY <1>6 DEF BroadcastStart, BroadcastStep, H!BroadcastLock, H!BroadcastUnlock,
                H!Offer, netVars, H!registry
  <2>2. \A r \in Responses : call'[r] = call[r]
    BY <1>6, ServerAssumption
       DEF BroadcastStart, BroadcastStep, H!BroadcastLock, H!BroadcastUnlock,
           H!Offer, Calls
  <2>3. \A c \in Chans : \A i \in DOMAIN inbox[c] : inbox[c][i] \in Responses
    OBVIOUS
  <2>. QED
    BY <2>1, <2>2, <2>3
<1>7. CASE UNCHANGED <<inbox, handler, call, used>>
  BY <1>7
<1>. QED
  BY <1>1, <1>2, <1>3, <1>4, <1>5, <1>6, <1>7
     DEF Next, vars, netVars, hubVars, HandlerStep, WriterStep, WriterTakes, WriterFails,
         WriterEnds, WriterSends, PeerLeaves, KernelGivesUp, H!Receive, H!callVars, H!registry

(* The discipline of the hub's callers, in every reachable state.          *)
THEOREM CallersDisciplined == Spec => [](CallerTypes /\ CallerInv)
<1>1. Init => CallerTypes /\ CallerInv
  BY DEF Init, H!Init, CallerTypes, InboxOK, CallerInv
<1>2. CallerTypes /\ CallerInv /\ [Next]_vars => (CallerTypes /\ CallerInv)'
  BY CallsTyped, CallerStep
<1>. QED
  BY <1>1, <1>2, PTL DEF Spec

LEMMA InboxTyped == Spec => []InboxOK
BY CallersDisciplined, PTL DEF CallerTypes

(* Every step of the handlers, the writers, the posters and the network    *)
(* meets the conditions Hub puts on its callers, or leaves the hub alone.  *)
LEMMA HubStep ==
  ASSUME CallerTypes, CallerInv, [Next]_vars
  PROVE  [H!Next]_(H!vars)
<1> USE DEF H!Next, H!FreshChans, H!FreshCalls
<1>1. CASE UNCHANGED hubVars
  BY <1>1 DEF hubVars, H!vars, H!registry, H!chanVars, H!callVars
<1>2. ASSUME NEW c \in Chans, HandlerStep(c) PROVE [H!Next]_(H!vars)
  <2>1. CASE StartConn(c)
    BY <2>1 DEF StartConn, CallerInv
  <2>2. CASE ReadMessage(c) /\ AgentOf[c] # NoAgent
    <3>1. Head(inbox[c]) \in Calls /\ call[Head(inbox[c])] = "idle"
      BY <2>2 DEF ReadMessage, CallerTypes, InboxOK, CallerInv, Calls
    <3>2. AgentOf[c] \in Agents
      BY <2>2, ServerAssumption
    <3>. QED
      BY <2>2, <3>1, <3>2 DEF ReadMessage
  <2>3. CASE ReadMessage(c) /\ AgentOf[c] = NoAgent
    BY <1>1, <2>3 DEF ReadMessage
  <2>4. CASE ReadError(c)
    BY <1>1, <2>4 DEF ReadError
  <2>5. CASE EndConn(c)
    BY <2>5 DEF EndConn
  <2>. QED
    BY <1>2, <2>1, <2>2, <2>3, <2>4, <2>5 DEF HandlerStep
<1>3. ASSUME NEW c \in Chans, WriterTakes(c) PROVE [H!Next]_(H!vars)
  BY <1>3 DEF WriterTakes
<1>4. ASSUME NEW b \in Events, BroadcastStart(b) \/ BroadcastStep(b)
      PROVE  [H!Next]_(H!vars)
  BY <1>4 DEF BroadcastStart, BroadcastStep, Calls
<1>. QED
  BY <1>1, <1>2, <1>3, <1>4
     DEF Next, vars, Upgrade, WriterStep, WriterFails, WriterEnds, WriterSends,
         PeerLeaves, KernelGivesUp, PeerSends

(* The handlers use the hub as its callers must, which nothing but their   *)
(* own order of calls enforces.                                            *)
THEOREM HandlersImplementHub == Spec => ImplementsHub
<1>1. Init => H!Init
  BY DEF Init
<1>. QED
  BY <1>1, HubStep, CallersDisciplined, PTL DEF Spec, ImplementsHub, H!Spec

(* What HubProofs shows of the hub holds of the hub in the server. *)
LEMMA HubProven == Spec => [](H!NoPanic /\ H!TypeOK)
<1>1. HP!HubAssumption
  BY ServerAssumption DEF HP!HubAssumption
<1>2. HP!Spec => []HP!NoPanic /\ []HP!TypeOK
  BY <1>1, HP!NeverPanics, HP!TypeCorrect
<1>3. H!Init <=> HP!Init
  BY DEF H!Init, HP!Init
<1>4. H!Next <=> HP!Next
  BY DEF H!Next, HP!Next, H!Register, HP!Register, H!Unregister, HP!Unregister,
     H!Receive, HP!Receive, H!RegisterAgent, HP!RegisterAgent,
     H!UnregisterAgent, HP!UnregisterAgent, H!BroadcastLock, HP!BroadcastLock,
     H!BroadcastUnlock, HP!BroadcastUnlock, H!Offer, HP!Offer,
     H!RouteResponse, HP!RouteResponse, H!TrySend, HP!TrySend, H!Close, HP!Close,
     H!WriteLockFree, HP!WriteLockFree, H!FreshChans, HP!FreshChans,
     H!FreshCalls, HP!FreshCalls, H!Queued, HP!Queued,
     H!registry, HP!registry, H!chanVars, HP!chanVars, H!callVars, HP!callVars
<1>5. UNCHANGED H!vars <=> UNCHANGED HP!vars
  BY DEF H!vars, HP!vars, H!registry, HP!registry, H!chanVars, HP!chanVars,
         H!callVars, HP!callVars
<1>6. (H!NoPanic <=> HP!NoPanic) /\ (H!TypeOK <=> HP!TypeOK)
  BY DEF H!NoPanic, HP!NoPanic, H!TypeOK, HP!TypeOK, H!Queued, HP!Queued
<1>7. [H!Next]_(H!vars) <=> [HP!Next]_(HP!vars)
  BY <1>4, <1>5
<1>. QED
  BY <1>2, <1>3, <1>6, <1>7, HandlersImplementHub, PTL
     DEF ImplementsHub, H!Spec, HP!Spec

(* No handler, writer or poster ever makes the hub send on a closed        *)
(* channel or close one twice.                                             *)
THEOREM ServerNeverPanics == Spec => []HandlersNeverPanic
BY HubProven, PTL DEF HandlersNeverPanic

-----------------------------------------------------------------------------
(* Frames. *)

(* What FramesWithoutGaps rests on: the peer has the first messages of its *)
(* channel, and while nothing has failed all that were taken but the one   *)
(* being written.                                                          *)
FrameInv(c) ==
  /\ frames[c] \in Seq(Calls)
  /\ Len(frames[c]) <= got[c]
  /\ \A i \in 1 .. Len(frames[c]) : frames[c][i] = sent[c][i]
  /\ writer[c] = "writing" => Len(frames[c]) < got[c]
  /\ peer[c] \in {"none", "up"} =>
       /\ writer[c] \in {"none", "ranging"} => Len(frames[c]) = got[c]
       /\ writer[c] = "writing" => Len(frames[c]) + 1 = got[c]

(* Where the goroutines are, and what has not begun yet. *)
ConnInv ==
  /\ handler \in [Chans -> {"idle", "upgraded", "reading", "leaving", "returned"}]
  /\ writer \in [Chans -> {"none", "ranging", "writing", "exited"}]
  /\ peer \in [Chans -> {"none", "up", "closed", "silent"}]
  /\ unacked \subseteq Chans
  /\ \A c \in Chans :
       /\ handler[c] = "idle" => peer[c] = "none"
       /\ handler[c] \in {"idle", "upgraded"} => writer[c] = "none"
       /\ c \in unacked => peer[c] # "none"

FramesInv == frames \in [Chans -> Seq(Calls)] /\ \A c \in Chans : FrameInv(c)

(* A channel only grows at its end, and only the writer takes from it. *)
LEMMA ChannelsGrow ==
  ASSUME InboxOK, H!TypeOK, [Next]_vars
  PROVE  /\ \A c \in Chans : /\ Len(sent[c]) <= Len(sent'[c])
                             /\ \A i \in 1 .. Len(sent[c]) : sent'[c][i] = sent[c][i]
         /\ \/ UNCHANGED got
            \/ \E c \in Chans : WriterTakes(c)
<1> DEFINE Grown == \A c \in Chans :
                      /\ Len(sent[c]) <= Len(sent'[c])
                      /\ \A i \in 1 .. Len(sent[c]) : sent'[c][i] = sent[c][i]
<1>1. ASSUME UNCHANGED sent PROVE Grown
  BY <1>1 DEF H!TypeOK
<1>2. ASSUME NEW b \in Calls, NEW c \in Chans, H!TrySend(b, c)
      PROVE  Grown /\ UNCHANGED got
  <2>1. CASE UNCHANGED sent
    BY <1>1, <1>2, <2>1 DEF H!TrySend
  <2>2. CASE sent' = [sent EXCEPT ![c] = Append(@, b)]
    BY <1>2, <2>2 DEF H!TrySend, H!TypeOK
  <2>3. QED
    BY <1>2, <2>1, <2>2 DEF H!TrySend
<1>3. ASSUME NEW c \in Chans, HandlerStep(c) PROVE Grown /\ UNCHANGED got
  <2>1. CASE ReadMessage(c) /\ AgentOf[c] # NoAgent
    <3>1. H!RouteResponse(Head(inbox[c]), AgentOf[c])
      BY <2>1 DEF ReadMessage
    <3>2. AgentOf[c] \in Agents /\ agentListeners[AgentOf[c]] \in Chans \cup {NoChan}
      BY <2>1, ServerAssumption DEF H!TypeOK
    <3>3. UNCHANGED <<sent, got>> \/ H!TrySend(Head(inbox[c]), agentListeners[AgentOf[c]])
      BY <3>1 DEF H!RouteResponse, H!chanVars
    <3>4. Grown /\ UNCHANGED got
      <4>1. CASE UNCHANGED <<sent, got>>
        BY <4>1, <1>1
      <4>2. CASE /\ H!TrySend(Head(inbox[c]), agentListeners[AgentOf[c]])
                 /\ agentListeners[AgentOf[c]] # NoChan
        <5>1. Head(inbox[c]) \in Calls
          BY <2>1 DEF ReadMessage, InboxOK, Calls
        <5>2. QED
          BY <1>2, <3>2, <4>2, <5>1
      <4>3. QED
        BY <3>1, <3>3, <4>1, <4>2 DEF H!RouteResponse, H!chanVars
    <3>5. QED
      BY <3>4
  <2>2. CASE ~ (ReadMessage(c) /\ AgentOf[c] # NoAgent)
    <3>1. UNCHANGED <<sent, got>>
      BY <1>3, <2>2
         DEF HandlerStep, StartConn, ReadMessage, ReadError, EndConn, hubVars,
             H!Register, H!Unregister, H!chanVars
    <3>2. QED
      BY <3>1, <1>1
  <2>3. QED
    BY <2>1, <2>2
<1>4. ASSUME NEW c \in Chans, WriterTakes(c) PROVE Grown
  BY <1>1, <1>4 DEF WriterTakes, H!Receive
<1>5. ASSUME NEW b \in Events, BroadcastStart(b) \/ BroadcastStep(b)
      PROVE  Grown /\ UNCHANGED got
  <2>1. CASE \E c \in Chans : H!Offer(b, c)
    BY <2>1, <1>2 DEF H!Offer, Calls
  <2>2. CASE H!BroadcastUnlock(b) \/ H!BroadcastLock(b)
    BY <2>2, <1>1 DEF H!BroadcastUnlock, H!BroadcastLock, H!chanVars
  <2>3. QED
    BY <1>5, <2>1, <2>2 DEF BroadcastStart, BroadcastStep
<1>6. CASE UNCHANGED hubVars
  BY <1>1, <1>6 DEF hubVars
<1> QED
  BY <1>3, <1>4, <1>5, <1>6
     DEF Next, vars, Upgrade, WriterStep, WriterFails, WriterEnds, WriterSends,
         PeerLeaves, KernelGivesUp, PeerSends

LEMMA ConnStep ==
  ASSUME ConnInv, [Next]_vars
  PROVE  ConnInv'
<1> USE DEF ConnInv
<1>1. ASSUME NEW c \in Chans, HandlerStep(c) PROVE ConnInv'
  <2>1. CASE StartConn(c)
    BY <2>1 DEF StartConn, netVars
  <2>2. CASE ReadMessage(c)
    BY <2>2 DEF ReadMessage
  <2>3. CASE ReadError(c) \/ EndConn(c)
    BY <2>3 DEF ReadError, EndConn, netVars
  <2>4. QED
    BY <1>1, <2>1, <2>2, <2>3 DEF HandlerStep
<1>2. ASSUME NEW c \in Chans, Upgrade(c) PROVE ConnInv'
  BY <1>2 DEF Upgrade
<1>3. ASSUME NEW c \in Chans, WriterStep(c) PROVE ConnInv'
  BY <1>3 DEF WriterStep, WriterTakes, WriterFails, WriterEnds, netVars
<1>4. ASSUME NEW c \in Chans, WriterSends(c) PROVE ConnInv'
  BY <1>4 DEF WriterSends
<1>5. ASSUME NEW c \in Chans, PeerLeaves(c) \/ KernelGivesUp(c) PROVE ConnInv'
  BY <1>5 DEF PeerLeaves, KernelGivesUp
<1>6. ASSUME NEW c \in Chans, NEW r \in Responses, PeerSends(c, r) PROVE ConnInv'
  BY <1>6 DEF PeerSends
<1>7. CASE UNCHANGED <<handler, writer, netVars>>
  BY <1>7 DEF netVars
<1> QED
  BY <1>1, <1>2, <1>3, <1>4, <1>5, <1>6, <1>7
     DEF Next, vars, BroadcastStart, BroadcastStep

(* What a step does to one connection's frames: nothing, or its writer     *)
(* takes a message, or sends the one it has taken.                         *)
LEMMA FrameSteps ==
  ASSUME InboxOK, H!TypeOK, ConnInv, frames \in [Chans -> Seq(Calls)], [Next]_vars, NEW d \in Chans
  PROVE  \/ WriterTakes(d) \/ WriterSends(d)
         \/ /\ frames'[d] = frames[d] /\ got'[d] = got[d]
            /\ writer'[d] = "writing" => writer[d] = "writing"
            /\ writer'[d] \in {"none", "ranging"} => writer[d] \in {"none", "ranging"}
            /\ peer'[d] \in {"none", "up"} => peer[d] \in {"none", "up"}
<1> DEFINE Quiet == /\ frames'[d] = frames[d] /\ got'[d] = got[d]
                    /\ writer'[d] = "writing" => writer[d] = "writing"
                    /\ writer'[d] \in {"none", "ranging"} => writer[d] \in {"none", "ranging"}
                    /\ peer'[d] \in {"none", "up"} => peer[d] \in {"none", "up"}
<1> USE DEF ConnInv
<1>1. UNCHANGED got \/ \E c \in Chans : WriterTakes(c)
  BY ChannelsGrow
<1>2. ASSUME NEW c \in Chans, HandlerStep(c) \/ Upgrade(c) PROVE Quiet
  <2>1. CASE StartConn(c)
    BY <2>1 DEF StartConn, netVars, H!Register, H!chanVars
  <2>2. CASE ReadMessage(c)
    BY <1>1, <2>2 DEF ReadMessage, WriterTakes
  <2>3. CASE ReadError(c) \/ EndConn(c)
    BY <2>3 DEF ReadError, EndConn, netVars, hubVars, H!Unregister, H!chanVars
  <2>4. CASE Upgrade(c)
    BY <2>4 DEF Upgrade, hubVars
  <2>5. QED
    BY <1>2, <2>1, <2>2, <2>3, <2>4 DEF HandlerStep
<1>3. ASSUME NEW c \in Chans, WriterFails(c) \/ WriterEnds(c) PROVE Quiet
  BY <1>3 DEF WriterFails, WriterEnds, netVars, hubVars
<1>4. ASSUME NEW c \in Chans, PeerLeaves(c) \/ KernelGivesUp(c) PROVE Quiet
  BY <1>4 DEF PeerLeaves, KernelGivesUp, hubVars
<1>5. ASSUME NEW c \in Chans, NEW r \in Responses, PeerSends(c, r) PROVE Quiet
  BY <1>5 DEF PeerSends, hubVars
<1>6. ASSUME NEW b \in Events, BroadcastStart(b) \/ BroadcastStep(b) PROVE Quiet
  BY <1>1, <1>6 DEF BroadcastStart, BroadcastStep, WriterTakes, netVars
<1>7. ASSUME NEW c \in Chans, c # d, WriterTakes(c) PROVE Quiet
  BY <1>7 DEF WriterTakes, H!Receive, H!TypeOK, netVars
<1>8. ASSUME NEW c \in Chans, c # d, WriterSends(c) PROVE Quiet
  BY <1>8 DEF WriterSends, hubVars
<1>9. CASE UNCHANGED vars
  BY <1>9 DEF vars, hubVars, netVars
<1> QED
  BY <1>2, <1>3, <1>4, <1>5, <1>6, <1>7, <1>8, <1>9 DEF Next, WriterStep

LEMMA FramesStep ==
  ASSUME InboxOK, H!TypeOK, ConnInv, FramesInv, [Next]_vars
  PROVE  FramesInv'
<1>1. ASSUME \A d \in Chans : FrameInv(d)' PROVE frames' \in [Chans -> Seq(Calls)]
  <2>1. UNCHANGED frames \/ \E c \in Chans : WriterSends(c)
    BY DEF Next, vars, netVars, Upgrade, HandlerStep, StartConn, ReadMessage, ReadError,
           EndConn, WriterStep, WriterTakes, WriterFails, WriterEnds, PeerLeaves,
           KernelGivesUp, PeerSends, BroadcastStart, BroadcastStep
  <2>2. frames' = [d \in Chans |-> frames'[d]]
    BY <2>1 DEF WriterSends, FramesInv
  <2>3. \A d \in Chans : frames'[d] \in Seq(Calls)
    BY <1>1 DEF FrameInv
  <2>4. QED
    BY <2>2, <2>3
<1>2. ASSUME NEW d \in Chans PROVE FrameInv(d)'
  <2>1. /\ got[d] \in Nat /\ got[d] <= Len(sent[d])
        /\ sent[d] \in Seq(Calls) /\ frames[d] \in Seq(Calls)
    <3>1. got[d] \in Nat /\ sent[d] \in Seq(Calls) /\ H!Queued(d) \in 0 .. Cap
      BY DEF H!TypeOK
    <3>2. QED
      BY <3>1, ServerAssumption DEF H!Queued, FramesInv, FrameInv
  <2>2. /\ Len(frames[d]) <= got[d]
        /\ \A i \in 1 .. Len(frames[d]) : frames[d][i] = sent'[d][i]
    <3>1. \A i \in 1 .. Len(sent[d]) : sent'[d][i] = sent[d][i]
      BY ChannelsGrow
    <3>2. Len(frames[d]) <= got[d] /\ \A i \in 1 .. Len(frames[d]) : frames[d][i] = sent[d][i]
      BY DEF FramesInv, FrameInv
    <3>3. QED
      BY <2>1, <3>1, <3>2
  <2>3. FrameInv(d)
    BY DEF FramesInv
  <2>4. CASE WriterTakes(d)
    <3>1. /\ writer[d] = "ranging" /\ writer'[d] = "writing"
          /\ got'[d] = got[d] + 1
          /\ frames' = frames /\ peer' = peer
      BY <2>4 DEF WriterTakes, H!Receive, H!TypeOK, netVars, ConnInv
    <3>2. QED
      BY <2>1, <2>2, <2>3, <3>1 DEF FrameInv
  <2>5. CASE WriterSends(d)
    <3>1. /\ writer[d] = "writing" /\ writer'[d] = "ranging"
          /\ peer' = peer /\ got' = got /\ sent' = sent
      BY <2>5 DEF WriterSends, hubVars, ConnInv
    <3>2. CASE peer[d] = "silent" /\ UNCHANGED frames
      BY <2>1, <2>2, <2>3, <3>1, <3>2 DEF FrameInv
    <3>3. CASE peer[d] = "up" /\ frames' = [frames EXCEPT ![d] = Append(@, sent[d][got[d]])]
      <4>1. Len(frames[d]) + 1 = got[d]
        BY <2>3, <3>1, <3>3 DEF FrameInv
      <4>2. sent[d][got[d]] \in Calls
        BY <2>1, <4>1
      <4>3. frames'[d] = Append(frames[d], sent[d][got[d]])
        BY <3>3 DEF FramesInv
      <4>4. /\ frames'[d] \in Seq(Calls) /\ Len(frames'[d]) = got[d]
            /\ \A i \in 1 .. Len(frames'[d]) : frames'[d][i] = sent[d][i]
        BY <2>1, <2>3, <4>1, <4>2, <4>3 DEF FrameInv
      <4>5. QED
        BY <2>1, <3>1, <3>3, <4>4 DEF FrameInv
    <3>4. QED
      BY <2>5, <3>2, <3>3 DEF WriterSends
  <2>6. CASE /\ frames'[d] = frames[d] /\ got'[d] = got[d]
             /\ writer'[d] = "writing" => writer[d] = "writing"
             /\ writer'[d] \in {"none", "ranging"} => writer[d] \in {"none", "ranging"}
             /\ peer'[d] \in {"none", "up"} => peer[d] \in {"none", "up"}
    BY <2>1, <2>2, <2>3, <2>6 DEF FrameInv
  <2>7. QED
    BY <2>4, <2>5, <2>6, FrameSteps DEF FramesInv
<1> QED
  BY <1>1, <1>2 DEF FramesInv

(* The connections and their frames, in every reachable state. *)
THEOREM FramesCorrect == Spec => [](ConnInv /\ FramesInv)
<1>1. Init => ConnInv /\ FramesInv
  <2> SUFFICES ASSUME Init PROVE ConnInv /\ FramesInv
    OBVIOUS
  <2>1. ConnInv
    BY DEF Init, ConnInv
  <2>2. FramesInv
    BY DEF Init, H!Init, FramesInv, FrameInv
  <2>3. QED
    BY <2>1, <2>2
<1>2. InboxOK /\ H!TypeOK /\ ConnInv /\ FramesInv /\ [Next]_vars => (ConnInv /\ FramesInv)'
  BY ConnStep, FramesStep
<1>3. QED
  BY <1>1, <1>2, InboxTyped, HubProven, PTL DEF Spec

(* Every variable of the connections keeps its type. *)
THEOREM TypeCorrect == Spec => []TypeOK
<1>1. InboxOK /\ H!TypeOK /\ ConnInv /\ FramesInv => TypeOK
  <2> SUFFICES ASSUME FramesInv PROVE frames \in [Chans -> Seq(Calls)]
    BY DEF TypeOK, InboxOK, ConnInv
  <2>1. QED
    BY DEF FramesInv, FrameInv
<1>2. QED
  BY <1>1, InboxTyped, HubProven, FramesCorrect, PTL

(* A peer has its channel's messages in order and without a gap            *)
(* (server.go:74-78), however slowly it reads.                             *)
THEOREM NoGaps == Spec => []FramesWithoutGaps
<1>1. H!TypeOK /\ FramesInv => FramesWithoutGaps
  <2> SUFFICES ASSUME H!TypeOK, FramesInv, NEW c \in Chans
               PROVE  /\ frames[c] = SubSeq(sent[c], 1, Len(frames[c]))
                      /\ peer[c] = "up" /\ writer[c] = "ranging" => Len(frames[c]) = got[c]
    BY DEF FramesWithoutGaps
  <2>1. FrameInv(c)
    BY DEF FramesInv
  <2>2. sent[c] \in Seq(Calls) /\ got[c] <= Len(sent[c]) /\ got[c] \in Nat
    <3>1. got[c] \in Nat /\ sent[c] \in Seq(Calls) /\ H!Queued(c) \in 0 .. Cap
      BY DEF H!TypeOK
    <3>2. QED
      BY <3>1, ServerAssumption DEF H!Queued
  <2>3. frames[c] = SubSeq(sent[c], 1, Len(frames[c]))
    <3>1. PICK s : s = SubSeq(sent[c], 1, Len(frames[c]))
      OBVIOUS
    <3>2. /\ s \in Seq(Calls) /\ Len(s) = Len(frames[c])
          /\ \A i \in 1 .. Len(frames[c]) : s[i] = sent[c][i]
      BY <2>1, <2>2, <3>1 DEF FrameInv
    <3>3. s = frames[c]
      BY <2>1, <3>2 DEF FrameInv
    <3>4. QED
      BY <3>1, <3>3
  <2>4. QED
    BY <2>1, <2>3 DEF FrameInv
<1>2. QED
  BY <1>1, HubProven, FramesCorrect, PTL

=============================================================================
