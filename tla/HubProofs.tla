----------------------------- MODULE HubProofs -----------------------------
(***************************************************************************)
(* Proofs about Hub for every number of channels, agents and calls, and    *)
(* every channel capacity.                                                 *)
(***************************************************************************)
EXTENDS Hub, TLAPS

-----------------------------------------------------------------------------
(* Lemmas about one send.                                                  *)

LEMMA AppendFacts ==
  ASSUME NEW S, NEW s \in Seq(S), NEW e \in S
  PROVE  /\ Append(s, e) \in Seq(S)
         /\ Len(Append(s, e)) = Len(s) + 1
         /\ DOMAIN Append(s, e) = DOMAIN s \cup {Len(s) + 1}
         /\ Append(s, e)[Len(s) + 1] = e
         /\ \A i \in DOMAIN s : i \in Nat /\ i < Len(s) + 1 /\ Append(s, e)[i] = s[i]
OBVIOUS

(* What a select with a default does to an open channel. *)
LEMMA TrySendOpen ==
  ASSUME TypeOK, NEW b \in Calls, NEW ch \in Chans, ch \notin closed, TrySend(b, ch)
  PROVE  /\ panicked' = panicked
         /\ got' = got
         /\ \A c \in Chans \ {ch} : sent'[c] = sent[c] /\ dropped'[c] = dropped[c]
         /\ \/ /\ sent'[ch] = Append(sent[ch], b)
               /\ Queued(ch) < Cap
               /\ dropped'[ch] = dropped[ch]
            \/ /\ sent'[ch] = sent[ch]
               /\ dropped'[ch] = dropped[ch] \cup {b}
BY DEF TypeOK, TrySend

LEMMA TrySendTypes ==
  ASSUME TypeOK, NEW b \in Calls, NEW ch \in Chans, TrySend(b, ch)
  PROVE  /\ sent' \in [Chans -> Seq(Calls)]
         /\ got' \in [Chans -> Nat]
         /\ dropped' \in [Chans -> SUBSET Calls]
         /\ panicked' \in BOOLEAN
         /\ \A c \in Chans : Queued(c)' \in 0 .. Cap
<1>1. /\ sent' \in [Chans -> Seq(Calls)] /\ got' = got
      /\ dropped' \in [Chans -> SUBSET Calls]
      /\ got' \in [Chans -> Nat]
  <2>1. Append(sent[ch], b) \in Seq(Calls)
    BY AppendFacts DEF TypeOK
  <2>2. got' = got
    BY DEF TrySend
  <2>3. sent \in [Chans -> Seq(Calls)] /\ got \in [Chans -> Nat]
        /\ dropped \in [Chans -> SUBSET Calls]
    BY DEF TypeOK
  <2>4. dropped' \in [Chans -> SUBSET Calls]
    BY <2>3 DEF TrySend
  <2>5. sent' \in [Chans -> Seq(Calls)]
    BY <2>1, <2>3 DEF TrySend
  <2>. QED
    BY <2>2, <2>3, <2>4, <2>5
<1>2. panicked' \in BOOLEAN
  BY DEF TypeOK, TrySend
<1>3. ASSUME NEW c \in Chans PROVE Queued(c)' \in 0 .. Cap
  <2>1. CASE sent'[c] = sent[c]
    BY <2>1, <1>1 DEF TypeOK, Queued
  <2>2. CASE sent'[c] = Append(sent[c], b) /\ Queued(c) < Cap
    <3>1. Len(sent'[c]) = Len(sent[c]) + 1
      BY <2>2, AppendFacts DEF TypeOK
    <3>. QED
      BY <3>1, <2>2, <1>1, HubAssumption DEF TypeOK, Queued
  <2>. QED
    BY <2>1, <2>2 DEF TypeOK, TrySend
<1>. QED
  BY <1>1, <1>2, <1>3

-----------------------------------------------------------------------------

(* Every variable keeps its type, and no channel outgrows its buffer. *)
THEOREM TypeCorrect == Spec => []TypeOK
<1>1. Init => TypeOK
  <2> SUFFICES ASSUME Init PROVE TypeOK
    OBVIOUS
  <2>1. ASSUME NEW ch \in Chans PROVE Queued(ch) \in 0 .. Cap
    <3>1. sent[ch] = <<>> /\ got[ch] = 0
      BY DEF Init
    <3>. QED
      BY <3>1, HubAssumption DEF Queued
  <2>2. sent \in [Chans -> Seq(Calls)]
    BY DEF Init
  <2>. QED
    BY <2>1, <2>2 DEF Init, TypeOK
<1>2. TypeOK /\ [Next]_vars => TypeOK'
  <2> SUFFICES ASSUME TypeOK, [Next]_vars PROVE TypeOK'
    OBVIOUS
  <2>1. ASSUME NEW ch \in Chans, ch \notin used, Register(ch) PROVE TypeOK'
    BY <2>1 DEF TypeOK, Register, chanVars, callVars, Queued
  <2>2. ASSUME NEW ch \in Chans, Unregister(ch) PROVE TypeOK'
    <3>1. CASE ch \in clients
      BY <2>2, <3>1 DEF TypeOK, Unregister, Close, chanVars, callVars, Queued
    <3>2. CASE ch \notin clients
      BY <2>2, <3>2 DEF TypeOK, Unregister, chanVars, callVars, Queued
    <3>. QED
      BY <3>1, <3>2
  <2>3. ASSUME NEW ch \in Chans, Receive(ch) PROVE TypeOK'
    <3>1. ASSUME NEW c \in Chans PROVE Queued(c)' \in 0 .. Cap
      BY <2>3, HubAssumption DEF TypeOK, Receive, Queued
    <3>2. got' \in [Chans -> Nat]
      BY <2>3 DEF TypeOK, Receive
    <3>. QED
      BY <2>3, <3>1, <3>2 DEF TypeOK, Receive, registry, callVars
  <2>4. ASSUME NEW a \in Agents, UnregisterAgent(a) PROVE TypeOK'
    <3>1. CASE agentListeners[a] = NoChan
      BY <2>4, <3>1 DEF TypeOK, UnregisterAgent, chanVars, callVars, Queued
    <3>2. CASE agentListeners[a] # NoChan
      BY <2>4, <3>2 DEF TypeOK, UnregisterAgent, Close, chanVars, callVars, Queued
    <3>. QED
      BY <3>1, <3>2
  <2>5. ASSUME NEW a \in Agents, NEW ch \in Chans, ch \notin used, RegisterAgent(a, ch) PROVE TypeOK'
    BY <2>5 DEF TypeOK, RegisterAgent, chanVars, callVars, Queued
  <2>6. ASSUME NEW b \in Calls, call[b] = "idle", BroadcastLock(b) PROVE TypeOK'
    BY <2>6 DEF TypeOK, BroadcastLock, registry, chanVars, Queued
  <2>7. ASSUME NEW b \in Calls, BroadcastUnlock(b) PROVE TypeOK'
    BY <2>7 DEF TypeOK, BroadcastUnlock, registry, chanVars, Queued
  <2>8. ASSUME NEW b \in Calls, NEW ch \in Chans, Offer(b, ch) PROVE TypeOK'
    BY <2>8, TrySendTypes DEF TypeOK, Offer, registry
  <2>9. ASSUME NEW b \in Calls, NEW a \in Agents, call[b] = "idle", RouteResponse(b, a)
      PROVE  TypeOK'
    <3>1. CASE agentListeners[a] = NoChan
      BY <2>9, <3>1 DEF TypeOK, RouteResponse, registry, chanVars, Queued
    <3>2. CASE agentListeners[a] # NoChan
      <4>1. agentListeners[a] \in Chans /\ TrySend(b, agentListeners[a])
        BY <2>9, <3>2 DEF TypeOK, RouteResponse
      <4>. QED
        BY <2>9, <4>1, TrySendTypes DEF TypeOK, RouteResponse, registry
    <3>. QED
      BY <3>1, <3>2
  <2>10. CASE UNCHANGED vars
    BY <2>10 DEF TypeOK, vars, registry, chanVars, callVars, Queued
  <2>. QED
    BY <2>1, <2>2, <2>3, <2>4, <2>5, <2>6, <2>7, <2>8, <2>9, <2>10 DEF Next, FreshChans, FreshCalls
<1>. QED
  BY <1>1, <1>2, PTL DEF Spec

-----------------------------------------------------------------------------

(* The invariant that keeps sends and closes away from closed channels. *)
SafeInv == RegistryInv /\ NoPanic

LEMMA SafeStep ==
  ASSUME TypeOK, SafeInv, [Next]_vars
  PROVE  SafeInv'
<1> USE HubAssumption DEF SafeInv, NoPanic
<1>1. ASSUME NEW ch \in Chans, ch \notin used, Register(ch) PROVE SafeInv'
  BY <1>1 DEF TypeOK, RegistryInv, Register, chanVars, callVars
<1>2. ASSUME NEW ch \in Chans, Unregister(ch) PROVE SafeInv'
  BY <1>2 DEF TypeOK, RegistryInv, Unregister, Close, WriteLockFree, chanVars, callVars
<1>3. ASSUME NEW ch \in Chans, Receive(ch) PROVE SafeInv'
  BY <1>3 DEF RegistryInv, Receive, registry, callVars
<1>4. ASSUME NEW a \in Agents, UnregisterAgent(a) PROVE SafeInv'
  <2>1. CASE agentListeners[a] = NoChan
    BY <1>4, <2>1 DEF RegistryInv, UnregisterAgent, chanVars, callVars
  <2>2. CASE agentListeners[a] # NoChan
    BY <1>4, <2>2 DEF TypeOK, RegistryInv, UnregisterAgent, Close, WriteLockFree,
                      chanVars, callVars
  <2>. QED
    BY <2>1, <2>2
<1>5. ASSUME NEW a \in Agents, NEW ch \in Chans, ch \notin used, RegisterAgent(a, ch) PROVE SafeInv'
  BY <1>5 DEF TypeOK, RegistryInv, RegisterAgent, chanVars, callVars
<1>6. ASSUME NEW b \in Calls, call[b] = "idle", BroadcastLock(b) PROVE SafeInv'
  BY <1>6 DEF TypeOK, RegistryInv, BroadcastLock, registry, chanVars
<1>7. ASSUME NEW b \in Calls, BroadcastUnlock(b) PROVE SafeInv'
  BY <1>7 DEF TypeOK, RegistryInv, BroadcastUnlock, registry, chanVars
<1>8. ASSUME NEW b \in Calls, NEW ch \in Chans, Offer(b, ch) PROVE SafeInv'
  <2>1. ch \notin closed
    BY <1>8 DEF RegistryInv, Offer
  <2>2. panicked' = panicked
    BY <1>8, <2>1, TrySendOpen DEF Offer
  <2>. QED
    BY <1>8, <2>2 DEF TypeOK, RegistryInv, Offer, registry
<1>9. ASSUME NEW b \in Calls, NEW a \in Agents, call[b] = "idle", RouteResponse(b, a)
      PROVE  SafeInv'
  <2>1. panicked' = panicked
    <3>1. CASE agentListeners[a] = NoChan
      BY <1>9, <3>1 DEF RouteResponse
    <3>2. CASE agentListeners[a] # NoChan
      <4>1. /\ agentListeners[a] \in Chans \ closed
            /\ TrySend(b, agentListeners[a])
        BY <1>9, <3>2 DEF TypeOK, RegistryInv, RouteResponse
      <4>. QED
        BY <4>1, TrySendOpen
    <3>. QED
      BY <3>1, <3>2
  <2>. QED
    BY <1>9, <2>1 DEF TypeOK, RegistryInv, RouteResponse, registry
<1>10. CASE UNCHANGED vars
  BY <1>10 DEF RegistryInv, vars, registry, callVars
<1>. QED
  BY <1>1, <1>2, <1>3, <1>4, <1>5, <1>6, <1>7, <1>8, <1>9, <1>10 DEF Next, FreshChans, FreshCalls

(* The registry is consistent in every reachable state, and no operation   *)
(* ever sends on a closed channel or closes one twice.                     *)
THEOREM Safe == Spec => []SafeInv
<1>1. Init => SafeInv
  BY DEF Init, SafeInv, RegistryInv, NoPanic
<1>. QED
  BY <1>1, SafeStep, TypeCorrect, PTL DEF Spec

(* No send on a closed channel and no second close. *)
THEOREM NeverPanics == Spec => []NoPanic
BY Safe, PTL DEF SafeInv

-----------------------------------------------------------------------------

(* Only calls that have begun are in a channel, and the calls remembered   *)
(* as earlier have indeed returned.                                        *)
OrderInv ==
  /\ OrderKept
  /\ \A ch \in Chans : \A i \in DOMAIN sent[ch] : call[sent[ch][i]] # "idle"
  /\ \A b \in Calls : \A d \in earlier[b] : call[d] = "done"

(* A call that is running, or starts now, may put its message at the end   *)
(* of a channel.                                                           *)
LEMMA AppendKeepsOrder ==
  ASSUME TypeOK, OrderInv, NEW b \in Calls, NEW ch \in Chans,
         call[b] # "done", call' = [call EXCEPT ![b] = call'[b]],
         call'[b] \in {"sending", "done"},
         \A c \in Chans \ {ch} : sent'[c] = sent[c],
         sent'[ch] = sent[ch] \/ sent'[ch] = Append(sent[ch], b),
         \A c \in Calls \ {b} : earlier'[c] = earlier[c],
         \/ earlier'[b] = earlier[b]
         \/ /\ call[b] = "idle"
            /\ earlier'[b] = {c \in Calls : call[c] = "done"}
  PROVE  OrderInv'
<1>1. \A c \in Calls \ {b} : call'[c] = call[c]
  BY DEF TypeOK
<1>2. \A d \in Calls : call[d] = "done" => call'[d] = "done"
  BY <1>1
<1>3. \A c \in Calls : \A d \in earlier'[c] : call[d] = "done" /\ d \in Calls
  BY DEF OrderInv, TypeOK
<1>4. \A c \in Calls : \A d \in earlier'[c] : call'[d] = "done"
  BY <1>2, <1>3
<1>5. \A c \in Chans : \A i \in DOMAIN sent[c] :
        sent[c][i] \in Calls /\ call[sent[c][i]] # "idle"
  BY DEF OrderInv, TypeOK
<1>6. ASSUME NEW c \in Chans
      PROVE  /\ \A i \in DOMAIN sent'[c] : call'[sent'[c][i]] # "idle"
             /\ \A i, j \in DOMAIN sent'[c] :
                  i < j => sent'[c][j] \notin earlier'[sent'[c][i]]
  <2>1. \A i \in DOMAIN sent[c] : call'[sent[c][i]] # "idle"
    BY <1>1, <1>5
  <2>2. \A i, j \in DOMAIN sent[c] : i < j => sent[c][j] \notin earlier'[sent[c][i]]
    <3>1. SUFFICES ASSUME NEW i \in DOMAIN sent[c], NEW j \in DOMAIN sent[c], i < j
                   PROVE  sent[c][j] \notin earlier'[sent[c][i]]
      OBVIOUS
    <3>2. sent[c][j] \notin earlier[sent[c][i]]
      BY <3>1 DEF OrderInv, OrderKept
    <3>3. CASE sent[c][i] # b
      BY <3>2, <3>3, <1>5
    <3>4. CASE sent[c][i] = b
      BY <3>2, <3>4, <1>5
    <3>. QED
      BY <3>3, <3>4
  <2>3. CASE sent'[c] = sent[c]
    BY <2>1, <2>2, <2>3
  <2>4. CASE c = ch /\ sent'[c] = Append(sent[c], b)
    <3> DEFINE n == Len(sent[c]) + 1
    <3>1. /\ DOMAIN sent'[c] = DOMAIN sent[c] \cup {n}
          /\ sent'[c][n] = b
          /\ \A i \in DOMAIN sent[c] : i \in Nat /\ i < n /\ sent'[c][i] = sent[c][i]
          /\ n \in Nat
      BY <2>4, AppendFacts DEF TypeOK
    <3>2. \A x \in Calls : b \notin earlier'[x]
      BY <1>3
    <3>3. call'[b] # "idle"
      OBVIOUS
    <3>4. \A i \in DOMAIN sent'[c] : call'[sent'[c][i]] # "idle"
      BY <2>1, <3>1, <3>3
    <3>5. \A i, j \in DOMAIN sent'[c] :
            i < j => sent'[c][j] \notin earlier'[sent'[c][i]]
      <4>1. SUFFICES ASSUME NEW i \in DOMAIN sent'[c], NEW j \in DOMAIN sent'[c], i < j
                     PROVE  sent'[c][j] \notin earlier'[sent'[c][i]]
        OBVIOUS
      <4>2. i \in DOMAIN sent[c]
        BY <4>1, <3>1
      <4>3. CASE j = n
        BY <4>2, <4>3, <3>1, <3>2, <1>5
      <4>4. CASE j \in DOMAIN sent[c]
        BY <4>1, <4>2, <4>4, <3>1, <2>2
      <4>. QED
        BY <4>3, <4>4, <3>1
    <3>. QED
      BY <3>4, <3>5
  <2>. QED
    BY <2>3, <2>4
<1>. QED
  BY <1>4, <1>6 DEF OrderInv, OrderKept

LEMMA OrderStep ==
  ASSUME TypeOK, SafeInv, OrderInv, [Next]_vars
  PROVE  OrderInv'
<1>1. CASE UNCHANGED <<sent, call, earlier>>
  BY <1>1 DEF OrderInv, OrderKept
<1>2. ASSUME NEW b \in Calls, call[b] = "idle", BroadcastLock(b) PROVE OrderInv'
  <2>1. \A c \in Chans : sent'[c] = sent[c]
    BY <1>2 DEF BroadcastLock, chanVars
  <2>2. CASE \E c \in Chans : TRUE
    <3>1. PICK c \in Chans : TRUE
      BY <2>2
    <3>2. /\ call[b] # "done" /\ call'[b] = "sending"
          /\ call' = [call EXCEPT ![b] = call'[b]]
          /\ call[b] = "idle"
          /\ earlier'[b] = {d \in Calls : call[d] = "done"}
          /\ \A d \in Calls \ {b} : earlier'[d] = earlier[d]
      BY <1>2 DEF BroadcastLock, TypeOK
    <3>. QED
      BY <2>1, <3>1, <3>2, AppendKeepsOrder
  <2>3. CASE ~ \E c \in Chans : TRUE
    <3>1. \A d \in Calls : call[d] = "done" => call'[d] = "done"
      BY <1>2 DEF BroadcastLock, TypeOK
    <3>2. \A x \in Calls : \A d \in earlier'[x] : d \in Calls /\ call[d] = "done"
      BY <1>2 DEF BroadcastLock, OrderInv, TypeOK
    <3>. QED
      BY <2>3, <3>1, <3>2 DEF OrderInv, OrderKept
  <2>. QED
    BY <2>2, <2>3
<1>3. ASSUME NEW b \in Calls, BroadcastUnlock(b) PROVE OrderInv'
  <2>1. /\ sent' = sent /\ earlier' = earlier
        /\ call' = [call EXCEPT ![b] = "done"]
    BY <1>3 DEF BroadcastUnlock, chanVars
  <2>2. \A d \in Calls : (call[d] = "done" => call'[d] = "done")
                         /\ (call[d] # "idle" => call'[d] # "idle")
    BY <2>1 DEF TypeOK
  <2>3. \A x \in Calls : \A d \in earlier[x] : d \in Calls
    BY DEF TypeOK
  <2>4. \A ch \in Chans : \A i \in DOMAIN sent[ch] : sent[ch][i] \in Calls
    BY DEF TypeOK
  <2>. QED
    BY <2>1, <2>2, <2>3, <2>4 DEF OrderInv, OrderKept
<1>4. ASSUME NEW b \in Calls, NEW ch \in Chans, Offer(b, ch) PROVE OrderInv'
  <2>1. call[b] = "sending" /\ ch \notin closed /\ TrySend(b, ch)
        /\ call' = call /\ earlier' = earlier
    BY <1>4 DEF Offer, SafeInv, RegistryInv
  <2>2. call' = [call EXCEPT ![b] = call'[b]]
    BY <2>1 DEF TypeOK
  <2>3. /\ \A c \in Chans \ {ch} : sent'[c] = sent[c]
        /\ sent'[ch] = sent[ch] \/ sent'[ch] = Append(sent[ch], b)
    BY <2>1, TrySendOpen
  <2>. QED
    BY <2>1, <2>2, <2>3, AppendKeepsOrder
<1>5. ASSUME NEW b \in Calls, NEW a \in Agents, call[b] = "idle", RouteResponse(b, a)
      PROVE  OrderInv'
  <2>1. /\ call[b] = "idle" /\ call'[b] = "done"
        /\ call' = [call EXCEPT ![b] = call'[b]]
        /\ earlier'[b] = {d \in Calls : call[d] = "done"}
        /\ \A d \in Calls \ {b} : earlier'[d] = earlier[d]
    BY <1>5 DEF RouteResponse, TypeOK
  <2>2. CASE agentListeners[a] # NoChan
    <3> DEFINE ch == agentListeners[a]
    <3>1. ch \in Chans /\ ch \notin closed /\ TrySend(b, ch)
      BY <1>5, <2>2 DEF RouteResponse, SafeInv, RegistryInv, TypeOK
    <3>2. /\ \A c \in Chans \ {ch} : sent'[c] = sent[c]
          /\ sent'[ch] = sent[ch] \/ sent'[ch] = Append(sent[ch], b)
      BY <3>1, TrySendOpen
    <3>. QED
      BY <2>1, <3>1, <3>2, AppendKeepsOrder
  <2>3. CASE agentListeners[a] = NoChan
    <3>1. sent' = sent
      BY <1>5, <2>3 DEF RouteResponse, chanVars
    <3>2. CASE \E c \in Chans : TRUE
      <4>1. PICK c \in Chans : TRUE
        BY <3>2
      <4>. QED
        BY <2>1, <3>1, <4>1, AppendKeepsOrder
    <3>3. CASE ~ \E c \in Chans : TRUE
      <4>1. \A x \in Calls : \A d \in earlier'[x] : d \in Calls /\ call[d] = "done"
        BY <2>1 DEF OrderInv, TypeOK
      <4>2. \A d \in Calls : call[d] = "done" => call'[d] = "done"
        BY <2>1 DEF TypeOK
      <4>. QED
        BY <3>3, <4>1, <4>2 DEF OrderInv, OrderKept
    <3>. QED
      BY <3>2, <3>3
  <2>. QED
    BY <2>2, <2>3
<1>. QED
  BY <1>1, <1>2, <1>3, <1>4, <1>5
     DEF Next, FreshChans, FreshCalls, vars, Register, Unregister, Receive, UnregisterAgent, RegisterAgent,
         chanVars, callVars

(* Every client receives broadcasts that do not overlap in the order in    *)
(* which they were made.                                                   *)
THEOREM BroadcastsKeepOrder == Spec => []OrderKept
<1>1. Init => OrderInv
  BY DEF Init, OrderInv, OrderKept
<1>2. OrderInv => OrderKept
  BY DEF OrderInv
<1>. QED
  BY <1>1, <1>2, OrderStep, TypeCorrect, Safe, PTL DEF Spec

-----------------------------------------------------------------------------

NoDuplicates ==
  \A ch \in Chans : \A i, j \in DOMAIN sent[ch] : sent[ch][i] = sent[ch][j] => i = j

(* Where a message is while its call is idle, on its way, or returned.     *)
AccountInv ==
  /\ NoDuplicates
  /\ \A b \in Calls, ch \in Chans :
       /\ call[b] = "idle" => /\ ~ InChannel(b, ch)
                              /\ b \notin dropped[ch]
                              /\ ch \notin audience[b]
       /\ ch \in pending[b] => /\ ch \in audience[b]
                               /\ ~ InChannel(b, ch)
                               /\ b \notin dropped[ch]
       /\ ch \in audience[b] \ pending[b] => (InChannel(b, ch) <=> b \notin dropped[ch])
       /\ ch \notin audience[b] /\ (InChannel(b, ch) \/ b \in dropped[ch]) =>
            ch \in used \ clients

(* A send touches one message in one channel.                              *)
LEMMA TrySendCounts ==
  ASSUME TypeOK, NoDuplicates, NEW b \in Calls, NEW ch \in Chans, ch \notin closed,
         TrySend(b, ch), ~ InChannel(b, ch), b \notin dropped[ch]
  PROVE  /\ NoDuplicates'
         /\ InChannel(b, ch)' <=> b \notin dropped'[ch]
         /\ \A c \in Calls, d \in Chans : c # b \/ d # ch =>
              /\ InChannel(c, d)' <=> InChannel(c, d)
              /\ c \in dropped'[d] <=> c \in dropped[d]
<1>1. \A d \in Chans \ {ch} : sent'[d] = sent[d] /\ dropped'[d] = dropped[d]
  BY TrySendOpen
<1>2. CASE sent'[ch] = sent[ch] /\ dropped'[ch] = dropped[ch] \cup {b}
  BY <1>1, <1>2 DEF NoDuplicates, InChannel
<1>3. CASE sent'[ch] = Append(sent[ch], b) /\ dropped'[ch] = dropped[ch]
  <2> DEFINE n == Len(sent[ch]) + 1
  <2>1. /\ DOMAIN sent'[ch] = DOMAIN sent[ch] \cup {n}
        /\ sent'[ch][n] = b
        /\ \A i \in DOMAIN sent[ch] : i \in Nat /\ i < n /\ sent'[ch][i] = sent[ch][i]
    BY <1>3, AppendFacts DEF TypeOK
  <2>2. \A i \in DOMAIN sent[ch] : sent[ch][i] # b
    BY DEF InChannel
  <2>3. \A i, j \in DOMAIN sent'[ch] : sent'[ch][i] = sent'[ch][j] => i = j
    BY <2>1, <2>2 DEF NoDuplicates
  <2>4. NoDuplicates'
    BY <1>1, <2>3 DEF NoDuplicates
  <2>5. \A c \in Calls : c # b => (InChannel(c, ch)' <=> InChannel(c, ch))
    BY <2>1 DEF InChannel
  <2>6. InChannel(b, ch)'
    BY <2>1 DEF InChannel
  <2>7. \A c \in Calls, d \in Chans \ {ch} : InChannel(c, d)' <=> InChannel(c, d)
    BY <1>1 DEF InChannel
  <2>. QED
    BY <1>1, <1>3, <2>4, <2>5, <2>6, <2>7
<1>. QED
  BY <1>2, <1>3, TrySendOpen

LEMMA AccountStep ==
  ASSUME TypeOK, SafeInv, AccountInv, [Next]_vars
  PROVE  AccountInv'
<1> USE DEF AccountInv
<1>1. ASSUME UNCHANGED <<sent, dropped, call, pending, audience>>,
             \A ch \in Chans : ch \in used \ clients => ch \in used' \ clients'
      PROVE  AccountInv'
  BY <1>1 DEF NoDuplicates, InChannel
<1>2. ASSUME NEW ch \in Chans, ch \notin used, Register(ch) PROVE AccountInv'
  BY <1>2 DEF Register, chanVars, callVars, NoDuplicates, InChannel
<1>3. ASSUME NEW b \in Calls, call[b] = "idle", BroadcastLock(b) PROVE AccountInv'
  <2>1. /\ UNCHANGED <<sent, dropped, used, clients>> /\ call[b] = "idle"
        /\ call'[b] = "sending" /\ pending'[b] = clients /\ audience'[b] = clients
        /\ \A c \in Calls \ {b} : /\ call'[c] = call[c] /\ pending'[c] = pending[c]
                                  /\ audience'[c] = audience[c]
    BY <1>3 DEF BroadcastLock, registry, chanVars, TypeOK
  <2>2. NoDuplicates' /\ \A c \in Calls, d \in Chans : InChannel(c, d)' <=> InChannel(c, d)
    BY <2>1 DEF NoDuplicates, InChannel
  <2>. QED
    BY <2>1, <2>2
<1>4. ASSUME NEW b \in Calls, BroadcastUnlock(b) PROVE AccountInv'
  <2>1. /\ UNCHANGED <<sent, dropped, used, clients, pending, audience>>
        /\ call'[b] = "done" /\ \A c \in Calls \ {b} : call'[c] = call[c]
    BY <1>4 DEF BroadcastUnlock, registry, chanVars, TypeOK
  <2>2. NoDuplicates' /\ \A c \in Calls, d \in Chans : InChannel(c, d)' <=> InChannel(c, d)
    BY <2>1 DEF NoDuplicates, InChannel
  <2>. QED
    BY <2>1, <2>2
<1>5. ASSUME NEW b \in Calls, NEW ch \in Chans, Offer(b, ch) PROVE AccountInv'
  <2>1. /\ UNCHANGED <<used, clients, call, audience>>
        /\ pending'[b] = pending[b] \ {ch}
        /\ \A c \in Calls \ {b} : pending'[c] = pending[c]
        /\ ch \in pending[b] /\ ch \notin closed /\ TrySend(b, ch)
    BY <1>5 DEF Offer, registry, SafeInv, RegistryInv, TypeOK
  <2>2. ch \in audience[b] /\ ~ InChannel(b, ch) /\ b \notin dropped[ch]
    BY <2>1
  <2>3. call[b] = "sending"
    BY <2>1 DEF SafeInv, RegistryInv
  <2>4. /\ NoDuplicates'
        /\ InChannel(b, ch)' <=> b \notin dropped'[ch]
        /\ \A c \in Calls, d \in Chans : c # b \/ d # ch =>
              /\ InChannel(c, d)' <=> InChannel(c, d)
              /\ c \in dropped'[d] <=> c \in dropped[d]
    BY <2>1, <2>2, TrySendCounts
  <2>. QED
    BY <2>1, <2>2, <2>3, <2>4
<1>6. ASSUME NEW b \in Calls, NEW a \in Agents, call[b] = "idle", RouteResponse(b, a)
      PROVE  AccountInv'
  <2>1. /\ UNCHANGED <<used, clients, audience, pending>>
        /\ call[b] = "idle" /\ call'[b] = "done"
        /\ \A c \in Calls \ {b} : call'[c] = call[c]
    BY <1>6 DEF RouteResponse, registry, TypeOK
  <2>2. \A d \in Chans : d \notin audience[b] /\ d \notin pending[b]
    BY <2>1
  <2>3. CASE agentListeners[a] # NoChan
    <3>1. PICK ch \in Chans :
            /\ ch \notin closed /\ ch \in used \ clients
            /\ TrySend(b, ch) /\ ~ InChannel(b, ch) /\ b \notin dropped[ch]
      BY <1>6, <2>1, <2>3 DEF RouteResponse, SafeInv, RegistryInv, TypeOK
    <3>2. /\ NoDuplicates'
          /\ InChannel(b, ch)' <=> b \notin dropped'[ch]
          /\ \A c \in Calls, d \in Chans : c # b \/ d # ch =>
                /\ InChannel(c, d)' <=> InChannel(c, d)
                /\ c \in dropped'[d] <=> c \in dropped[d]
      BY <3>1, TrySendCounts DEF AccountInv
    <3>3. ASSUME NEW d \in Chans
          PROVE  /\ d \notin audience'[b] /\ d \notin pending'[b]
                 /\ InChannel(b, d)' \/ b \in dropped'[d] => d \in used' \ clients'
      <4>1. CASE d = ch
        BY <2>1, <2>2, <3>1, <4>1
      <4>2. CASE d # ch
        <5>1. ~ InChannel(b, d)' /\ b \notin dropped'[d]
          BY <2>1, <3>2, <4>2
        <5>. QED
          BY <2>1, <2>2, <5>1
      <4>. QED
        BY <4>1, <4>2
    <3>4. ASSUME NEW c \in Calls \ {b}, NEW d \in Chans
          PROVE  /\ InChannel(c, d)' <=> InChannel(c, d)
                 /\ c \in dropped'[d] <=> c \in dropped[d]
      BY <3>2
    <3>. QED
      BY <2>1, <3>2, <3>3, <3>4
  <2>4. CASE agentListeners[a] = NoChan
    <3>1. UNCHANGED <<sent, dropped>>
      BY <1>6, <2>4 DEF RouteResponse, chanVars
    <3>2. NoDuplicates' /\ \A c \in Calls, d \in Chans : InChannel(c, d)' <=> InChannel(c, d)
      BY <3>1 DEF NoDuplicates, InChannel
    <3>. QED
      BY <2>1, <2>2, <3>1, <3>2
  <2>. QED
    BY <2>3, <2>4
<1>7. ASSUME NEW a \in Agents, NEW ch \in Chans, ch \notin used, RegisterAgent(a, ch) PROVE AccountInv'
  BY <1>1, <1>7 DEF RegisterAgent, chanVars, callVars
<1>8. ASSUME NEW ch \in Chans, Unregister(ch) PROVE AccountInv'
  BY <1>1, <1>8 DEF Unregister, chanVars, callVars
<1>. QED
  BY <1>1, <1>2, <1>3, <1>4, <1>5, <1>6, <1>7, <1>8
     DEF Next, FreshChans, FreshCalls, vars, Receive, UnregisterAgent, registry, chanVars, callVars

(* Once a Broadcast has returned, each channel registered when it began    *)
(* holds the message once or dropped it, and no later channel has it.      *)
THEOREM NothingLostSilently == Spec => []Accounted
<1>1. Init => AccountInv
  BY DEF Init, AccountInv, NoDuplicates, InChannel
<1>2. TypeOK /\ SafeInv /\ AccountInv => Accounted
  BY DEF AccountInv, NoDuplicates, Accounted, SafeInv, RegistryInv
<1>. QED
  BY <1>1, <1>2, AccountStep, TypeCorrect, Safe, PTL DEF Spec

=============================================================================
