---------------------------- MODULE ProxyProofs ----------------------------
(***************************************************************************)
(* Proofs about Proxy for every set of proxies that share a tmux server,   *)
(* every set of hooks and every amount of output: who owns a tmux session, *)
(* what a proxy posts and in which order, and what the log makes of it.    *)
(***************************************************************************)
EXTENDS Proxy, TLAPS

(* A proxy before its PTY has no agent but one in a tmux session, and only *)
(* proxies that use tmux have a session.                                   *)
StartInv ==
  \A p \in Proxies :
    /\ pc[p] = "new" => ~ viaTmux[p] /\ agent[p] = "none"
    /\ pc[p] = "pty" => viaTmux[p] \/ agent[p] = "none"
    /\ p \in sessions => viaTmux[p]

(* The types of what starting and ending touch. *)
ProcessTypes ==
  /\ pc \in [Proxies -> {"new", "pty", "raw", "posting", "reading", "waiting",
                         "returning", "killing", "exited", "abandoned", "dead"}]
  /\ viaTmux \in [Proxies -> BOOLEAN]
  /\ agent \in [Proxies -> {"none", "running", "hungup", "exited"}]
  /\ sessions \subseteq Proxies

(* The inductive invariant. *)
ReapInv == ProcessTypes /\ StartInv /\ NothingLeftBehind

LEMMA ReapStep ==
  ASSUME ReapInv, [Next]_vars
  PROVE  ReapInv'
<1> USE DEF ReapInv, ProcessTypes, StartInv, NothingLeftBehind, Goto, agentVars
<1>1. ASSUME NEW p \in Proxies, StartTmuxSession(p) PROVE ReapInv'
  BY <1>1 DEF StartTmuxSession
<1>2. ASSUME NEW p \in Proxies, FallBack(p) PROVE ReapInv'
  BY <1>2 DEF FallBack
<1>3. ASSUME NEW p \in Proxies, StartPty(p) PROVE ReapInv'
  <2>1. CASE viaTmux[p]
    BY <1>3, <2>1 DEF StartPty
  <2>2. CASE ~ viaTmux[p]
    BY <1>3, <2>2 DEF StartPty
  <2>. QED
    BY <2>1, <2>2
<1>4. ASSUME NEW p \in Proxies, PtyFails(p) PROVE ReapInv'
  BY <1>4 DEF PtyFails
<1>5. ASSUME NEW p \in Proxies, MakeRawFails(p) PROVE ReapInv'
  BY <1>5 DEF MakeRawFails
<1>6. ASSUME NEW p \in Proxies, Answered(p) \/ PostFails(p) PROVE ReapInv'
  BY <1>6 DEF Answered, PostFails, AfterPost
<1>7. ASSUME NEW p \in Proxies, PostStart(p) \/ ReadChunk(p) \/ WaitEnds(p)
      PROVE  ReapInv'
  BY <1>7 DEF PostStart, ReadChunk, WaitEnds, Send
<1>8. ASSUME NEW p \in Proxies, ReadError(p) PROVE ReapInv'
  BY <1>8 DEF ReadError
<1>9. ASSUME NEW p \in Proxies, ClosePty(p) PROVE ReapInv'
  <2>1. CASE viaTmux[p]
    BY <1>9, <2>1 DEF ClosePty
  <2>2. CASE ~ viaTmux[p]
    BY <1>9, <2>2 DEF ClosePty, HangUp
  <2>. QED
    BY <2>1, <2>2
<1>10. ASSUME NEW p \in Proxies, KillSession(p) PROVE ReapInv'
  BY <1>10 DEF KillSession, HangUp
<1>18. ASSUME NEW p \in Proxies, KillFails(p) PROVE ReapInv'
  BY <1>18 DEF KillFails
<1>11. ASSUME NEW p \in Proxies, Killed(p) PROVE ReapInv'
  <2>1. /\ pc' = [pc EXCEPT ![p] = "dead"]
        /\ UNCHANGED <<viaTmux, sessions>>
    BY <1>11 DEF Killed
  <2>2. agent' = agent \/ HangUp(p)
    BY <1>11 DEF Killed
  <2>. QED
    BY <2>1, <2>2, <1>11 DEF Killed, HangUp
<1>12. ASSUME NEW p \in Proxies, AgentWrites(p) \/ TtyEnds(p) PROVE ReapInv'
  BY <1>12 DEF AgentWrites, TtyEnds
<1>13. ASSUME NEW p \in Proxies, AgentExits(p) PROVE ReapInv'
  BY <1>13 DEF AgentExits
<1>14. ASSUME NEW h \in Hooks, NEW p \in Proxies, StartHook(h, p) PROVE ReapInv'
  BY <1>14 DEF StartHook
<1>15. ASSUME NEW h \in Hooks, PostHook(h) PROVE ReapInv'
  BY <1>15 DEF PostHook
<1>16. ASSUME NEW i \in Posts, Store(i) \/ Refuse(i) PROVE ReapInv'
  BY <1>16 DEF Store, Refuse
<1>17. CASE UNCHANGED vars
  BY <1>17 DEF vars
<1>. QED
  BY <1>1, <1>2, <1>3, <1>4, <1>5, <1>6, <1>7, <1>8, <1>9, <1>10, <1>11, <1>12,
     <1>13, <1>14, <1>15, <1>16, <1>17, <1>18 DEF Next, ProxyStep

(* Whichever way a proxy returns, its tmux session is gone and its agent   *)
(* has no terminal, however many proxies share the tmux server, unless     *)
(* tmux failed to kill the session.                                        *)
THEOREM ReturnReaps == Spec => []NothingLeftBehind
<1>1. Init => ReapInv
  BY DEF Init, ReapInv, ProcessTypes, StartInv, NothingLeftBehind
<1>2. ReapInv => NothingLeftBehind
  BY DEF ReapInv
<1>. QED
  BY <1>1, <1>2, ReapStep, PTL DEF Spec

-----------------------------------------------------------------------------
(* Types. *)

(* An agent that runs has an id in its environment, so a hook has one: the *)
(* event it posts belongs to some agent.                                   *)
EnvInv ==
  /\ sessions # {} => tmuxEnv \in Proxies
  /\ \A p \in Proxies : agent[p] # "none" => env[p] \in Proxies
  /\ \A h \in Hooks : hookOf[h] # NoAgent => agent[hookOf[h]] # "none"
  /\ \A h \in Hooks : post[h] # "none" => hookOf[h] # NoAgent

Typed == TypeOK /\ EnvInv

(* The event of a request is one the store can take. *)
LEMMA EventTyped ==
  ASSUME Typed, NEW i \in Posts, post[i] = "sent"
  PROVE  /\ EventOf(i) \in Log!Event /\ EventOf(i).id = i
         /\ i \notin Hooks => /\ EventOf(i).agent = i[1]
                              /\ i[2] = End => EventOf(i).body = "done"
<1>1. CASE i \in Hooks
  <2>1. hookOf[i] \in Proxies /\ env[hookOf[i]] \in Proxies
    BY <1>1 DEF Typed, TypeOK, EnvInv
  <2>. QED
    BY <1>1, <2>1 DEF EventOf, Log!Event
<1>2. CASE i \notin Hooks
  <2>1. i[1] \in Proxies
    BY <1>2 DEF Posts
  <2>. QED
    BY <1>2, <2>1 DEF EventOf, Log!Event
<1>. QED
  BY <1>1, <1>2

(* What storing it does to the two tables. *)
LEMMA StoreFacts ==
  ASSUME Typed, NEW i \in Posts, Store(i)
  PROVE  /\ EventOf(i) \in Log!Event /\ EventOf(i).id = i
         /\ log' \in Seq(Log!Event)
         /\ DOMAIN log = 1 .. Len(log) /\ Len(log) \in Nat
         /\ DOMAIN log' = 1 .. Len(log) + 1
         /\ log'[Len(log) + 1] = EventOf(i)
         /\ \A j \in DOMAIN log : log'[j] = log[j] /\ log[j].id # i
         /\ agentState' = [agentState EXCEPT ![EventOf(i).agent] = EventOf(i).body]
<1>1. EventOf(i) \in Log!Event /\ EventOf(i).id = i
  BY EventTyped DEF Store
<1>2. /\ \A j \in DOMAIN log : log[j].id # i
      /\ log' = Append(log, EventOf(i))
      /\ agentState' = [agentState EXCEPT ![EventOf(i).agent] = EventOf(i).body]
  BY <1>1 DEF Store, Log!Record, Log!Unrecorded
<1>3. log \in Seq(Log!Event)
  BY DEF Typed, TypeOK, Log!TypeOK
<1>. QED
  BY <1>1, <1>2, <1>3

(* Hanging an agent up makes no difference to what has been started. *)
LEMMA HangUpFacts ==
  ASSUME Typed, NEW p \in Proxies, agent' = agent \/ HangUp(p)
  PROVE  /\ agent' \in [Proxies -> {"none", "running", "hungup", "exited"}]
         /\ \A q \in Proxies : agent'[q] = "none" <=> agent[q] = "none"
<1>1. agent \in [Proxies -> {"none", "running", "hungup", "exited"}]
  BY DEF Typed, TypeOK
<1>. QED
  BY <1>1 DEF HangUp

LEMMA TypedStep ==
  ASSUME Typed, [Next]_vars
  PROVE  Typed'
<1> USE ProxyAssumption DEF Typed, TypeOK, EnvInv, Goto, agentVars, storeVars,
        Log!TypeOK
<1>1. ASSUME NEW p \in Proxies, StartTmuxSession(p) PROVE Typed'
  <2>1. tmuxEnv' \in Proxies
    BY <1>1 DEF StartTmuxSession
  <2>. QED
    BY <1>1, <2>1 DEF StartTmuxSession
<1>2. ASSUME NEW p \in Proxies, FallBack(p) PROVE Typed'
  BY <1>2 DEF FallBack
<1>3. ASSUME NEW p \in Proxies, StartPty(p) PROVE Typed'
  <2>1. CASE viaTmux[p]
    BY <1>3, <2>1 DEF StartPty
  <2>2. CASE ~ viaTmux[p]
    <3>1. /\ agent' = [agent EXCEPT ![p] = "running"]
          /\ env' = [env EXCEPT ![p] = p]
          /\ UNCHANGED <<sessions, tmuxEnv, hookOf, post>>
      BY <1>3, <2>2 DEF StartPty
    <3>2. EnvInv'
      BY <3>1
    <3>. QED
      BY <1>3, <3>1, <3>2 DEF StartPty
  <2>. QED
    BY <2>1, <2>2
<1>4. ASSUME NEW p \in Proxies,
             PtyFails(p) \/ MakeRawFails(p) \/ ReadError(p) \/ KillFails(p)
      PROVE  Typed'
  <2>1. \/ Goto(p, "killing") \/ Goto(p, "exited") \/ Goto(p, "abandoned")
        \/ Goto(p, "returning") \/ Goto(p, "waiting")
    BY <1>4 DEF PtyFails, MakeRawFails, ReadError, KillFails
  <2>2. UNCHANGED <<current, viaTmux, agentVars, shown, hookOf, post, givenUp, storeVars>>
    BY <1>4 DEF PtyFails, MakeRawFails, ReadError, KillFails
  <2>3. pc' \in [Proxies -> {"new", "pty", "raw", "posting", "reading", "waiting",
                                "returning", "killing", "exited", "abandoned", "dead"}]
    BY <2>1
  <2>. QED
    BY <2>2, <2>3
<1>5. ASSUME NEW p \in Proxies, Answered(p) \/ PostFails(p) PROVE Typed'
  <2>1. /\ pc' \in [Proxies -> {"new", "pty", "raw", "posting", "reading", "waiting",
                                "returning", "killing", "exited", "abandoned", "dead"}]
        /\ UNCHANGED <<current, viaTmux, agentVars, shown, hookOf, post, storeVars>>
    BY <1>5 DEF Answered, PostFails, AfterPost
  <2>2. <<p, current[p]>> \in Posts
    BY DEF Posts
  <2>3. givenUp' \subseteq Posts
    BY <1>5, <2>2 DEF Answered, PostFails
  <2>. QED
    BY <2>1, <2>3
<1>6. ASSUME NEW p \in Proxies, NEW n \in Numbers, Send(p, n),
             UNCHANGED <<viaTmux, agentVars, hookOf, givenUp, storeVars>>,
             shown' \in [Proxies -> 0 .. MaxOutput]
      PROVE  Typed'
  <2>1. <<p, n>> \in Posts /\ <<p, n>> \notin Hooks
    BY DEF Posts
  <2>. QED
    BY <1>6, <2>1 DEF Send
<1>7. ASSUME NEW p \in Proxies, PostStart(p) PROVE Typed'
  BY <1>6, <1>7 DEF PostStart, Numbers, End
<1>8. ASSUME NEW p \in Proxies, ReadChunk(p) PROVE Typed'
  <2>1. shown[p] + 1 \in 0 .. MaxOutput /\ shown[p] + 1 \in Numbers
    BY <1>8 DEF ReadChunk, Numbers, End
  <2>2. shown'[p] = shown[p] + 1 /\ shown' \in [Proxies -> 0 .. MaxOutput]
    BY <1>8, <2>1 DEF ReadChunk
  <2>. QED
    BY <1>6, <1>8, <2>1, <2>2 DEF ReadChunk
<1>9. ASSUME NEW p \in Proxies, WaitEnds(p) PROVE Typed'
  BY <1>6, <1>9 DEF WaitEnds, Numbers, End
<1>10. ASSUME NEW p \in Proxies, ClosePty(p) \/ KillSession(p) PROVE Typed'
  <2>1. /\ agent' = agent \/ HangUp(p)
        /\ sessions' \subseteq sessions
        /\ UNCHANGED <<env, tmuxEnv, hookOf, post>>
    BY <1>10 DEF ClosePty, KillSession
  <2>2. EnvInv' /\ agent' \in [Proxies -> {"none", "running", "hungup", "exited"}]
    BY <2>1, HangUpFacts
  <2>3. /\ Goto(p, "killing") \/ Goto(p, "exited")
        /\ tty' \in [Proxies -> {"none", "open", "ended"}]
    BY <1>10 DEF ClosePty, KillSession
  <2>4. pc' \in [Proxies -> {"new", "pty", "raw", "posting", "reading", "waiting",
                                "returning", "killing", "exited", "abandoned", "dead"}]
    BY <2>3
  <2>5. UNCHANGED <<current, viaTmux, written, shown, givenUp, storeVars>>
    BY <1>10 DEF ClosePty, KillSession
  <2>. QED
    BY <2>1, <2>2, <2>3, <2>4, <2>5
<1>11. ASSUME NEW p \in Proxies, Killed(p) PROVE Typed'
  <2>1. <<p, current[p]>> \in Posts
    BY DEF Posts
  <2>2. givenUp' \subseteq Posts
    BY <1>11, <2>1 DEF Killed
  <2>3. /\ agent' = agent \/ HangUp(p)
        /\ tty' \in [Proxies -> {"none", "open", "ended"}]
        /\ UNCHANGED <<env, sessions, tmuxEnv, hookOf, post>>
    BY <1>11 DEF Killed
  <2>4. EnvInv' /\ agent' \in [Proxies -> {"none", "running", "hungup", "exited"}]
    BY <2>3, HangUpFacts
  <2>. QED
    BY <1>11, <2>2, <2>3, <2>4 DEF Killed
<1>12. ASSUME NEW p \in Proxies, AgentWrites(p) PROVE Typed'
  BY <1>12 DEF AgentWrites
<1>13. ASSUME NEW p \in Proxies, AgentExits(p) PROVE Typed'
  BY <1>13 DEF AgentExits
<1>19. ASSUME NEW p \in Proxies, TtyEnds(p) PROVE Typed'
  BY <1>19 DEF TtyEnds
<1>14. ASSUME NEW h \in Hooks, NEW p \in Proxies, StartHook(h, p) PROVE Typed'
  BY <1>14 DEF StartHook
<1>15. ASSUME NEW h \in Hooks, PostHook(h) PROVE Typed'
  BY <1>15 DEF PostHook, Posts
<1>16. ASSUME NEW i \in Posts, Store(i) PROVE Typed'
  <2>1. /\ log' \in Seq(Log!Event)
        /\ agentState' \in [Proxies -> {"active", "done"} \cup {NoRow}]
    <3>1. /\ EventOf(i) \in Log!Event
          /\ log' \in Seq(Log!Event)
          /\ agentState' = [agentState EXCEPT ![EventOf(i).agent] = EventOf(i).body]
      BY <1>16, StoreFacts
    <3>2. EventOf(i).agent \in Proxies /\ EventOf(i).body \in {"active", "done"}
      BY <3>1 DEF Log!Event
    <3>. QED
      BY <3>1, <3>2
  <2>. QED
    BY <1>16, <2>1 DEF Store
<1>17. ASSUME NEW i \in Posts, Refuse(i) PROVE Typed'
  BY <1>17 DEF Refuse
<1>18. CASE UNCHANGED vars
  BY <1>18 DEF vars
<1>. QED
  BY <1>1, <1>2, <1>3, <1>4, <1>5, <1>7, <1>8, <1>9, <1>10, <1>11, <1>12, <1>13,
     <1>14, <1>15, <1>16, <1>17, <1>18, <1>19 DEF Next, ProxyStep

LEMMA TypedAlways == Spec => []Typed
<1>1. Init => Typed
  BY ProxyAssumption DEF Init, Log!Init, Typed, TypeOK, EnvInv, Log!TypeOK, Posts, Numbers, End
<1>. QED
  BY <1>1, TypedStep, PTL DEF Spec

(* Every variable of the proxies keeps its type. *)
THEOREM TypeCorrect == Spec => []TypeOK
BY TypedAlways, PTL DEF Typed

-----------------------------------------------------------------------------
(* What proxies post. *)

Posted(p) == {n \in Numbers : post[<<p, n>>] # "none"}

AllPosted(p) == (0 .. shown[p]) \cup {End} \subseteq Posted(p)

(* What proxy p has posted, at each place it can be at. An event is under  *)
(* way only while its proxy waits for it, or once it has been given up.    *)
PostingAt(p) ==
  /\ pc[p] \in {"new", "pty", "raw"} => Posted(p) = {} /\ shown[p] = 0
  /\ pc[p] \in {"reading", "waiting"} => current[p] = shown[p]
  /\ pc[p] = "posting" => current[p] \in {shown[p], End} \cap Posted(p)
  /\ pc[p] \in {"posting", "reading", "waiting"} =>
       0 .. shown[p] \subseteq Posted(p) /\ \A n \in Posted(p) : n <= current[p]
  /\ pc[p] \in {"returning", "killing"} \cup Returned => Posted(p) = {} \/ AllPosted(p)
  /\ \A n \in Numbers : post[<<p, n>>] = "sent" =>
       <<p, n>> \in givenUp \/ (pc[p] = "posting" /\ current[p] = n)

PostingInv == \A p \in Proxies : PostingAt(p)

LEMMA PostingInit == Init => PostingInv
<1> SUFFICES ASSUME Init, NEW p \in Proxies PROVE PostingAt(p)
  BY DEF PostingInv
<1>1. pc[p] = "new" /\ shown[p] = 0 /\ \A n \in Numbers : post[<<p, n>>] = "none"
  BY DEF Init, Posts
<1>. QED
  BY <1>1 DEF PostingAt, Posted, Returned

(* A step that leaves the place, the output and the events of a proxy      *)
(* alone. An event stored, refused or given up is still posted.            *)
LEMMA PostingFrame ==
  ASSUME NEW p \in Proxies, PostingAt(p),
         pc'[p] = pc[p], current'[p] = current[p], shown'[p] = shown[p],
         \A n \in Numbers :
           /\ post'[<<p, n>>] = "none" <=> post[<<p, n>>] = "none"
           /\ post'[<<p, n>>] = "sent" => post[<<p, n>>] = "sent",
         givenUp \subseteq givenUp'
  PROVE  PostingAt(p)'
<1>1. Posted(p)' = Posted(p)
  BY DEF Posted
<1>. QED
  BY <1>1 DEF PostingAt, AllPosted

(* A proxy comes to another place without posting anything. *)
LEMMA PostingMoves ==
  ASSUME Typed, PostingInv, NEW p \in Proxies, NEW l, Goto(p, l),
         UNCHANGED <<current, shown, post>>, givenUp \subseteq givenUp',
         \/ pc[p] \in {"new", "pty"} /\ l \in {"pty", "raw"}
         \/ pc[p] = "reading" /\ l = "waiting"
         \/ pc[p] \in {"pty", "raw", "returning", "killing"}
              /\ l \in {"returning", "killing"} \cup Returned
         \/ pc[p] # "posting" /\ l = "dead"
         \/ /\ pc[p] = "posting"
            /\ <<p, current[p]>> \in givenUp' \/ post[<<p, current[p]>>] # "sent"
            /\ l = (IF current[p] = End THEN "returning" ELSE "reading") \/ l = "dead"
  PROVE  PostingInv'
<1>1. pc'[p] = l /\ \A q \in Proxies \ {p} : pc'[q] = pc[q]
  BY DEF Goto, Typed, TypeOK
<1>2. \A q \in Proxies : Posted(q)' = Posted(q)
  BY DEF Posted
<1>3. \A q \in Proxies \ {p} : PostingAt(q)'
  BY <1>1, PostingFrame DEF PostingInv
<1>4. PostingAt(p)'
  <2>1. \A n \in Numbers : post[<<p, n>>] = "sent" =>
          <<p, n>> \in givenUp \/ (pc[p] = "posting" /\ current[p] = n)
    BY DEF PostingInv, PostingAt
  <2>2. \A n \in Numbers : post'[<<p, n>>] = "sent" =>
          <<p, n>> \in givenUp' \/ (pc'[p] = "posting" /\ current'[p] = n)
    BY <1>1, <2>1
  <2>. QED
    BY <1>1, <1>2, <2>2 DEF PostingInv, PostingAt, AllPosted, Returned
<1>. QED
  BY <1>3, <1>4 DEF PostingInv

(* A proxy posts an event, which it has not posted before. *)
LEMMA PostingSends ==
  ASSUME Typed, PostingInv, NEW p \in Proxies, NEW n \in Numbers, Send(p, n),
         UNCHANGED givenUp, shown' \in [Proxies -> 0 .. MaxOutput],
         \A q \in Proxies \ {p} : shown'[q] = shown[q],
         \/ pc[p] = "raw" /\ n = 0 /\ shown'[p] = 0
         \/ pc[p] = "reading" /\ n = shown[p] + 1 /\ shown'[p] = n
         \/ pc[p] = "waiting" /\ n = End /\ shown'[p] = shown[p]
  PROVE  /\ PostingInv'
         /\ post[<<p, n>>] = "none"
<1>1. /\ pc'[p] = "posting" /\ current'[p] = n
      /\ \A q \in Proxies \ {p} : pc'[q] = pc[q] /\ current'[q] = current[q]
  BY DEF Send, Goto, Typed, TypeOK
<1>2. /\ post'[<<p, n>>] = "sent"
      /\ \A q \in Proxies, m \in Numbers :
           q # p \/ m # n => post'[<<q, m>>] = post[<<q, m>>]
  BY DEF Send, Typed, TypeOK, Posts
<1>3. \A q \in Proxies \ {p} : PostingAt(q)'
  <2>. TAKE q \in Proxies \ {p}
  <2>1. \A m \in Numbers : post'[<<q, m>>] = post[<<q, m>>]
    BY <1>2
  <2>. QED
    BY <1>1, <2>1, PostingFrame DEF PostingInv
<1>4. Posted(p)' = Posted(p) \cup {n}
  BY <1>2 DEF Posted
<1>5. /\ shown[p] \in 0 .. MaxOutput /\ shown'[p] \in 0 .. MaxOutput
      /\ MaxOutput \in Nat /\ End = MaxOutput + 1 /\ Numbers = 0 .. End
  BY ProxyAssumption DEF Typed, TypeOK, End, Numbers
<1>6. PostingAt(p)
  BY DEF PostingInv
<1>7. /\ \A m \in Posted(p) : m < n
      /\ 0 .. shown'[p] \subseteq Posted(p) \cup {n}
      /\ n \in {shown'[p], End}
  <2>1. CASE pc[p] = "raw" /\ n = 0 /\ shown'[p] = 0
    <3>1. Posted(p) = {}
      BY <1>6, <2>1 DEF PostingAt
    <3>. QED
      BY <2>1, <3>1
  <2>2. CASE pc[p] = "reading" /\ n = shown[p] + 1 /\ shown'[p] = n
    <3>1. 0 .. shown[p] \subseteq Posted(p) /\ \A m \in Posted(p) : m <= shown[p]
      BY <1>6, <2>2 DEF PostingAt
    <3>. QED
      BY <1>5, <2>2, <3>1 DEF Posted
  <2>3. CASE pc[p] = "waiting" /\ n = End /\ shown'[p] = shown[p]
    <3>1. 0 .. shown[p] \subseteq Posted(p) /\ \A m \in Posted(p) : m <= shown[p]
      BY <1>6, <2>3 DEF PostingAt
    <3>. QED
      BY <1>5, <2>3, <3>1 DEF Posted
  <2>. QED
    BY <2>1, <2>2, <2>3
<1>8. post[<<p, n>>] = "none"
  BY <1>5, <1>7 DEF Posted
<1>9. \A m \in Numbers : post'[<<p, m>>] = "sent" => <<p, m>> \in givenUp' \/ m = n
  BY <1>2, <1>5, <1>6 DEF PostingAt
<1>10. \A m \in Posted(p) \cup {n} : m <= n
  BY <1>5, <1>7 DEF Posted
<1>11. PostingAt(p)'
  BY <1>1, <1>4, <1>7, <1>9, <1>10 DEF PostingAt, Returned
<1>. QED
  BY <1>3, <1>8, <1>11 DEF PostingInv

LEMMA PostingStep ==
  ASSUME Typed, PostingInv, [Next]_vars
  PROVE  PostingInv'
<1> USE DEF agentVars, storeVars
<1>1. ASSUME NEW p \in Proxies, StartTmuxSession(p) PROVE PostingInv'
  BY <1>1, PostingMoves DEF StartTmuxSession
<1>2. ASSUME NEW p \in Proxies, FallBack(p) PROVE PostingInv'
  BY <1>2, PostingMoves DEF FallBack
<1>3. ASSUME NEW p \in Proxies, StartPty(p) PROVE PostingInv'
  BY <1>3, PostingMoves DEF StartPty
<1>4. ASSUME NEW p \in Proxies, PtyFails(p) PROVE PostingInv'
  <2>1. CASE viaTmux[p]
    BY <1>4, <2>1, PostingMoves DEF PtyFails
  <2>2. CASE ~ viaTmux[p]
    BY <1>4, <2>2, PostingMoves DEF PtyFails, Returned
  <2>. QED
    BY <2>1, <2>2
<1>5. ASSUME NEW p \in Proxies, MakeRawFails(p) PROVE PostingInv'
  BY <1>5, PostingMoves DEF MakeRawFails
<1>6. ASSUME NEW p \in Proxies, ReadError(p) PROVE PostingInv'
  BY <1>6, PostingMoves DEF ReadError
<1>7. ASSUME NEW p \in Proxies, Answered(p) PROVE PostingInv'
  <2>1. post[<<p, current[p]>>] # "sent" /\ UNCHANGED givenUp
    BY <1>7 DEF Answered
  <2>. QED
    BY <1>7, <2>1, PostingMoves DEF Answered, AfterPost
<1>8. ASSUME NEW p \in Proxies, PostFails(p) PROVE PostingInv'
  <2>1. <<p, current[p]>> \in givenUp' /\ givenUp \subseteq givenUp'
    BY <1>8 DEF PostFails
  <2>. QED
    BY <1>8, <2>1, PostingMoves DEF PostFails, AfterPost
<1>9. ASSUME NEW p \in Proxies, ClosePty(p) PROVE PostingInv'
  <2>1. Goto(p, "killing") \/ Goto(p, "exited")
    BY <1>9 DEF ClosePty
  <2>. QED
    BY <1>9, <2>1, PostingMoves DEF ClosePty, Returned
<1>10. ASSUME NEW p \in Proxies, KillSession(p) PROVE PostingInv'
  BY <1>10, PostingMoves DEF KillSession, Returned
<1>19. ASSUME NEW p \in Proxies, KillFails(p) PROVE PostingInv'
  BY <1>19, PostingMoves DEF KillFails, Returned
<1>11. ASSUME NEW p \in Proxies, Killed(p) PROVE PostingInv'
  <2>1. /\ Goto(p, "dead") /\ UNCHANGED <<current, shown, post>>
        /\ givenUp \subseteq givenUp'
        /\ pc[p] = "posting" => <<p, current[p]>> \in givenUp'
    BY <1>11 DEF Killed
  <2>. QED
    BY <2>1, PostingMoves
<1>12. ASSUME NEW p \in Proxies, PostStart(p) PROVE PostingInv'
  <2>1. shown[p] = 0 /\ 0 \in Numbers
    BY <1>12, ProxyAssumption DEF PostStart, PostingInv, PostingAt, Numbers, End
  <2>. QED
    BY <1>12, <2>1, PostingSends DEF PostStart, Typed, TypeOK
<1>13. ASSUME NEW p \in Proxies, ReadChunk(p) PROVE PostingInv'
  <2>1. /\ shown' = [shown EXCEPT ![p] = shown[p] + 1]
        /\ shown[p] + 1 \in 0 .. MaxOutput /\ shown[p] + 1 \in Numbers
    BY <1>13, ProxyAssumption DEF ReadChunk, Typed, TypeOK, Numbers, End
  <2>2. /\ shown' \in [Proxies -> 0 .. MaxOutput] /\ shown'[p] = shown[p] + 1
        /\ \A q \in Proxies \ {p} : shown'[q] = shown[q]
    BY <2>1 DEF Typed, TypeOK
  <2>. QED
    BY <1>13, <2>1, <2>2, PostingSends DEF ReadChunk
<1>14. ASSUME NEW p \in Proxies, WaitEnds(p) PROVE PostingInv'
  <2>1. End \in Numbers
    BY ProxyAssumption DEF Numbers, End
  <2>. QED
    BY <1>14, <2>1, PostingSends DEF WaitEnds, Typed, TypeOK
<1>15. ASSUME UNCHANGED <<pc, current, shown, givenUp>>,
              \A x \in Proxies \X Numbers :
                /\ post'[x] = "none" <=> post[x] = "none"
                /\ post'[x] = "sent" => post[x] = "sent"
       PROVE  PostingInv'
  BY <1>15, PostingFrame DEF PostingInv
<1>16. ASSUME NEW h \in Hooks, PostHook(h) PROVE PostingInv'
  BY <1>15, <1>16, ProxyAssumption DEF PostHook, Typed, TypeOK
<1>17. ASSUME NEW i \in Posts, Store(i) \/ Refuse(i) PROVE PostingInv'
  BY <1>15, <1>17, ProxyAssumption DEF Store, Refuse, Typed, TypeOK, Posts
<1>18. CASE UNCHANGED <<pc, current, shown, givenUp, post>>
  BY <1>15, <1>18
<1>. QED
  BY <1>1, <1>2, <1>3, <1>4, <1>5, <1>6, <1>7, <1>8, <1>9, <1>10, <1>11, <1>12,
     <1>13, <1>14, <1>16, <1>17, <1>18, <1>19
     DEF Next, ProxyStep, AgentWrites, AgentExits, TtyEnds, StartHook, vars

(* A proxy that returns after it posted session.start has posted all it    *)
(* showed and session.end, whatever its requests came to, however many     *)
(* proxies there are and however much their agents write.                  *)
THEOREM ReturnsReported == Spec => []ReturnReportsEnd
<1>1. PostingInv => ReturnReportsEnd
  <2> SUFFICES ASSUME PostingInv, NEW p \in Proxies, pc[p] \in Returned,
                      post[<<p, 0>>] # "none", NEW n \in (0 .. shown[p]) \cup {End}
               PROVE  post[<<p, n>>] # "none"
    BY DEF ReturnReportsEnd
  <2>1. 0 \in Posted(p)
    BY ProxyAssumption DEF Posted, Numbers, End
  <2>2. AllPosted(p)
    BY <2>1 DEF PostingInv, PostingAt
  <2>. QED
    BY <2>2 DEF AllPosted, Posted
<1>. QED
  BY <1>1, PostingInit, PostingStep, TypedAlways, PTL DEF Spec

-----------------------------------------------------------------------------
(* What the store has of it. *)

(* The rows of the events table are the events stored; what a proxy posts  *)
(* is filed under its own id, and the board's table is up to date.         *)
RowsInv ==
  /\ \A i \in DOMAIN log : post[log[i].id] = "stored"
  /\ \A i \in DOMAIN log : log[i].id \notin Hooks =>
       /\ log[i].agent = log[i].id[1]
       /\ log[i].id[2] = End => log[i].body = "done"
  /\ \A x \in Posts : post[x] = "stored" => \E i \in DOMAIN log : log[i].id = x
  /\ Log!RowIsLatest

LogInv == RowsInv /\ OwnEventsInOrder

LEMMA RowTyped ==
  ASSUME Typed, NEW i \in DOMAIN log
  PROVE  /\ log[i].id \in Posts /\ log[i].agent \in Proxies
         /\ log[i].id \notin Hooks =>
              /\ log[i].id \in Proxies \X Numbers
              /\ log[i].id[1] \in Proxies /\ log[i].id[2] \in Numbers
              /\ log[i].id = <<log[i].id[1], log[i].id[2]>>
<1>1. log[i] \in Log!Event
  BY DEF Typed, TypeOK, Log!TypeOK
<1>2. log[i].id \in Posts /\ log[i].agent \in Proxies
  BY <1>1 DEF Log!Event
<1>. QED
  BY <1>2 DEF Posts

(* A step that stores nothing. *)
LEMMA LogFrame ==
  ASSUME Typed, LogInv, UNCHANGED storeVars, givenUp \subseteq givenUp',
         \A x \in Posts : post'[x] = "stored" <=> post[x] = "stored"
  PROVE  LogInv'
<1>1. RowsInv'
  BY RowTyped DEF storeVars, LogInv, RowsInv, Log!RowIsLatest, Log!IsLatest
<1>2. OwnEventsInOrder'
  BY DEF storeVars, LogInv, OwnEventsInOrder, Straggler
<1>. QED
  BY <1>1, <1>2 DEF LogInv

LEMMA LogStore ==
  ASSUME Typed, PostingInv, LogInv, NEW x \in Posts, Store(x)
  PROVE  LogInv'
<1> DEFINE e == EventOf(x)
<1>0. PICK k : k = Len(log) + 1
  OBVIOUS
<1>1. /\ e \in Log!Event /\ e.id = x /\ e.agent \in Proxies
      /\ DOMAIN log = 1 .. k - 1 /\ k \in Nat \ {0}
      /\ DOMAIN log' = 1 .. k
      /\ log'[k] = e
      /\ \A j \in DOMAIN log : log'[j] = log[j] /\ log[j].id # x
      /\ agentState' = [agentState EXCEPT ![e.agent] = e.body]
  BY <1>0, StoreFacts DEF Log!Event
<1>2. /\ x \notin Hooks => e.agent = x[1] /\ (x[2] = End => e.body = "done")
  BY EventTyped DEF Store
<1>3. /\ post[x] = "sent" /\ post'[x] = "stored" /\ UNCHANGED givenUp
      /\ \A y \in Posts \ {x} : post'[y] = post[y]
  BY DEF Store, Typed, TypeOK
<1>. HIDE DEF e
<1>4. RowsInv'
  <2>1. \A i \in DOMAIN log' : post'[log'[i].id] = "stored"
    BY <1>1, <1>3, RowTyped DEF LogInv, RowsInv
  <2>2. \A i \in DOMAIN log' : log'[i].id \notin Hooks =>
          /\ log'[i].agent = log'[i].id[1]
          /\ log'[i].id[2] = End => log'[i].body = "done"
    BY <1>1, <1>2 DEF LogInv, RowsInv
  <2>3. \A y \in Posts : post'[y] = "stored" => \E i \in DOMAIN log' : log'[i].id = y
    <3> SUFFICES ASSUME NEW y \in Posts, post'[y] = "stored"
                 PROVE  \E i \in DOMAIN log' : log'[i].id = y
      OBVIOUS
    <3>1. CASE y = x
      BY <1>1, <3>1
    <3>2. CASE y # x
      <4>1. PICK i \in DOMAIN log : log[i].id = y
        BY <1>3, <3>2 DEF LogInv, RowsInv
      <4>. QED
        BY <1>1, <4>1
    <3>. QED
      BY <3>1, <3>2
  <2>4. Log!RowIsLatest'
    <3> SUFFICES ASSUME NEW a \in Proxies
                 PROVE  \/ /\ agentState'[a] = NoRow
                           /\ \A i \in DOMAIN log' : log'[i].agent # a
                        \/ \E i \in DOMAIN log' :
                             Log!IsLatest(i, a)' /\ agentState'[a] = log'[i].body
      BY DEF Log!RowIsLatest
    <3>1. CASE a = e.agent
      <4>1. Log!IsLatest(k, a)'
        BY <1>1, <3>1 DEF Log!IsLatest
      <4>2. agentState'[a] = log'[k].body
        BY <1>1, <3>1 DEF Typed, TypeOK, Log!TypeOK
      <4>. QED
        BY <1>1, <4>1, <4>2
    <3>2. CASE a # e.agent
      <4>1. agentState'[a] = agentState[a]
        BY <1>1, <3>2 DEF Typed, TypeOK, Log!TypeOK
      <4>2. \A i \in DOMAIN log : Log!IsLatest(i, a) => Log!IsLatest(i, a)'
        BY <1>1, <3>2 DEF Log!IsLatest
      <4>3. \/ /\ agentState[a] = NoRow
               /\ \A i \in DOMAIN log : log[i].agent # a
            \/ \E i \in DOMAIN log : Log!IsLatest(i, a) /\ agentState[a] = log[i].body
        BY DEF LogInv, RowsInv, Log!RowIsLatest
      <4>. QED
        BY <1>1, <3>2, <4>1, <4>2, <4>3
    <3>. QED
      BY <3>1, <3>2
  <2>. QED
    BY <2>1, <2>2, <2>3, <2>4 DEF RowsInv
<1>5. OwnEventsInOrder'
  <2> SUFFICES ASSUME NEW i \in DOMAIN log', NEW j \in DOMAIN log', i < j,
                      {log'[i].id, log'[j].id} \subseteq Proxies \X Numbers,
                      log'[i].agent = log'[j].agent
               PROVE  log'[i].id[2] < log'[j].id[2] \/ Straggler(j)'
    BY DEF OwnEventsInOrder
  <2>1. i \in DOMAIN log /\ log'[i] = log[i] /\ log[i].id # x
    BY <1>1
  <2>2. CASE j \in DOMAIN log
    <3>1. log'[j] = log[j]
      BY <1>1, <2>2
    <3>2. log[i].id[2] < log[j].id[2] \/ Straggler(j)
      BY <2>1, <2>2, <3>1 DEF LogInv, OwnEventsInOrder
    <3>. QED
      BY <1>3, <2>1, <3>1, <3>2 DEF Straggler
  <2>3. CASE j = k
    <3>1. log'[j].id = x /\ log'[j].agent = x[1]
      BY <1>1, <1>2, <2>3, ProxyAssumption
    <3>2. PICK p \in Proxies, n \in Numbers : x = <<p, n>>
      BY <3>1
    <3>3. PICK m \in Numbers : log[i].id = <<p, m>>
      <4>1. log[i].id \notin Hooks /\ log[i].agent = p
        BY <2>1, <3>1, <3>2, ProxyAssumption
      <4>. QED
        BY <2>1, <4>1, RowTyped DEF LogInv, RowsInv
    <3>4. m \in Posted(p)
      BY <2>1, <3>3 DEF Posted, LogInv, RowsInv
    <3>5. CASE x \in givenUp
      BY <1>3, <3>1, <3>5 DEF Straggler
    <3>6. CASE x \notin givenUp
      <4>1. pc[p] = "posting" /\ current[p] = n
        BY <1>3, <3>2, <3>6 DEF PostingInv, PostingAt
      <4>2. m <= n /\ m # n
        BY <2>1, <3>2, <3>3, <3>4, <4>1 DEF PostingInv, PostingAt
      <4>3. m \in Nat /\ n \in Nat
        BY DEF Numbers
      <4>. QED
        BY <2>1, <3>1, <3>2, <3>3, <4>2, <4>3
    <3>. QED
      BY <3>5, <3>6
  <2>. QED
    BY <1>1, <2>2, <2>3
<1>. QED
  BY <1>4, <1>5 DEF LogInv

LEMMA LogStep ==
  ASSUME Typed, PostingInv, LogInv, [Next]_vars
  PROVE  LogInv'
<1> USE DEF agentVars, storeVars
<1>1. ASSUME NEW p \in Proxies, NEW n \in Numbers, Send(p, n), post[<<p, n>>] = "none",
             UNCHANGED <<storeVars, givenUp>>
      PROVE  LogInv'
  <2>1. \A x \in Posts : post'[x] = "stored" <=> post[x] = "stored"
    BY <1>1 DEF Send, Typed, TypeOK, Posts
  <2>. QED
    BY <1>1, <2>1, LogFrame
<1>2. ASSUME NEW p \in Proxies, PostStart(p) PROVE LogInv'
  <2>1. 0 \in Numbers
    BY ProxyAssumption DEF Numbers, End
  <2>2. post[<<p, 0>>] = "none"
    BY <1>2, <2>1 DEF PostStart, PostingInv, PostingAt, Posted
  <2>. QED
    BY <1>1, <1>2, <2>1, <2>2 DEF PostStart
<1>3. ASSUME NEW p \in Proxies, ReadChunk(p) PROVE LogInv'
  <2>1. /\ shown'[p] = shown[p] + 1
        /\ shown[p] \in Nat /\ shown[p] + 1 \in Numbers
    BY <1>3, ProxyAssumption DEF ReadChunk, Typed, TypeOK, Numbers, End
  <2>2. \A n \in Posted(p) : n <= shown[p]
    BY <1>3 DEF ReadChunk, PostingInv, PostingAt
  <2>3. post[<<p, shown[p] + 1>>] = "none"
    BY <2>1, <2>2 DEF Posted
  <2>. QED
    BY <1>1, <1>3, <2>1, <2>3 DEF ReadChunk
<1>4. ASSUME NEW p \in Proxies, WaitEnds(p) PROVE LogInv'
  <2>1. shown[p] \in 0 .. MaxOutput /\ End \in Numbers
    BY ProxyAssumption DEF Typed, TypeOK, Numbers, End
  <2>2. \A n \in Posted(p) : n <= shown[p]
    BY <1>4 DEF WaitEnds, PostingInv, PostingAt
  <2>3. post[<<p, End>>] = "none"
    BY <2>1, <2>2, ProxyAssumption DEF Posted, End
  <2>. QED
    BY <1>1, <1>4, <2>1, <2>3 DEF WaitEnds
<1>5. ASSUME NEW p \in Proxies, PostFails(p) \/ Killed(p) PROVE LogInv'
  <2>1. UNCHANGED <<storeVars, post>> /\ givenUp \subseteq givenUp'
    BY <1>5 DEF PostFails, Killed
  <2>. QED
    BY <2>1, LogFrame
<1>6. ASSUME NEW h \in Hooks, PostHook(h) PROVE LogInv'
  <2>1. \A x \in Posts : post'[x] = "stored" <=> post[x] = "stored"
    BY <1>6 DEF PostHook, Typed, TypeOK
  <2>. QED
    BY <1>6, <2>1, LogFrame DEF PostHook
<1>7. ASSUME NEW i \in Posts, Refuse(i) PROVE LogInv'
  <2>1. \A x \in Posts : post'[x] = "stored" <=> post[x] = "stored"
    BY <1>7 DEF Refuse, Typed, TypeOK
  <2>. QED
    BY <1>7, <2>1, LogFrame DEF Refuse
<1>8. CASE UNCHANGED <<storeVars, givenUp, post>>
  BY <1>8, LogFrame
<1>. QED
  BY <1>2, <1>3, <1>4, <1>5, <1>6, <1>7, <1>8, LogStore
     DEF Next, ProxyStep, KillFails, StartTmuxSession, FallBack, StartPty, PtyFails,
         MakeRawFails, Answered, ReadError, ClosePty, KillSession, AgentWrites,
         AgentExits, TtyEnds, StartHook, vars

LEMMA LogInvariant == Spec => []LogInv
<1>1. Init => LogInv
  BY DEF Init, Log!Init, LogInv, RowsInv, OwnEventsInOrder, Log!RowIsLatest
<1>. QED
  BY <1>1, LogStep, TypedAlways, PostingInit, PostingStep, PTL DEF Spec

(* The events of a proxy are stored in the order it posted them, but for   *)
(* those it had given up: its requests follow one another, although any of *)
(* them may reach the store long after it has failed.                      *)
THEOREM OwnEventsOrdered == Spec => []OwnEventsInOrder
BY LogInvariant, PTL DEF LogInv

(* The row of an agent whose session.end is stored says done, unless the   *)
(* last event stored of it is a hook's or one given up.                    *)
THEOREM DoneStays == Spec => []DoneUnlessStraggler
<1>1. Typed /\ LogInv => DoneUnlessStraggler
  <2> SUFFICES ASSUME Typed, LogInv, NEW p \in Proxies, post[<<p, End>>] = "stored"
               PROVE  \/ agentState[p] = "done"
                      \/ \E i \in DOMAIN log : Log!IsLatest(i, p) /\ Straggler(i)
    BY DEF DoneUnlessStraggler
  <2>1. End \in Numbers /\ End \in Nat /\ <<p, End>> \in Posts /\ <<p, End>> \notin Hooks
    BY ProxyAssumption DEF Posts, Numbers, End
  <2>2. PICK k \in DOMAIN log : log[k].id = <<p, End>>
    BY <2>1 DEF LogInv, RowsInv
  <2>3. log[k].agent = p /\ log[k].body = "done"
    BY <2>1, <2>2 DEF LogInv, RowsInv
  <2>4. PICK l \in DOMAIN log : Log!IsLatest(l, p) /\ agentState[p] = log[l].body
    BY <2>3 DEF LogInv, RowsInv, Log!RowIsLatest
  <2>5. k <= l /\ log[l].agent = p
    <3>1. k \in Nat /\ l \in Nat
      BY DEF Typed, TypeOK, Log!TypeOK
    <3>. QED
      BY <2>3, <2>4, <3>1 DEF Log!IsLatest
  <2>6. CASE k = l
    BY <2>3, <2>4, <2>6
  <2>7. CASE k # l /\ log[l].id \in Hooks
    BY <2>4, <2>7 DEF Straggler
  <2>8. CASE k # l /\ log[l].id \notin Hooks
    <3>1. log[l].id \in Proxies \X Numbers /\ log[l].id[2] \in Numbers
      BY <2>8, RowTyped
    <3>2. k < l
      BY <2>5, <2>8 DEF Typed, TypeOK, Log!TypeOK
    <3>3. End < log[l].id[2] \/ Straggler(l)
      BY <2>1, <2>2, <2>3, <2>5, <3>1, <3>2 DEF LogInv, OwnEventsInOrder
    <3>4. log[l].id[2] \in Nat /\ log[l].id[2] <= End
      BY <2>1, <3>1 DEF Numbers
    <3>. QED
      BY <2>1, <2>4, <3>3, <3>4
  <2>. QED
    BY <2>6, <2>7, <2>8
<1>. QED
  BY <1>1, LogInvariant, TypedAlways, PTL

=============================================================================
