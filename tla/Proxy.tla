------------------------------- MODULE Proxy -------------------------------
(***************************************************************************)
(* awayteam agent (internal/agent/proxy.go): each proxy runs one agent in  *)
(* a pseudo-terminal, by way of a tmux session where there is tmux, copies *)
(* the agent's output to the local terminal and posts it, event by event,  *)
(* to the server. Hooks (internal/hook/hook.go) are processes the agents   *)
(* start; each posts one event under the id in its environment.            *)
(*                                                                         *)
(* A proxy is also the name of its agent and the id of that agent. The     *)
(* events a proxy posts are numbered: 0 is session.start, then come the    *)
(* chunks of output, and End is session.end. The event is named by the     *)
(* proxy and the number, or by the hook that posts it.                     *)
(***************************************************************************)
EXTENDS Naturals, Sequences

CONSTANTS
  Proxies,
  Hooks,      (* hook processes                                            *)
  NoAgent,    (* no id in the environment                                  *)
  NoRow,
  MaxOutput   (* bound: chunks of output an agent writes                   *)

End == MaxOutput + 1
Numbers == 0 .. End
Posts == (Proxies \X Numbers) \cup Hooks

ASSUME ProxyAssumption ==
  /\ MaxOutput \in Nat
  /\ NoAgent \notin Proxies
  /\ NoRow \notin {"active", "done"}
  /\ Hooks \cap (Proxies \X Numbers) = {}

VARIABLES
  pc,         (* where RunProxy is                                         *)
  current,    (* the number of the event it is posting or posted last      *)
  viaTmux,    (* useTmux                                                   *)
  agent,      (* none, running, hungup (lost its terminal) or exited       *)
  env,        (* AWAYTEAM_AGENT_ID in the environment of each agent        *)
  sessions,   (* agents whose tmux session lives                           *)
  tmuxEnv,    (* AWAYTEAM_AGENT_ID in the environment of the tmux server   *)
  tty,        (* the PTY: none, open, ended (reads fail with EIO)          *)
  written,    (* chunks of output that reached the PTY                     *)
  shown,      (* and how many of them the local terminal has shown         *)
  hookOf,     (* the agent that started each hook, or NoAgent              *)
  post,       (* of each event: none, sent, stored or refused              *)
  givenUp,    (* history: events whose request failed for its sender       *)
  log, agentState  (* the store                                            *)

agentVars == <<agent, env, sessions, tmuxEnv, tty, written>>
storeVars == <<log, agentState>>
vars == <<pc, current, viaTmux, agentVars, shown, hookOf, post, givenUp, storeVars>>

Log == INSTANCE EventLog WITH Ids <- Posts, Agents <- Proxies,
                              Bodies <- {"active", "done"}

Init ==
  /\ pc = [p \in Proxies |-> "new"]
  /\ current = [p \in Proxies |-> 0]
  /\ viaTmux = [p \in Proxies |-> FALSE]
  /\ agent = [p \in Proxies |-> "none"]
  /\ env = [p \in Proxies |-> NoAgent]
  /\ sessions = {} /\ tmuxEnv = NoAgent
  /\ tty = [p \in Proxies |-> "none"]
  /\ written = [p \in Proxies |-> 0]
  /\ shown = [p \in Proxies |-> 0]
  /\ hookOf = [h \in Hooks |-> NoAgent]
  /\ post = [i \in Posts |-> "none"]
  /\ givenUp = {}
  /\ Log!Init

(* RunProxy has returned; abandoned: its session could not be killed. *)
Returned == {"exited", "abandoned"}

Goto(p, l) == pc' = [pc EXCEPT ![p] = l]

-----------------------------------------------------------------------------
(* Starting the agent. *)

(* tmux new-session succeeds. The first session starts the tmux server,    *)
(* which keeps the environment it is started with; the command of a        *)
(* session gets the server's environment, whoever asked for the session.   *)
StartTmuxSession(p) ==
  /\ pc[p] = "new"
  /\ tmuxEnv' = IF sessions = {} THEN p ELSE tmuxEnv
  /\ sessions' = sessions \cup {p}
  /\ env' = [env EXCEPT ![p] = tmuxEnv']
  /\ agent' = [agent EXCEPT ![p] = "running"]
  /\ viaTmux' = [viaTmux EXCEPT ![p] = TRUE]
  /\ Goto(p, "pty")
  /\ UNCHANGED <<current, tty, written, shown, hookOf, post, givenUp, storeVars>>

(* There is no tmux, or new-session fails. *)
FallBack(p) ==
  /\ pc[p] = "new"
  /\ Goto(p, "pty")
  /\ UNCHANGED <<current, viaTmux, agentVars, shown, hookOf, post, givenUp, storeVars>>

(* pty.Start runs the agent itself, or a tmux client. *)
StartPty(p) ==
  /\ pc[p] = "pty"
  /\ tty' = [tty EXCEPT ![p] = "open"]
  /\ IF viaTmux[p]
       THEN UNCHANGED <<agent, env>>
       ELSE /\ agent' = [agent EXCEPT ![p] = "running"]
            /\ env' = [env EXCEPT ![p] = p]
  /\ Goto(p, "raw")
  /\ UNCHANGED <<current, viaTmux, sessions, tmuxEnv, written, shown, hookOf,
                 post, givenUp, storeVars>>

(* Faulty variant: the session is only killed once there is a PTY.         *)
PtyFailsUndeferred(p) ==
  /\ pc[p] = "pty"
  /\ Goto(p, "exited")
  /\ UNCHANGED <<current, viaTmux, agentVars, shown, hookOf, post, givenUp, storeVars>>

(* pty.Start fails: RunProxy returns, with the kill of the session         *)
(* deferred already.                                                       *)
PtyFails(p) ==
  /\ pc[p] = "pty"
  /\ Goto(p, IF viaTmux[p] THEN "killing" ELSE "exited")
  /\ UNCHANGED <<current, viaTmux, agentVars, shown, hookOf, post, givenUp, storeVars>>

MakeRawFails(p) ==
  /\ pc[p] = "raw"
  /\ Goto(p, "returning")
  /\ UNCHANGED <<current, viaTmux, agentVars, shown, hookOf, post, givenUp, storeVars>>

-----------------------------------------------------------------------------
(* postEvent: it returns when the server answers or the request fails; in  *)
(* the latter case the server may have the event and store it later.       *)

Send(p, n) ==
  /\ current' = [current EXCEPT ![p] = n]
  /\ post' = [post EXCEPT ![<<p, n>>] = "sent"]
  /\ Goto(p, "posting")

AfterPost(p) == Goto(p, IF current[p] = End THEN "returning" ELSE "reading")

Answered(p) ==
  /\ pc[p] = "posting"
  /\ post[<<p, current[p]>>] \in {"stored", "refused"}
  /\ AfterPost(p)
  /\ UNCHANGED <<current, viaTmux, agentVars, shown, hookOf, post, givenUp, storeVars>>

PostFails(p) ==
  /\ pc[p] = "posting"
  /\ givenUp' = givenUp \cup {<<p, current[p]>>}
  /\ AfterPost(p)
  /\ UNCHANGED <<current, viaTmux, agentVars, shown, hookOf, post, storeVars>>

-----------------------------------------------------------------------------
(* The body of RunProxy. *)

(* MakeRaw succeeds, and session.start is posted. *)
PostStart(p) ==
  /\ pc[p] = "raw"
  /\ Send(p, 0)
  /\ UNCHANGED <<viaTmux, agentVars, shown, hookOf, givenUp, storeVars>>

(* Faulty variant: a chunk is posted from a goroutine of its own. *)
ReadAndGo(p) ==
  /\ pc[p] = "reading"
  /\ shown[p] < written[p]
  /\ shown' = [shown EXCEPT ![p] = @ + 1]
  /\ post' = [post EXCEPT ![<<p, shown'[p]>>] = "sent"]
  /\ UNCHANGED <<pc, current, viaTmux, agentVars, hookOf, givenUp, storeVars>>

(* Faulty variant: n > 0 is not tested. *)
ReadNothing(p) ==
  /\ pc[p] = "reading"
  /\ shown' = [shown EXCEPT ![p] = @ + 1]
  /\ Send(p, shown'[p])
  /\ UNCHANGED <<viaTmux, agentVars, hookOf, givenUp, storeVars>>

(* A chunk is read, shown, and posted as output.stream. *)
ReadChunk(p) ==
  /\ pc[p] = "reading"
  /\ shown[p] < written[p]
  /\ shown' = [shown EXCEPT ![p] = @ + 1]
  /\ Send(p, shown'[p])
  /\ UNCHANGED <<viaTmux, agentVars, hookOf, givenUp, storeVars>>

(* Faulty variant: the loop ends with what the PTY still holds. *)
ReadErrorEarly(p) ==
  /\ pc[p] = "reading"
  /\ tty[p] = "ended"
  /\ Goto(p, "waiting")
  /\ UNCHANGED <<current, viaTmux, agentVars, shown, hookOf, post, givenUp, storeVars>>

(* Faulty variant: EIO is logged like any other error, and the loop goes   *)
(* on.                                                                     *)
ReadErrorLogged(p) ==
  /\ pc[p] = "reading"
  /\ tty[p] = "ended" /\ shown[p] = written[p]
  /\ UNCHANGED vars

(* Faulty variant: an error ends RunProxy as if it had not begun. *)
ReturnOnReadError(p) ==
  /\ pc[p] = "reading"
  /\ tty[p] = "ended" /\ shown[p] = written[p]
  /\ Goto(p, "returning")
  /\ UNCHANGED <<current, viaTmux, agentVars, shown, hookOf, post, givenUp, storeVars>>

(* EIO, after what the PTY still held: the loop ends. *)
ReadError(p) ==
  /\ pc[p] = "reading"
  /\ tty[p] = "ended" /\ shown[p] = written[p]
  /\ Goto(p, "waiting")
  /\ UNCHANGED <<current, viaTmux, agentVars, shown, hookOf, post, givenUp, storeVars>>

(* cmd.Wait returns: the agent, or the tmux client, has ended. *)
WaitEnds(p) ==
  /\ pc[p] = "waiting"
  /\ viaTmux[p] \/ agent[p] = "exited"
  /\ Send(p, End)
  /\ UNCHANGED <<viaTmux, agentVars, shown, hookOf, givenUp, storeVars>>

(* Without a terminal, an agent that was running is hung up. *)
HangUp(p) == agent' = [agent EXCEPT ![p] = IF @ = "running" THEN "hungup" ELSE @]

(* The deferred calls: the PTY is closed, then the session killed. *)
ClosePty(p) ==
  /\ pc[p] = "returning"
  /\ tty' = [tty EXCEPT ![p] = "ended"]
  /\ IF viaTmux[p]
       THEN Goto(p, "killing") /\ UNCHANGED agent
       ELSE Goto(p, "exited") /\ HangUp(p)
  /\ UNCHANGED <<current, viaTmux, env, sessions, tmuxEnv, written, shown,
                 hookOf, post, givenUp, storeVars>>

KillSession(p) ==
  /\ pc[p] = "killing"
  /\ sessions' = sessions \ {p}
  /\ HangUp(p)
  /\ Goto(p, "exited")
  /\ UNCHANGED <<current, viaTmux, env, tmuxEnv, tty, written, shown,
                 hookOf, post, givenUp, storeVars>>

(* kill-session fails while the session lives: the error is ignored.       *)
KillFails(p) ==
  /\ pc[p] = "killing"
  /\ p \in sessions
  /\ Goto(p, "abandoned")
  /\ UNCHANGED <<current, viaTmux, agentVars, shown, hookOf, post, givenUp, storeVars>>

(* A signal ends the proxy: nothing deferred runs, and the kernel closes   *)
(* the PTY. A request under way is cut off.                                *)
Killed(p) ==
  /\ pc[p] \notin Returned \cup {"new", "dead"}
  /\ Goto(p, "dead")
  /\ givenUp' = IF pc[p] = "posting" THEN givenUp \cup {<<p, current[p]>>} ELSE givenUp
  /\ IF tty[p] = "open"
       THEN /\ tty' = [tty EXCEPT ![p] = "ended"]
            /\ IF viaTmux[p] THEN UNCHANGED agent ELSE HangUp(p)
       ELSE UNCHANGED <<tty, agent>>
  /\ UNCHANGED <<current, viaTmux, env, sessions, tmuxEnv, written, shown,
                 hookOf, post, storeVars>>

-----------------------------------------------------------------------------
(* The agent, its terminal and its hooks. *)

AgentWrites(p) ==
  /\ agent[p] = "running" /\ tty[p] = "open"
  /\ written[p] < MaxOutput
  /\ written' = [written EXCEPT ![p] = @ + 1]
  /\ UNCHANGED <<pc, current, viaTmux, agent, env, sessions, tmuxEnv, tty, shown,
                 hookOf, post, givenUp, storeVars>>

(* The agent exits; its tmux session, if it has one, ends with it. *)
AgentExits(p) ==
  /\ agent[p] \in {"running", "hungup"}
  /\ agent' = [agent EXCEPT ![p] = "exited"]
  /\ sessions' = sessions \ {p}
  /\ UNCHANGED <<pc, current, viaTmux, env, tmuxEnv, tty, written, shown,
                 hookOf, post, givenUp, storeVars>>

(* Nobody has the terminal open any more: the agent and what it started    *)
(* have let go of it; or the user detached from the session, or it ended.  *)
TtyEnds(p) ==
  /\ tty[p] = "open"
  /\ tty' = [tty EXCEPT ![p] = "ended"]
  /\ UNCHANGED <<pc, current, viaTmux, agent, env, sessions, tmuxEnv, written,
                 shown, hookOf, post, givenUp, storeVars>>

StartHook(h, p) ==
  /\ hookOf[h] = NoAgent
  /\ agent[p] \in {"running", "hungup"}
  /\ hookOf' = [hookOf EXCEPT ![h] = p]
  /\ UNCHANGED <<pc, current, viaTmux, agentVars, shown, post, givenUp, storeVars>>

(* ProcessHook reaches its post, which may be long after it was started.   *)
PostHook(h) ==
  /\ hookOf[h] # NoAgent
  /\ post[h] = "none"
  /\ post' = [post EXCEPT ![h] = "sent"]
  /\ UNCHANGED <<pc, current, viaTmux, agentVars, shown, hookOf, givenUp, storeVars>>

-----------------------------------------------------------------------------
(* The server. *)

(* The event behind a request: newEvent, and the envelope of ProcessHook.  *)
EventOf(i) ==
  [id    |-> i,
   agent |-> IF i \in Hooks THEN env[hookOf[i]] ELSE i[1],
   body  |-> IF i \notin Hooks /\ i[2] = End THEN "done" ELSE "active"]

Store(i) ==
  /\ post[i] = "sent"
  /\ Log!Record(EventOf(i))
  /\ post' = [post EXCEPT ![i] = "stored"]
  /\ UNCHANGED <<pc, current, viaTmux, agentVars, shown, hookOf, givenUp>>

(* The request is answered with an error. *)
Refuse(i) ==
  /\ post[i] = "sent"
  /\ post' = [post EXCEPT ![i] = "refused"]
  /\ UNCHANGED <<pc, current, viaTmux, agentVars, shown, hookOf, givenUp, storeVars>>

ProxyStep(p) ==
  \/ StartPty(p) \/ PtyFails(p)
  \/ MakeRawFails(p) \/ PostStart(p)
  \/ ReadChunk(p) \/ ReadError(p) \/ WaitEnds(p)
  \/ ClosePty(p) \/ KillSession(p) \/ KillFails(p)

Next ==
  \/ \E p \in Proxies :
       \/ StartTmuxSession(p) \/ FallBack(p)
       \/ ProxyStep(p) \/ Answered(p) \/ PostFails(p) \/ Killed(p)
       \/ AgentWrites(p) \/ AgentExits(p) \/ TtyEnds(p)
       \/ \E h \in Hooks : StartHook(h, p)
  \/ \E h \in Hooks : PostHook(h)
  \/ \E i \in Posts : Store(i) \/ Refuse(i)

Spec == Init /\ [][Next]_vars

(* A proxy that can run does, and takes an answer it is given. Nobody has  *)
(* to answer: http.Post has no timeout, so a request may wait for ever.    *)
FairSpec ==
  Spec /\ \A p \in Proxies : WF_vars(ProxyStep(p)) /\ WF_vars(Answered(p))

-----------------------------------------------------------------------------

TypeOK ==
  /\ Log!TypeOK
  /\ pc \in [Proxies -> {"new", "pty", "raw", "posting", "reading", "waiting",
                         "returning", "killing", "exited", "abandoned", "dead"}]
  /\ current \in [Proxies -> Numbers]
  /\ viaTmux \in [Proxies -> BOOLEAN]
  /\ agent \in [Proxies -> {"none", "running", "hungup", "exited"}]
  /\ env \in [Proxies -> Proxies \cup {NoAgent}]
  /\ sessions \subseteq Proxies /\ tmuxEnv \in Proxies \cup {NoAgent}
  /\ tty \in [Proxies -> {"none", "open", "ended"}]
  /\ written \in [Proxies -> 0 .. MaxOutput] /\ shown \in [Proxies -> 0 .. MaxOutput]
  /\ hookOf \in [Hooks -> Proxies \cup {NoAgent}]
  /\ post \in [Posts -> {"none", "sent", "stored", "refused"}]
  /\ givenUp \subseteq Posts

Straggler(i) == log[i].id \in Hooks \cup givenUp

(* The events of a proxy are stored in the order it posted them, with      *)
(* session.end last: only one whose request had already failed can be late *)
(* (proxy.go:151-179, 200-210).                                            *)
OwnEventsInOrder ==
  \A i, j \in DOMAIN log :
    i < j /\ {log[i].id, log[j].id} \subseteq Proxies \X Numbers
          /\ log[i].agent = log[j].agent
      => log[i].id[2] < log[j].id[2] \/ Straggler(j)

(* Once session.end is stored the agent's row is done, unless a hook or a  *)
(* request that had failed brought an event of that agent later            *)
(* (hook.go:76-97, proxy.go:179).                                          *)
DoneUnlessStraggler ==
  \A p \in Proxies : post[<<p, End>>] = "stored" =>
    \/ agentState[p] = "done"
    \/ \E i \in DOMAIN log : Log!IsLatest(i, p) /\ Straggler(i)

(* A proxy that returns, by whichever path, leaves behind no tmux session  *)
(* and no agent with a terminal, unless tmux fails to kill the session,    *)
(* although the two may have ended, or been detached, at any moment before *)
(* (proxy.go:83-111, 279-283).                                             *)
NothingLeftBehind ==
  \A p \in Proxies : pc[p] = "exited" => p \notin sessions /\ agent[p] # "running"

(* A proxy that returns after it posted session.start has posted the whole *)
(* output it showed and session.end as well (proxy.go:151-179).            *)
ReturnReportsEnd ==
  \A p \in Proxies : pc[p] \in Returned /\ post[<<p, 0>>] # "none" =>
    \A n \in (0 .. shown[p]) \cup {End} : post[<<p, n>>] # "none"

(* The requests of a proxy return, one way or the other. postEvent itself  *)
(* does not see to it: its client has no timeout (proxy.go:205).           *)
RequestsReturn(p) == []<>(pc[p] # "posting")

(* A proxy whose agent is gone, or was detached from, comes to its end,    *)
(* whatever it has still to show and to post, if its requests return       *)
(* (proxy.go:151-181).                                                     *)
ProxyFinishes ==
  \A p \in Proxies :
    RequestsReturn(p) =>
      ((pc[p] = "reading" /\ tty[p] = "ended" /\ (viaTmux[p] \/ agent[p] = "exited"))
         ~> pc[p] \in Returned \cup {"dead"})

NextShown(p) ==
  (pc[p] \in {"reading", "posting"} /\ shown[p] < written[p])
    ~> (shown[p] = written[p] \/ pc[p] = "dead")

(* All the agent has written is shown in the terminal, up to the end of    *)
(* the PTY, while the requests of the proxy return (proxy.go:151-169).     *)
OutputShownWhileAnswered == \A p \in Proxies : RequestsReturn(p) => NextShown(p)

(* The design says that without the server the agent works normally in the *)
(* terminal: what the agent writes is shown, whatever the server does.     *)
OutputShown == \A p \in Proxies : NextShown(p)

(* The README says that the proxy sets AWAYTEAM_AGENT_ID on its agent so   *)
(* that hooks can correlate events: the event of a hook belongs to the     *)
(* agent that started the hook (proxy.go:38-42, 247-276).                  *)
HooksCorrelate ==
  \A i \in DOMAIN log : log[i].id \in Hooks => log[i].agent = hookOf[log[i].id]

=============================================================================
