---------------------------- MODULE Conversation ----------------------------
(***************************************************************************)
(* The event list of an agent in the page: GET /api/v1/agents/{id}/events  *)
(* (handlers.go, sqlite.go), the fetch of the conversation page (page.tsx) *)
(* and the lists the page keeps of every agent (agents.ts).                *)
(*                                                                         *)
(* A list is fed by live frames, which are appended, and by fetches, which *)
(* replace it. The database orders events by the text of their timestamps. *)
(* A moment is a number of ticks; its text is a second and the digits of   *)
(* the fraction, trailing zeros removed. recentEvents, which no component  *)
(* reads, is left out.                                                     *)
(***************************************************************************)
EXTENDS Naturals, Sequences, SequencesExt, FiniteSetsExt

CONSTANTS
  Agents, Events,
  Kinds,          (* the types of event there are                          *)
  Moments,        (* timestamps, in ticks                                  *)
  Base, Digits,   (* of the fraction of a second: 10 and 9 in the code     *)
  Limit,          (* events a fetch asks for (500)                         *)
  MaxListed,      (* MAX_EVENTS_PER_AGENT (500)                            *)
  Feeds,          (* sockets that deliver frames (1 unless Reconnect has   *)
                  (* more than one chain)                                  *)
  MaxVisits,      (* bound: visits to conversation pages                   *)
  NoInfo

ASSUME ConversationAssumption ==
  /\ Moments \subseteq Nat /\ Base \in Nat \ {0, 1} /\ Digits \in Nat
  /\ Agents # {}
  /\ Limit \in Nat \ {0} /\ MaxListed \in Nat /\ Limit <= MaxListed
  /\ Feeds \in Nat \ {0} /\ MaxVisits \in Nat
  /\ NoInfo \notin Events
  /\ Kinds \subseteq {"session.start", "output.stream", "question.asked", "other"}

Visits == 1 .. MaxVisits

VARIABLES
  db,       (* the events saved, each with its agent, kind and moment      *)
  frames,   (* of each event: copies broadcast and not yet handled or lost *)
  visited,  (* visits so far, each with a fetch                            *)
  fetch,    (* of each visit: none, asked, read, applied or failed         *)
  target,   (* the agent whose events it fetches                           *)
  answer,   (* what the server read for it, until the page has it          *)
  seen,     (* history: the events in the database when it read            *)
  list,     (* agentEvents                                                 *)
  info,     (* agentConnectionInfo: the session.start it was taken from    *)
  gaps      (* history: events absent from their list, and why             *)

fetchVars == <<visited, fetch, target, answer, seen>>
pageVars == <<list, info, gaps>>
vars == <<db, frames, fetchVars, pageVars>>

Saved == DOMAIN db
EventsOf(a) == {e \in Saved : db[e].agent = a}

Init ==
  /\ db = <<>>
  /\ frames = [e \in Events |-> 0]
  /\ visited = 0
  /\ fetch = [n \in Visits |-> "none"]
  /\ target = [n \in Visits |-> CHOOSE a \in Agents : TRUE]
  /\ answer = [n \in Visits |-> <<>>]
  /\ seen = [n \in Visits |-> {}]
  /\ list = [a \in Agents |-> <<>>]
  /\ info = [a \in Agents |-> NoInfo]
  /\ gaps = {}

-----------------------------------------------------------------------------
(* The store. *)

(* The ticks in a unit of the k-th digit from the end. *)
Place[k \in Nat] == IF k = 0 THEN 1 ELSE Base * Place[k - 1]

Digit(t, i) == (t \div Place[Digits - i]) % Base
Second(t) == t \div Place[Digits]

(* The digits that remain when trailing zeros are removed. *)
Fraction(t) ==
  LET shown == {i \in 1 .. Digits : Digit(t, i) # 0}
  IN  [i \in 1 .. (IF shown = {} THEN 0 ELSE Max(shown)) |-> Digit(t, i)]

(* Characters in their order: the point, the digits, the Z at the end. *)
Point == 0
Zulu == Base + 1

(* Format(time.RFC3339Nano). The part down to the seconds has a fixed      *)
(* width: it is one symbol, ordered as time is.                            *)
Text(t) ==
  LET digits == [i \in DOMAIN Fraction(t) |-> Fraction(t)[i] + 1]
  IN  <<Second(t)>>
        \o (IF digits = <<>> THEN <<>> ELSE <<Point>> \o digits) \o <<Zulu>>

(* How the database compares two texts. *)
TextBefore(x, y) ==
  \E i \in DOMAIN x \cap DOMAIN y :
    x[i] < y[i] /\ \A j \in 1 .. i - 1 : x[j] = y[j]

(* Which moments come first in ORDER BY timestamp. *)
Sorted == [t \in Moments |-> [u \in Moments |-> TextBefore(Text(t), Text(u))]]
SortsBefore(d, e) == Sorted[db[d].time][db[e].time]

(* Faulty variant: the outer ORDER BY of the query is missing. *)
AnswersUnsorted(a) ==
  {s \in UNION {SetToSeqs(chosen) : chosen \in SUBSET EventsOf(a)} :
     /\ Len(s) = Min({Limit, Cardinality(EventsOf(a))})
     /\ \A i \in DOMAIN s : \A e \in EventsOf(a) \ ToSet(s) :
          ~ SortsBefore(s[i], e)}

(* GetAgentEvents: the last Limit events in the order of their texts. *)
Answers(a) ==
  {s \in UNION {SetToSeqs(chosen) : chosen \in SUBSET EventsOf(a)} :
     /\ Len(s) = Min({Limit, Cardinality(EventsOf(a))})
     /\ \A i, j \in DOMAIN s : i < j => ~ SortsBefore(s[j], s[i])
     /\ \A i \in DOMAIN s : \A e \in EventsOf(a) \ ToSet(s) : ~ SortsBefore(s[i], e)}

Sessions(a) == {e \in EventsOf(a) : db[e].kind = "session.start"}

(* GetAgentSessionData: the event that names the session a terminal of the *)
(* agent attaches to.                                                      *)
SessionData(a) ==
  {e \in Sessions(a) :
     \A d \in Sessions(a) : ~ SortsBefore(e, d)}

(* An event is saved; its broadcast has yet to reach the page. *)
PostEvent(e, a, k, t) ==
  /\ e \notin Saved
  /\ db' = [d \in Saved \cup {e} |->
              IF d = e THEN [agent |-> a, kind |-> k, time |-> t] ELSE db[d]]
  /\ frames' = [frames EXCEPT ![e] = Feeds]
  /\ UNCHANGED <<fetchVars, pageVars>>

-----------------------------------------------------------------------------
(* Live frames. *)

(* slice(-MAX_EVENTS_PER_AGENT) *)
Newest(s) == SubSeq(s, IF Len(s) > MaxListed THEN Len(s) - MaxListed + 1 ELSE 1, Len(s))

Listed(e) == e \in ToSet(list[db[e].agent])

(* A frame of e does not change the page: e is missing from its list if it *)
(* is not there already.                                                   *)
FrameGone(e, why) ==
  /\ frames[e] > 0
  /\ frames' = [frames EXCEPT ![e] = @ - 1]
  /\ gaps' = IF Listed(e) \/ db[e].kind = "output.stream" THEN gaps
             ELSE gaps \cup {<<e, why>>}
  /\ UNCHANGED <<db, fetchVars, list, info>>

(* The page has no connection, or the channel is full. *)
FrameLost(e) == FrameGone(e, "missed")

(* A question raises a notification inside the update. Where the browser   *)
(* has no Notification, or does not let a page construct one, that throws: *)
(* the update is lost with it, and onmessage ignores the exception.        *)
HandleThrows(e) ==
  /\ FrameGone(e, "thrown")
  /\ db[e].kind = "question.asked"

(* What event e pushes out of a full list. *)
Pushed(e) ==
  LET a == db[e].agent
  IN  IF ~ Listed(e) /\ Len(list[a]) = MaxListed THEN {Head(list[a])} ELSE {}

(* handleEvent with Grown(e) as the list of the event's agent. *)
HandleWith(e, Grown(_)) ==
  /\ frames[e] > 0
  /\ frames' = [frames EXCEPT ![e] = @ - 1]
  /\ IF db[e].kind = "output.stream"
       THEN UNCHANGED pageVars
       ELSE /\ list' = [list EXCEPT ![db[e].agent] = Grown(e)]
            /\ gaps' = {g \in gaps : g[1] # e} \cup (Pushed(e) \X {"evicted"})
            /\ info' = IF db[e].kind = "session.start"
                         THEN [info EXCEPT ![db[e].agent] = e] ELSE info
  /\ UNCHANGED <<db, fetchVars>>

(* Faulty variants: the list is not searched first; it is cut at the       *)
(* wrong end.                                                              *)
HandleUnsearched(e) ==
  HandleWith(e, LAMBDA x : Newest(Append(list[db[x].agent], x)))

HandleKeepingOldest(e) ==
  HandleWith(e, LAMBDA x : IF Listed(x) \/ Len(list[db[x].agent]) = MaxListed
                             THEN list[db[x].agent]
                             ELSE Append(list[db[x].agent], x))

HandleEvent(e) ==
  HandleWith(e, LAMBDA x : IF Listed(x) THEN list[db[x].agent]
                           ELSE Newest(Append(list[db[x].agent], x)))

-----------------------------------------------------------------------------
(* The fetch of a conversation page. Leaving the page does not cancel it.  *)

Visit(a) ==
  /\ visited < MaxVisits
  /\ visited' = visited + 1
  /\ fetch' = [fetch EXCEPT ![visited + 1] = "asked"]
  /\ target' = [target EXCEPT ![visited + 1] = a]
  /\ UNCHANGED <<db, frames, answer, seen, pageVars>>

ReadEvents(n) ==
  /\ fetch[n] = "asked"
  /\ fetch' = [fetch EXCEPT ![n] = "read"]
  /\ \E s \in Answers(target[n]) : answer' = [answer EXCEPT ![n] = s]
  /\ seen' = [seen EXCEPT ![n] = Saved]
  /\ UNCHANGED <<db, frames, visited, target, pageVars>>

FetchEnds(n, how) ==
  /\ fetch' = [fetch EXCEPT ![n] = how]
  /\ answer' = [answer EXCEPT ![n] = <<>>]
  /\ seen' = [seen EXCEPT ![n] = {}]
  /\ UNCHANGED <<db, frames, visited, target>>

FetchFails(n) ==
  /\ fetch[n] \in {"asked", "read"}
  /\ FetchEnds(n, "failed")
  /\ UNCHANGED pageVars

(* The elements of q are in the order they have in s. *)
KeepsOrder(q, s) ==
  \A i, j \in DOMAIN q : i < j =>
    \E k, l \in DOMAIN s : k < l /\ s[k] = q[i] /\ s[l] = q[j]

(* loadAgentEvents, unless the answer is empty. An event that leaves the   *)
(* list was saved after the server read, or is not among the last Limit.   *)
LoadAgentEvents(n) ==
  /\ fetch[n] = "read"
  /\ FetchEnds(n, "applied")
  /\ LET a == target[n]
         got == ToSet(answer[n])
         shown == {e \in got : db[e].kind # "output.stream"}
         gone == ToSet(list[a]) \ shown
         starts == {i \in DOMAIN answer[n] : db[answer[n][i]].kind = "session.start"}
     IN  IF got = {} THEN UNCHANGED pageVars
         ELSE /\ \E q \in SetToSeqs(shown) :
                   /\ KeepsOrder(q, answer[n])
                   /\ list' = [list EXCEPT ![a] = Newest(q)]
              /\ gaps' = {g \in gaps : g[1] \notin shown}
                           \cup ((gone \ seen[n]) \X {"overwritten"})
                           \cup ((gone \cap seen[n]) \X {"crowded"})
              /\ IF starts = {}
                   THEN UNCHANGED info
                   ELSE \E i \in starts :
                          /\ \A j \in starts : j <= i
                          /\ info' = [info EXCEPT ![a] = answer[n][i]]

Next ==
  \/ \E e \in Events :
       \/ \E a \in Agents, k \in Kinds, t \in Moments : PostEvent(e, a, k, t)
       \/ HandleEvent(e) \/ HandleThrows(e) \/ FrameLost(e)
  \/ \E a \in Agents : Visit(a)
  \/ \E n \in Visits : ReadEvents(n) \/ LoadAgentEvents(n) \/ FetchFails(n)

Spec == Init /\ [][Next]_vars

-----------------------------------------------------------------------------

TypeOK ==
  /\ Saved \subseteq Events
  /\ \A e \in Saved : db[e] \in [agent : Agents, kind : Kinds, time : Moments]
  /\ frames \in [Events -> 0 .. Feeds]
  /\ visited \in 0 .. MaxVisits
  /\ fetch \in [Visits -> {"none", "asked", "read", "applied", "failed"}]
  /\ target \in [Visits -> Agents]
  /\ answer \in [Visits -> Seq(Events)]
  /\ \A n \in Visits : Len(answer[n]) <= Limit
  /\ seen \in [Visits -> SUBSET Events]
  /\ list \in [Agents -> Seq(Events)]
  /\ \A a \in Agents : Len(list[a]) <= MaxListed
  /\ info \in [Agents -> Events \cup {NoInfo}]
  /\ gaps \subseteq Events \X {"missed", "thrown", "evicted", "overwritten", "crowded"}

(* No event is in a list twice, however a fetch and the frames of several  *)
(* sockets overlap: the page uses ids as keys (agents.ts:64-69).           *)
NoDuplicates == \A a \in Agents : IsInjective(list[a])

(* Every message that has come past the page is in its agent's list,       *)
(* unless its frame was lost, a notification threw, newer messages pushed  *)
(* it out, a fetch that read before it was saved replaced the list it was  *)
(* in, or a fetch asked for too few events to include it, output chunks    *)
(* counting as events; and a message so missing is back when a later fetch *)
(* has it (page.tsx:26-32, agents.ts:32-82, useWebSocket.ts:41-46,         *)
(* sqlite.go:121-126).                                                     *)
MissingOnlyByCause ==
  \A e \in Saved : frames[e] = 0 /\ db[e].kind # "output.stream" =>
    (Listed(e) <=> \A g \in gaps : g[1] # e)

(* One text goes on where the other ends: 5.5 s and 5 s, 5.12 s and 5.1 s. *)
Continues ==
  [t \in Moments |-> [u \in Moments |->
     Second(t) = Second(u) /\ IsStrictPrefix(Fraction(u), Fraction(t))]]

(* `late` is later than `early`, and their texts say so too. *)
Misplaced(late, early) ==
  /\ db[early].time < db[late].time
  /\ ~ Continues[db[late].time][db[early].time]

(* The server answers with the agent's newest events in the order of time, *)
(* and finds a session's terminal by its newest session.start, but for     *)
(* pairs of one second of which one's fraction continues the other's,      *)
(* which the text of their timestamps puts the wrong way round             *)
(* (sqlite.go:79, 121-126, 146-152).                                       *)
AnswersNewestInOrder ==
  /\ \A n \in Visits :
       LET s == answer[n]
       IN  /\ \A i, j \in DOMAIN s : i < j => ~ Misplaced(s[i], s[j])
           /\ \A e \in seen[n] \ ToSet(s) : db[e].agent = target[n] =>
                \A i \in DOMAIN s : ~ Misplaced(e, s[i])
  /\ \A a \in Agents :
       /\ Sessions(a) # {} => SessionData(a) # {}
       /\ \A e \in SessionData(a), d \in Sessions(a) : ~ Misplaced(d, e)

=============================================================================
