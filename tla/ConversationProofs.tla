-------------------------- MODULE ConversationProofs --------------------------
(***************************************************************************)
(* Proofs about Conversation, for any agents, events, timestamps, limits   *)
(* and number of sockets, and about Reconnect, which says how many sockets *)
(* there can be.                                                           *)
(*                                                                         *)
(* A list stays free of duplicates because live frames are searched for    *)
(* and a fetch replaces the whole list by an answer without duplicates;    *)
(* IInv adds that only saved events are on their way or in an answer.      *)
(*                                                                         *)
(* The text of a timestamp orders two moments by their first different     *)
(* digit, which takes the arithmetic of digits; facts that would need      *)
(* induction are proved from the least counterexample (LeastExists).       *)
(***************************************************************************)
EXTENDS Conversation, Reconnect, FiniteSetTheorems, WellFoundedInduction, TLAPS

SavedInv ==
  /\ IsFiniteSet(Saved)
  /\ \A e \in Events : frames[e] > 0 => e \in Saved
  /\ \A n \in Visits : ToSet(answer[n]) \subseteq Saved

IInv == TypeOK /\ SavedInv /\ NoDuplicates

-----------------------------------------------------------------------------
(* Sequences. *)

(* Appending what is not in a sequence keeps it free of duplicates. *)
LEMMA FreshAppend ==
  ASSUME NEW S, NEW s \in Seq(S), NEW e \in S, IsInjective(s), e \notin ToSet(s),
         NEW t, t = Append(s, e)
  PROVE  IsInjective(t) /\ t \in Seq(S)
<1>1. Len(s) \in Nat /\ DOMAIN s = 1 .. Len(s)
  OBVIOUS
<1>2. t \in Seq(S) /\ Len(t) = Len(s) + 1 /\ t[Len(s) + 1] = e
  OBVIOUS
<1>3. DOMAIN t = 1 .. Len(s) + 1
  BY <1>2
<1>4. \A i \in 1 .. Len(s) : t[i] = s[i]
  OBVIOUS
<1>5. \A i \in 1 .. Len(s) : s[i] # e
  BY <1>1 DEF ToSet
<1>6. IsInjective(t)
  <2> SUFFICES ASSUME NEW i \in 1 .. Len(s) + 1, NEW j \in 1 .. Len(s) + 1, t[i] = t[j]
               PROVE  i = j
    BY <1>3 DEF IsInjective
  <2>1. CASE i \in 1 .. Len(s) /\ j \in 1 .. Len(s)
    BY <2>1, <1>1, <1>4 DEF IsInjective
  <2>2. CASE i = Len(s) + 1 \/ j = Len(s) + 1
    BY <2>2, <1>1, <1>2, <1>4, <1>5
  <2>3. QED
    BY <2>1, <2>2, <1>1
<1>7. QED
  BY <1>2, <1>6

(* slice(-MAX_EVENTS_PER_AGENT) takes a part of its argument, and no more  *)
(* than it should.                                                         *)
LEMMA NewestFacts ==
  ASSUME NEW S, NEW s \in Seq(S), IsInjective(s)
  PROVE  Newest(s) \in Seq(S) /\ Len(Newest(s)) <= MaxListed /\ IsInjective(Newest(s))
<1> DEFINE m == IF Len(s) > MaxListed THEN Len(s) - MaxListed + 1 ELSE 1
<1>1. /\ m \in Nat \ {0} /\ m <= Len(s) + 1 /\ Len(s) - m + 1 <= MaxListed
      /\ Len(s) \in Nat
  BY ConversationAssumption
<1>2. Newest(s) = SubSeq(s, m, Len(s))
  BY DEF Newest
<1> HIDE DEF m
<1>3. /\ SubSeq(s, m, Len(s)) \in Seq(S)
      /\ Len(SubSeq(s, m, Len(s))) = Len(s) - m + 1
      /\ \A i \in 1 .. Len(s) - m + 1 : SubSeq(s, m, Len(s))[i] = s[m + i - 1]
  BY <1>1
<1>4. IsInjective(SubSeq(s, m, Len(s)))
  <2>1. DOMAIN SubSeq(s, m, Len(s)) = 1 .. Len(s) - m + 1
    BY <1>1, <1>3
  <2>2. \A i \in 1 .. Len(s) - m + 1 : m + i - 1 \in DOMAIN s
    BY <1>1
  <2>3. QED
    BY <1>1, <1>3, <2>1, <2>2 DEF IsInjective
<1>5. QED
  BY <1>1, <1>2, <1>3, <1>4

(* The orders of a finite set are sequences without duplicates. *)
LEMMA OrdersOfSet ==
  ASSUME NEW S, IsFiniteSet(S), NEW q \in SetToSeqs(S)
  PROVE  q \in Seq(S) /\ ToSet(q) \subseteq S /\ IsInjective(q)
<1>1. Cardinality(S) \in Nat
  BY FS_CardinalityType
<1>2. q \in [1 .. Cardinality(S) -> S]
  BY DEF SetToSeqs
<1>3. QED
  BY <1>1, <1>2 DEF SetToSeqs, ToSet, IsInjective

-----------------------------------------------------------------------------

LEMMA InitEstablishes == Init => IInv
<1> SUFFICES ASSUME Init PROVE IInv
  OBVIOUS
<1>1. Saved = {}
  BY DEF Init, Saved
<1>2. TypeOK
  BY <1>1, ConversationAssumption DEF Init, TypeOK
<1>3. SavedInv
  BY <1>1, FS_EmptySet DEF Init, SavedInv, ToSet
<1>4. NoDuplicates
  BY DEF Init, NoDuplicates, IsInjective
<1>5. QED
  BY <1>2, <1>3, <1>4 DEF IInv

LEMMA PostEventKeeps ==
  ASSUME IInv, NEW e \in Events, NEW a \in Agents, NEW k \in Kinds, NEW t \in Moments,
         PostEvent(e, a, k, t)
  PROVE  IInv'
<1>1. /\ Saved' = Saved \cup {e} /\ e \notin Saved
      /\ \A d \in Saved : db'[d] = db[d]
      /\ db'[e] \in [agent : Agents, kind : Kinds, time : Moments]
  BY DEF PostEvent, Saved
<1>2. TypeOK'
  <2>1. \A d \in Saved' : db'[d] \in [agent : Agents, kind : Kinds, time : Moments]
    BY <1>1 DEF IInv, TypeOK
  <2>2. frames' \in [Events -> 0 .. Feeds]
    BY ConversationAssumption DEF PostEvent, IInv, TypeOK
  <2>3. QED
    BY <1>1, <2>1, <2>2 DEF PostEvent, IInv, TypeOK, fetchVars, pageVars
<1>3. SavedInv'
  <2>1. IsFiniteSet(Saved')
    BY <1>1, FS_AddElement DEF IInv, SavedInv
  <2>2. \A d \in Events : frames'[d] > 0 => d \in Saved'
    BY <1>1 DEF PostEvent, IInv, SavedInv, TypeOK
  <2>3. \A n \in Visits : ToSet(answer'[n]) \subseteq Saved'
    BY <1>1 DEF PostEvent, IInv, SavedInv, fetchVars
  <2>4. QED
    BY <2>1, <2>2, <2>3 DEF SavedInv
<1>4. NoDuplicates'
  BY DEF PostEvent, pageVars, IInv, NoDuplicates
<1>5. QED
  BY <1>2, <1>3, <1>4 DEF IInv

(* A frame is handled or lost: what is left of the state is untouched. *)
LEMMA FrameTaken ==
  ASSUME IInv, NEW e \in Events, frames[e] > 0,
         frames' = [frames EXCEPT ![e] = @ - 1], UNCHANGED <<db, fetchVars>>
  PROVE  /\ e \in Saved /\ db[e].agent \in Agents
         /\ frames' \in [Events -> 0 .. Feeds] /\ SavedInv'
<1>1. e \in Saved /\ db[e].agent \in Agents
  BY DEF IInv, SavedInv, TypeOK
<1>2. frames' \in [Events -> 0 .. Feeds]
  BY ConversationAssumption DEF IInv, TypeOK
<1>3. \A d \in Events : frames'[d] > 0 => frames[d] > 0
  BY DEF IInv, TypeOK
<1>4. SavedInv'
  BY <1>3 DEF IInv, SavedInv, Saved, fetchVars
<1>5. QED
  BY <1>1, <1>2, <1>4

LEMMA FrameGoneKeeps ==
  ASSUME IInv, NEW e \in Events, NEW why \in {"missed", "thrown"}, FrameGone(e, why)
  PROVE  IInv'
<1>1. /\ frames' \in [Events -> 0 .. Feeds] /\ SavedInv'
  BY FrameTaken DEF FrameGone
<1>2. gaps' \subseteq Events \X {"missed", "thrown", "evicted", "overwritten", "crowded"}
  BY DEF FrameGone, IInv, TypeOK
<1>3. TypeOK'
  BY <1>1, <1>2 DEF FrameGone, IInv, TypeOK, fetchVars, Saved
<1>4. NoDuplicates'
  BY DEF FrameGone, IInv, NoDuplicates
<1>5. QED
  BY <1>1, <1>3, <1>4 DEF IInv

LEMMA HandleEventKeeps ==
  ASSUME IInv, NEW e \in Events, HandleEvent(e)
  PROVE  IInv'
<1> DEFINE a == db[e].agent
           grown == IF Listed(e) THEN list[a] ELSE Newest(Append(list[a], e))
<1>1. /\ frames[e] > 0 /\ frames' = [frames EXCEPT ![e] = @ - 1]
      /\ UNCHANGED <<db, fetchVars>>
      /\ \/ UNCHANGED pageVars
         \/ /\ list' = [list EXCEPT ![a] = grown]
            /\ gaps' = {g \in gaps : g[1] # e} \cup (Pushed(e) \X {"evicted"})
            /\ info' = IF db[e].kind = "session.start"
                         THEN [info EXCEPT ![a] = e] ELSE info
  BY DEF HandleEvent, HandleWith
<1>2. /\ e \in Saved /\ a \in Agents
      /\ frames' \in [Events -> 0 .. Feeds] /\ SavedInv'
  BY <1>1, FrameTaken
<1>3. /\ list[a] \in Seq(Events) /\ Len(list[a]) <= MaxListed /\ IsInjective(list[a])
  BY <1>2 DEF IInv, TypeOK, NoDuplicates
<1>4. grown \in Seq(Events) /\ Len(grown) <= MaxListed /\ IsInjective(grown)
  <2>1. CASE Listed(e)
    BY <2>1, <1>3
  <2>2. CASE ~ Listed(e)
    <3>1. e \notin ToSet(list[a])
      BY <2>2 DEF Listed
    <3>2. PICK t : t = Append(list[a], e)
      OBVIOUS
    <3>3. IsInjective(t) /\ t \in Seq(Events)
      BY <1>3, <3>1, <3>2, FreshAppend
    <3>4. Newest(t) \in Seq(Events) /\ Len(Newest(t)) <= MaxListed /\ IsInjective(Newest(t))
      BY <3>3, NewestFacts
    <3>5. grown = Newest(t)
      BY <2>2, <3>2
    <3>6. QED
      BY <3>4, <3>5
  <2>3. QED
    BY <2>1, <2>2
<1>5. Pushed(e) \subseteq Events
  <2>1. MaxListed \in Nat \ {0}
    BY ConversationAssumption
  <2>2. Len(list[a]) = MaxListed => Head(list[a]) \in Events
    BY <1>3, <2>1
  <2>3. QED
    BY <2>2 DEF Pushed
<1>6. CASE UNCHANGED pageVars
  <2>1. TypeOK'
    BY <1>1, <1>2, <1>6 DEF IInv, TypeOK, fetchVars, pageVars, Saved
  <2>2. NoDuplicates'
    BY <1>6 DEF IInv, NoDuplicates, pageVars
  <2>3. QED
    BY <1>2, <2>1, <2>2 DEF IInv
<1>7. CASE ~ UNCHANGED pageVars
  <2> HIDE DEF grown
  <2>1. list' = [list EXCEPT ![a] = grown]
    BY <1>1, <1>7
  <2>2. list' \in [Agents -> Seq(Events)] /\ \A b \in Agents : Len(list'[b]) <= MaxListed
    BY <2>1, <1>4 DEF IInv, TypeOK
  <2>3. info' \in [Agents -> Events \cup {NoInfo}]
    <3>1. info' = info \/ info' = [info EXCEPT ![a] = e]
      BY <1>1, <1>7
    <3>2. QED
      BY <1>2, <3>1 DEF IInv, TypeOK
  <2>4. gaps' \subseteq Events \X {"missed", "thrown", "evicted", "overwritten", "crowded"}
    BY <1>1, <1>5, <1>7 DEF IInv, TypeOK
  <2>5. TypeOK'
    BY <1>1, <1>2, <2>2, <2>3, <2>4 DEF IInv, TypeOK, fetchVars, Saved
  <2>6. NoDuplicates'
    BY <2>1, <1>4 DEF IInv, TypeOK, NoDuplicates
  <2>7. QED
    BY <1>2, <2>5, <2>6 DEF IInv
<1>8. QED
  BY <1>6, <1>7

(* A step of a fetch that leaves the database and the frames alone. *)
LEMMA FetchKeeps ==
  ASSUME IInv, NEW n \in Visits, NEW how \in {"read", "applied", "failed"},
         fetch' = [fetch EXCEPT ![n] = how],
         NEW s \in Seq(Events), Len(s) <= Limit, ToSet(s) \subseteq Saved,
         answer' = [answer EXCEPT ![n] = s],
         NEW T \in SUBSET Events, seen' = [seen EXCEPT ![n] = T],
         UNCHANGED <<db, frames, visited, target>>,
         list' \in [Agents -> Seq(Events)],
         \A a \in Agents : Len(list'[a]) <= MaxListed /\ IsInjective(list'[a]),
         info' \in [Agents -> Events \cup {NoInfo}],
         gaps' \subseteq Events \X {"missed", "thrown", "evicted", "overwritten", "crowded"}
  PROVE  IInv'
<1>1. TypeOK'
  <2>1. /\ fetch' \in [Visits -> {"none", "asked", "read", "applied", "failed"}]
        /\ answer' \in [Visits -> Seq(Events)]
        /\ \A k \in Visits : Len(answer'[k]) <= Limit
        /\ seen' \in [Visits -> SUBSET Events]
    BY DEF IInv, TypeOK
  <2>2. QED
    BY <2>1 DEF IInv, TypeOK, Saved
<1>2. SavedInv'
  <2>1. \A k \in Visits : ToSet(answer'[k]) \subseteq Saved
    BY DEF IInv, TypeOK, SavedInv
  <2>2. QED
    BY <2>1 DEF IInv, SavedInv, Saved
<1>3. NoDuplicates'
  BY DEF NoDuplicates
<1>4. QED
  BY <1>1, <1>2, <1>3 DEF IInv

(* The same when the page does not change either. *)
LEMMA QuietFetchKeeps ==
  ASSUME IInv, NEW n \in Visits, NEW how \in {"read", "applied", "failed"},
         fetch' = [fetch EXCEPT ![n] = how],
         NEW s \in Seq(Events), Len(s) <= Limit, ToSet(s) \subseteq Saved,
         answer' = [answer EXCEPT ![n] = s],
         NEW T \in SUBSET Events, seen' = [seen EXCEPT ![n] = T],
         UNCHANGED <<db, frames, visited, target, pageVars>>
  PROVE  IInv'
<1>1. /\ list' \in [Agents -> Seq(Events)]
      /\ \A a \in Agents : Len(list'[a]) <= MaxListed /\ IsInjective(list'[a])
      /\ info' \in [Agents -> Events \cup {NoInfo}]
      /\ gaps' \subseteq Events \X {"missed", "thrown", "evicted", "overwritten", "crowded"}
  BY DEF IInv, TypeOK, NoDuplicates, pageVars
<1>2. QED
  BY <1>1, FetchKeeps

LEMMA VisitKeeps ==
  ASSUME IInv, NEW a \in Agents, Visit(a)
  PROVE  IInv'
<1>1. TypeOK'
  <2>1. visited + 1 \in 1 .. MaxVisits /\ visited' = visited + 1
    BY ConversationAssumption DEF Visit, IInv, TypeOK
  <2>2. QED
    BY <2>1 DEF Visit, Visits, IInv, TypeOK, Saved, pageVars
<1>2. SavedInv'
  BY DEF Visit, IInv, SavedInv, Saved
<1>3. NoDuplicates'
  BY DEF Visit, IInv, NoDuplicates, pageVars
<1>4. QED
  BY <1>1, <1>2, <1>3 DEF IInv

(* What the store answers is within the limit and the database. *)
LEMMA AnswersFacts ==
  ASSUME IInv, NEW a \in Agents, NEW s \in Answers(a)
  PROVE  s \in Seq(Events) /\ Len(s) <= Limit /\ ToSet(s) \subseteq Saved
<1>1. PICK chosen \in SUBSET EventsOf(a) : s \in SetToSeqs(chosen)
  BY DEF Answers
<1>2. EventsOf(a) \subseteq Saved /\ chosen \subseteq Saved
  BY DEF EventsOf
<1>3. IsFiniteSet(EventsOf(a)) /\ IsFiniteSet(chosen)
  BY <1>2, FS_Subset DEF IInv, SavedInv
<1>4. s \in Seq(chosen) /\ ToSet(s) \subseteq chosen
  BY <1>1, <1>3, OrdersOfSet
<1>5. s \in Seq(Events)
  BY <1>2, <1>4 DEF IInv, TypeOK
<1>6. Len(s) <= Limit
  <2>1. Limit \in Nat /\ Cardinality(EventsOf(a)) \in Nat
    BY <1>3, FS_CardinalityType, ConversationAssumption
  <2>2. \A x, y \in Nat : Min({x, y}) <= x
    <3> SUFFICES ASSUME NEW x \in Nat, NEW y \in Nat
                 PROVE  Min({x, y}) <= x
      OBVIOUS
    <3>1. \E z \in {x, y} : \A u \in {x, y} : z <= u
      OBVIOUS
    <3>2. QED
      BY <3>1 DEF Min
  <2>3. QED
    BY <2>1, <2>2 DEF Answers
<1>7. QED
  BY <1>2, <1>4, <1>5, <1>6

LEMMA ReadEventsKeeps ==
  ASSUME IInv, NEW n \in Visits, ReadEvents(n)
  PROVE  IInv'
<1>1. PICK s \in Answers(target[n]) : answer' = [answer EXCEPT ![n] = s]
  BY DEF ReadEvents
<1>2. s \in Seq(Events) /\ Len(s) <= Limit /\ ToSet(s) \subseteq Saved
  BY <1>1, AnswersFacts DEF IInv, TypeOK
<1>3. Saved \in SUBSET Events
  BY DEF IInv, TypeOK
<1>4. QED
  BY <1>1, <1>2, <1>3, QuietFetchKeeps DEF ReadEvents

(* A fetch that ends leaves an empty answer. *)
LEMMA EmptyAnswer == <<>> \in Seq(Events) /\ Len(<<>>) <= Limit /\ ToSet(<<>>) \subseteq Saved
BY ConversationAssumption DEF ToSet

LEMMA FetchFailsKeeps ==
  ASSUME IInv, NEW n \in Visits, FetchFails(n)
  PROVE  IInv'
BY EmptyAnswer, QuietFetchKeeps DEF FetchFails, FetchEnds

LEMMA LoadAgentEventsKeeps ==
  ASSUME IInv, NEW n \in Visits, LoadAgentEvents(n)
  PROVE  IInv'
<1> DEFINE a == target[n]
           got == ToSet(answer[n])
           shown == {e \in got : db[e].kind # "output.stream"}
           gone == ToSet(list[a]) \ shown
           starts == {i \in DOMAIN answer[n] : db[answer[n][i]].kind = "session.start"}
<1>1. /\ FetchEnds(n, "applied")
      /\ \/ UNCHANGED pageVars
         \/ /\ \E q \in SetToSeqs(shown) : list' = [list EXCEPT ![a] = Newest(q)]
            /\ gaps' = {g \in gaps : g[1] \notin shown}
                         \cup ((gone \ seen[n]) \X {"overwritten"})
                         \cup ((gone \cap seen[n]) \X {"crowded"})
            /\ \/ UNCHANGED info
               \/ \E i \in starts : info' = [info EXCEPT ![a] = answer[n][i]]
  BY DEF LoadAgentEvents
<1>2. /\ fetch' = [fetch EXCEPT ![n] = "applied"]
      /\ answer' = [answer EXCEPT ![n] = <<>>]
      /\ seen' = [seen EXCEPT ![n] = {}]
      /\ UNCHANGED <<db, frames, visited, target>>
  BY <1>1 DEF FetchEnds
<1>3. CASE UNCHANGED pageVars
  BY <1>2, <1>3, EmptyAnswer, QuietFetchKeeps
<1>4. CASE ~ UNCHANGED pageVars
  <2>1. a \in Agents /\ list[a] \in Seq(Events) /\ answer[n] \in Seq(Events)
    BY DEF IInv, TypeOK
  <2>2. IsFiniteSet(shown) /\ shown \subseteq Events
    <3>1. shown \subseteq Saved
      BY DEF IInv, SavedInv
    <3>2. QED
      BY <3>1, FS_Subset DEF IInv, TypeOK, SavedInv
  <2>3. PICK q \in SetToSeqs(shown) : list' = [list EXCEPT ![a] = Newest(q)]
    BY <1>1, <1>4
  <2> HIDE DEF shown
  <2>4. q \in Seq(Events) /\ IsInjective(q)
    BY <2>2, <2>3, OrdersOfSet
  <2>5. Newest(q) \in Seq(Events) /\ Len(Newest(q)) <= MaxListed /\ IsInjective(Newest(q))
    BY <2>4, NewestFacts
  <2>6. list' \in [Agents -> Seq(Events)]
    BY <2>1, <2>3, <2>5 DEF IInv, TypeOK
  <2>7. \A b \in Agents : Len(list'[b]) <= MaxListed /\ IsInjective(list'[b])
    BY <2>3, <2>5 DEF IInv, TypeOK, NoDuplicates
  <2>8. info' \in [Agents -> Events \cup {NoInfo}]
    <3>1. \A i \in starts : answer[n][i] \in Events
      BY <2>1
    <3>2. QED
      BY <1>1, <1>4, <3>1 DEF IInv, TypeOK
  <2>9. gaps' \subseteq Events \X {"missed", "thrown", "evicted", "overwritten", "crowded"}
    <3>1. gone \subseteq Events
      BY <2>1 DEF ToSet
    <3> HIDE DEF gone
    <3>2. QED
      BY <1>1, <1>4, <3>1 DEF IInv, TypeOK
  <2>10. QED
    BY <1>2, <2>6, <2>7, <2>8, <2>9, EmptyAnswer, FetchKeeps
<1>5. QED
  BY <1>3, <1>4

(* The invariant holds in every reachable state of the page and the server. *)
THEOREM Invariant == Spec => []IInv
<1>1. Init => IInv
  BY InitEstablishes
<1>2. IInv /\ [Next]_vars => IInv'
  <2> SUFFICES ASSUME IInv, [Next]_vars
               PROVE  IInv'
    OBVIOUS
  <2>1. CASE Next
    BY <2>1, PostEventKeeps, HandleEventKeeps, FrameGoneKeeps, VisitKeeps,
       ReadEventsKeeps, LoadAgentEventsKeeps, FetchFailsKeeps
       DEF Next, FrameLost, HandleThrows
  <2>2. CASE UNCHANGED vars
    BY <2>2 DEF IInv, TypeOK, SavedInv, NoDuplicates, vars, fetchVars, pageVars, Saved
  <2>3. QED
    BY <2>1, <2>2
<1>3. QED
  BY <1>1, <1>2, PTL DEF Spec

(* Every variable of the page and of its fetches keeps its type; a list is *)
(* no longer than MAX_EVENTS_PER_AGENT (agents.ts:37, 69).                     *)
THEOREM TypeCorrect == Spec => []TypeOK
<1>1. IInv => TypeOK
  BY DEF IInv
<1>2. QED
  BY Invariant, <1>1, PTL

(* No event is in a list of the page twice (agents.ts:32-69), whatever     *)
(* number of sockets delivers frames and however fetches overlap them.     *)
THEOREM ListsHaveNoDuplicates == Spec => []NoDuplicates
<1>1. IInv => NoDuplicates
  BY DEF IInv
<1>2. QED
  BY Invariant, <1>1, PTL

-----------------------------------------------------------------------------
(* Which messages are missing. GapInv is MissingOnlyByCause without its    *)
(* condition on frames where it is not needed: a listed message has no     *)
(* cause on record, even while another copy of its frame is on its way.    *)

Marked(d, G) == \E g \in G : g[1] = d

ListInv ==
  \A a \in Agents : \A d \in ToSet(list[a]) : d \in Saved /\ db[d].agent = a

AnswerInv ==
  \A n \in Visits :
    /\ \A d \in ToSet(answer[n]) : db[d].agent = target[n]
    /\ n > visited => fetch[n] = "none"
    /\ fetch[n] = "none" => answer[n] = <<>>

GapInv ==
  \A d \in Saved :
    /\ Listed(d) => ~ Marked(d, gaps)
    /\ frames[d] = 0 /\ db[d].kind # "output.stream" => Listed(d) \/ Marked(d, gaps)

CauseInv == ListInv /\ AnswerInv /\ GapInv

(* Pairs of a set with one cause mark that set. *)
LEMMA MarkedPairs ==
  ASSUME NEW P, NEW c, NEW d
  PROVE  Marked(d, P \X {c}) <=> d \in P
<1>1. ASSUME d \in P PROVE Marked(d, P \X {c})
  <2>1. <<d, c>> \in P \X {c} /\ <<d, c>>[1] = d
    BY <1>1
  <2>2. QED
    BY <2>1 DEF Marked
<1>2. ASSUME NEW g \in P \X {c}, g[1] = d PROVE d \in P
  BY <1>2
<1>3. QED
  BY <1>1, <1>2 DEF Marked

LEMMA MarkedUnion ==
  ASSUME NEW G, NEW H, NEW d
  PROVE  Marked(d, G \cup H) <=> Marked(d, G) \/ Marked(d, H)
BY DEF Marked

LEMMA MarkedRest ==
  ASSUME NEW G, NEW P, NEW d
  PROVE  Marked(d, {g \in G : g[1] \notin P}) <=> Marked(d, G) /\ d \notin P
BY DEF Marked

(* An order of a finite set has all of its elements. *)
LEMMA OrderHasAll ==
  ASSUME NEW S, IsFiniteSet(S), NEW q \in SetToSeqs(S)
  PROVE  q \in Seq(S) /\ ToSet(q) = S /\ Len(q) = Cardinality(S)
<1> DEFINE c == Cardinality(S)
<1>1. c \in Nat /\ IsFiniteSet(1 .. c) /\ Cardinality(1 .. c) = c
  BY FS_CardinalityType, FS_Interval
<1>2. q \in [1 .. c -> S] /\ IsInjective(q)
  BY DEF SetToSeqs, IsInjective
<1>3. q \in Injection(1 .. c, S)
  BY <1>2 DEF Injection
<1>4. q \in Surjection(1 .. c, S)
  BY <1>1, <1>3, FS_Injection
<1>5. \A x \in S : \E i \in 1 .. c : q[i] = x
  BY <1>4 DEF Surjection
<1>6. QED
  BY <1>1, <1>2, <1>5 DEF ToSet

(* A sequence has no more elements than places. *)
LEMMA ElementsFit ==
  ASSUME NEW X, NEW s \in Seq(X), NEW T, T \subseteq ToSet(s)
  PROVE  IsFiniteSet(T) /\ Cardinality(T) <= Len(s)
<1>1. Len(s) \in Nat /\ IsFiniteSet(1 .. Len(s)) /\ Cardinality(1 .. Len(s)) = Len(s)
  <2>1. PICK n \in Nat : n = Len(s)
    OBVIOUS
  <2>2. IsFiniteSet(1 .. n) /\ Cardinality(1 .. n) = n
    BY FS_Interval
  <2>3. QED
    BY <2>1, <2>2
<1>2. s \in Surjection(1 .. Len(s), ToSet(s))
  BY DEF Surjection, ToSet
<1>3. IsFiniteSet(ToSet(s)) /\ Cardinality(ToSet(s)) <= Len(s)
  BY <1>1, <1>2, FS_Surjection
<1>4. IsFiniteSet(T) /\ Cardinality(T) <= Cardinality(ToSet(s))
  BY <1>3, FS_Subset
<1>5. Cardinality(T) \in Nat /\ Cardinality(ToSet(s)) \in Nat
  BY <1>3, <1>4, FS_CardinalityType
<1>6. QED
  BY <1>1, <1>3, <1>4, <1>5

(* A list that is no longer than it may be is not cut. *)
LEMMA ShortIsNotCut ==
  ASSUME NEW S, NEW s \in Seq(S), Len(s) <= MaxListed
  PROVE  Newest(s) = s
<1>1. MaxListed \in Nat /\ Len(s) \in Nat
  BY ConversationAssumption
<1>2. (IF Len(s) > MaxListed THEN Len(s) - MaxListed + 1 ELSE 1) = 1
  BY <1>1
<1>3. Newest(s) = SubSeq(s, 1, Len(s))
  BY <1>2 DEF Newest
<1>4. QED
  BY <1>3

(* What handleEvent makes of a list its event is not in. *)
LEMMA GrownElements ==
  ASSUME NEW s \in Seq(Events), IsInjective(s), Len(s) <= MaxListed,
         NEW e \in Events, e \notin ToSet(s)
  PROVE  ToSet(Newest(Append(s, e))) =
           {e} \cup (ToSet(s) \ (IF Len(s) = MaxListed THEN {Head(s)} ELSE {}))
<1> DEFINE n == Len(s)
<1>1. PICK t : t = Append(s, e)
  OBVIOUS
<1>2. /\ n \in Nat /\ MaxListed \in Nat \ {0}
      /\ t \in Seq(Events) /\ Len(t) = n + 1 /\ t[n + 1] = e
      /\ \A i \in 1 .. n : t[i] = s[i]
  BY <1>1, ConversationAssumption
<1>3. \A x : x \in ToSet(t) <=> x = e \/ x \in ToSet(s)
  BY <1>2 DEF ToSet
<1>4. CASE n < MaxListed
  <2>1. Newest(t) = t
    BY <1>2, <1>4, ShortIsNotCut
  <2>2. QED
    BY <1>1, <1>2, <1>3, <1>4, <2>1
<1>5. CASE n = MaxListed
  <2>1. PICK u : u = SubSeq(t, 2, n + 1)
    OBVIOUS
  <2>2. Newest(t) = u
    BY <1>2, <1>5, <2>1 DEF Newest
  <2>3. u \in Seq(Events) /\ Len(u) = n /\ \A i \in 1 .. n : u[i] = t[i + 1]
    BY <1>2, <2>1
  <2>4. \A x : x \in ToSet(u) <=> \E i \in 2 .. n + 1 : t[i] = x
    <3>1. ASSUME NEW x, x \in ToSet(u) PROVE \E i \in 2 .. n + 1 : t[i] = x
      <4>1. PICK i \in 1 .. n : u[i] = x
        BY <2>3, <3>1 DEF ToSet
      <4>2. i + 1 \in 2 .. n + 1 /\ t[i + 1] = x
        BY <1>2, <2>3, <4>1
      <4>3. QED
        BY <4>2
    <3>2. ASSUME NEW i \in 2 .. n + 1 PROVE t[i] \in ToSet(u)
      <4>1. i - 1 \in 1 .. n /\ u[i - 1] = t[i]
        BY <1>2, <2>3
      <4>2. QED
        BY <2>3, <4>1 DEF ToSet
    <3>3. QED
      BY <3>1, <3>2
  <2>5. Head(s) = s[1] /\ 1 \in 1 .. n
    BY <1>2, <1>5
  <2>6. \A x : x \in ToSet(s) <=> \E i \in 1 .. n : s[i] = x
    BY <1>2 DEF ToSet
  <2>7. \A i \in 1 .. n : s[i] = s[1] => i = 1
    BY <1>2, <2>5 DEF IsInjective
  <2>8. \A x : x \in ToSet(u) <=> x = e \/ (x \in ToSet(s) /\ x # Head(s))
    <3>1. ASSUME NEW i \in 2 .. n + 1
          PROVE  t[i] = e \/ (t[i] \in ToSet(s) /\ t[i] # Head(s))
      BY <1>2, <2>5, <2>6, <2>7
    <3>2. n + 1 \in 2 .. n + 1 /\ e \in ToSet(u)
      BY <1>2, <1>5, <2>4
    <3>3. ASSUME NEW x \in ToSet(s), x # Head(s) PROVE x \in ToSet(u)
      <4>1. PICK i \in 1 .. n : s[i] = x
        BY <2>6
      <4>2. i \in 2 .. n + 1 /\ t[i] = x
        BY <1>2, <2>5, <3>3, <4>1
      <4>3. QED
        BY <2>4, <4>2
    <3>4. QED
      BY <2>4, <3>1, <3>2, <3>3
  <2>9. QED
    BY <1>1, <1>5, <2>2, <2>8
<1>6. QED
  BY <1>2, <1>4, <1>5

-----------------------------------------------------------------------------

LEMMA CauseInit == Init => CauseInv
<1> SUFFICES ASSUME Init PROVE CauseInv
  OBVIOUS
<1>1. Saved = {}
  BY DEF Init, Saved
<1>2. ListInv /\ AnswerInv
  BY DEF Init, ListInv, AnswerInv, ToSet
<1>3. QED
  BY <1>1, <1>2 DEF CauseInv, GapInv

LEMMA CausePostEvent ==
  ASSUME IInv, CauseInv, NEW e \in Events, NEW a \in Agents, NEW k \in Kinds,
         NEW t \in Moments, PostEvent(e, a, k, t)
  PROVE  CauseInv'
<1>1. /\ Saved' = Saved \cup {e} /\ e \notin Saved
      /\ \A d \in Saved : db'[d] = db[d]
      /\ db'[e].agent = a
      /\ list' = list /\ gaps' = gaps /\ answer' = answer
      /\ visited' = visited /\ fetch' = fetch /\ target' = target
  BY DEF PostEvent, Saved, pageVars, fetchVars
<1>2. Saved \subseteq Events /\ frames'[e] = Feeds /\ \A d \in Saved : frames'[d] = frames[d]
  BY <1>1 DEF PostEvent, IInv, TypeOK
<1>3. ListInv'
  BY <1>1 DEF CauseInv, ListInv
<1>4. AnswerInv'
  BY <1>1 DEF IInv, SavedInv, CauseInv, AnswerInv
<1>5. GapInv'
  <2>1. ~ Listed(e)'
    BY <1>1 DEF CauseInv, ListInv, Listed
  <2>2. frames'[e] # 0
    BY <1>2, ConversationAssumption
  <2>3. ASSUME NEW d \in Saved
        PROVE  (Listed(d)' <=> Listed(d)) /\ (Marked(d, gaps)' <=> Marked(d, gaps))
    BY <1>1 DEF Listed, Marked
  <2>4. QED
    BY <1>1, <1>2, <2>1, <2>2, <2>3 DEF CauseInv, GapInv
<1>6. QED
  BY <1>3, <1>4, <1>5 DEF CauseInv

(* A frame that is gone changes neither the answers nor other frames. *)
LEMMA CauseFrame ==
  ASSUME IInv, CauseInv, NEW e \in Events, frames[e] > 0,
         frames' = [frames EXCEPT ![e] = @ - 1], UNCHANGED <<db, fetchVars>>
  PROVE  /\ AnswerInv' /\ e \in Saved /\ Saved' = Saved
         /\ \A d \in Saved : d # e => frames'[d] = frames[d]
BY FrameTaken DEF CauseInv, AnswerInv, fetchVars, Saved, IInv, TypeOK

LEMMA CauseFrameGone ==
  ASSUME IInv, CauseInv, NEW e \in Events, NEW why, FrameGone(e, why)
  PROVE  CauseInv'
<1>1. /\ AnswerInv' /\ e \in Saved /\ Saved' = Saved
      /\ \A d \in Saved : d # e => frames'[d] = frames[d]
  BY CauseFrame DEF FrameGone
<1>2. list' = list /\ db' = db
  BY DEF FrameGone
<1>3. ListInv'
  BY <1>1, <1>2 DEF CauseInv, ListInv
<1>4. ASSUME NEW d \in Saved PROVE Listed(d)' <=> Listed(d)
  BY <1>2 DEF Listed
<1>5. GapInv'
  <2>1. CASE Listed(e) \/ db[e].kind = "output.stream"
    <3>1. gaps' = gaps
      BY <2>1 DEF FrameGone
    <3>2. QED
      BY <1>1, <1>2, <1>4, <2>1, <3>1 DEF CauseInv, GapInv, Marked
  <2>2. CASE ~(Listed(e) \/ db[e].kind = "output.stream")
    <3>1. gaps' = gaps \cup {<<e, why>>}
      BY <2>2 DEF FrameGone
    <3>2. ASSUME NEW d PROVE Marked(d, gaps') <=> Marked(d, gaps) \/ d = e
      <4>1. <<e, why>>[1] = e
        OBVIOUS
      <4>2. QED
        BY <3>1, <4>1 DEF Marked
    <3>3. QED
      BY <1>1, <1>2, <1>4, <2>2, <3>2 DEF CauseInv, GapInv, Marked
  <2>3. QED
    BY <2>1, <2>2
<1>6. QED
  BY <1>1, <1>3, <1>5 DEF CauseInv

LEMMA CauseHandleEvent ==
  ASSUME IInv, CauseInv, NEW e \in Events, HandleEvent(e)
  PROVE  CauseInv'
<1> DEFINE a == db[e].agent
           grown == IF Listed(e) THEN list[a] ELSE Newest(Append(list[a], e))
<1>1. /\ frames[e] > 0 /\ frames' = [frames EXCEPT ![e] = @ - 1]
      /\ UNCHANGED <<db, fetchVars>>
      /\ \/ db[e].kind = "output.stream" /\ UNCHANGED pageVars
         \/ /\ list' = [list EXCEPT ![a] = grown]
            /\ gaps' = {g \in gaps : g[1] # e} \cup (Pushed(e) \X {"evicted"})
  BY DEF HandleEvent, HandleWith
<1>2. /\ AnswerInv' /\ e \in Saved /\ Saved' = Saved /\ db' = db
      /\ \A d \in Saved : d # e => frames'[d] = frames[d]
  BY <1>1, CauseFrame
<1>3. CASE db[e].kind = "output.stream" /\ UNCHANGED pageVars
  <2>1. list' = list /\ gaps' = gaps
    BY <1>3 DEF pageVars
  <2>2. ListInv'
    BY <1>2, <2>1 DEF CauseInv, ListInv
  <2>3. GapInv'
    BY <1>2, <1>3, <2>1 DEF CauseInv, GapInv, Listed, Marked
  <2>4. QED
    BY <1>2, <2>2, <2>3 DEF CauseInv
<1>4. CASE /\ list' = [list EXCEPT ![a] = grown]
           /\ gaps' = {g \in gaps : g[1] # e} \cup (Pushed(e) \X {"evicted"})
  <2>1. a \in Agents /\ list[a] \in Seq(Events) /\ Len(list[a]) <= MaxListed
        /\ IsInjective(list[a])
    BY <1>2 DEF IInv, TypeOK, NoDuplicates
  <2>2. ToSet(grown) = {e} \cup (ToSet(list[a]) \ Pushed(e))
    <3>1. CASE Listed(e)
      BY <3>1 DEF Listed, Pushed
    <3>2. CASE ~ Listed(e)
      <4>1. Pushed(e) = IF Len(list[a]) = MaxListed THEN {Head(list[a])} ELSE {}
        BY <3>2 DEF Pushed
      <4>2. e \notin ToSet(list[a])
        BY <3>2 DEF Listed
      <4>3. QED
        BY <2>1, <3>2, <4>1, <4>2, GrownElements
    <3>3. QED
      BY <3>1, <3>2
  <2>3. Pushed(e) \subseteq ToSet(list[a]) /\ e \notin Pushed(e)
    <3>1. CASE Len(list[a]) = MaxListed
      <4>1. Len(list[a]) \in Nat \ {0}
        BY <3>1, ConversationAssumption
      <4>2. Head(list[a]) = list[a][1] /\ list[a][1] \in ToSet(list[a])
        BY <2>1, <4>1 DEF ToSet
      <4>3. QED
        BY <4>2 DEF Pushed, Listed
    <3>2. CASE Len(list[a]) # MaxListed
      BY <3>2 DEF Pushed
    <3>3. QED
      BY <3>1, <3>2
  <2> HIDE DEF grown
  <2>4. list'[a] = grown /\ \A b \in Agents : b # a => list'[b] = list[b]
    BY <1>4, <2>1 DEF IInv, TypeOK
  <2>5. ListInv'
    BY <1>2, <2>1, <2>2, <2>4 DEF CauseInv, ListInv
  <2>6. ASSUME NEW d \in Saved
        PROVE  Listed(d)' <=> d = e \/ (Listed(d) /\ d \notin Pushed(e))
    <3>1. db[d].agent \in Agents
      BY DEF IInv, TypeOK
    <3>2. CASE db[d].agent = a
      BY <1>2, <2>2, <2>4, <3>2 DEF Listed
    <3>3. CASE db[d].agent # a
      <4>1. d \notin Pushed(e) /\ d # e
        BY <2>1, <2>3, <3>3 DEF CauseInv, ListInv
      <4>2. QED
        BY <1>2, <2>4, <3>1, <3>3, <4>1 DEF Listed
    <3>4. QED
      BY <3>2, <3>3
  <2>7. ASSUME NEW d
        PROVE  Marked(d, gaps') <=> (Marked(d, gaps) /\ d # e) \/ d \in Pushed(e)
    <3>1. Marked(d, {g \in gaps : g[1] # e}) <=> Marked(d, gaps) /\ d # e
      BY DEF Marked
    <3>2. QED
      BY <1>4, <3>1, MarkedUnion, MarkedPairs
  <2>8. GapInv'
    <3>1. ASSUME NEW d \in Saved, Listed(d)' PROVE ~ Marked(d, gaps')
      BY <2>3, <2>6, <2>7, <3>1 DEF CauseInv, GapInv
    <3>2. ASSUME NEW d \in Saved, frames'[d] = 0, db[d].kind # "output.stream"
          PROVE  Listed(d)' \/ Marked(d, gaps')
      BY <1>2, <2>6, <2>7, <3>2 DEF CauseInv, GapInv
    <3>3. QED
      BY <1>2, <3>1, <3>2 DEF GapInv
  <2>9. QED
    BY <1>2, <2>5, <2>8 DEF CauseInv
<1>5. QED
  BY <1>1, <1>3, <1>4

LEMMA CauseVisit ==
  ASSUME IInv, CauseInv, NEW a \in Agents, Visit(a)
  PROVE  CauseInv'
<1>1. /\ visited \in Nat /\ visited < MaxVisits /\ visited' = visited + 1
      /\ fetch' = [fetch EXCEPT ![visited + 1] = "asked"]
      /\ target' = [target EXCEPT ![visited + 1] = a]
      /\ UNCHANGED <<db, frames, answer, list, gaps>>
  BY ConversationAssumption DEF Visit, IInv, TypeOK, pageVars
<1>2. visited + 1 \in Visits /\ answer[visited + 1] = <<>>
  BY <1>1, ConversationAssumption DEF CauseInv, AnswerInv, Visits
<1>3. ASSUME NEW n \in Visits
      PROVE  /\ \A d \in ToSet(answer'[n]) : db'[d].agent = target'[n]
             /\ n > visited' => fetch'[n] = "none"
             /\ fetch'[n] = "none" => answer'[n] = <<>>
  <2>1. CASE n = visited + 1
    <3>1. ToSet(answer'[n]) = {}
      BY <1>1, <1>2, <2>1 DEF ToSet
    <3>2. fetch'[n] = "asked" /\ ~(n > visited')
      BY <1>1, <1>2, <2>1 DEF IInv, TypeOK
    <3>3. QED
      BY <3>1, <3>2
  <2>2. CASE n # visited + 1
    <3>1. fetch'[n] = fetch[n] /\ target'[n] = target[n]
      BY <1>1, <2>2 DEF IInv, TypeOK
    <3>2. n > visited' => n > visited
      BY <1>1 DEF Visits
    <3>3. QED
      BY <1>1, <3>1, <3>2 DEF CauseInv, AnswerInv
  <2>3. QED
    BY <2>1, <2>2
<1>4. ListInv' /\ GapInv'
  BY <1>1 DEF CauseInv, ListInv, GapInv, Listed, Marked, Saved
<1>5. QED
  BY <1>3, <1>4 DEF CauseInv, AnswerInv

(* A fetch that has been asked for moves on; its answer is of its agent.   *)
LEMMA CauseFetch ==
  ASSUME IInv, CauseInv, NEW n \in Visits, fetch[n] # "none",
         NEW how \in {"read", "applied", "failed"}, fetch' = [fetch EXCEPT ![n] = how],
         NEW s, \A d \in ToSet(s) : db[d].agent = target[n],
         answer' = [answer EXCEPT ![n] = s],
         UNCHANGED <<db, visited, target>>
  PROVE  AnswerInv' /\ Saved' = Saved
<1>1. ~(n > visited)
  BY DEF CauseInv, AnswerInv
<1>2. fetch'[n] = how /\ answer'[n] = s
  BY DEF IInv, TypeOK
<1>3. \A m \in Visits : m # n => fetch'[m] = fetch[m] /\ answer'[m] = answer[m]
  BY DEF IInv, TypeOK
<1>4. QED
  BY <1>1, <1>2, <1>3 DEF CauseInv, AnswerInv, Saved

LEMMA CauseReadEvents ==
  ASSUME IInv, CauseInv, NEW n \in Visits, ReadEvents(n)
  PROVE  CauseInv'
<1>1. PICK s \in Answers(target[n]) : answer' = [answer EXCEPT ![n] = s]
  BY DEF ReadEvents
<1>2. PICK chosen \in SUBSET EventsOf(target[n]) : s \in SetToSeqs(chosen)
  BY <1>1 DEF Answers
<1>3. IsFiniteSet(chosen)
  BY FS_Subset DEF IInv, SavedInv, EventsOf
<1>4. \A d \in ToSet(s) : db[d].agent = target[n]
  BY <1>2, <1>3, OrdersOfSet DEF EventsOf
<1>5. AnswerInv' /\ Saved' = Saved
  BY <1>1, <1>4, CauseFetch DEF ReadEvents
<1>6. ListInv' /\ GapInv'
  BY <1>5 DEF ReadEvents, pageVars, CauseInv, ListInv, GapInv, Listed, Marked
<1>7. QED
  BY <1>5, <1>6 DEF CauseInv

(* A fetch that ends keeps no answer. *)
LEMMA CauseFetchEnds ==
  ASSUME IInv, CauseInv, NEW n \in Visits, fetch[n] \in {"asked", "read"},
         NEW how \in {"applied", "failed"}, FetchEnds(n, how)
  PROVE  AnswerInv' /\ Saved' = Saved
<1>1. ToSet(<<>>) = {}
  BY DEF ToSet
<1>2. QED
  BY <1>1, CauseFetch DEF FetchEnds

LEMMA CauseFetchFails ==
  ASSUME IInv, CauseInv, NEW n \in Visits, FetchFails(n)
  PROVE  CauseInv'
<1>1. AnswerInv' /\ Saved' = Saved
  BY CauseFetchEnds DEF FetchFails
<1>2. ListInv' /\ GapInv'
  BY <1>1 DEF FetchFails, FetchEnds, pageVars, CauseInv, ListInv, GapInv, Listed, Marked
<1>3. QED
  BY <1>1, <1>2 DEF CauseInv

LEMMA CauseLoadAgentEvents ==
  ASSUME IInv, CauseInv, NEW n \in Visits, LoadAgentEvents(n)
  PROVE  CauseInv'
<1> DEFINE a == target[n]
           got == ToSet(answer[n])
           shown == {d \in got : db[d].kind # "output.stream"}
           gone == ToSet(list[a]) \ shown
<1>1. /\ fetch[n] = "read" /\ FetchEnds(n, "applied")
      /\ \/ UNCHANGED pageVars
         \/ /\ \E q \in SetToSeqs(shown) : list' = [list EXCEPT ![a] = Newest(q)]
            /\ gaps' = {g \in gaps : g[1] \notin shown}
                         \cup ((gone \ seen[n]) \X {"overwritten"})
                         \cup ((gone \cap seen[n]) \X {"crowded"})
  BY DEF LoadAgentEvents
<1>2. AnswerInv' /\ Saved' = Saved /\ db' = db /\ frames' = frames
  BY <1>1, CauseFetchEnds DEF FetchEnds
<1>3. CASE UNCHANGED pageVars
  <2>1. ListInv' /\ GapInv'
    BY <1>2, <1>3 DEF pageVars, CauseInv, ListInv, GapInv, Listed, Marked
  <2>2. QED
    BY <1>2, <2>1 DEF CauseInv
<1>4. CASE ~ UNCHANGED pageVars
  <2>1. /\ a \in Agents /\ answer[n] \in Seq(Events) /\ Len(answer[n]) <= Limit
        /\ \A d \in shown : d \in Saved /\ db[d].agent = a /\ db[d].kind # "output.stream"
    BY DEF IInv, TypeOK, SavedInv, CauseInv, AnswerInv
  <2>2. PICK q \in SetToSeqs(shown) : list' = [list EXCEPT ![a] = Newest(q)]
    BY <1>1, <1>4
  <2>3. shown \subseteq got
    OBVIOUS
  <2>4. gaps' = {g \in gaps : g[1] \notin shown}
                  \cup ((gone \ seen[n]) \X {"overwritten"})
                  \cup ((gone \cap seen[n]) \X {"crowded"})
    BY <1>1, <1>4
  <2>5. gone = ToSet(list[a]) \ shown
    OBVIOUS
  <2> HIDE DEF shown, gone
  <2>6. IsFiniteSet(shown) /\ Cardinality(shown) <= Len(answer[n])
    BY <2>1, <2>3, ElementsFit
  <2>7. q \in Seq(shown) /\ ToSet(q) = shown /\ Len(q) = Cardinality(shown)
    BY <2>2, <2>6, OrderHasAll
  <2>8. Newest(q) = q
    <3>1. Len(q) <= MaxListed
      <4>1. Len(q) \in Nat /\ Len(answer[n]) \in Nat
        BY <2>1, <2>7
      <4>2. Len(q) <= Len(answer[n])
        BY <2>6, <2>7
      <4>3. QED
        BY <2>1, <4>1, <4>2, ConversationAssumption
    <3>2. QED
      BY <2>7, <3>1, ShortIsNotCut
  <2>9. list'[a] = q /\ \A b \in Agents : b # a => list'[b] = list[b]
    BY <2>1, <2>2, <2>8 DEF IInv, TypeOK
  <2>10. ListInv'
    BY <1>2, <2>1, <2>7, <2>9 DEF CauseInv, ListInv
  <2>11. ASSUME NEW d \in Saved
         PROVE  Listed(d)' <=> d \in shown \/ (Listed(d) /\ d \notin gone)
    <3>1. db[d].agent \in Agents
      BY DEF IInv, TypeOK
    <3>2. CASE db[d].agent = a
      BY <1>2, <2>5, <2>7, <2>9, <3>2 DEF Listed
    <3>3. CASE db[d].agent # a
      <4>1. d \notin shown /\ d \notin gone
        BY <2>1, <2>5, <3>3 DEF CauseInv, ListInv
      <4>2. QED
        BY <1>2, <2>9, <3>1, <3>3, <4>1 DEF Listed
    <3>4. QED
      BY <3>2, <3>3
  <2>12. ASSUME NEW d
         PROVE  Marked(d, gaps') <=> (Marked(d, gaps) /\ d \notin shown) \/ d \in gone
    <3> DEFINE kept == {g \in gaps : g[1] \notin shown}
               late == (gone \ seen[n]) \X {"overwritten"}
               past == (gone \cap seen[n]) \X {"crowded"}
    <3>1. Marked(d, kept) <=> Marked(d, gaps) /\ d \notin shown
      BY MarkedRest
    <3>2. Marked(d, late) <=> d \in gone \ seen[n]
      BY MarkedPairs
    <3>3. Marked(d, past) <=> d \in gone \cap seen[n]
      BY MarkedPairs
    <3>4. gaps' = (kept \cup late) \cup past
      BY <2>4
    <3> HIDE DEF kept, late, past
    <3>5. Marked(d, gaps') <=> (Marked(d, kept) \/ Marked(d, late)) \/ Marked(d, past)
      BY <3>4, MarkedUnion
    <3>6. QED
      BY <3>1, <3>2, <3>3, <3>5
  <2>13. \A d \in gone : d \notin shown
    BY <2>5
  <2>14. GapInv'
    <3>1. ASSUME NEW d \in Saved, Listed(d)' PROVE ~ Marked(d, gaps')
      BY <2>11, <2>12, <2>13, <3>1 DEF CauseInv, GapInv
    <3>2. ASSUME NEW d \in Saved, frames[d] = 0, db[d].kind # "output.stream"
          PROVE  Listed(d)' \/ Marked(d, gaps')
      BY <2>11, <2>12, <3>2 DEF CauseInv, GapInv
    <3>3. QED
      BY <1>2, <3>1, <3>2 DEF GapInv
  <2>15. QED
    BY <1>2, <2>10, <2>14 DEF CauseInv
<1>5. QED
  BY <1>3, <1>4

(* What is listed, what is recorded as missing, and of whom the answers    *)
(* are, in every reachable state.                                          *)
THEOREM CausesRecorded == Spec => []CauseInv
<1>1. Init => CauseInv
  BY CauseInit
<1>2. IInv /\ CauseInv /\ [Next]_vars => CauseInv'
  <2> SUFFICES ASSUME IInv, CauseInv, [Next]_vars
               PROVE  CauseInv'
    OBVIOUS
  <2>1. CASE Next
    BY <2>1, CausePostEvent, CauseHandleEvent, CauseFrameGone, CauseVisit,
       CauseReadEvents, CauseLoadAgentEvents, CauseFetchFails
       DEF Next, FrameLost, HandleThrows
  <2>2. CASE UNCHANGED vars
    BY <2>2 DEF CauseInv, ListInv, AnswerInv, GapInv, Listed, Marked, Saved,
                vars, fetchVars, pageVars
  <2>3. QED
    BY <2>1, <2>2
<1>3. QED
  BY <1>1, <1>2, Invariant, PTL DEF Spec

(* A message that has come past the page is in its list exactly when none  *)
(* of the five causes of its absence is on record: that its frame was lost *)
(* or threw, that newer messages pushed it out, or that a fetch dropped it *)
(* (page.tsx:26-32, agents.ts:32-82, useWebSocket.ts:41-46,                *)
(* sqlite.go:121-126). For any limits, number of sockets and of visits.    *)
THEOREM MissingExplained == Spec => []MissingOnlyByCause
<1>1. CauseInv => MissingOnlyByCause
  BY DEF CauseInv, GapInv, Marked, MissingOnlyByCause
<1>2. QED
  BY CausesRecorded, <1>1, PTL

-----------------------------------------------------------------------------
(* Least and greatest elements, places of digits, and division.            *)

LEMMA LeastExists ==
  ASSUME NEW S \in SUBSET Nat, S # {}
  PROVE  \E x \in S : \A y \in S : x <= y
<1>1. \A x, y \in Nat : y < x => <<y, x>> \in OpToRel(<, Nat)
  BY DEF OpToRel
<1>2. \E R : IsWellFoundedOn(R, Nat) /\ \A x, y \in Nat : y < x => <<y, x>> \in R
  BY <1>1, NatLessThanWellFounded, Zenon
<1>3. PICK R : IsWellFoundedOn(R, Nat) /\ \A x, y \in Nat : y < x => <<y, x>> \in R
  BY <1>2
<1>4. \E x \in S : \A y \in S : ~ (<<y, x>> \in R)
  BY <1>3, WFMin
<1>5. PICK x \in S : \A y \in S : ~ (<<y, x>> \in R)
  BY <1>4
<1>6. \A y \in S : ~ (y < x)
  BY <1>3, <1>5
<1>. QED
  BY <1>5, <1>6

(* Powers of the base up to n. *)
Powers(g, n) ==
  /\ g \in [0 .. n -> Nat \ {0}] /\ g[0] = 1
  /\ \A k \in 0 .. n - 1 : g[k + 1] = Base * g[k]

LEMMA PowersExist == \A n \in Nat : \E g : Powers(g, n)
<1>. DEFINE bad == {n \in Nat : ~ \E g : Powers(g, n)}
<1>. SUFFICES ASSUME bad # {} PROVE FALSE
  OBVIOUS
<1>1. PICK n \in bad : \A m \in bad : n <= m
  BY LeastExists
<1>2. Base \in Nat \ {0}
  BY ConversationAssumption
<1>3. CASE n = 0
  <2>1. Powers([k \in 0 .. 0 |-> 1], 0)
    BY DEF Powers
  <2>. QED
    BY <1>3, <2>1
<1>4. CASE n # 0
  <2>1. n \in Nat /\ n - 1 \in Nat /\ n - 1 \notin bad
    BY <1>1, <1>4
  <2>2. PICK g : Powers(g, n - 1)
    BY <2>1
  <2>3. PICK p \in Nat \ {0} : p = g[n - 1]
    BY <2>1, <2>2 DEF Powers
  <2>4. PICK q \in Nat \ {0} : q = Base * p
    BY <1>2, <2>3
  <2>. DEFINE h == [k \in 0 .. n |-> IF k = n THEN q ELSE g[k]]
  <2>5. h \in [0 .. n -> Nat \ {0}] /\ h[0] = 1
    BY <2>1, <2>2, <2>4 DEF Powers
  <2>6. \A k \in 0 .. n - 1 : h[k + 1] = Base * h[k]
    <3>. SUFFICES ASSUME NEW k \in 0 .. n - 1 PROVE h[k + 1] = Base * h[k]
      OBVIOUS
    <3>1. h[k] = g[k]
      BY <2>1
    <3>2. CASE k = n - 1
      BY <2>1, <2>3, <2>4, <3>1, <3>2
    <3>3. CASE k # n - 1
      <4>1. k \in 0 .. (n - 1) - 1 /\ h[k + 1] = g[k + 1]
        BY <2>1, <3>3
      <4>. QED
        BY <2>2, <3>1, <4>1 DEF Powers
    <3>. QED
      BY <3>2, <3>3
  <2>7. Powers(h, n)
    BY <2>5, <2>6 DEF Powers
  <2>. QED
    BY <2>7
<1>. QED
  BY <1>3, <1>4

LEMMA PowersUnique ==
  ASSUME NEW n \in Nat, NEW m \in Nat, NEW g, NEW h, Powers(g, n), Powers(h, m),
         NEW i \in Nat, i <= n, i <= m
  PROVE  g[i] = h[i]
<1>. DEFINE bad == {k \in 0 .. i : g[k] # h[k]}
<1>. SUFFICES ASSUME bad # {} PROVE FALSE
  OBVIOUS
<1>1. bad \in SUBSET Nat
  OBVIOUS
<1>2. PICK k \in bad : \A l \in bad : k <= l
  BY <1>1, LeastExists
<1>3. k # 0
  BY DEF Powers
<1>4. k \in Nat /\ k - 1 \in 0 .. n - 1 /\ k - 1 \in 0 .. m - 1 /\ k - 1 \in 0 .. i
  BY <1>3
<1>5. g[k - 1] = h[k - 1]
  BY <1>2, <1>4
<1>6. k = (k - 1) + 1
  BY <1>4
<1>. QED
  BY <1>4, <1>5, <1>6 DEF Powers

LEMMA PlaceUnfolds == Place = [k \in Nat |-> IF k = 0 THEN 1 ELSE Base * Place[k - 1]]
<1>. DEFINE G(n) == CHOOSE g : Powers(g, n)
            f == [n \in Nat |-> G(n)[n]]
<1>1. \A n \in Nat : Powers(G(n), n)
  BY PowersExist
<1>. HIDE DEF G
<1>2. ASSUME NEW n \in Nat PROVE f[n] = IF n = 0 THEN 1 ELSE Base * f[n - 1]
  <2>1. CASE n = 0
    BY <1>1, <2>1 DEF Powers
  <2>2. CASE n # 0
    <3>1. n - 1 \in Nat /\ n - 1 \in 0 .. n - 1 /\ (n - 1) + 1 = n /\ n - 1 <= n
      BY <2>2
    <3>2. G(n)[n] = Base * G(n)[n - 1]
      BY <1>1, <3>1 DEF Powers
    <3>3. G(n)[n - 1] = G(n - 1)[n - 1]
      BY <1>1, <3>1, PowersUnique
    <3>. QED
      BY <2>2, <3>1, <3>2, <3>3
  <2>. QED
    BY <2>1, <2>2
<1>3. f = [n \in Nat |-> IF n = 0 THEN 1 ELSE Base * f[n - 1]]
  BY <1>2
<1>. HIDE DEF f
<1>4. \E g : g = [n \in Nat |-> IF n = 0 THEN 1 ELSE Base * g[n - 1]]
  BY <1>3
<1>. QED
  BY <1>4 DEF Place

LEMMA PlaceFacts ==
  /\ Place[0] = 1
  /\ \A k \in Nat : Place[k] \in Nat \ {0} /\ Place[k + 1] = Base * Place[k]
<1>1. Place[0] = 1
  BY PlaceUnfolds
<1>2. ASSUME NEW k \in Nat PROVE Place[k + 1] = Base * Place[k]
  <2>1. k + 1 \in Nat /\ k + 1 # 0 /\ (k + 1) - 1 = k
    OBVIOUS
  <2>. QED
    BY <2>1, PlaceUnfolds
<1>3. \A k \in Nat : Place[k] \in Nat \ {0}
  <2>. DEFINE bad == {k \in Nat : Place[k] \notin Nat \ {0}}
  <2>. SUFFICES ASSUME bad # {} PROVE FALSE
    OBVIOUS
  <2>1. PICK k \in bad : \A l \in bad : k <= l
    BY LeastExists
  <2>2. k \in Nat /\ k # 0 /\ k - 1 \in Nat /\ (k - 1) + 1 = k
    BY <1>1
  <2>3. Place[k - 1] \in Nat \ {0}
    BY <2>1, <2>2
  <2>4. Place[k] = Base * Place[k - 1]
    BY <1>2, <2>2
  <2>5. \A p \in Nat \ {0} : Base * p \in Nat \ {0}
    BY ConversationAssumption
  <2>. QED
    BY <2>3, <2>4, <2>5
<1>. QED
  BY <1>1, <1>2, <1>3

LEMMA Quotient ==
  ASSUME NEW t \in Nat, NEW q \in Nat \ {0}
  PROVE  /\ t \div q \in Nat /\ t % q \in 0 .. q - 1
         /\ t = (q * (t \div q)) + (t % q)
<1>1. t \div q \in Nat
  OBVIOUS
<1>2. t % q \in Nat
  OBVIOUS
<1>3. t % q < q
  OBVIOUS
<1>4. t = (q * (t \div q)) + (t % q)
  OBVIOUS
<1>5. t % q \in 0 .. q - 1
  <2>1. PICK r \in Nat : r = t % q /\ r < q
    BY <1>2, <1>3
  <2>. QED
    BY <2>1
<1>. QED
  BY <1>1, <1>4, <1>5

LEMMA QuotientIs ==
  ASSUME NEW t \in Nat, NEW q \in Nat \ {0}, NEW x \in Nat, q * x <= t, t < q * x + q
  PROVE  t \div q = x
<1>1. PICK y \in Nat, r \in 0 .. q - 1 : y = t \div q /\ t = q * y + r
  BY Quotient
<1>2. CASE y < x
  <2>1. y + 1 <= x
    BY <1>2
  <2>2. q * (y + 1) <= q * x
    BY <2>1
  <2>3. q * (y + 1) = q * y + q
    OBVIOUS
  <2>. QED
    BY <1>1, <2>2, <2>3
<1>3. CASE x < y
  <2>1. x + 1 <= y
    BY <1>3
  <2>2. q * (x + 1) <= q * y
    BY <2>1
  <2>3. q * (x + 1) = q * x + q
    OBVIOUS
  <2>. QED
    BY <1>1, <2>2, <2>3
<1>. QED
  BY <1>1, <1>2, <1>3

LEMMA QuotientTwice ==
  ASSUME NEW t \in Nat, NEW q \in Nat \ {0}, NEW b \in Nat \ {0}
  PROVE  t \div q = (b * (t \div (b * q))) + ((t \div q) % b)
<1>1. PICK x \in Nat, r \in 0 .. q - 1 : x = t \div q /\ t = q * x + r
  BY Quotient
<1>2. PICK y \in Nat, s \in 0 .. b - 1 : y = x \div b /\ s = x % b /\ x = b * y + s
  BY Quotient
<1>3. b * q \in Nat \ {0}
  OBVIOUS
<1>4. PICK d \in Nat : d = q * s
  BY <1>2
<1>5. PICK p \in Nat \ {0} : p = b * q
  BY <1>3
<1>6. PICK m \in Nat : m = p * y
  BY <1>2, <1>5
<1>7. q * x = m + d
  <2>1. q * (b * y + s) = (b * q) * y + q * s
    BY <1>2
  <2>. QED
    BY <1>2, <1>4, <1>5, <1>6, <2>1
<1>8. t = m + d + r
  BY <1>1, <1>7
<1>9. d + r < p
  <2>1. s + 1 <= b /\ q * (s + 1) = d + q
    BY <1>2, <1>4
  <2>2. q * (s + 1) <= q * b
    BY <1>2, <2>1
  <2>3. q * b = p
    BY <1>5
  <2>. QED
    BY <1>1, <1>4, <1>5, <2>1, <2>2, <2>3
<1>10. m <= t /\ t < m + p
  <2>1. m \in Nat /\ d \in Nat /\ r \in Nat /\ p \in Nat
    BY <1>1, <1>4, <1>5, <1>6
  <2>. QED
    BY <2>1, <1>8, <1>9
<1>11. t \div p = y
  BY <1>2, <1>5, <1>6, <1>10, QuotientIs
<1>. QED
  BY <1>1, <1>2, <1>5, <1>11

LEMMA QuotientGrows ==
  ASSUME NEW t \in Nat, NEW u \in Nat, NEW q \in Nat \ {0}, u <= t
  PROVE  u \div q <= t \div q
<1>1. PICK x \in Nat, r \in 0 .. q - 1 : x = t \div q /\ t = q * x + r
  BY Quotient
<1>2. PICK y \in Nat, s \in 0 .. q - 1 : y = u \div q /\ u = q * y + s
  BY Quotient
<1>3. CASE x < y
  <2>1. x + 1 <= y
    BY <1>3
  <2>2. q * (x + 1) <= q * y
    BY <2>1
  <2>3. q * (x + 1) = q * x + q
    OBVIOUS
  <2>. QED
    BY <1>1, <1>2, <2>2, <2>3
<1>. QED
  BY <1>1, <1>2, <1>3

LEMMA MaxIs ==
  ASSUME NEW n \in Int, NEW S \in SUBSET (1 .. n), S # {}
  PROVE  Max(S) \in S /\ \A y \in S : y <= Max(S)
<1>. DEFINE T == {n - x : x \in S}
<1>1. \A x \in S : n - x \in Nat
  OBVIOUS
<1>2. T \in SUBSET Nat /\ T # {}
  BY <1>1
<1>3. PICK z \in T : \A y \in T : z <= y
  BY <1>2, LeastExists
<1>4. PICK x \in S : z = n - x
  BY <1>3
<1>5. \A y \in S : n - y \in T
  OBVIOUS
<1>6. \A y \in S : n - x <= n - y
  BY <1>3, <1>4, <1>5
<1>7. \A y \in S : x >= y
  BY <1>6
<1>8. PICK w : w = Max(S)
  OBVIOUS
<1>9. w \in S /\ \A y \in S : w >= y
  BY <1>4, <1>7, <1>8 DEF Max
<1>. QED
  BY <1>8, <1>9

LEMMA PrefixPointwise ==
  ASSUME NEW S, NEW s \in Seq(S), NEW t \in Seq(S)
  PROVE  IsPrefix(s, t) <=> Len(s) <= Len(t) /\ \A k \in 1 .. Len(s) : s[k] = t[k]
<1>1. Len(s) <= Len(t) =>
        /\ SubSeq(s, 1, Len(s)) = [k \in 1 .. Len(s) |-> s[k]]
        /\ SubSeq(t, 1, Len(s)) = [k \in 1 .. Len(s) |-> t[k]]
  OBVIOUS
<1>. QED
  BY <1>1 DEF IsPrefix

LEMMA SeqFacts ==
  ASSUME NEW S, NEW s \in Seq(S)
  PROVE  Len(s) \in Nat /\ DOMAIN s = 1 .. Len(s) /\ \A k \in DOMAIN s : s[k] \in S
OBVIOUS

-----------------------------------------------------------------------------
(* Timestamps. *)

(* The ticks of t down to its i-th digit. *)
UpTo(t, i) == t \div Place[Digits - i]

LEMMA UpToFacts ==
  ASSUME NEW t \in Nat
  PROVE  /\ \A i \in 0 .. Digits : UpTo(t, i) \in Nat
         /\ UpTo(t, 0) = Second(t) /\ UpTo(t, Digits) = t
         /\ \A i \in 1 .. Digits :
              /\ Digit(t, i) \in 0 .. Base - 1
              /\ UpTo(t, i) = Base * UpTo(t, i - 1) + Digit(t, i)
<1>1. ASSUME NEW i \in 0 .. Digits PROVE UpTo(t, i) \in Nat
  <2>1. Digits - i \in Nat
    BY ConversationAssumption
  <2>2. Place[Digits - i] \in Nat \ {0}
    BY <2>1, PlaceFacts
  <2>. QED
    BY <2>2, Quotient DEF UpTo
<1>2. UpTo(t, 0) = Second(t)
  BY ConversationAssumption DEF UpTo, Second
<1>3. UpTo(t, Digits) = t
  <2>1. Digits - Digits = 0
    BY ConversationAssumption
  <2>2. t \div 1 = t
    OBVIOUS
  <2>. QED
    BY <2>1, <2>2, PlaceFacts DEF UpTo
<1>4. ASSUME NEW i \in 1 .. Digits
      PROVE  /\ Digit(t, i) \in 0 .. Base - 1
             /\ UpTo(t, i) = Base * UpTo(t, i - 1) + Digit(t, i)
  <2>1. PICK k \in Nat : k = Digits - i /\ k + 1 = Digits - (i - 1)
    BY ConversationAssumption
  <2>2. PICK q \in Nat \ {0} : q = Place[k] /\ Place[k + 1] = Base * q
    BY PlaceFacts
  <2>3. Base \in Nat \ {0}
    BY ConversationAssumption
  <2>4. t \div q \in Nat
    BY Quotient
  <2>5. (t \div q) % Base \in 0 .. Base - 1
    BY <2>3, <2>4, Quotient
  <2>6. t \div q = (Base * (t \div (Base * q))) + ((t \div q) % Base)
    BY <2>3, QuotientTwice
  <2>7. UpTo(t, i) = t \div q /\ Digit(t, i) = (t \div q) % Base
    BY <2>1, <2>2 DEF UpTo, Digit
  <2>8. UpTo(t, i - 1) = t \div (Base * q)
    BY <2>1, <2>2 DEF UpTo
  <2>. QED
    BY <2>5, <2>6, <2>7, <2>8
<1>. QED
  BY <1>1, <1>2, <1>3, <1>4

(* Two moments of one second differ first in a digit that is greater in    *)
(* the later one.                                                          *)
LEMMA FirstDifference ==
  ASSUME NEW t \in Nat, NEW u \in Nat, u < t, Second(u) = Second(t)
  PROVE  \E i \in 1 .. Digits :
           Digit(u, i) < Digit(t, i) /\ \A j \in 1 .. i - 1 : Digit(u, j) = Digit(t, j)
<1>. DEFINE differ == {i \in 0 .. Digits : UpTo(u, i) # UpTo(t, i)}
<1>1. differ \in SUBSET Nat /\ differ # {}
  <2>1. Digits \in differ
    BY UpToFacts, ConversationAssumption
  <2>. QED
    BY <2>1
<1>2. PICK i \in differ : \A j \in differ : i <= j
  BY <1>1, LeastExists
<1>3. i \in 1 .. Digits
  <2>1. i # 0
    BY UpToFacts
  <2>. QED
    BY <2>1, ConversationAssumption
<1>4. \A j \in 0 .. i - 1 : UpTo(u, j) = UpTo(t, j)
  BY <1>2, <1>3, ConversationAssumption
<1>5. ASSUME NEW j \in 1 .. i - 1 PROVE Digit(u, j) = Digit(t, j)
  <2>1. j \in 1 .. Digits /\ j - 1 \in 0 .. i - 1 /\ j \in 0 .. i - 1
    BY <1>3, ConversationAssumption
  <2>2. UpTo(u, j) = UpTo(t, j) /\ UpTo(u, j - 1) = UpTo(t, j - 1)
    BY <1>4, <2>1
  <2>3. PICK x \in Int : x = Base * UpTo(t, j - 1)
    <3>1. Base \in Nat /\ j - 1 \in 0 .. Digits
      BY <1>3, <2>1, ConversationAssumption
    <3>2. UpTo(t, j - 1) \in Nat
      BY <3>1, UpToFacts
    <3>. QED
      BY <3>1, <3>2
  <2>4. /\ Digit(u, j) \in Nat /\ Digit(t, j) \in Nat
        /\ UpTo(u, j) = x + Digit(u, j) /\ UpTo(t, j) = x + Digit(t, j)
    <3>1. Digit(u, j) \in 0 .. Base - 1 /\ Digit(t, j) \in 0 .. Base - 1
      BY <2>1, UpToFacts
    <3>. QED
      BY <2>1, <2>2, <2>3, <3>1, UpToFacts, ConversationAssumption
  <2>5. \A c, d \in Nat : x + c = x + d => c = d
    OBVIOUS
  <2>. QED
    BY <2>2, <2>4, <2>5
<1>6. Digit(u, i) < Digit(t, i)
  <2>1. UpTo(u, i) <= UpTo(t, i)
    <3>1. Digits - i \in Nat
      BY <1>3, ConversationAssumption
    <3>2. Place[Digits - i] \in Nat \ {0}
      BY <3>1, PlaceFacts
    <3>. QED
      BY <3>2, QuotientGrows DEF UpTo
  <2>2. i - 1 \in 0 .. i - 1 /\ i - 1 \in 0 .. Digits
    BY <1>3, ConversationAssumption
  <2>3. PICK x \in Int : x = Base * UpTo(t, i - 1) /\ x = Base * UpTo(u, i - 1)
    <3>1. UpTo(t, i - 1) \in Nat /\ Base \in Nat /\ UpTo(u, i - 1) = UpTo(t, i - 1)
      BY <1>4, <2>2, UpToFacts, ConversationAssumption
    <3>. QED
      BY <3>1
  <2>4. /\ Digit(u, i) \in Nat /\ Digit(t, i) \in Nat
        /\ UpTo(u, i) = x + Digit(u, i) /\ UpTo(t, i) = x + Digit(t, i)
    <3>1. Digit(u, i) \in 0 .. Base - 1 /\ Digit(t, i) \in 0 .. Base - 1
      BY <1>3, UpToFacts
    <3>. QED
      BY <1>3, <2>3, <3>1, UpToFacts, ConversationAssumption
  <2>5. UpTo(u, i) # UpTo(t, i)
    OBVIOUS
  <2>. QED
    BY <2>1, <2>4, <2>5
<1>. QED
  BY <1>3, <1>5, <1>6

(* What is cut from the end of a fraction is zeros. *)
LEMMA FractionFacts ==
  ASSUME NEW t \in Nat
  PROVE  \E n \in 0 .. Digits :
           /\ Fraction(t) = [i \in 1 .. n |-> Digit(t, i)]
           /\ \A i \in 1 .. Digits : n < i => Digit(t, i) = 0
<1>. DEFINE shown == {i \in 1 .. Digits : Digit(t, i) # 0}
            n == IF shown = {} THEN 0 ELSE Max(shown)
<1>1. Digits \in Int /\ 0 \in 0 .. Digits
  BY ConversationAssumption
<1>2. shown # {} => Max(shown) \in shown /\ \A i \in shown : i <= Max(shown)
  BY <1>1, MaxIs
<1>3. n \in 0 .. Digits
  BY <1>1, <1>2
<1>4. \A i \in 1 .. Digits : n < i => i \notin shown
  BY <1>1, <1>2
<1>5. Fraction(t) = [i \in 1 .. n |-> Digit(t, i)]
  BY DEF Fraction
<1>. HIDE DEF n
<1>6. \A i \in 1 .. Digits : n < i => Digit(t, i) = 0
  BY <1>4
<1>. QED
  BY <1>3, <1>5, <1>6

LEMMA Joined ==
  ASSUME NEW S, NEW s \in Seq(S), NEW t \in Seq(S)
  PROVE  s \o t \in Seq(S)
OBVIOUS

LEMMA TextFacts ==
  ASSUME NEW t \in Nat, NEW n \in 0 .. Digits, Fraction(t) = [i \in 1 .. n |-> Digit(t, i)]
  PROVE  /\ Text(t) \in Seq(Nat) /\ 1 \in DOMAIN Text(t) /\ Text(t)[1] = Second(t)
         /\ n # 0 => /\ 1 .. n + 3 = DOMAIN Text(t) /\ Text(t)[2] = Point
                     /\ \A i \in 1 .. n : Text(t)[i + 2] = Digit(t, i) + 1
<1>. DEFINE digits == [i \in DOMAIN Fraction(t) |-> Fraction(t)[i] + 1]
<1>1. n \in Nat /\ Second(t) \in Nat /\ Point \in Nat /\ Zulu \in Nat
  BY UpToFacts, ConversationAssumption DEF Point, Zulu
<1>2. digits = [i \in 1 .. n |-> Digit(t, i) + 1]
  OBVIOUS
<1>3. \A i \in 1 .. n : Digit(t, i) + 1 \in Nat
  <2>1. \A i \in 1 .. n : i \in 1 .. Digits
    BY ConversationAssumption
  <2>2. \A i \in 1 .. n : Digit(t, i) \in 0 .. Base - 1
    BY <2>1, UpToFacts
  <2>. QED
    BY <2>2, ConversationAssumption
<1>4. Text(t) = <<Second(t)>> \o (IF digits = <<>> THEN <<>> ELSE <<Point>> \o digits) \o <<Zulu>>
  BY DEF Text
<1>. HIDE DEF digits
<1>5. digits \in Seq(Nat) /\ Len(digits) = n /\ \A i \in 1 .. n : digits[i] = Digit(t, i) + 1
  BY <1>1, <1>2, <1>3
<1>6. CASE n = 0
  <2>1. digits = <<>>
    BY <1>5, <1>6
  <2>2. Text(t) = <<Second(t)>> \o <<>> \o <<Zulu>>
    BY <1>4, <2>1
  <2>. QED
    BY <1>1, <1>6, <2>2
<1>7. CASE n # 0
  <2>1. digits # <<>>
    BY <1>5, <1>7
  <2>2. PICK d \in Seq(Nat) : d = <<Point>> \o digits
    <3>1. <<Point>> \in Seq(Nat)
      BY <1>1
    <3>2. <<Point>> \o digits \in Seq(Nat)
      BY <1>5, <3>1, Joined
    <3>. QED
      BY <3>2
  <2>3. Len(d) = n + 1 /\ d[1] = Point /\ \A i \in 1 .. n : d[i + 1] = Digit(t, i) + 1
    BY <1>1, <1>5, <2>2
  <2>4. PICK s \in Seq(Nat) : s = <<Second(t)>> \o d
    <3>1. <<Second(t)>> \in Seq(Nat)
      BY <1>1
    <3>2. <<Second(t)>> \o d \in Seq(Nat)
      BY <3>1, Joined
    <3>. QED
      BY <3>2
  <2>5. /\ Len(s) = n + 2 /\ s[1] = Second(t) /\ s[2] = Point
        /\ \A i \in 1 .. n : s[i + 2] = Digit(t, i) + 1
    <3>1. Len(s) = 1 + Len(d) /\ s[1] = Second(t) /\ \A i \in 1 .. Len(d) : s[i + 1] = d[i]
      BY <2>4
    <3>2. \A i \in 1 .. n : i + 1 \in 1 .. Len(d) /\ (i + 1) + 1 = i + 2
      BY <1>1, <2>3
    <3>3. \A i \in 1 .. n : s[i + 2] = d[i + 1]
      BY <3>1, <3>2
    <3>4. 1 \in 1 .. Len(d)
      BY <1>1, <2>3
    <3>. QED
      BY <1>1, <2>3, <3>1, <3>3, <3>4
  <2>6. Text(t) = s \o <<Zulu>>
    BY <1>4, <2>1, <2>2, <2>4
  <2>7. /\ Text(t) \in Seq(Nat) /\ Len(Text(t)) = n + 3
        /\ \A i \in 1 .. n + 2 : Text(t)[i] = s[i]
    BY <1>1, <2>5, <2>6
  <2>8. DOMAIN Text(t) = 1 .. n + 3
    BY <2>7
  <2>9. \A i \in 1 .. n : i + 2 \in 1 .. n + 2
    BY <1>1
  <2>. QED
    BY <1>1, <2>5, <2>7, <2>8, <2>9
<1>. QED
  BY <1>6, <1>7

(* But for a fraction that continues another, the text of the earlier of   *)
(* two moments comes first.                                                *)
LEMMA TextsInOrder ==
  ASSUME NEW t \in Moments, NEW u \in Moments, u < t, ~ Continues[t][u]
  PROVE  Sorted[u][t]
<1>1. t \in Nat /\ u \in Nat
  BY ConversationAssumption
<1>2. PICK n \in 0 .. Digits :
        /\ Fraction(t) = [i \in 1 .. n |-> Digit(t, i)]
        /\ \A i \in 1 .. Digits : n < i => Digit(t, i) = 0
  BY <1>1, FractionFacts
<1>3. PICK m \in 0 .. Digits :
        /\ Fraction(u) = [i \in 1 .. m |-> Digit(u, i)]
        /\ \A i \in 1 .. Digits : m < i => Digit(u, i) = 0
  BY <1>1, FractionFacts
<1>4. n \in Nat /\ m \in Nat
  BY ConversationAssumption
<1>5. /\ Text(t) \in Seq(Nat) /\ 1 \in DOMAIN Text(t) /\ Text(t)[1] = Second(t)
      /\ n # 0 => /\ 1 .. n + 3 = DOMAIN Text(t) /\ Text(t)[2] = Point
                  /\ \A i \in 1 .. n : Text(t)[i + 2] = Digit(t, i) + 1
  BY <1>1, <1>2, TextFacts
<1>6. /\ Text(u) \in Seq(Nat) /\ 1 \in DOMAIN Text(u) /\ Text(u)[1] = Second(u)
      /\ m # 0 => /\ 1 .. m + 3 = DOMAIN Text(u) /\ Text(u)[2] = Point
                  /\ \A i \in 1 .. m : Text(u)[i + 2] = Digit(u, i) + 1
  BY <1>1, <1>3, TextFacts
<1>7. Second(t) \in Nat /\ Second(u) \in Nat /\ Second(u) <= Second(t)
  <2>1. Place[Digits] \in Nat \ {0}
    BY PlaceFacts, ConversationAssumption
  <2>. QED
    <3>1. Second(t) = t \div Place[Digits] /\ Second(u) = u \div Place[Digits]
      BY DEF Second
    <3>2. PICK q \in Nat \ {0} : q = Place[Digits]
      BY <2>1
    <3>3. t \div q \in Nat /\ u \div q \in Nat
      BY <1>1, Quotient
    <3>4. u \div q <= t \div q
      BY <1>1, QuotientGrows
    <3>. QED
      BY <3>1, <3>2, <3>3, <3>4
<1>8. CASE Second(u) < Second(t)
  <2>1. Text(u)[1] < Text(t)[1]
    BY <1>5, <1>6, <1>8
  <2>2. \A j \in 1 .. 1 - 1 : Text(u)[j] = Text(t)[j]
    OBVIOUS
  <2>3. TextBefore(Text(u), Text(t))
    BY <1>5, <1>6, <2>1, <2>2 DEF TextBefore
  <2>. QED
    BY <2>3 DEF Sorted
<1>9. CASE Second(u) = Second(t)
  <2>1. PICK i \in 1 .. Digits :
          Digit(u, i) < Digit(t, i) /\ \A j \in 1 .. i - 1 : Digit(u, j) = Digit(t, j)
    BY <1>1, <1>9, FirstDifference
  <2>2. i \in Nat /\ 1 <= i /\ Digit(u, i) \in Nat /\ Digit(t, i) \in Nat
    <3>1. Digit(u, i) \in 0 .. Base - 1 /\ Digit(t, i) \in 0 .. Base - 1
      BY <1>1, UpToFacts
    <3>. QED
      BY <3>1, ConversationAssumption
  <2>3. i <= n
    BY <1>2, <1>4, <2>1, <2>2
  <2>4. i <= m
    <3>. SUFFICES ASSUME m < i PROVE FALSE
      BY <1>4, <2>2
    <3>1. \A j \in 1 .. m : Digit(u, j) = Digit(t, j)
      BY <1>4, <2>1, <2>2
    <3>2. Fraction(u) \in Seq(Int) /\ Len(Fraction(u)) = m
      <4>1. \A j \in 1 .. m : j \in 1 .. Digits
        BY ConversationAssumption
      <4>2. \A j \in 1 .. m : Digit(u, j) \in 0 .. Base - 1
        BY <1>1, <4>1, UpToFacts
      <4>3. \A j \in 1 .. m : Digit(u, j) \in Int
        BY <4>2, ConversationAssumption
      <4>. QED
        BY <1>3, <1>4, <4>3
    <3>3. Fraction(t) \in Seq(Int) /\ Len(Fraction(t)) = n
      <4>1. \A j \in 1 .. n : j \in 1 .. Digits
        BY ConversationAssumption
      <4>2. \A j \in 1 .. n : Digit(t, j) \in 0 .. Base - 1
        BY <1>1, <4>1, UpToFacts
      <4>3. \A j \in 1 .. n : Digit(t, j) \in Int
        BY <4>2, ConversationAssumption
      <4>. QED
        BY <1>2, <1>4, <4>3
    <3>4. m < n
      BY <1>4, <2>2, <2>3
    <3>5. \A j \in 1 .. m : Fraction(u)[j] = Fraction(t)[j]
      BY <1>2, <1>3, <1>4, <3>1, <3>4
    <3>6. IsPrefix(Fraction(u), Fraction(t))
      BY <1>4, <3>2, <3>3, <3>4, <3>5, PrefixPointwise
    <3>7. Fraction(u) # Fraction(t)
      BY <1>4, <3>2, <3>3, <3>4
    <3>8. Continues[t][u]
      BY <1>9, <3>6, <3>7 DEF Continues, IsStrictPrefix
    <3>. QED
      BY <3>8
  <2>5. DOMAIN Text(u) = 1 .. m + 3 /\ DOMAIN Text(t) = 1 .. n + 3
    BY <1>4, <1>5, <1>6, <2>2, <2>3, <2>4
  <2>6. i + 2 \in DOMAIN Text(u) \cap DOMAIN Text(t)
    BY <1>4, <2>2, <2>3, <2>4, <2>5
  <2>7. Text(u)[i + 2] < Text(t)[i + 2]
    <3>1. i \in 1 .. m /\ i \in 1 .. n /\ n # 0 /\ m # 0
      BY <1>4, <2>2, <2>3, <2>4
    <3>2. Text(u)[i + 2] = Digit(u, i) + 1 /\ Text(t)[i + 2] = Digit(t, i) + 1
      BY <1>5, <1>6, <3>1
    <3>. QED
      BY <2>1, <2>2, <3>2
  <2>8. ASSUME NEW j \in 1 .. (i + 2) - 1 PROVE Text(u)[j] = Text(t)[j]
    <3>1. CASE j = 1
      BY <1>5, <1>6, <1>9, <3>1
    <3>2. CASE j = 2
      <4>1. n # 0 /\ m # 0
        BY <1>4, <2>2, <2>3, <2>4
      <4>. QED
        BY <1>5, <1>6, <3>2, <4>1
    <3>3. CASE j # 1 /\ j # 2
      <4>1. PICK k \in 1 .. i - 1 : j = k + 2
        <5>1. j - 2 \in 1 .. i - 1 /\ j = (j - 2) + 2
          BY <2>2, <3>3
        <5>. QED
          BY <5>1
      <4>2. k \in 1 .. m /\ k \in 1 .. n /\ n # 0 /\ m # 0
        BY <1>4, <2>2, <2>3, <2>4
      <4>. QED
        BY <1>5, <1>6, <2>1, <4>1, <4>2
    <3>. QED
      BY <3>1, <3>2, <3>3
  <2>9. TextBefore(Text(u), Text(t))
    BY <2>6, <2>7, <2>8 DEF TextBefore
  <2>. QED
    BY <2>9 DEF Sorted
<1>. QED
  BY <1>7, <1>8, <1>9

(* The order of texts is a strict one.                                     *)
LEMMA TextsTransitive ==
  ASSUME NEW x \in Seq(Nat), NEW y \in Seq(Nat), NEW z \in Seq(Nat),
         TextBefore(x, y), TextBefore(y, z)
  PROVE  TextBefore(x, z)
<1>1. PICK i \in DOMAIN x \cap DOMAIN y : x[i] < y[i] /\ \A k \in 1 .. i - 1 : x[k] = y[k]
  BY DEF TextBefore
<1>2. PICK j \in DOMAIN y \cap DOMAIN z : y[j] < z[j] /\ \A k \in 1 .. j - 1 : y[k] = z[k]
  BY DEF TextBefore
<1>3. /\ DOMAIN x = 1 .. Len(x) /\ DOMAIN y = 1 .. Len(y) /\ DOMAIN z = 1 .. Len(z)
      /\ Len(x) \in Nat /\ Len(y) \in Nat /\ Len(z) \in Nat
  OBVIOUS
<1>4. /\ i \in Nat /\ j \in Nat /\ x[i] \in Nat /\ y[i] \in Nat /\ y[j] \in Nat /\ z[j] \in Nat
  BY <1>3, SeqFacts
<1>5. CASE i < j
  <2>1. i \in 1 .. j - 1 /\ i \in DOMAIN x \cap DOMAIN z
    BY <1>3, <1>4, <1>5
  <2>2. x[i] < z[i]
    BY <1>1, <1>2, <2>1
  <2>3. \A k \in 1 .. i - 1 : x[k] = z[k]
    BY <1>1, <1>2, <1>4, <1>5
  <2>. QED
    BY <2>1, <2>2, <2>3 DEF TextBefore
<1>6. CASE j < i
  <2>1. j \in 1 .. i - 1 /\ j \in DOMAIN x \cap DOMAIN z
    BY <1>3, <1>4, <1>6
  <2>2. x[j] < z[j]
    BY <1>1, <1>2, <2>1
  <2>3. \A k \in 1 .. j - 1 : x[k] = z[k]
    BY <1>1, <1>2, <1>4, <1>6
  <2>. QED
    BY <2>1, <2>2, <2>3 DEF TextBefore
<1>7. CASE i = j
  <2>1. x[i] < z[i]
    BY <1>1, <1>2, <1>4, <1>7
  <2>. QED
    BY <1>1, <1>2, <1>7, <2>1 DEF TextBefore
<1>. QED
  BY <1>4, <1>5, <1>6, <1>7

LEMMA SortedStrict ==
  /\ \A t \in Moments : ~ Sorted[t][t]
  /\ \A t, u, v \in Moments : Sorted[t][u] /\ Sorted[u][v] => Sorted[t][v]
<1>1. ASSUME NEW t \in Moments PROVE Text(t) \in Seq(Nat)
  BY ConversationAssumption, FractionFacts, TextFacts
<1>2. \A t, u \in Moments : Sorted[t][u] <=> TextBefore(Text(t), Text(u))
  BY DEF Sorted
<1>3. ASSUME NEW t \in Moments, Sorted[t][t] PROVE FALSE
  <2>1. PICK i \in DOMAIN Text(t) : Text(t)[i] < Text(t)[i]
    BY <1>2, <1>3 DEF TextBefore
  <2>2. Text(t)[i] \in Nat
    BY <1>1, <2>1, SeqFacts
  <2>. QED
    BY <2>1, <2>2
<1>. QED
  BY <1>1, <1>2, <1>3, TextsTransitive

(* A finite set has an element that none comes after.                      *)
LEMMA LastExists ==
  ASSUME NEW S, IsFiniteSet(S), S # {}, NEW R,
         \A x \in S : <<x, x>> \notin R,
         \A x, y, z \in S : <<x, y>> \in R /\ <<y, z>> \in R => <<x, z>> \in R
  PROVE  \E x \in S : \A y \in S : <<x, y>> \notin R
<1>. DEFINE After(x) == {y \in S : <<x, y>> \in R}
            sizes == {Cardinality(After(x)) : x \in S}
<1>1. ASSUME NEW x \in S PROVE IsFiniteSet(After(x)) /\ Cardinality(After(x)) \in Nat
  BY FS_Subset, FS_CardinalityType
<1>2. sizes \in SUBSET Nat /\ sizes # {}
  <2>. HIDE DEF After
  <2>. QED
    BY <1>1
<1>3. PICK n \in sizes : \A k \in sizes : n <= k
  BY <1>2, LeastExists
<1>4. PICK x \in S : n = Cardinality(After(x))
  BY <1>3
<1>. SUFFICES ASSUME NEW y \in S, <<x, y>> \in R PROVE FALSE
  OBVIOUS
<1>5. After(y) \subseteq After(x) /\ y \in After(x) /\ y \notin After(y)
  OBVIOUS
<1>6. Cardinality(After(y)) < Cardinality(After(x))
  <2>1. After(y) # After(x)
    BY <1>5
  <2>. HIDE DEF After
  <2>. QED
    BY <1>1, <1>5, <2>1, FS_Subset
<1>7. Cardinality(After(y)) \in sizes
  OBVIOUS
<1>. HIDE DEF After, sizes
<1>8. PICK k \in Nat : k = Cardinality(After(y)) /\ k \in sizes
  BY <1>1, <1>7
<1>. QED
  BY <1>2, <1>3, <1>4, <1>6, <1>8

-----------------------------------------------------------------------------
(* The answers of the server.                                              *)

Swapped(events, late, early) ==
  /\ events[early].time < events[late].time
  /\ ~ Continues[events[late].time][events[early].time]

(* What AnswersNewestInOrder says of one answer.                           *)
Placed(s, known, a, events) ==
  /\ \A i, j \in DOMAIN s : i < j => ~ Swapped(events, s[i], s[j])
  /\ \A e \in known \ ToSet(s) : events[e].agent = a =>
       \A i \in DOMAIN s : ~ Swapped(events, e, s[i])

OrderInv ==
  \A n \in Visits : seen[n] \subseteq Saved /\ Placed(answer[n], seen[n], target[n], db)

(* Saving other events does not put an answer out of order.                *)
LEMMA PlacedKept ==
  ASSUME NEW s, NEW known, NEW a, NEW X, NEW before, NEW after,
         Placed(s, known, a, before), ToSet(s) \subseteq X, known \subseteq X,
         \A x \in X : after[x] = before[x]
  PROVE  Placed(s, known, a, after)
<1>1. \A i \in DOMAIN s : s[i] \in X
  BY DEF ToSet
<1>2. \A x, y \in X : Swapped(after, x, y) <=> Swapped(before, x, y)
  BY DEF Swapped
<1>. QED
  BY <1>1, <1>2 DEF Placed

LEMMA PlacedEmpty ==
  ASSUME NEW s, DOMAIN s = {}, NEW known, NEW a, NEW events
  PROVE  Placed(s, known, a, events)
BY DEF Placed

(* A misplaced pair would be in the order of the texts.                    *)
LEMMA SwappedSorts ==
  ASSUME NEW d, NEW e, db[d].time \in Moments, db[e].time \in Moments, Swapped(db, d, e)
  PROVE  SortsBefore(e, d)
<1>1. PICK t \in Moments, u \in Moments : t = db[d].time /\ u = db[e].time
  OBVIOUS
<1>2. Sorted[u][t]
  BY <1>1, TextsInOrder DEF Swapped
<1>. QED
  BY <1>1, <1>2 DEF SortsBefore

LEMMA AnswersPlaced ==
  ASSUME IInv, NEW a \in Agents, NEW s \in Answers(a)
  PROVE  Placed(s, Saved, a, db)
<1>1. ToSet(s) \subseteq Saved
  BY AnswersFacts
<1>2. \A d \in Saved : db[d].time \in Moments
  BY DEF IInv, TypeOK
<1>3. \A i \in DOMAIN s : s[i] \in Saved
  BY <1>1 DEF ToSet
<1>4. /\ \A i, j \in DOMAIN s : i < j => ~ SortsBefore(s[j], s[i])
      /\ \A i \in DOMAIN s : \A e \in EventsOf(a) \ ToSet(s) : ~ SortsBefore(s[i], e)
  BY DEF Answers
<1>5. \A d, e \in Saved : Swapped(db, d, e) => SortsBefore(e, d)
  BY <1>2, SwappedSorts
<1>6. \A e \in Saved : db[e].agent = a => e \in EventsOf(a)
  BY DEF EventsOf
<1>. QED
  BY <1>3, <1>4, <1>5, <1>6 DEF Placed

(* A fetch takes an answer in order, or ends without one.                  *)
LEMMA OrderFetch ==
  ASSUME IInv, OrderInv, NEW n \in Visits, UNCHANGED <<db, target>>,
         NEW s, answer' = [answer EXCEPT ![n] = s],
         NEW known \in SUBSET Saved, seen' = [seen EXCEPT ![n] = known],
         Placed(s, known, target[n], db)
  PROVE  OrderInv'
<1>1. Saved' = Saved
  BY DEF Saved
<1>. SUFFICES ASSUME NEW k \in Visits
              PROVE  seen'[k] \subseteq Saved /\ Placed(answer'[k], seen'[k], target[k], db)
  BY <1>1 DEF OrderInv
<1>2. CASE k = n
  BY <1>2 DEF IInv, TypeOK
<1>3. CASE k # n
  BY <1>3 DEF IInv, TypeOK, OrderInv
<1>. QED
  BY <1>2, <1>3

LEMMA OrderStep == IInv /\ CauseInv /\ OrderInv /\ [Next]_vars => OrderInv'
<1>. SUFFICES ASSUME IInv, CauseInv, OrderInv, [Next]_vars PROVE OrderInv'
  OBVIOUS
<1>1. ASSUME NEW e \in Events, NEW a \in Agents, NEW k \in Kinds, NEW t \in Moments,
             PostEvent(e, a, k, t)
      PROVE  OrderInv'
  <2>1. /\ Saved \subseteq Saved' /\ \A d \in Saved : db'[d] = db[d]
        /\ UNCHANGED <<answer, seen, target>>
    BY <1>1 DEF PostEvent, Saved, fetchVars
  <2>2. ASSUME NEW n \in Visits PROVE Placed(answer[n], seen[n], target[n], db')
    <3>1. ToSet(answer[n]) \subseteq Saved /\ seen[n] \subseteq Saved
      BY DEF IInv, SavedInv, OrderInv
    <3>. QED
      BY <2>1, <3>1, PlacedKept DEF OrderInv
  <2>. QED
    BY <2>1, <2>2 DEF OrderInv
<1>2. ASSUME NEW a \in Agents, Visit(a)  PROVE OrderInv'
  <2>1. /\ UNCHANGED <<db, answer, seen>> /\ Saved' = Saved
        /\ \A n \in Visits : n # visited + 1 => target'[n] = target[n]
        /\ visited \in Nat
    BY <1>2 DEF Visit, Saved, IInv, TypeOK
  <2>2. ASSUME NEW n \in Visits PROVE Placed(answer[n], seen[n], target'[n], db)
    <3>1. CASE n = visited + 1
      <4>1. answer[n] = <<>>
        BY <2>1, <3>1 DEF CauseInv, AnswerInv, Visits
      <4>. QED
        BY <4>1, PlacedEmpty
    <3>2. CASE n # visited + 1
      BY <2>1, <3>2 DEF OrderInv
    <3>. QED
      BY <3>1, <3>2
  <2>. QED
    BY <2>1, <2>2 DEF OrderInv
<1>3. ASSUME NEW n \in Visits, ReadEvents(n)  PROVE OrderInv'
  <2>1. PICK s \in Answers(target[n]) : answer' = [answer EXCEPT ![n] = s]
    BY <1>3 DEF ReadEvents
  <2>2. UNCHANGED <<db, target>> /\ seen' = [seen EXCEPT ![n] = Saved]
    BY <1>3 DEF ReadEvents
  <2>3. Placed(s, Saved, target[n], db)
    BY <2>1, AnswersPlaced DEF IInv, TypeOK
  <2>. QED
    BY <2>1, <2>2, <2>3, OrderFetch
<1>4. ASSUME NEW n \in Visits, LoadAgentEvents(n) \/ FetchFails(n)  PROVE OrderInv'
  <2>1. /\ UNCHANGED <<db, target>> /\ answer' = [answer EXCEPT ![n] = <<>>]
        /\ seen' = [seen EXCEPT ![n] = {}]
    BY <1>4 DEF LoadAgentEvents, FetchFails, FetchEnds
  <2>2. Placed(<<>>, {}, target[n], db)
    BY PlacedEmpty
  <2>. QED
    BY <2>1, <2>2, OrderFetch
<1>5. CASE UNCHANGED <<db, fetchVars>>
  BY <1>5 DEF OrderInv, Saved, fetchVars
<1>6. ASSUME NEW e \in Events, HandleEvent(e) \/ HandleThrows(e) \/ FrameLost(e)
      PROVE  UNCHANGED <<db, fetchVars>>
  BY <1>6 DEF HandleEvent, HandleWith, HandleThrows, FrameLost, FrameGone
<1>. QED
  BY <1>1, <1>2, <1>3, <1>4, <1>5, <1>6 DEF Next, vars

(* Of an agent with sessions one is the last in the order of the texts.    *)
LEMMA SessionExists ==
  ASSUME IInv, NEW a \in Agents, Sessions(a) # {}
  PROVE  SessionData(a) # {}
<1>1. IsFiniteSet(Sessions(a)) /\ \A d \in Sessions(a) : db[d].time \in Moments
  <2>1. Sessions(a) \subseteq Saved
    BY DEF Sessions, EventsOf
  <2>. QED
    BY <2>1, FS_Subset DEF IInv, SavedInv, TypeOK
<1>. DEFINE S == Sessions(a)
            R == {p \in S \X S : SortsBefore(p[1], p[2])}
<1>2. \A x, y \in S : <<x, y>> \in R <=> Sorted[db[x].time][db[y].time]
  BY DEF SortsBefore
<1>. HIDE DEF R
<1>3. \A x \in S : <<x, x>> \notin R
  BY <1>1, <1>2, SortedStrict
<1>4. \A x, y, z \in S : <<x, y>> \in R /\ <<y, z>> \in R => <<x, z>> \in R
  BY <1>1, <1>2, SortedStrict
<1>5. \E x \in S : \A y \in S : <<x, y>> \notin R
  BY <1>1, <1>3, <1>4, LastExists
<1>. QED
  BY <1>2, <1>5 DEF SessionData, SortsBefore

(* The server answers with an agent's newest events in the order of time,  *)
(* and finds the terminal of its newest session, but for pairs of one      *)
(* second of which one's fraction continues the other's (sqlite.go:79,     *)
(* 121-126, 146-152): in any base, for any number of digits and events.    *)
THEOREM AnswersInOrder == Spec => []AnswersNewestInOrder
<1>1. Init => OrderInv
  <2>. SUFFICES ASSUME Init, NEW n \in Visits
                PROVE  seen[n] = {} /\ DOMAIN answer[n] = {}
    BY PlacedEmpty DEF OrderInv
  <2>. QED
    BY DEF Init
<1>2. IInv /\ OrderInv => AnswersNewestInOrder
  <2>. SUFFICES ASSUME IInv, OrderInv PROVE AnswersNewestInOrder
    OBVIOUS
  <2>1. \A d, e : Swapped(db, d, e) <=> Misplaced(d, e)
    BY DEF Swapped, Misplaced
  <2>2. ASSUME NEW n \in Visits
        PROVE  /\ \A i, j \in DOMAIN answer[n] : i < j => ~ Misplaced(answer[n][i], answer[n][j])
               /\ \A e \in seen[n] \ ToSet(answer[n]) : db[e].agent = target[n] =>
                    \A i \in DOMAIN answer[n] : ~ Misplaced(e, answer[n][i])
    BY <2>1 DEF OrderInv, Placed
  <2>3. ASSUME NEW a \in Agents, NEW e \in SessionData(a), NEW d \in Sessions(a)
        PROVE  ~ Misplaced(d, e)
    <3>1. e \in Saved /\ d \in Saved /\ ~ SortsBefore(e, d)
      BY DEF SessionData, Sessions, EventsOf
    <3>. QED
      BY <2>1, <3>1, SwappedSorts DEF IInv, TypeOK
  <2>. QED
    BY <2>2, <2>3, SessionExists DEF AnswersNewestInOrder
<1>. QED
  BY <1>1, <1>2, OrderStep, CausesRecorded, Invariant, PTL DEF Spec

-----------------------------------------------------------------------------
(* The sockets frames come by: Reconnect, whose chains of connections,     *)
(* attempts and timers are what Feeds counts.                              *)

(* The failed sockets whose close event counts as a chain. *)
Due == In({"failed"}) \ stale

(* A clean-up takes a chain away: one of the refs is on a chain as long as *)
(* the effect is set up, and no socket a clean-up closed counts as one.    *)
ChainInv ==
  /\ In({"closing"}) \subseteq stale
  /\ setups = 0 => Live = {} /\ Due = {} /\ stale = {} /\ pending = {}
  /\ Mounted => wsRef \in Live \cup Due \/ timerRef \in pending
  /\ IsFiniteSet(Live) /\ IsFiniteSet(Due) /\ IsFiniteSet(pending)

SocketsInv == ConnTypeOK /\ ChainInv /\ OneChainUnlessRevived

LEMMA CountAdd ==
  ASSUME NEW S, NEW T, NEW x, IsFiniteSet(S), x \notin S, T = S \cup {x}
  PROVE  IsFiniteSet(T) /\ Cardinality(T) = Cardinality(S) + 1 /\ Cardinality(S) \in Nat
BY FS_AddElement, FS_CardinalityType

LEMMA CountRemove ==
  ASSUME NEW S, NEW T, NEW x, IsFiniteSet(S), x \in S, T = S \ {x}
  PROVE  IsFiniteSet(T) /\ Cardinality(S) = Cardinality(T) + 1 /\ Cardinality(T) \in Nat
<1>1. IsFiniteSet(T)
  BY FS_RemoveElement
<1>2. S = T \cup {x} /\ x \notin T
  OBVIOUS
<1>. QED
  BY <1>1, <1>2, CountAdd

LEMMA CountWithout ==
  ASSUME NEW S, NEW x, NEW T, IsFiniteSet(S), T = S \ {x}
  PROVE  /\ IsFiniteSet(T) /\ Cardinality(T) \in Nat
         /\ Cardinality(T) <= Cardinality(S)
         /\ x \in S => Cardinality(S) = Cardinality(T) + 1
<1>1. CASE x \in S
  BY <1>1, CountRemove
<1>2. CASE x \notin S
  <2>1. T = S
    BY <1>2
  <2>2. Cardinality(S) \in Nat /\ Cardinality(S) <= Cardinality(S)
    BY FS_CardinalityType
  <2>. QED
    BY <1>2, <2>1, <2>2, Zenon
<1>. QED
  BY <1>1, <1>2

(* How many chains there are depends on three sets. *)
ChainCount(L, D, P) == Cardinality(L) + Cardinality(D) + Cardinality(P)

LEMMA ChainsCounted ==
  ASSUME ChainInv
  PROVE  /\ Chains = ChainCount(Live, Due, pending)
         /\ Cardinality(Live) \in Nat /\ Cardinality(Due) \in Nat
         /\ Cardinality(pending) \in Nat
<1>1. Chains = ChainCount(Live, Due, pending)
  BY DEF Chains, ChainCount, Due
<1>. QED
  BY <1>1, FS_CardinalityType DEF ChainInv

LEMMA SocketsTyped ==
  ASSUME ConnTypeOK, [ConnNext]_connVars
  PROVE  ConnTypeOK'
<1> USE ReconnectAssumption DEF ConnTypeOK, refs, history, In
<1>1. ASSUME NEW s \in Sockets, NewSocket(s)
      PROVE  /\ sock' \in [Sockets -> {"unused", "connecting", "open", "closing", "failed"}]
             /\ wsRef' \in Sockets
             /\ \A x \in Sockets : sock[x] \in {"closing", "failed"} => sock'[x] = sock[x]
  BY <1>1 DEF NewSocket
<1>2. ASSUME Schedule
      PROVE  /\ pending' \subseteq Timers /\ timerRef' \in Timers
             /\ backoffRef' \in MinBackoff .. MaxBackoff
  <2>1. 2 * backoffRef \in Nat /\ 2 * backoffRef >= MinBackoff
    OBVIOUS
  <2>. QED
    BY <1>2, <2>1 DEF Schedule
<1>3. CASE Setup
  <2>1. PICK s \in Sockets : NewSocket(s)
    BY <1>3 DEF Setup
  <2>2. /\ setups' \in 0 .. MaxSetups /\ unmounted' = FALSE
        /\ UNCHANGED <<pending, timerRef, backoffRef, network, stale, revived>>
    BY <1>3 DEF Setup
  <2>. QED
    BY <1>1, <2>1, <2>2
<1>4. CASE Cleanup
  <2>1. /\ sock' \in [Sockets -> {"unused", "connecting", "open", "closing", "failed"}]
        /\ \A x \in Sockets : sock[x] \in {"closing", "failed"} => sock'[x] = sock[x]
        /\ wsRef \in Live => sock'[wsRef] = "closing"
    BY <1>4 DEF Cleanup, CloseSocket, Live
  <2>2. stale' = stale \cup In({"closing", "failed"}) \cup (Live \cap {wsRef})
    BY <1>4 DEF Cleanup, CloseSocket
  <2>3. stale' \subseteq {x \in Sockets : sock'[x] \in {"closing", "failed"}}
    <3> SUFFICES ASSUME NEW x \in stale' PROVE x \in Sockets /\ sock'[x] \in {"closing", "failed"}
      OBVIOUS
    <3>1. CASE x \in In({"closing", "failed"})
      BY <2>1, <3>1
    <3>2. CASE x \in Live /\ x = wsRef
      BY <2>1, <3>2 DEF Live
    <3>. QED
      BY <2>2, <3>1, <3>2
  <2>. QED
    BY <1>4, <2>1, <2>3 DEF Cleanup
<1>5. ASSUME NEW s \in Sockets, OnOpen(s) PROVE ConnTypeOK'
  BY <1>5 DEF OnOpen
<1>6. ASSUME NEW s \in Sockets, SocketFails(s) PROVE ConnTypeOK'
  BY <1>6 DEF SocketFails, Fails, Live
<1>7. ASSUME NEW s \in Sockets, OnClose(s) PROVE ConnTypeOK'
  <2>1. /\ sock' \in [Sockets -> {"unused", "connecting", "open", "closing", "failed"}]
        /\ \A x \in Sockets \ {s} : sock'[x] = sock[x]
        /\ stale' = stale \ {s} /\ UNCHANGED <<wsRef, unmounted, setups, network>>
    BY <1>7 DEF OnClose, CloseEvent
  <2>2. /\ pending' \subseteq Timers /\ timerRef' \in Timers \cup {None}
        /\ backoffRef' \in MinBackoff .. MaxBackoff /\ revived' \in Nat
    BY <1>2, <1>7 DEF OnClose, CloseEvent
  <2>. QED
    BY <2>1, <2>2
<1>8. ASSUME NEW t \in Timers, TimerFires(t) PROVE ConnTypeOK'
  <2>1. /\ sock' \in [Sockets -> {"unused", "connecting", "open", "closing", "failed"}]
        /\ \A x \in Sockets : sock[x] \in {"closing", "failed"} => sock'[x] = sock[x]
        /\ wsRef' \in Sockets \cup {None}
    BY <1>1, <1>8 DEF TimerFires
  <2>. QED
    BY <1>8, <2>1 DEF TimerFires
<1>9. CASE NetworkChanges
  BY <1>9 DEF NetworkChanges
<1>10. CASE UNCHANGED connVars
  BY <1>10 DEF connVars
<1>. QED
  BY <1>3, <1>4, <1>5, <1>6, <1>7, <1>8, <1>9, <1>10 DEF ConnNext

(* Chains are bounded when each of the three sets changed as described.    *)
LEMMA Bounded ==
  ASSUME ChainInv', OneChainUnlessRevived, ChainInv,
         NEW d \in Int, ChainCount(Live', Due', pending') <= ChainCount(Live, Due, pending) + d,
         revived \in Nat, revived' \in Nat,
         revived + (IF Mounted THEN 1 ELSE 0) + d <= revived' + (IF Mounted' THEN 1 ELSE 0)
  PROVE  OneChainUnlessRevived'
<1>1. PICK x \in Nat : x = ChainCount(Live', Due', pending') /\ x = Chains'
  BY FS_CardinalityType DEF Chains, ChainCount, Due, ChainInv
<1>2. PICK y \in Nat : y = ChainCount(Live, Due, pending) /\ y = Chains
  BY ChainsCounted DEF ChainCount
<1>3. PICK m \in Nat : m = IF Mounted THEN 1 ELSE 0
  OBVIOUS
<1>4. PICK n \in Nat : n = IF Mounted' THEN 1 ELSE 0
  OBVIOUS
<1>5. y <= revived + m /\ x <= y + d /\ revived + m + d <= revived' + n
  BY <1>1, <1>2, <1>3, <1>4 DEF OneChainUnlessRevived
<1>6. x <= revived' + n
  <2>1. \A u, v \in Nat : y <= u + m /\ u + m + d <= v + n /\ x <= y + d => x <= v + n
    OBVIOUS
  <2>. QED
    BY <1>5, <2>1, Zenon
<1>. QED
  BY <1>1, <1>4, <1>6 DEF OneChainUnlessRevived

LEMMA ChainsStep ==
  ASSUME SocketsInv, [ConnNext]_connVars, ConnTypeOK'
  PROVE  ChainInv' /\ OneChainUnlessRevived'
<1> USE DEF refs, history
<1>1. /\ sock \in [Sockets -> {"unused", "connecting", "open", "closing", "failed"}]
      /\ stale \subseteq In({"closing", "failed"}) /\ setups \in Nat
      /\ revived \in Nat /\ revived' \in Nat
      /\ ChainInv /\ OneChainUnlessRevived
  BY DEF SocketsInv, ConnTypeOK
<1>2. /\ Cardinality(Live) \in Nat /\ Cardinality(Due) \in Nat /\ Cardinality(pending) \in Nat
      /\ IsFiniteSet(Live) /\ IsFiniteSet(Due) /\ IsFiniteSet(pending)
  BY <1>1, ChainsCounted DEF ChainInv
<1>3. ASSUME NEW s \in Sockets, NewSocket(s)
      PROVE  /\ s \notin Live /\ Live' = Live \cup {s} /\ wsRef' \in Live'
             /\ \A k \in {"closing", "failed"} : In({k})' = In({k})
  <2>1. sock[s] = "unused" /\ sock' = [sock EXCEPT ![s] = "connecting"] /\ wsRef' = s
    BY <1>3 DEF NewSocket
  <2>2. Live' = Live \cup {s}
    BY <1>1, <2>1 DEF Live, In
  <2>. QED
    BY <1>1, <2>1, <2>2 DEF Live, In
<1>4. CASE Setup
  <2>1. PICK s \in Sockets : NewSocket(s)
    BY <1>4 DEF Setup
  <2>2. /\ UNCHANGED <<pending, stale, revived>> /\ ~ Mounted /\ Mounted' /\ setups' # 0
    BY <1>1, <1>4 DEF Setup, Mounted
  <2>3. /\ s \notin Live /\ Live' = Live \cup {s} /\ wsRef' \in Live' /\ Due' = Due
        /\ In({"closing"})' = In({"closing"})
    BY <1>3, <2>1, <2>2 DEF Due
  <2>4. /\ IsFiniteSet(Live') /\ Cardinality(Live') = Cardinality(Live) + 1
    BY <1>2, <2>3, CountAdd
  <2>5. ChainInv'
    BY <1>1, <1>2, <2>2, <2>3, <2>4 DEF ChainInv
  <2>6. ChainCount(Live', Due', pending') <= ChainCount(Live, Due, pending) + 1
    BY <1>2, <2>2, <2>3, <2>4 DEF ChainCount
  <2>. QED
    BY <1>1, <2>2, <2>5, <2>6, Bounded
<1>5. CASE Cleanup
  <2>1. /\ pending' = pending \ {timerRef} /\ Mounted /\ ~ Mounted'
        /\ setups' = setups /\ setups # 0 /\ UNCHANGED <<wsRef, revived>>
        /\ sock' = IF wsRef \in Live THEN [sock EXCEPT ![wsRef] = "closing"] ELSE sock
        /\ stale' = stale \cup In({"closing", "failed"}) \cup (Live \cap {wsRef})
    BY <1>1, <1>5 DEF Cleanup, CloseSocket, Mounted
  <2>2. Live' = Live \ {wsRef}
    BY <1>1, <2>1 DEF Live, In
  <2>3. Due' = {}
    BY <1>1, <2>1 DEF Due, In
  <2>4. In({"closing"})' \subseteq stale'
    BY <1>1, <2>1 DEF In
  <2>5. /\ IsFiniteSet(Live') /\ Cardinality(Live') \in Nat
        /\ Cardinality(Live') <= Cardinality(Live)
        /\ wsRef \in Live => Cardinality(Live) = Cardinality(Live') + 1
    BY <1>2, <2>2, CountWithout
  <2>6. /\ IsFiniteSet(pending') /\ Cardinality(pending') \in Nat
        /\ Cardinality(pending') <= Cardinality(pending)
        /\ timerRef \in pending => Cardinality(pending) = Cardinality(pending') + 1
    BY <1>2, <2>1, CountWithout
  <2>7. /\ IsFiniteSet(Due') /\ Cardinality(Due') = 0
        /\ wsRef \in Due => Cardinality(Due) # 0
    BY <1>2, <2>3, FS_EmptySet
  <2>8. ChainInv'
    BY <2>1, <2>4, <2>5, <2>6, <2>7 DEF ChainInv
  <2>9. wsRef \in Live \cup Due \/ timerRef \in pending
    BY <1>1, <2>1 DEF ChainInv
  <2>10. ChainCount(Live', Due', pending') <= ChainCount(Live, Due, pending) + (-1)
    BY <1>2, <2>5, <2>6, <2>7, <2>9 DEF ChainCount
  <2>. QED
    BY <1>1, <2>1, <2>8, <2>10, Bounded
<1>6. ASSUME NEW s \in Sockets, SocketFails(s) PROVE ChainInv' /\ OneChainUnlessRevived'
  <2>1. /\ s \in Live /\ sock' = [sock EXCEPT ![s] = "failed"]
        /\ UNCHANGED <<pending, wsRef, timerRef, unmounted, setups, stale, revived>>
    BY <1>6 DEF SocketFails, Fails
  <2>2. s \notin stale /\ s \notin Due
    BY <1>1, <2>1 DEF Live, In, Due
  <2>3. Live' = Live \ {s} /\ In({"closing"})' = In({"closing"})
    BY <1>1, <2>1 DEF Live, In
  <2>4. Due' = Due \cup {s}
    BY <1>1, <2>1, <2>2 DEF Live, In, Due
  <2>5. /\ IsFiniteSet(Live') /\ Cardinality(Live) = Cardinality(Live') + 1
        /\ Cardinality(Live') \in Nat
    BY <1>2, <2>1, <2>3, CountRemove
  <2>6. IsFiniteSet(Due') /\ Cardinality(Due') = Cardinality(Due) + 1
    BY <1>2, <2>2, <2>4, CountAdd
  <2>7. Mounted' = Mounted /\ setups' # 0
    BY <1>1, <2>1 DEF Mounted, ChainInv
  <2>8. ChainInv'
    BY <1>1, <1>2, <2>1, <2>3, <2>4, <2>5, <2>6, <2>7 DEF ChainInv
  <2>9. ChainCount(Live', Due', pending') <= ChainCount(Live, Due, pending) + 0
    BY <1>2, <2>1, <2>5, <2>6 DEF ChainCount
  <2>. QED
    BY <1>1, <2>1, <2>7, <2>8, <2>9, Bounded
<1>7. ASSUME NEW s \in Sockets, OnClose(s) PROVE ChainInv' /\ OneChainUnlessRevived'
  <2>1. /\ sock[s] \in {"closing", "failed"} /\ sock' = [sock EXCEPT ![s] = "unused"]
        /\ stale' = stale \ {s} /\ UNCHANGED <<wsRef, unmounted, setups>>
    BY <1>7 DEF OnClose, CloseEvent
  <2>2. Live' = Live
    BY <1>1, <2>1 DEF Live, In
  <2>3. Due' = Due \ {s}
    BY <1>1, <2>1 DEF In, Due
  <2>4. In({"closing"})' \subseteq stale'
    BY <1>1, <2>1 DEF In, ChainInv
  <2>5. s \in stale \/ s \in Due
    BY <1>1, <2>1 DEF In, Due, ChainInv
  <2>6. setups # 0
    BY <1>1, <2>5 DEF ChainInv
  <2>7. /\ IsFiniteSet(Due') /\ Cardinality(Due') \in Nat /\ Cardinality(Due') <= Cardinality(Due)
        /\ s \in Due => Cardinality(Due) = Cardinality(Due') + 1
    BY <1>2, <2>3, CountWithout
  <2>8. Mounted' = Mounted /\ (Mounted <=> ~ unmounted)
    BY <1>1, <2>1, <2>6 DEF Mounted
  <2>9. CASE unmounted
    <3>1. UNCHANGED <<pending, revived>>
      BY <1>7, <2>9 DEF OnClose, CloseEvent
    <3>2. ChainInv'
      BY <1>2, <2>1, <2>2, <2>4, <2>6, <2>7, <2>8, <2>9, <3>1 DEF ChainInv
    <3>3. ChainCount(Live', Due', pending') <= ChainCount(Live, Due, pending) + 0
      BY <1>2, <2>2, <2>7, <3>1 DEF ChainCount
    <3>. QED
      BY <1>1, <2>8, <3>1, <3>2, <3>3, Bounded
  <2>10. CASE ~ unmounted
    <3>1. Schedule /\ revived' = IF s \in stale THEN revived + 1 ELSE revived
      BY <1>7, <2>10 DEF OnClose, CloseEvent
    <3>2. PICK t \in Timers \ pending : pending' = pending \cup {t} /\ timerRef' = t
      BY <3>1 DEF Schedule
    <3>3. IsFiniteSet(pending') /\ Cardinality(pending') = Cardinality(pending) + 1
      BY <1>2, <3>2, CountAdd
    <3>4. ChainInv'
      BY <1>2, <2>1, <2>2, <2>4, <2>6, <2>7, <3>2, <3>3 DEF ChainInv
    <3>5. CASE s \in stale
      <4>1. ChainCount(Live', Due', pending') <= ChainCount(Live, Due, pending) + 1
        BY <1>2, <2>2, <2>7, <3>3 DEF ChainCount
      <4>. QED
        BY <1>1, <2>8, <3>1, <3>4, <3>5, <4>1, Bounded
    <3>6. CASE s \notin stale
      <4>1. ChainCount(Live', Due', pending') <= ChainCount(Live, Due, pending) + 0
        BY <1>2, <2>2, <2>5, <2>7, <3>3, <3>6 DEF ChainCount
      <4>. QED
        BY <1>1, <2>8, <3>1, <3>4, <3>6, <4>1, Bounded
    <3>. QED
      BY <3>5, <3>6
  <2>. QED
    BY <2>9, <2>10
<1>8. ASSUME NEW t \in Timers, TimerFires(t) PROVE ChainInv' /\ OneChainUnlessRevived'
  <2>1. /\ t \in pending /\ pending' = pending \ {t}
        /\ UNCHANGED <<unmounted, setups, stale, revived>>
    BY <1>8 DEF TimerFires
  <2>2. setups # 0
    BY <1>1, <2>1 DEF ChainInv
  <2>3. Mounted' = Mounted /\ (Mounted <=> ~ unmounted)
    BY <1>1, <2>1, <2>2 DEF Mounted
  <2>4. /\ IsFiniteSet(pending') /\ Cardinality(pending) = Cardinality(pending') + 1
        /\ Cardinality(pending') \in Nat
    BY <1>2, <2>1, CountRemove
  <2>5. CASE unmounted
    <3>1. UNCHANGED <<sock, wsRef>>
      BY <1>8, <2>5 DEF TimerFires
    <3>2. Live' = Live /\ Due' = Due /\ In({"closing"})' = In({"closing"})
      BY <2>1, <3>1 DEF Live, In, Due
    <3>3. ChainInv'
      BY <1>1, <1>2, <2>1, <2>2, <2>3, <2>4, <2>5, <3>2 DEF ChainInv
    <3>4. ChainCount(Live', Due', pending') <= ChainCount(Live, Due, pending) + 0
      BY <1>2, <2>4, <3>2 DEF ChainCount
    <3>. QED
      BY <1>1, <2>1, <2>3, <3>3, <3>4, Bounded
  <2>6. CASE ~ unmounted
    <3>1. PICK s \in Sockets : NewSocket(s)
      BY <1>8, <2>6 DEF TimerFires
    <3>2. /\ s \notin Live /\ Live' = Live \cup {s} /\ wsRef' \in Live' /\ Due' = Due
          /\ In({"closing"})' = In({"closing"})
      BY <1>3, <2>1, <3>1 DEF Due
    <3>3. IsFiniteSet(Live') /\ Cardinality(Live') = Cardinality(Live) + 1
      BY <1>2, <3>2, CountAdd
    <3>4. ChainInv'
      BY <1>1, <1>2, <2>1, <2>2, <2>4, <3>2, <3>3 DEF ChainInv
    <3>5. ChainCount(Live', Due', pending') <= ChainCount(Live, Due, pending) + 0
      BY <1>2, <2>4, <3>2, <3>3 DEF ChainCount
    <3>. QED
      BY <1>1, <2>1, <2>3, <3>4, <3>5, Bounded
  <2>. QED
    BY <2>5, <2>6
<1>9. ASSUME Live' = Live,
             UNCHANGED <<pending, wsRef, timerRef, unmounted, setups, stale, revived>>,
             \A k \in {"closing", "failed"} : In({k})' = In({k})
      PROVE  ChainInv' /\ OneChainUnlessRevived'
  <2>1. Due' = Due /\ Mounted' = Mounted
    BY <1>9 DEF Due, Mounted
  <2>2. ChainInv'
    BY <1>1, <1>9, <2>1 DEF ChainInv
  <2>3. ChainCount(Live', Due', pending') <= ChainCount(Live, Due, pending) + 0
    BY <1>2, <1>9, <2>1 DEF ChainCount
  <2>. QED
    BY <1>1, <1>9, <2>1, <2>2, <2>3, Bounded
<1>10. ASSUME NEW s \in Sockets, OnOpen(s) PROVE ChainInv' /\ OneChainUnlessRevived'
  <2>1. /\ sock[s] = "connecting" /\ sock' = [sock EXCEPT ![s] = "open"]
        /\ UNCHANGED <<pending, wsRef, timerRef, unmounted, setups, stale, revived>>
    BY <1>10 DEF OnOpen
  <2>2. Live' = Live /\ \A k \in {"closing", "failed"} : In({k})' = In({k})
    BY <1>1, <2>1 DEF Live, In
  <2>. QED
    BY <1>9, <2>1, <2>2
<1>11. CASE NetworkChanges \/ UNCHANGED connVars
  BY <1>9, <1>11 DEF NetworkChanges, connVars, Live, In
<1>. QED
  BY <1>4, <1>5, <1>6, <1>7, <1>8, <1>10, <1>11 DEF ConnNext

LEMMA SocketsInvariant == ConnSpec => []SocketsInv
<1>1. ConnInit => SocketsInv
  <2> SUFFICES ASSUME ConnInit PROVE SocketsInv
    OBVIOUS
  <2>1. \A k : k # "unused" => In({k}) = {}
    BY DEF ConnInit, In
  <2>2. Live = {} /\ Due = {} /\ pending = {} /\ In({"closing"}) = {} /\ ~ Mounted
    BY <2>1 DEF ConnInit, Live, In, Due, Mounted
  <2>3. ConnTypeOK
    <3>1. MinBackoff \in MinBackoff .. MaxBackoff /\ 0 \in 0 .. MaxSetups
      BY ReconnectAssumption
    <3>. QED
      BY <3>1 DEF ConnInit, ConnTypeOK
  <2>4. ChainInv
    BY <2>2, FS_EmptySet DEF ChainInv, ConnInit
  <2>5. ChainCount({}, {}, {}) = 0
    BY FS_EmptySet DEF ChainCount
  <2>6. OneChainUnlessRevived
    BY <2>2, <2>3, <2>4, <2>5, ChainsCounted DEF OneChainUnlessRevived, ConnTypeOK
  <2>. QED
    BY <2>3, <2>4, <2>6 DEF SocketsInv
<1>2. SocketsInv /\ [ConnNext]_connVars => SocketsInv'
  BY SocketsTyped, ChainsStep DEF SocketsInv
<1>. QED
  BY <1>1, <1>2, PTL DEF ConnSpec

(* The sockets, timers and refs of a page keep their types, and the delay  *)
(* before a new attempt stays between its bounds.                          *)
THEOREM SocketsTypeCorrect == ConnSpec => []ConnTypeOK
BY SocketsInvariant, PTL DEF SocketsInv

(* A page never has more chains of connections, attempts and timers than   *)
(* one while it is mounted and none while it is not, beside those a close  *)
(* event due at a clean-up started, for any number of sockets and timers.  *)
THEOREM OneChain == ConnSpec => []OneChainUnlessRevived
BY SocketsInvariant, PTL DEF SocketsInv

=============================================================================
