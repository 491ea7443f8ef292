------------------------------ MODULE EventLog ------------------------------
(***************************************************************************)
(* What the event store promises its callers, with the transaction that    *)
(* provides it abstracted away: an event is recorded in one indivisible    *)
(* step that appends it to the events table and sets its agent's row of    *)
(* agent_state, and an id already recorded is refused.                     *)
(*                                                                         *)
(* EventStore implements this module; LiveBoard is built on it.            *)
(***************************************************************************)
EXTENDS Naturals, Sequences

CONSTANTS
  Ids,     (* event ids, the primary key of the events table               *)
  Agents,  (* agent ids, the primary key of agent_state                    *)
  Bodies,  (* what an agent row copies from an event: agent_type,          *)
           (* agent_name, status and last_event, taken together            *)
  NoRow    (* stands for the absence of an agent_state row                 *)

Event == [id : Ids, agent : Agents, body : Bodies]

VARIABLES
  log,        (* rows of the events table, in the order they were committed *)
  agentState  (* agent_state: the row of each agent, or NoRow               *)

logVars == <<log, agentState>>

Init ==
  /\ log = <<>>
  /\ agentState = [a \in Agents |-> NoRow]

Unrecorded(id) == \A i \in DOMAIN log : log[i].id # id

Record(e) ==
  /\ Unrecorded(e.id)
  /\ log' = Append(log, e)
  /\ agentState' = [agentState EXCEPT ![e.agent] = e.body]

Next == \E e \in Event : Record(e)

Spec == Init /\ [][Next]_logVars

-----------------------------------------------------------------------------

TypeOK ==
  /\ log \in Seq(Event)
  /\ agentState \in [Agents -> Bodies \cup {NoRow}]

(* log[i] is the last event recorded for agent a. *)
IsLatest(i, a) ==
  /\ log[i].agent = a
  /\ \A j \in DOMAIN log : j > i => log[j].agent # a

(* The row the board reads is the body of the last event committed for the *)
(* agent, and an agent without events has no row: the two tables SaveEvent *)
(* writes never disagree.                                                  *)
RowIsLatest ==
  \A a \in Agents :
    \/ /\ agentState[a] = NoRow
       /\ \A i \in DOMAIN log : log[i].agent # a
    \/ \E i \in DOMAIN log : IsLatest(i, a) /\ agentState[a] = log[i].body

(* No two rows of the events table share an id, whichever requests posted  *)
(* them and however they interleaved.                                      *)
UniqueIds ==
  \A i, j \in DOMAIN log : log[i].id = log[j].id => i = j

=============================================================================
