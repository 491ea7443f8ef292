----------------------------- MODULE ServeProofs -----------------------------
(***************************************************************************)
(* Proofs about the command line: the server of Serve, for any number of   *)
(* instances, connections and ports, and install and hook of ClaudeCode,   *)
(* for any number of installs, paths and hook names.                       *)
(*                                                                         *)
(* Serve. What StoreReadyWhenUsed and CleanExitCutsNothing say of a        *)
(* handler has to be carried from the start of its instance: IInv relates  *)
(* where the main goroutine is to the handle of the store, to what migrate *)
(* has created, to the listener and to the states of its connections.      *)
(*                                                                         *)
(* ClaudeCode. CommandsInv carries to settings.json what the copies of the *)
(* installs hold; InstallInv says, while nothing has gone wrong, that a    *)
(* file which is empty belongs to one install alone, and that a copy which *)
(* is not stale has all the file had; TurnInv ties what is posted to the   *)
(* turn whose hook has yet to run.                                         *)
(***************************************************************************)
EXTENDS Serve, ClaudeCode, FiniteSetTheorems, WellFoundedInduction, TLAPS

Open == {"new", "active", "storing", "idle"}

MigratedInv ==
  /\ \A p \in Procs : \A i \in 1 .. migrated[p] : Schema[i] \in tables
  /\ \A p \in Procs : main[p] \in {"migrating", "serving", "draining"} => store[p] = "open"
  /\ \A p \in Procs : main[p] \in {"serving", "draining"} => migrated[p] = Len(Schema)

ListenerInv ==
  \A p \in Procs :
    /\ listener[p] = "bound" => main[p] = "serving"
    /\ listener[p] = "starting" => main[p] \in {"serving", "draining", "returning"}

ConnInv ==
  \A c \in Conns :
    /\ conn[c] \in Open => owner[c] \in Procs /\ main[owner[c]] \in {"serving", "draining"}
    /\ conn[c] = "hijacked" =>
         owner[c] \in Procs /\ main[owner[c]] \in {"serving", "draining", "returning"}
    /\ conn[c] = "cut" => owner[c] \in Procs /\ main[owner[c]] \in {"fatal", "killed"}

IInv == TypeOK /\ MigratedInv /\ ListenerInv /\ ConnInv

LEMMA SchemaLength == Len(Schema) = 3 /\ DOMAIN Schema = 1 .. 3
BY DEF Schema

LEMMA InitEstablishes == Init => IInv
BY ServeAssumption, SchemaLength
   DEF Init, IInv, TypeOK, MigratedInv, ListenerInv, ConnInv, Open, Exited

(* The end of a process keeps IInv, if a clean one has no request left. *)
LEMMA ExitKeeps ==
  ASSUME IInv, NEW p \in Procs, NEW how \in Exited, Exit(p, how),
         main[p] \notin Exited,
         how = "clean" => main[p] = "returning",
         store' = store \/ store' = [store EXCEPT ![p] = "closed"]
  PROVE  IInv'
<1> USE ServeAssumption DEF IInv, Exit, Exited
<1>1. TypeOK'
  BY DEF TypeOK
<1>2. MigratedInv'
  BY DEF TypeOK, MigratedInv
<1>3. ListenerInv'
  BY DEF TypeOK, ListenerInv
<1>4. ConnInv'
  <2> SUFFICES ASSUME NEW c \in Conns
               PROVE  /\ conn'[c] \in Open =>
                           owner'[c] \in Procs /\ main'[owner'[c]] \in {"serving", "draining"}
                      /\ conn'[c] = "hijacked" =>
                           /\ owner'[c] \in Procs
                           /\ main'[owner'[c]] \in {"serving", "draining", "returning"}
                      /\ conn'[c] = "cut" =>
                           owner'[c] \in Procs /\ main'[owner'[c]] \in {"fatal", "killed"}
    BY DEF ConnInv
  <2>1. CASE owner[c] = p
    BY <2>1 DEF TypeOK, ConnInv, Open
  <2>2. CASE owner[c] # p
    <3>1. conn'[c] = conn[c] /\ owner'[c] = owner[c]
      BY <2>2 DEF TypeOK
    <3>2. owner[c] \in Procs => main'[owner[c]] = main[owner[c]]
      BY <2>2 DEF TypeOK
    <3>3. QED
      BY <3>1, <3>2 DEF ConnInv
  <2>3. QED
    BY <2>1, <2>2
<1>5. QED
  BY <1>1, <1>2, <1>3, <1>4

(* A step of one connection keeps IInv. *)
LEMMA ConnKeeps ==
  ASSUME IInv, NEW c \in Conns, NEW from, NEW to \in Open \cup {"hijacked", "closed"},
         from \subseteq Open \cup {"hijacked"},
         to \in Open => from \subseteq Open,
         to = "hijacked" => from \subseteq Open,
         Become(c, from, to)
  PROVE  IInv'
<1> USE DEF IInv, Become, procVars
<1>1. TypeOK'
  BY DEF TypeOK, Open
<1>2. MigratedInv' /\ ListenerInv'
  BY DEF MigratedInv, ListenerInv
<1>3. ConnInv'
  BY DEF TypeOK, ConnInv, Open
<1>4. QED
  BY <1>1, <1>2, <1>3

LEMMA StartKeeps ==
  ASSUME IInv, NEW p \in Procs,
         \/ \E written \in Ports \cup {"absent", "bad"}, env \in Ports \cup {"unset", "garbage"} :
              LoadConfig(p, written, env)
         \/ OpenStore(p) \/ Create(p) \/ Serve(p) \/ StoreFails(p)
  PROVE  IInv'
<1>1. ASSUME NEW written, NEW env, LoadConfig(p, written, env)  PROVE IInv'
  <2>1. CASE written = "bad"
    BY <1>1, <2>1, ExitKeeps DEF LoadConfig, Fatal, Exited
  <2>2. CASE written # "bad"
    <3>1. Load(written, env) \in Ports
      BY ServeAssumption DEF Load
    <3>2. TypeOK'
      BY <1>1, <2>2, <3>1 DEF LoadConfig, IInv, TypeOK, connVars
    <3>3. MigratedInv' /\ ListenerInv'
      <4>1. /\ main' = [main EXCEPT ![p] = "loaded"]
            /\ UNCHANGED <<tables, migrated, store, listener>>
        BY <1>1, <2>2 DEF LoadConfig
      <4>2. MigratedInv'
        BY <4>1 DEF IInv, TypeOK, MigratedInv
      <4>3. ListenerInv'
        BY <1>1, <4>1 DEF LoadConfig, IInv, TypeOK, ListenerInv
      <4>4. QED
        BY <4>2, <4>3
    <3>4. ConnInv'
      <4>1. /\ main[p] = "off" /\ main' = [main EXCEPT ![p] = "loaded"]
            /\ UNCHANGED <<conn, owner>>
        BY <1>1, <2>2 DEF LoadConfig, connVars
      <4>2. QED
        BY <4>1 DEF IInv, TypeOK, ConnInv, Open
    <3>5. QED
      BY <3>2, <3>3, <3>4 DEF IInv
  <2>3. QED
    BY <2>1, <2>2
<1>2. CASE OpenStore(p)
  BY <1>2 DEF OpenStore, IInv, TypeOK, MigratedInv, ListenerInv, ConnInv, connVars, Open
<1>3. CASE Create(p)
  <2>1. TypeOK'
    <3>1. migrated[p] + 1 \in 1 .. 3
      BY <1>3, SchemaLength DEF Create, IInv, TypeOK
    <3>2. QED
      BY <1>3, <3>1, SchemaLength DEF Create, IInv, TypeOK, connVars
  <2>2. MigratedInv'
    BY <1>3, SchemaLength DEF Create, IInv, TypeOK, MigratedInv
  <2>3. ListenerInv' /\ ConnInv'
    BY <1>3 DEF Create, IInv, ListenerInv, ConnInv, connVars
  <2>4. QED
    BY <2>1, <2>2, <2>3 DEF IInv
<1>4. CASE Serve(p)
  <2>1. TypeOK' /\ ListenerInv'
    BY <1>4 DEF Serve, IInv, TypeOK, ListenerInv, connVars
  <2>2. MigratedInv'
    <3>1. store[p] = "open"
      BY <1>4 DEF Serve, IInv, MigratedInv
    <3>2. QED
      BY <1>4, <3>1 DEF Serve, IInv, TypeOK, MigratedInv
  <2>3. ConnInv'
    BY <1>4 DEF Serve, IInv, TypeOK, ConnInv, connVars, Open
  <2>4. QED
    BY <2>1, <2>2, <2>3 DEF IInv
<1>5. CASE StoreFails(p)
  BY <1>5, ExitKeeps DEF StoreFails, Exited
<1>6. QED
  BY <1>1, <1>2, <1>3, <1>4, <1>5

LEMMA RunKeeps ==
  ASSUME IInv, NEW p \in Procs,
         \/ Listen(p) \/ ListenFails(p) \/ Signal(p) \/ Killed(p)
         \/ Shutdown(p) \/ Drained(p) \/ Deadline(p) \/ Return(p)
  PROVE  IInv'
<1>1. CASE Listen(p)
  <2>1. TypeOK' /\ ListenerInv'
    BY <1>1 DEF Listen, IInv, TypeOK, ListenerInv, connVars
  <2>2. MigratedInv' /\ ConnInv'
    BY <1>1 DEF Listen, IInv, MigratedInv, ConnInv, connVars
  <2>3. QED
    BY <2>1, <2>2 DEF IInv
<1>2. CASE ListenFails(p)
  BY <1>2, ExitKeeps DEF ListenFails, Fatal, Exited, IInv, ListenerInv
<1>3. CASE Signal(p)
  <2>1. CASE main[p] \in {"loaded", "migrating"}
    BY <1>3, <2>1, ExitKeeps DEF Signal, Exited
  <2>2. CASE main[p] \notin {"loaded", "migrating"}
    <3>1. TypeOK' /\ ListenerInv'
      BY <1>3, <2>2 DEF Signal, IInv, TypeOK, ListenerInv, connVars
    <3>2. MigratedInv' /\ ConnInv'
      BY <1>3, <2>2 DEF Signal, IInv, MigratedInv, ConnInv, connVars
    <3>3. QED
      BY <3>1, <3>2 DEF IInv
  <2>3. QED
    BY <2>1, <2>2
<1>4. CASE Killed(p)
  BY <1>4, ExitKeeps DEF Killed, Running, Exited
<1>5. CASE Shutdown(p)
  <2>1. TypeOK' /\ ListenerInv'
    BY <1>5 DEF Shutdown, IInv, TypeOK, ListenerInv, connVars
  <2>2. MigratedInv'
    BY <1>5 DEF Shutdown, IInv, TypeOK, MigratedInv
  <2>3. ConnInv'
    BY <1>5 DEF Shutdown, IInv, TypeOK, ConnInv, connVars, Open
  <2>4. QED
    BY <2>1, <2>2, <2>3 DEF IInv
<1>6. CASE Drained(p)
  <2>1. TypeOK' /\ ListenerInv'
    BY <1>6 DEF Drained, IInv, TypeOK, ListenerInv, connVars
  <2>2. MigratedInv'
    BY <1>6 DEF Drained, IInv, TypeOK, MigratedInv
  <2>3. ConnInv'
    BY <1>6 DEF Drained, ConnsOf, IInv, TypeOK, ConnInv, connVars, Open
  <2>4. QED
    BY <2>1, <2>2, <2>3 DEF IInv
<1>7. CASE Deadline(p)
  BY <1>7, ExitKeeps DEF Deadline, Fatal, Exited
<1>8. CASE Return(p)
  BY <1>8, ExitKeeps DEF Return, Exited
<1>9. QED
  BY <1>1, <1>2, <1>3, <1>4, <1>5, <1>6, <1>7, <1>8

LEMMA ConnectionKeeps ==
  ASSUME IInv, NEW c \in Conns,
         \/ \E p \in Procs : Accept(c, p)
         \/ Request(c) \/ CallStore(c) \/ Answer(c) \/ Upgrade(c)
         \/ PeerCloses(c) \/ CloseIdle(c)
  PROVE  IInv'
<1>1. ASSUME NEW p \in Procs, Accept(c, p)  PROVE IInv'
  <2>1. TypeOK' /\ MigratedInv' /\ ListenerInv'
    BY <1>1 DEF Accept, IInv, TypeOK, MigratedInv, ListenerInv, procVars
  <2>2. ConnInv'
    BY <1>1 DEF Accept, IInv, TypeOK, ListenerInv, ConnInv, procVars, Open
  <2>3. QED
    BY <2>1, <2>2 DEF IInv
<1>2. CASE Request(c)
  BY <1>2, ConnKeeps DEF Request, Open
<1>3. CASE CallStore(c)
  BY <1>3, ConnKeeps DEF CallStore, Open
<1>4. CASE Answer(c)
  BY <1>4, ConnKeeps DEF Answer, Open
<1>5. CASE Upgrade(c)
  BY <1>5, ConnKeeps DEF Upgrade, Open
<1>6. CASE PeerCloses(c)
  BY <1>6, ConnKeeps DEF PeerCloses, Open
<1>7. CASE CloseIdle(c)
  BY <1>7, ConnKeeps DEF CloseIdle, Open
<1>8. QED
  BY <1>1, <1>2, <1>3, <1>4, <1>5, <1>6, <1>7

(* The invariant holds in every reachable state, whatever is signalled or killed. *)
THEOREM Invariant == Spec => []IInv
<1>1. Init => IInv
  BY InitEstablishes
<1>2. IInv /\ [Next]_vars => IInv'
  <2> SUFFICES ASSUME IInv, [Next]_vars
               PROVE  IInv'
    OBVIOUS
  <2>1. CASE Next
    BY <2>1, StartKeeps, RunKeeps, ConnectionKeeps DEF Next, MainStep
  <2>2. CASE UNCHANGED vars
    BY <2>2 DEF IInv, TypeOK, MigratedInv, ListenerInv, ConnInv, vars, procVars, connVars
  <2>3. QED
    BY <2>1, <2>2
<1>3. QED
  BY <1>1, <1>2, PTL DEF Spec

(* Every variable of an instance and of a connection keeps its type. *)
THEOREM TypeCorrect == Spec => []TypeOK
<1>1. IInv => TypeOK
  BY DEF IInv
<1>2. QED
  BY Invariant, <1>1, PTL

(* A handler that calls the store (main.go:58-65) finds it open and its    *)
(* schema complete, whatever other instances do to the database meanwhile. *)
THEOREM StoreIsReady == Spec => []StoreReadyWhenUsed
<1>1. IInv => StoreReadyWhenUsed
  BY SchemaLength DEF IInv, MigratedInv, ConnInv, Open, StoreReadyWhenUsed
<1>2. QED
  BY Invariant, <1>1, PTL

(* An instance that returns from Shutdown without an error (main.go:96)    *)
(* has cut no request off.                                                 *)
THEOREM CleanExit == Spec => []CleanExitCutsNothing
<1>1. IInv => CleanExitCutsNothing
  BY DEF IInv, TypeOK, ConnInv, ConnsOf, CleanExitCutsNothing
<1>2. QED
  BY Invariant, <1>1, PTL

-----------------------------------------------------------------------------
(* The other command of the binary: what install makes of settings.json    *)
(* and what the hooks it adds post.                                        *)

Entry == {Other, Lookalike, Flat} \cup {Nested(path) : path \in Paths}
HookLists == [HookNames -> Seq(Entry) \cup {Malformed}]
OtherKeys == [edit : Nat, numbers : {"exact", "large", "rounded"}]
Settings == [keys : OtherKeys, hooks : HookLists]

InstallsTyped ==
  /\ file \in [kind : {"missing", "whole", "empty", "torn"}, settings : Settings]
  /\ begun \in HookLists
  /\ own \in OtherKeys
  /\ install \in [Installs -> {"off", "writing", "truncated", "done", "printed", "failed"}]
  /\ copy \in [Installs -> Settings]

TurnsTyped ==
  /\ lines \in Seq({"answer", "silent", "long"})
  /\ turns \in Seq(Nat)
  /\ posted \in Seq([turn : Nat, line : Nat])

ClaudeTypeOK == InstallsTyped /\ TurnsTyped /\ waiting \in Nat

(* A hook list with at most one command of awayteam.                       *)
OneCommand(list) ==
  list # Malformed =>
    \A j, k \in DOMAIN list : list[j].form = "nested" /\ list[k].form = "nested" => j = k

OneCommandIn(settings) == \A n \in HookNames : OneCommand(settings.hooks[n])

(* A command of the same suffix is in a list because it was to begin with. *)
BegunAlike(list, first) ==
  list # Malformed =>
    \A k \in DOMAIN list : list[k] = Lookalike => first # Malformed /\ Contains(first, Lookalike)

BegunAlikeIn(settings, lists) == \A n \in HookNames : BegunAlike(settings.hooks[n], lists[n])

CommandsInv ==
  /\ InstallsTyped
  /\ OneCommandIn(file.settings) /\ BegunAlikeIn(file.settings, begun)
  /\ \A i \in Installs : OneCommandIn(copy[i]) /\ BegunAlikeIn(copy[i], begun)

-----------------------------------------------------------------------------
(* Hook lists. *)

LEMMA SeqElementwise ==
  ASSUME NEW S, NEW T, NEW s \in Seq(S), \A k \in 1 .. Len(s) : s[k] \in T
  PROVE  s \in Seq(T)
OBVIOUS

LEMMA NotMalformed == Malformed \notin Seq(Entry)
<1>1. Entry \subseteq [form : {"other", "lookalike", "nested", "flat"}, path : Paths \cup {NoPath}]
  BY DEF Entry, Other, Lookalike, Flat, Nested
<1>2. ASSUME NEW list \in Seq(Entry)
      PROVE  list \in Seq([form : {"other", "lookalike", "nested", "flat"}, path : Paths \cup {NoPath}])
  <2>1. \A k \in 1 .. Len(list) :
          list[k] \in [form : {"other", "lookalike", "nested", "flat"}, path : Paths \cup {NoPath}]
    BY <1>1
  <2>. QED
    BY <2>1, SeqElementwise
<1>. QED
  BY <1>2, ClaudeCodeAssumption

LEMMA EntryForms ==
  ASSUME NEW e \in Entry
  PROVE  /\ e.form = "nested" <=> \E path \in Paths : e = Nested(path)
         /\ e.form = "lookalike" <=> e = Lookalike
BY DEF Entry, Other, Lookalike, Flat, Nested

(* What a list becomes when a command is appended.                         *)
LEMMA AppendEntry ==
  ASSUME NEW list \in Seq(Entry), NEW path \in Paths,
         NEW result, result = Append(list, Nested(path))
  PROVE  /\ result \in Seq(Entry) /\ Len(result) = Len(list) + 1
         /\ DOMAIN list = 1 .. Len(list) /\ DOMAIN result = 1 .. Len(list) + 1
         /\ result[Len(list) + 1] = Nested(path)
         /\ \A k \in DOMAIN list : result[k] = list[k]
<1>1. Nested(path) \in Entry
  BY DEF Entry
<1>. HIDE DEF Entry, Nested
<1>. QED
  BY <1>1

LEMMA PrefixPointwise ==
  ASSUME NEW S, NEW s \in Seq(S), NEW t \in Seq(S)
  PROVE  IsPrefix(s, t) <=> Len(s) <= Len(t) /\ \A k \in 1 .. Len(s) : s[k] = t[k]
<1>1. Len(s) <= Len(t) =>
        /\ SubSeq(s, 1, Len(s)) = [k \in 1 .. Len(s) |-> s[k]]
        /\ SubSeq(t, 1, Len(s)) = [k \in 1 .. Len(s) |-> t[k]]
  OBVIOUS
<1>. QED
  BY <1>1 DEF IsPrefix

(* Every list has a command of awayteam, or had one of the same suffix.    *)
HasCommand(settings, lists) ==
  \A n \in HookNames :
    \/ \E path \in Paths : Contains(settings.hooks[n], Nested(path))
    \/ lists[n] # Malformed /\ Contains(lists[n], Lookalike)

(* What parsing does to the user's other settings.                         *)
LEMMA ParsedFacts ==
  ASSUME NEW settings \in Settings, NEW result, result = Parsed(settings)
  PROVE  /\ result \in Settings /\ result.hooks = settings.hooks
         /\ result.keys = Rounded(settings.keys)
BY DEF Parsed, Rounded, Settings, OtherKeys

LEMMA RoundedOnce == ASSUME NEW keys \in OtherKeys PROVE Rounded(Rounded(keys)) = Rounded(keys)
BY DEF Rounded, OtherKeys

(* The loop over wantHooks leaves at most one command in each list, and    *)
(* every list with one.                                                    *)
LEMMA WithHooksFacts ==
  ASSUME NEW settings \in Settings, OneCommandIn(settings), NEW path \in Paths,
         NEW lists, BegunAlikeIn(settings, lists),
         NEW result, result = WithHooks(settings, path)
  PROVE  /\ result \in Settings /\ result.keys = settings.keys
         /\ OneCommandIn(result) /\ HasCommand(result, lists) /\ BegunAlikeIn(result, lists)
         /\ \A n \in HookNames : result.hooks[n] # Malformed
         /\ \A n \in HookNames, list \in Seq(Entry) :
              settings.hooks[n] # Malformed /\ IsPrefix(list, settings.hooks[n])
                => IsPrefix(list, result.hooks[n])
<1>1. settings.keys \in OtherKeys /\ settings.hooks \in HookLists
  BY DEF Settings
<1>2. /\ result.keys = settings.keys
      /\ result = [keys |-> result.keys, hooks |-> result.hooks]
      /\ result.hooks = [n \in HookNames |->
           IF ContainsCommand(settings.hooks[n], path) THEN settings.hooks[n]
           ELSE Append(IF settings.hooks[n] = Malformed THEN <<>> ELSE settings.hooks[n],
                       Nested(path))]
  BY <1>1 DEF Settings, WithHooks, HookLists
<1>3. ASSUME NEW n \in HookNames
      PROVE  /\ result.hooks[n] \in Seq(Entry) \cup {Malformed} /\ result.hooks[n] # Malformed
             /\ OneCommand(result.hooks[n]) /\ BegunAlike(result.hooks[n], lists[n])
             /\ \/ \E p \in Paths : Contains(result.hooks[n], Nested(p))
                \/ lists[n] # Malformed /\ Contains(lists[n], Lookalike)
             /\ \A list \in Seq(Entry) :
                  settings.hooks[n] # Malformed /\ IsPrefix(list, settings.hooks[n])
                    => IsPrefix(list, result.hooks[n])
  <2>1. /\ settings.hooks[n] \in Seq(Entry) \cup {Malformed} /\ OneCommand(settings.hooks[n])
        /\ BegunAlike(settings.hooks[n], lists[n])
    BY <1>1 DEF HookLists, OneCommandIn, BegunAlikeIn
  <2>2. CASE ContainsCommand(settings.hooks[n], path)
    <3>1. PICK k \in DOMAIN settings.hooks[n] :
            settings.hooks[n][k].form \in {"nested", "lookalike"}
      BY <2>2 DEF ContainsCommand
    <3>2. settings.hooks[n] \in Seq(Entry)
      BY <2>1, <2>2 DEF ContainsCommand
    <3>3. settings.hooks[n][k] \in Entry /\ k \in 1 .. Len(settings.hooks[n])
      BY <3>1, <3>2
    <3>4. \/ \E p \in Paths : Contains(settings.hooks[n], Nested(p))
          \/ lists[n] # Malformed /\ Contains(lists[n], Lookalike)
      <4>1. CASE settings.hooks[n][k].form = "nested"
        BY <3>3, <4>1, EntryForms DEF Contains
      <4>2. CASE settings.hooks[n][k].form = "lookalike"
        BY <2>1, <3>1, <3>2, <3>3, <4>2, EntryForms, NotMalformed DEF BegunAlike
      <4>. QED
        BY <3>1, <4>1, <4>2
    <3>. QED
      BY <1>2, <2>1, <2>2, <3>2, <3>4, NotMalformed
  <2>3. CASE ~ ContainsCommand(settings.hooks[n], path)
    <3>1. PICK old \in Seq(Entry) :
            old = IF settings.hooks[n] = Malformed THEN <<>> ELSE settings.hooks[n]
      <4>1. CASE settings.hooks[n] = Malformed
        <5>. WITNESS <<>> \in Seq(Entry)
        <5>. QED
          BY <4>1
      <4>2. CASE settings.hooks[n] # Malformed
        BY <2>1, <4>2
      <4>. QED
        BY <4>1, <4>2
    <3>2. result.hooks[n] = Append(old, Nested(path))
      BY <1>2, <2>3, <3>1
    <3>3. /\ result.hooks[n] \in Seq(Entry) /\ Len(result.hooks[n]) = Len(old) + 1
          /\ DOMAIN old = 1 .. Len(old) /\ DOMAIN result.hooks[n] = 1 .. Len(old) + 1
          /\ result.hooks[n][Len(old) + 1] = Nested(path)
          /\ \A k \in DOMAIN old : result.hooks[n][k] = old[k]
      BY <3>2, AppendEntry
    <3>4. \A k \in DOMAIN old : old[k].form \notin {"nested", "lookalike"}
      BY <2>3, <3>1 DEF ContainsCommand
    <3>5. OneCommand(result.hooks[n])
      BY <3>3, <3>4 DEF OneCommand
    <3>6. Len(old) + 1 \in 1 .. Len(result.hooks[n])
      BY <3>1, <3>3
    <3>7. \E p \in Paths : Contains(result.hooks[n], Nested(p))
      BY <3>3, <3>6 DEF Contains
    <3>8. ASSUME NEW list \in Seq(Entry), settings.hooks[n] # Malformed,
                 IsPrefix(list, settings.hooks[n])
          PROVE  IsPrefix(list, result.hooks[n])
      <4>1. Len(list) <= Len(old) /\ \A k \in 1 .. Len(list) : list[k] = old[k]
        BY <3>1, <3>8, PrefixPointwise
      <4>2. \A k \in 1 .. Len(list) : k \in DOMAIN old
        BY <3>1, <4>1
      <4>3. Len(list) <= Len(result.hooks[n]) /\ \A k \in 1 .. Len(list) : list[k] = result.hooks[n][k]
        BY <3>1, <3>3, <4>1, <4>2
      <4>. QED
        BY <3>3, <4>3, PrefixPointwise
    <3>9. BegunAlike(result.hooks[n], lists[n])
      <4>1. Nested(path) # Lookalike
        BY DEF Nested, Lookalike
      <4>2. \A k \in DOMAIN old : old[k] # Lookalike
        BY <3>4 DEF Lookalike
      <4>3. \A k \in DOMAIN result.hooks[n] : k \in DOMAIN old \/ k = Len(old) + 1
        BY <3>1, <3>3
      <4>. QED
        BY <3>3, <4>1, <4>2, <4>3 DEF BegunAlike
    <3>. QED
      BY <3>3, <3>5, <3>7, <3>8, <3>9, NotMalformed
  <2>. QED
    BY <2>2, <2>3
<1>4. result.hooks \in HookLists
  BY <1>2, <1>3 DEF HookLists
<1>. QED
  BY <1>1, <1>2, <1>3, <1>4 DEF Settings, OneCommandIn, HasCommand, BegunAlikeIn

(* What a read gives install is as sound as the file.                      *)
LEMMA ParsedSound ==
  ASSUME NEW settings \in Settings, NEW lists, OneCommandIn(settings), BegunAlikeIn(settings, lists)
  PROVE  /\ Parsed(settings) \in Settings /\ Parsed(settings).hooks = settings.hooks
         /\ Parsed(settings).keys = Rounded(settings.keys)
         /\ OneCommandIn(Parsed(settings)) /\ BegunAlikeIn(Parsed(settings), lists)
BY ParsedFacts DEF OneCommandIn, BegunAlikeIn

-----------------------------------------------------------------------------
(* Installs. *)

(* Settings with those of the user, or what parsing leaves of them, and,   *)
(* under every name, at least that list.                                   *)
Kept(settings, lists, keys) ==
  /\ settings.keys \in {keys, Rounded(keys)}
  /\ \A n \in HookNames : lists[n] # Malformed =>
       settings.hooks[n] # Malformed /\ IsPrefix(lists[n], settings.hooks[n])

(* As long as nothing has gone wrong, the file is empty only while one     *)
(* install, and no other that is not behind, has it open; what an install  *)
(* that is not behind will write has all that the file had.                *)
Alone(i) ==
  /\ i \notin stale /\ file = Without("empty")
  /\ \A j \in Installs \ {i} :
       install[j] # "truncated" /\ (install[j] = "writing" => j \in stale)

InstallInv ==
  harm = {} =>
    /\ \A i \in Installs : install[i] = "truncated" => Alone(i)
    /\ \A i \in Installs : install[i] \in {"writing", "truncated"} /\ i \notin stale =>
         Kept(copy[i], begun, own) /\ HasCommand(copy[i], begun)
    /\ (\A i \in Installs : install[i] # "truncated") =>
         /\ file.kind \in {"missing", "whole"} /\ Kept(file.settings, begun, own)
         /\ (\E i \in Installs : install[i] = "done") => HasCommand(file.settings, begun)

(* AnswerPostedOnce of one turn, of the values it speaks of.               *)
LastIn(kind, transcript, n) ==
  LET found == {k \in 1 .. n : transcript[k] = kind}
  IN  IF found = {} THEN 0 ELSE Max(found)

Answered(t, transcript, ends, left, answers, pardoned) ==
  LET from == IF t = 1 THEN 1 ELSE ends[t - 1] + 1
      line == LastIn("answer", transcript, ends[t])
  IN  /\ t < Len(ends) \/ left = 0
      /\ t \notin pardoned
      /\ \A k \in 1 .. ends[t] : transcript[k] # "long"
      /\ line >= from
      => \E k \in DOMAIN answers :
           /\ answers[k] = [turn |-> t, line |-> line]
           /\ \A j \in DOMAIN answers : answers[j].turn = t => j = k

(* A turn that has ended ended at a line that exists; while its hook, one  *)
(* at most, has not run, no line follows and nothing is posted for it.     *)
TurnInv ==
  /\ TurnsTyped
  /\ waiting \in {0, 1}
  /\ \A t \in DOMAIN turns : turns[t] <= Len(lines)
  /\ waiting = 1 => turns # <<>> /\ turns[Len(turns)] = Len(lines)
  /\ \A k \in DOMAIN posted : posted[k].turn + waiting <= Len(turns)
  /\ \A t \in DOMAIN turns : Answered(t, lines, turns, waiting, posted, excused)

ClaudeInv == CommandsInv /\ InstallInv /\ TurnInv

-----------------------------------------------------------------------------
(* CommandsInv: one command in each list of the file and of every copy.    *)

LEMMA NoSettingsFacts ==
  /\ NoSettings \in Settings /\ OneCommandIn(NoSettings) /\ BegunAlikeIn(NoSettings, begun)
<1>1. <<>> \in Seq(Entry)
  OBVIOUS
<1>2. NoSettings \in Settings
  BY <1>1 DEF NoSettings, Keys, Settings, OtherKeys, HookLists
<1>3. \A n \in HookNames : NoSettings.hooks[n] = <<>>
  BY DEF NoSettings
<1>4. OneCommand(<<>>)
  BY DEF OneCommand
<1>5. \A n \in HookNames : BegunAlike(<<>>, begun[n])
  BY DEF BegunAlike
<1>. QED
  BY <1>2, <1>3, <1>4, <1>5 DEF OneCommandIn, BegunAlikeIn

LEMMA BeginFacts ==
  ASSUME NEW list \in BeginLists
  PROVE  list \in Seq(Entry) \cup {Malformed} /\ OneCommand(list) /\ BegunAlike(list, list)
<1>1. Other \in Entry /\ Lookalike \in Entry /\ Flat \in Entry
  BY DEF Entry
<1>4. CASE list = Malformed
  BY <1>4 DEF OneCommand, BegunAlike
<1>5. CASE list = <<>>
  BY <1>5 DEF OneCommand, BegunAlike
<1>6. ASSUME NEW e \in Entry, list = <<e>>
      PROVE  list \in Seq(Entry) /\ OneCommand(list) /\ BegunAlike(list, list)
  <2>1. list \in Seq(Entry) /\ Len(list) = 1
    BY <1>6
  <2>2. \A j \in DOMAIN list : j = 1
    BY <1>6
  <2>3. OneCommand(list)
    BY <2>2 DEF OneCommand
  <2>4. \A k \in DOMAIN list : k \in 1 .. Len(list)
    BY <2>1, <2>2
  <2>5. \A k \in DOMAIN list : list[k] = Lookalike => Contains(list, Lookalike)
    BY <2>4 DEF Contains
  <2>. QED
    BY <2>1, <2>3, <2>5 DEF BegunAlike
<1>. QED
  BY <1>1, <1>4, <1>5, <1>6 DEF BeginLists

LEMMA CommandsInit == ClaudeInit => CommandsInv
<1>. SUFFICES ASSUME ClaudeInit PROVE CommandsInv
  OBVIOUS
<1>1. /\ begun \in HookLists
      /\ \A n \in HookNames : OneCommand(begun[n]) /\ BegunAlike(begun[n], begun[n])
  BY BeginFacts DEF ClaudeInit, HookLists
<1>4. own \in OtherKeys
  BY DEF ClaudeInit, Keys, OtherKeys
<1>2. \/ file = Without("missing")
      \/ file = Whole([keys |-> own, hooks |-> begun])
  BY DEF ClaudeInit
<1>3. /\ file \in [kind : {"missing", "whole", "empty", "torn"}, settings : Settings]
      /\ OneCommandIn(file.settings) /\ BegunAlikeIn(file.settings, begun)
  <2>1. CASE file = Without("missing")
    BY <2>1, NoSettingsFacts DEF Without
  <2>2. CASE file = Whole([keys |-> own, hooks |-> begun])
    BY <1>1, <1>4, <2>2 DEF Whole, Settings, OneCommandIn, BegunAlikeIn
  <2>. QED
    BY <1>2, <2>1, <2>2
<1>. QED
  BY <1>1, <1>3, <1>4, NoSettingsFacts DEF ClaudeInit, CommandsInv, InstallsTyped

LEMMA CommandsStep == CommandsInv /\ [ClaudeNext]_claudeVars => CommandsInv'
<1>. SUFFICES ASSUME CommandsInv, [ClaudeNext]_claudeVars PROVE CommandsInv'
  OBVIOUS
<1>1. /\ file.kind \in {"missing", "whole", "empty", "torn"} /\ file.settings \in Settings
      /\ OneCommandIn(file.settings) /\ BegunAlikeIn(file.settings, begun)
      /\ \A i \in Installs :
           copy[i] \in Settings /\ OneCommandIn(copy[i]) /\ BegunAlikeIn(copy[i], begun)
  BY DEF CommandsInv, InstallsTyped
<1>2. ASSUME NEW i \in Installs, NEW path \in Paths, ReadSettings(i, path)  PROVE CommandsInv'
  <2>. DEFINE result == WithHooks(Parsed(file.settings), path)
  <2>1. result \in Settings /\ OneCommandIn(result) /\ BegunAlikeIn(result, begun)
    BY <1>1, ParsedSound, WithHooksFacts
  <2>. HIDE DEF result
  <2>2. /\ copy' = copy \/ copy' = [copy EXCEPT ![i] = result]
        /\ UNCHANGED <<file, begun, own>>
        /\ \E end \in {"writing", "failed", "done", "printed"} :
             install' = [install EXCEPT ![i] = end]
    BY <1>2 DEF ReadSettings, result
  <2>. QED
    BY <2>1, <2>2 DEF CommandsInv, InstallsTyped
<1>3. ASSUME NEW i \in Installs, Truncate(i)  PROVE CommandsInv'
  BY <1>3, NoSettingsFacts DEF Truncate, FileBecomes, Without, CommandsInv, InstallsTyped
<1>4. ASSUME NEW i \in Installs, OpenFails(i)  PROVE CommandsInv'
  BY <1>4, NoSettingsFacts DEF OpenFails, Ends, CommandsInv, InstallsTyped
<1>5. ASSUME NEW i \in Installs, Write(i) \/ WriteCut(i)  PROVE CommandsInv'
  <2>1. /\ \E how \in {"done", "failed"} : install' = [install EXCEPT ![i] = how]
        /\ copy' = [copy EXCEPT ![i] = NoSettings]
        /\ UNCHANGED <<begun, own>>
        /\ file' \in {file, Whole(copy[i]), Without("torn")}
    BY <1>5 DEF Write, WriteCut, Ends, FileBecomes
  <2>2. /\ file'.kind \in {"missing", "whole", "empty", "torn"} /\ file'.settings \in Settings
        /\ file' = [kind |-> file'.kind, settings |-> file'.settings]
        /\ OneCommandIn(file'.settings) /\ BegunAlikeIn(file'.settings, begun)
    BY <1>1, <2>1, NoSettingsFacts DEF Whole, Without, CommandsInv, InstallsTyped
  <2>. QED
    BY <2>1, <2>2, NoSettingsFacts DEF CommandsInv, InstallsTyped
<1>6. CASE EditSettings
  <2>0. own' \in OtherKeys
    BY <1>6 DEF EditSettings, Keys, OtherKeys, CommandsInv, InstallsTyped
  <2>1. [file.settings EXCEPT !.keys = own'] \in Settings
    BY <1>1, <2>0 DEF Settings
  <2>2. /\ OneCommandIn([file.settings EXCEPT !.keys = own'])
        /\ BegunAlikeIn([file.settings EXCEPT !.keys = own'], begun)
    BY <1>1 DEF Settings, OneCommandIn, BegunAlikeIn
  <2>. QED
    BY <1>6, <2>0, <2>1, <2>2 DEF EditSettings, Whole, CommandsInv, InstallsTyped
<1>7. CASE UNCHANGED installVars
  BY <1>7 DEF installVars, CommandsInv, InstallsTyped
<1>. QED
  BY <1>2, <1>3, <1>4, <1>5, <1>6, <1>7
     DEF ClaudeNext, claudeVars, WriteLine, EndTurn, RunStopHook

(* A hook list that is a list holds at most one entry of the form install  *)
(* writes (main.go:188, main.go:255).                                      *)
THEOREM CommandsOnce == ClaudeSpec => []OneCommandEach
<1>1. CommandsInv => OneCommandEach
  BY DEF CommandsInv, OneCommandIn, OneCommand, OneCommandEach
<1>. QED
  BY <1>1, CommandsInit, CommandsStep, PTL DEF ClaudeSpec

-----------------------------------------------------------------------------
(* InstallInv. *)

LEMMA InstallInit == ClaudeInit => InstallInv
<1>. SUFFICES ASSUME ClaudeInit PROVE InstallInv
  OBVIOUS
<1>1. \A n \in HookNames : begun[n] # Malformed => begun[n] \in Seq(Entry)
  BY BeginFacts DEF ClaudeInit
<1>2. \A n \in HookNames : begun[n] # Malformed => IsPrefix(begun[n], begun[n])
  BY <1>1, PrefixPointwise
<1>3. /\ file.kind \in {"missing", "whole"}
      /\ file.settings.keys = own /\ file.settings.hooks = begun
  BY DEF ClaudeInit, Whole, Without
<1>4. Kept(file.settings, begun, own)
  BY <1>2, <1>3 DEF Kept, ClaudeInit
<1>5. \A i \in Installs : install[i] = "off"
  BY DEF ClaudeInit
<1>. QED
  BY <1>3, <1>4, <1>5 DEF InstallInv

LEMMA InstallStep == CommandsInv /\ InstallInv /\ [ClaudeNext]_claudeVars => InstallInv'
<1>. SUFFICES ASSUME CommandsInv, InstallInv, [ClaudeNext]_claudeVars, harm' = {}
              PROVE  InstallInv'
  BY DEF InstallInv
<1>1. /\ install \in [Installs -> {"off", "writing", "truncated", "done", "printed", "failed"}]
      /\ copy \in [Installs -> Settings] /\ begun \in HookLists
      /\ file.settings \in Settings /\ OneCommandIn(file.settings)
      /\ own \in OtherKeys /\ BegunAlikeIn(file.settings, begun)
  BY DEF CommandsInv, InstallsTyped
<1>2. harm = {} =>
        /\ \A i \in Installs : install[i] = "truncated" => Alone(i)
        /\ \A i \in Installs : install[i] \in {"writing", "truncated"} /\ i \notin stale =>
             Kept(copy[i], begun, own) /\ HasCommand(copy[i], begun)
        /\ (\A i \in Installs : install[i] # "truncated") =>
             /\ file.kind \in {"missing", "whole"} /\ Kept(file.settings, begun, own)
             /\ (\E i \in Installs : install[i] = "done") => HasCommand(file.settings, begun)
  BY DEF InstallInv
<1>3. (\E i \in Installs : Alone(i)) => file = Without("empty") /\ file.kind = "empty"
  BY DEF Alone, Without
<1>4. ASSUME NEW i \in Installs, NEW path \in Paths, ReadSettings(i, path)  PROVE InstallInv'
  <2>1. PICK result \in Settings :
          /\ result = WithHooks(Parsed(file.settings), path)
          /\ result.keys = Rounded(file.settings.keys) /\ HasCommand(result, begun)
          /\ \A n \in HookNames : result.hooks[n] # Malformed
          /\ \A n \in HookNames, list \in Seq(Entry) :
               file.settings.hooks[n] # Malformed /\ IsPrefix(list, file.settings.hooks[n])
                 => IsPrefix(list, result.hooks[n])
    BY <1>1, ParsedSound, WithHooksFacts
  <2>2. Kept(file.settings, begun, own) => Kept(result, begun, own)
    BY <1>1, <2>1, RoundedOnce DEF Kept, HookLists
  <2>3. harm = {} /\ UNCHANGED <<file, begun, own, stale>> /\ install[i] = "off"
    BY <1>4 DEF ReadSettings
  <2>4. PICK end \in {"writing", "failed", "done", "printed"} :
          /\ install' = [install EXCEPT ![i] = end]
          /\ end = "writing" => copy' = [copy EXCEPT ![i] = result]
          /\ end # "writing" => copy' = copy
          /\ end = "failed" <=> file.kind \notin {"missing", "whole"}
          /\ end = "done" => result.hooks = file.settings.hooks
    BY <1>4, <2>1 DEF ReadSettings
  <2>5. \A k \in Installs \ {i} : install'[k] = install[k] /\ copy'[k] = copy[k]
    BY <1>1, <2>4
  <2>6. install'[i] = end /\ (end = "writing" => copy'[i] = result)
    BY <1>1, <2>4
  <2>7. ASSUME NEW k \in Installs, install'[k] = "truncated"  PROVE Alone(k)'
    <3>1. k # i /\ Alone(k)
      BY <1>2, <2>3, <2>5, <2>6, <2>7
    <3>2. end = "failed"
      BY <1>3, <2>4, <3>1
    <3>. QED
      BY <2>3, <2>5, <2>6, <3>1, <3>2 DEF Alone
  <2>8. ASSUME NEW k \in Installs, install'[k] \in {"writing", "truncated"}, k \notin stale'
        PROVE  Kept(copy'[k], begun', own') /\ HasCommand(copy'[k], begun')
    <3>1. CASE k # i
      BY <1>2, <2>3, <2>5, <2>8, <3>1
    <3>2. CASE k = i
      <4>1. \A j \in Installs : install[j] # "truncated"
        BY <1>2, <1>3, <2>3, <2>4, <2>6, <2>8, <3>2
      <4>. QED
        BY <1>2, <2>1, <2>2, <2>3, <2>6, <2>8, <3>2, <4>1
    <3>. QED
      BY <3>1, <3>2
  <2>9. ASSUME \A k \in Installs : install'[k] # "truncated"
         PROVE  /\ file'.kind \in {"missing", "whole"} /\ Kept(file'.settings, begun', own')
                /\ (\E k \in Installs : install'[k] = "done") => HasCommand(file'.settings, begun')
    <3>1. \A k \in Installs : install[k] # "truncated"
      BY <2>3, <2>5, <2>9
    <3>2. end = "done" => HasCommand(file.settings, begun)
      BY <2>1, <2>4 DEF HasCommand
    <3>. QED
      BY <1>2, <2>3, <2>4, <2>5, <2>6, <3>1, <3>2
  <2>. QED
    BY <2>7, <2>8, <2>9 DEF InstallInv
<1>5. ASSUME NEW i \in Installs, Truncate(i)  PROVE InstallInv'
  <2>1. /\ harm = {} /\ i \notin stale /\ install[i] = "writing"
        /\ UNCHANGED <<begun, own, copy>> /\ file' = Without("empty")
        /\ stale' = (stale \ {i}) \cup
             {j \in Installs \ {i} : install[j] \in {"writing", "truncated"}}
        /\ install'[i] = "truncated"
        /\ \A k \in Installs \ {i} : install'[k] = install[k]
    BY <1>1, <1>5 DEF Truncate, FileBecomes
  <2>2. \A k \in Installs : install[k] # "truncated"
    BY <1>2, <2>1 DEF Alone
  <2>3. Alone(i)'
    BY <2>1, <2>2 DEF Alone
  <2>4. \A k \in Installs : install'[k] \in {"writing", "truncated"} /\ k \notin stale' => k = i
    BY <2>1
  <2>. QED
    BY <1>2, <2>1, <2>2, <2>3, <2>4 DEF InstallInv
<1>6. ASSUME NEW i \in Installs, OpenFails(i)  PROVE InstallInv'
  <2>1. /\ harm = {} /\ install[i] = "writing"
        /\ UNCHANGED <<file, begun, own>> /\ stale' = stale \ {i}
        /\ install'[i] = "failed"
        /\ \A k \in Installs \ {i} : install'[k] = install[k] /\ copy'[k] = copy[k]
    BY <1>1, <1>6 DEF OpenFails, Ends
  <2>2. \A k \in Installs : install'[k] = "truncated" => Alone(k)'
    BY <1>2, <2>1 DEF Alone
  <2>. QED
    BY <1>2, <2>1, <2>2 DEF InstallInv
<1>7. ASSUME NEW i \in Installs, Write(i)  PROVE InstallInv'
  <2>1. /\ harm = {} /\ i \notin stale /\ install[i] = "truncated"
        /\ UNCHANGED <<begun, own>>
        /\ stale' = (stale \ {i}) \cup
             {j \in Installs \ {i} : install[j] \in {"writing", "truncated"}}
        /\ file' = Whole(copy[i]) \/ file # Without("empty")
        /\ install'[i] = "done"
        /\ \A k \in Installs \ {i} : install'[k] = install[k]
    BY <1>1, <1>7 DEF Write, Ends, FileBecomes
  <2>2. Alone(i) /\ Kept(copy[i], begun, own) /\ HasCommand(copy[i], begun)
    BY <1>2, <2>1
  <2>3. file' = Whole(copy[i])
    BY <2>1, <2>2 DEF Alone
  <2>4. file'.kind = "whole" /\ file'.settings = copy[i]
    BY <2>3 DEF Whole
  <2>5. \A k \in Installs : install'[k] # "truncated" /\ (install'[k] = "writing" => k \in stale')
    BY <2>1, <2>2 DEF Alone
  <2>. QED
    BY <2>1, <2>2, <2>4, <2>5 DEF InstallInv
<1>8. ASSUME NEW i \in Installs, WriteCut(i)  PROVE InstallInv'
  BY <1>8 DEF WriteCut
<1>9. CASE EditSettings
  <2>1. /\ harm = {} /\ UNCHANGED <<begun, install, copy>>
        /\ file.kind \in {"missing", "whole"}
        /\ file' = Whole([file.settings EXCEPT !.keys = own'])
        /\ stale' = stale \cup {j \in Installs : install[j] \in {"writing", "truncated"}}
    BY <1>9 DEF EditSettings
  <2>2. \A k \in Installs : install[k] # "truncated"
    BY <1>2, <1>3, <2>1
  <2>3. /\ file'.kind = "whole" /\ file'.settings.keys = own'
        /\ file'.settings.hooks = file.settings.hooks
    BY <1>1, <2>1 DEF Whole, Settings
  <2>4. Kept(file'.settings, begun', own')
    BY <1>2, <2>1, <2>2, <2>3 DEF Kept
  <2>5. HasCommand(file.settings, begun) => HasCommand(file'.settings, begun')
    BY <2>1, <2>3 DEF HasCommand
  <2>. QED
    BY <1>2, <2>1, <2>2, <2>3, <2>4, <2>5 DEF InstallInv
<1>10. CASE UNCHANGED installVars
  BY <1>10 DEF installVars, InstallInv, Alone
<1>. QED
  BY <1>4, <1>5, <1>6, <1>7, <1>8, <1>9, <1>10
     DEF ClaudeNext, claudeVars, WriteLine, EndTurn, RunStopHook

(* Unless a write was cut off or raced another change, settings.json       *)
(* parses, has the user's other settings, numbers rounded at most, and     *)
(* every list as the user began it, with commands of awayteam appended at  *)
(* most; after an install every list has one, or began with one of the     *)
(* same suffix (main.go:173-216, main.go:279).                             *)
THEOREM InstallOnlyAdds == ClaudeSpec => []InstallAddsOnly
<1>1. InstallInv => InstallAddsOnly
  BY DEF InstallInv, InstallAddsOnly, Undisturbed, Kept, HasCommand
<1>. QED
  BY <1>1, CommandsInit, CommandsStep, InstallInit, InstallStep, PTL DEF ClaudeSpec

-----------------------------------------------------------------------------
(* Least and greatest elements.                                            *)

LEMMA LeastExists ==
  ASSUME NEW S \in SUBSET Nat, S # {}
  PROVE  \E x \in S : \A y \in S : x <= y
<1>1. \A x, y \in Nat : y < x => <<y, x>> \in OpToRel(<, Nat)
  BY DEF OpToRel
<1>2. \E R : IsWellFoundedOn(R, Nat) /\ \A x, y \in Nat : y < x => <<y, x>> \in R
  BY <1>1, NatLessThanWellFounded, Zenon
<1>3. PICK R : IsWellFoundedOn(R, Nat) /\ \A x, y \in Nat : y < x => <<y, x>> \in R
  BY <1>2
<1>4. \E x \in S : \A y \in S : ~ (<<y, x>> \in R)
  BY <1>3, WFMin
<1>5. PICK x \in S : \A y \in S : ~ (<<y, x>> \in R)
  BY <1>4
<1>6. \A y \in S : ~ (y < x)
  BY <1>3, <1>5
<1>. QED
  BY <1>5, <1>6

LEMMA MaxIn ==
  ASSUME NEW n \in Int, NEW S \in SUBSET (1 .. n), S # {}
  PROVE  Max(S) \in S
<1>. DEFINE T == {n - x : x \in S}
<1>1. \A x \in S : n - x \in Nat
  OBVIOUS
<1>2. T \in SUBSET Nat /\ T # {}
  BY <1>1
<1>3. PICK z \in T : \A y \in T : z <= y
  BY <1>2, LeastExists
<1>4. PICK x \in S : z = n - x
  BY <1>3
<1>5. \A y \in S : n - y \in T
  OBVIOUS
<1>6. \A y \in S : n - x <= n - y
  BY <1>3, <1>4, <1>5
<1>7. \A y \in S : x >= y
  BY <1>6
<1>. QED
  BY <1>4, <1>7 DEF Max

LEMMA MinIn ==
  ASSUME NEW n \in Int, NEW S \in SUBSET (1 .. n), S # {}
  PROVE  Min(S) \in S
<1>1. S \in SUBSET Nat
  OBVIOUS
<1>2. \E x \in S : \A y \in S : x <= y
  BY <1>1, LeastExists
<1>. QED
  BY <1>2 DEF Min

-----------------------------------------------------------------------------
(* TurnInv. *)

LEMMA LastInNat ==
  ASSUME NEW kind, NEW transcript, NEW n \in Int
  PROVE  LastIn(kind, transcript, n) \in Nat
<1>. DEFINE found == {k \in 1 .. n : transcript[k] = kind}
<1>1. found # {} => Max(found) \in found
  BY MaxIn
<1>. QED
  BY <1>1 DEF LastIn

LEMMA LastInAgrees ==
  ASSUME NEW kind, NEW n \in Nat, NEW s, NEW t, \A k \in 1 .. n : s[k] = t[k]
  PROVE  LastIn(kind, s, n) = LastIn(kind, t, n)
<1>1. {k \in 1 .. n : s[k] = kind} = {k \in 1 .. n : t[k] = kind}
  OBVIOUS
<1>. QED
  BY <1>1 DEF LastIn

LEMMA LastAssistantFacts ==
  ASSUME NEW upTo \in Int
  PROVE  /\ LastAssistantMessage(upTo) \in Nat
         /\ (\A k \in 1 .. upTo : lines[k] # "long") =>
              LastAssistantMessage(upTo) = LastIn("answer", lines, upTo)
<1>. DEFINE tooLong == {k \in 1 .. upTo : lines[k] = "long"}
<1>1. tooLong # {} => Min(tooLong) \in tooLong
  BY MinIn
<1>2. PICK n : n = IF tooLong = {} THEN upTo ELSE Min(tooLong) - 1
  OBVIOUS
<1>3. n \in Int
  BY <1>1, <1>2
<1>4. LastAssistantMessage(upTo) = LastIn("answer", lines, n)
  BY <1>2 DEF LastAssistantMessage, LastWhere, LastIn
<1>. QED
  BY <1>2, <1>3, <1>4, LastInNat

LEMMA StopCommandsAtMostOne ==
  ASSUME CommandsInv, file.settings.hooks["Stop"] # Malformed
  PROVE  StopCommands \in {0, 1}
<1>. DEFINE list == file.settings.hooks["Stop"]
            commands == {k \in DOMAIN list : list[k].form = "nested"}
<1>1. \A j, k \in commands : j = k
  BY ClaudeCodeAssumption DEF CommandsInv, OneCommandIn, OneCommand
<1>2. commands = {} \/ \E k \in commands : commands = {k}
  BY <1>1
<1>3. Cardinality(commands) \in {0, 1}
  BY <1>2, FS_EmptySet, FS_Singleton
<1>. QED
  BY <1>3 DEF StopCommands

LEMMA SeqFacts ==
  ASSUME NEW S, NEW s \in Seq(S)
  PROVE  Len(s) \in Nat /\ DOMAIN s = 1 .. Len(s) /\ \A k \in DOMAIN s : s[k] \in S
OBVIOUS

LEMMA AppendFacts ==
  ASSUME NEW S, NEW s \in Seq(S), NEW e \in S, NEW t, t = Append(s, e)
  PROVE  /\ t \in Seq(S) /\ Len(t) = Len(s) + 1 /\ DOMAIN t = 1 .. Len(s) + 1
         /\ t[Len(s) + 1] = e /\ \A k \in DOMAIN s : t[k] = s[k]
OBVIOUS

LEMMA TurnInit == ClaudeInit => TurnInv
<1>1. ASSUME ClaudeInit PROVE TurnsTyped /\ DOMAIN turns = {} /\ DOMAIN posted = {} /\ waiting = 0
  BY <1>1 DEF ClaudeInit, TurnsTyped
<1>. QED
  BY <1>1 DEF TurnInv

LEMMA TurnStep == CommandsInv /\ TurnInv /\ [ClaudeNext]_claudeVars => TurnInv'
<1>. SUFFICES ASSUME CommandsInv, TurnInv, [ClaudeNext]_claudeVars PROVE TurnInv'
  OBVIOUS
<1>1. /\ lines \in Seq({"answer", "silent", "long"}) /\ turns \in Seq(Nat)
      /\ posted \in Seq([turn : Nat, line : Nat])
      /\ DOMAIN turns = 1 .. Len(turns) /\ Len(lines) \in Nat
      /\ \A t \in DOMAIN turns : turns[t] \in Nat /\ turns[t] <= Len(lines)
      /\ \A t \in DOMAIN turns : Answered(t, lines, turns, waiting, posted, excused)
      /\ waiting \in {0, 1}
      /\ waiting = 1 => turns # <<>> /\ turns[Len(turns)] = Len(lines)
      /\ \A k \in DOMAIN posted : posted[k].turn + waiting <= Len(turns)
  BY DEF TurnInv, TurnsTyped
<1>6. /\ DOMAIN posted = 1 .. Len(posted) /\ Len(posted) \in Nat /\ Len(turns) \in Nat
      /\ \A k \in DOMAIN posted : posted[k].turn \in Nat
  <2>1. /\ DOMAIN posted = 1 .. Len(posted) /\ Len(posted) \in Nat
        /\ \A k \in DOMAIN posted : posted[k] \in [turn : Nat, line : Nat]
    BY <1>1, SeqFacts
  <2>. QED
    BY <1>1, <2>1
<1>2. ASSUME NEW kind \in {"answer", "silent", "long"}, WriteLine(kind)  PROVE TurnInv'
  <2>1. /\ waiting = 0 /\ UNCHANGED <<turns, waiting, posted, excused>>
        /\ lines' = Append(lines, kind)
    BY <1>2 DEF WriteLine
  <2>2. /\ lines' \in Seq({"answer", "silent", "long"}) /\ Len(lines') = Len(lines) + 1
        /\ \A k \in 1 .. Len(lines) : lines'[k] = lines[k]
    BY <1>1, <2>1
  <2>3. ASSUME NEW t \in DOMAIN turns
        PROVE  Answered(t, lines', turns, waiting, posted, excused)
    <3>1. \A k \in 1 .. turns[t] : lines'[k] = lines[k]
      BY <1>1, <2>2
    <3>2. LastIn("answer", lines', turns[t]) = LastIn("answer", lines, turns[t])
      BY <1>1, <3>1, LastInAgrees
    <3>. QED
      BY <1>1, <3>1, <3>2 DEF Answered
  <2>4. \A t \in DOMAIN turns : turns[t] <= Len(lines')
    BY <1>1, <2>2
  <2>. QED
    BY <1>1, <2>1, <2>2, <2>3, <2>4 DEF TurnInv, TurnsTyped
<1>3. CASE EndTurn
  <2>1. /\ waiting = 0 /\ UNCHANGED <<lines, posted>>
        /\ turns' = Append(turns, Len(lines))
        /\ waiting' = IF file.settings.hooks["Stop"] = Malformed THEN 0 ELSE StopCommands
        /\ excused' = IF waiting' = 0 THEN excused \cup {Len(turns')} ELSE excused
    BY <1>3 DEF EndTurn
  <2>2. waiting' \in {0, 1}
    BY <2>1, StopCommandsAtMostOne
  <2>3. /\ turns' \in Seq(Nat) /\ Len(turns') = Len(turns) + 1
        /\ DOMAIN turns' = 1 .. Len(turns) + 1
        /\ turns'[Len(turns) + 1] = Len(lines)
        /\ \A t \in DOMAIN turns : turns'[t] = turns[t]
    BY <1>1, <2>1
  <2>4. ASSUME NEW t \in DOMAIN turns'
        PROVE  Answered(t, lines, turns', waiting', posted, excused')
    <3>1. CASE t = Len(turns) + 1
      BY <2>1, <2>3, <3>1 DEF Answered
    <3>2. CASE t # Len(turns) + 1
      <4>1. t \in DOMAIN turns /\ turns'[t] = turns[t] /\ (t # 1 => turns'[t - 1] = turns[t - 1])
        BY <1>1, <2>3, <3>2
      <4>2. Answered(t, lines, turns, 0, posted, excused)
        BY <1>1, <2>1, <4>1
      <4>3. t \notin excused' => t \notin excused
        BY <2>1
      <4>. QED
        BY <4>1, <4>2, <4>3 DEF Answered
    <3>. QED
      BY <3>1, <3>2
  <2>5. \A t \in DOMAIN turns' : turns'[t] <= Len(lines)
    <3>1. \A t \in DOMAIN turns' : t \in DOMAIN turns \/ t = Len(turns) + 1
      BY <1>1, <2>3
    <3>. QED
      BY <1>1, <2>3, <3>1
  <2>6. turns' # <<>>
    <3>1. Len(turns') # Len(<<>>)
      BY <1>1, <2>3
    <3>. QED
      BY <3>1
  <2>7. \A k \in DOMAIN posted : posted[k].turn + waiting' <= Len(turns')
    <3>1. \A k \in DOMAIN posted : posted[k].turn \in Nat /\ posted[k].turn <= Len(turns)
      BY <1>1, <1>6, <2>1
    <3>. QED
      BY <1>6, <2>2, <2>3, <3>1
  <2>. QED
    BY <1>1, <2>1, <2>2, <2>3, <2>4, <2>5, <2>6, <2>7 DEF TurnInv, TurnsTyped
<1>4. ASSUME NEW seen \in {Len(lines), Len(lines) - 1}, NEW arrives \in BOOLEAN,
             RunStopHook(seen, arrives)
      PROVE  TurnInv'
  <2>1. PICK line \in Nat :
          /\ line = LastAssistantMessage(seen)
          /\ (\A k \in 1 .. seen : lines[k] # "long") => line = LastIn("answer", lines, seen)
    <3>1. seen \in Int
      BY <1>1
    <3>2. LastAssistantMessage(seen) \in Nat
      BY <3>1, LastAssistantFacts
    <3>3. (\A k \in 1 .. seen : lines[k] # "long") =>
            LastAssistantMessage(seen) = LastIn("answer", lines, seen)
      BY <3>1, LastAssistantFacts
    <3>. QED
      BY <3>2, <3>3
  <2>2. /\ waiting = 1 /\ waiting' = 0 /\ UNCHANGED <<lines, turns>>
        /\ posted' = IF line = 0 \/ ~arrives THEN posted
                     ELSE Append(posted, [turn |-> Len(turns), line |-> line])
        /\ excused' = IF arrives /\ seen = Len(lines) THEN excused
                      ELSE excused \cup {Len(turns)}
    BY <1>1, <1>4, <2>1 DEF RunStopHook
  <2>3. /\ \A k \in DOMAIN posted : posted[k].turn \in Nat /\ posted[k].turn < Len(turns)
        /\ Len(turns) \in DOMAIN turns /\ turns[Len(turns)] = Len(lines)
    <3>1. \A k \in DOMAIN posted : posted[k].turn < Len(turns)
      BY <1>1, <1>6, <2>2
    <3>2. turns # <<>> /\ turns[Len(turns)] = Len(lines)
      BY <1>1, <2>2
    <3>. QED
      BY <1>1, <1>6, <3>1, <3>2
  <2>4. posted' = posted \/
          /\ DOMAIN posted' = 1 .. Len(posted) + 1
          /\ posted'[Len(posted) + 1] = [turn |-> Len(turns), line |-> line]
          /\ \A k \in DOMAIN posted : posted'[k] = posted[k]
    BY <1>1, <2>2
  <2>5. posted' \in Seq([turn : Nat, line : Nat])
    <3>1. [turn |-> Len(turns), line |-> line] \in [turn : Nat, line : Nat]
      BY <1>6
    <3>. QED
      BY <1>1, <2>2, <3>1, AppendFacts
  <2>6. ASSUME NEW t \in DOMAIN turns
        PROVE  Answered(t, lines, turns, 0, posted', excused')
    <3>1. CASE t # Len(turns)
      <4>1. Answered(t, lines, turns, 1, posted, excused) /\ t < Len(turns)
        BY <1>1, <2>2, <3>1
      <4>2. t \notin excused' => t \notin excused
        BY <2>2
      <4>3. ASSUME NEW x,
                   \E k \in DOMAIN posted : posted[k] = [turn |-> t, line |-> x] /\
                     \A j \in DOMAIN posted : posted[j].turn = t => j = k
            PROVE  \E k \in DOMAIN posted' : posted'[k] = [turn |-> t, line |-> x] /\
                     \A j \in DOMAIN posted' : posted'[j].turn = t => j = k
        <5>1. PICK k \in DOMAIN posted :
                /\ posted[k] = [turn |-> t, line |-> x]
                /\ \A j \in DOMAIN posted : posted[j].turn = t => j = k
          BY <4>3
        <5>2. CASE posted' = posted
          BY <5>1, <5>2
        <5>3. CASE posted' # posted
          <6>1. \A j \in DOMAIN posted' : j \in DOMAIN posted \/ j = Len(posted) + 1
            BY <1>6, <2>4, <5>3
          <6>2. posted'[Len(posted) + 1].turn # t
            BY <2>4, <3>1, <5>3
          <6>3. \A j \in DOMAIN posted' : posted'[j].turn = t => j = k
            BY <2>4, <5>1, <5>3, <6>1, <6>2
          <6>4. k \in DOMAIN posted' /\ posted'[k] = [turn |-> t, line |-> x]
            BY <1>6, <2>4, <5>1, <5>3
          <6>. QED
            BY <6>3, <6>4
        <5>. QED
          BY <5>2, <5>3
      <4>. QED
        BY <4>1, <4>2, <4>3 DEF Answered
    <3>2. CASE t = Len(turns)
      <4>. SUFFICES ASSUME t \notin excused',
                           \A k \in 1 .. turns[t] : lines[k] # "long",
                           LastIn("answer", lines, turns[t])
                             >= IF t = 1 THEN 1 ELSE turns[t - 1] + 1
                    PROVE  \E k \in DOMAIN posted' :
                             /\ posted'[k] = [turn |-> t,
                                              line |-> LastIn("answer", lines, turns[t])]
                             /\ \A j \in DOMAIN posted' : posted'[j].turn = t => j = k
        BY DEF Answered
      <4>1. arrives /\ seen = Len(lines)
        BY <2>2, <3>2
      <4>2. line = LastIn("answer", lines, turns[t])
        BY <2>1, <2>3, <3>2, <4>1
      <4>3. line # 0
        BY <1>1, <3>2, <4>2
      <4>4. /\ DOMAIN posted' = 1 .. Len(posted) + 1
            /\ posted'[Len(posted) + 1] = [turn |-> t, line |-> line]
            /\ \A k \in DOMAIN posted : posted'[k] = posted[k]
        BY <1>1, <2>2, <3>2, <4>1, <4>3
      <4>5. \A j \in DOMAIN posted' : posted'[j].turn = t => j = Len(posted) + 1
        BY <1>6, <2>3, <3>2, <4>4
      <4>. QED
        BY <1>6, <4>2, <4>4, <4>5
    <3>. QED
      BY <3>1, <3>2
  <2>7. \A k \in DOMAIN posted' : posted'[k].turn + 0 <= Len(turns)
    BY <1>6, <2>3, <2>4
  <2>. QED
    BY <1>1, <2>2, <2>5, <2>6, <2>7 DEF TurnInv, TurnsTyped
<1>5. CASE UNCHANGED turnVars
  BY <1>5 DEF turnVars, TurnInv, TurnsTyped
<1>. QED
  BY <1>2, <1>3, <1>4, <1>5
     DEF ClaudeNext, claudeVars, ReadSettings, Truncate, OpenFails, Write, WriteCut, EditSettings

(* The last answer of a turn is posted once, at the end of that turn, and  *)
(* nothing else is, unless the turn is excused or a line cannot be read    *)
(* (hook.go:100-151, hook.go:58).                                          *)
THEOREM AnswersPosted == ClaudeSpec => []AnswerPostedOnce
<1>1. TurnInv => AnswerPostedOnce
  BY DEF TurnInv, Answered, AnswerPostedOnce, LastIn, LastWhere
<1>. QED
  BY <1>1, CommandsInit, CommandsStep, TurnInit, TurnStep, PTL DEF ClaudeSpec

(* Every value stays in the sets it is meant to be in.                     *)
THEOREM ClaudeTypeCorrect == ClaudeSpec => []ClaudeTypeOK
<1>1. CommandsInv /\ TurnInv => ClaudeTypeOK
  BY DEF CommandsInv, TurnInv, ClaudeTypeOK
<1>. QED
  BY <1>1, CommandsInit, CommandsStep, TurnInit, TurnStep, PTL DEF ClaudeSpec

=============================================================================
