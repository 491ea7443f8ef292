# A TLA+ development of awayteam

awayteam is a dashboard for AI agents: agents and their hooks post events to a
server, the server stores them and pushes them to browser pages, and pages are
meant to answer back. This directory models that system in TLA+, checks the
models with TLC on small instances and proves the main results with TLAPS for
every instance. Paths below are those of the repository.

## The system

| Part | State | Operations | Talks to |
|---|---|---|---|
| Event store (`internal/store`) | tables `events` and `agent_state` of one SQLite file | `SaveEvent`, `GetAgents`, `GetAgentEvents`, `GetAgentSessionData` | called by the handlers |
| Hub (`internal/ws/hub.go`) | client channels, one listener per agent, a read-write lock | `Register`, `Unregister`, `Broadcast`, `RegisterAgent`, `UnregisterAgent`, `RouteResponse` | called by the handlers; writers range over its channels |
| Handlers (`internal/server`) | one handler goroutine and one writer goroutine per WebSocket | `handlePostEvent`, `handleGetAgents`, `handleGetAgentEvents`, `handleWS`, `handleAgentWS`, the terminal routes | store, hub, terminal |
| Browser terminal (`internal/terminal`) | a PTY and its process per connection | `ServeWebSocket` with two copying loops and a cleanup run once | the operating system |
| PTY proxy (`internal/agent`) | the agent's process, a tmux session, a response socket | `RunProxy` | posts events, reads responses |
| Hook command (`internal/hook`) | none | `ProcessHook` | posts one event |
| Page store (`web/src/store/agents.ts`) | cards, event lists, recent events | `setAgents`, `loadAgentEvents`, `handleEvent` | fed by the connection and by fetches |
| Page connection (`web/src/hooks/useWebSocket.ts`) | a socket, a timer, a back-off | `connect`, `onopen`, `onmessage`, `onclose`, `scheduleReconnect` | `/api/v1/ws`, `GET /api/v1/agents` |
| Conversation page (`web/src/app/agent`, `response-input.tsx`) | a fetch, a response socket | the fetch of an agent's events, `send` | handlers |
| Command line (`cmd/awayteam`) | `~/.claude/settings.json` | `cmdServe`, `cmdAgent`, `cmdHook`, `cmdInstall` | everything |
| Configuration (`internal/config`) | none | `Load` | read by `cmdServe` |

What is hard about each, and what makes it correct:

- **Store.** Requests save concurrently, are cancelled when the poster hangs up,
  and may carry the same id. The two tables must agree, the insertion and the
  upsert must be one step, success must mean stored even if the process dies
  before it can say so, and a waiting writer must come back.
- **Hub.** A channel is closed by one goroutine while others send on it. No send
  may hit a closed channel, a slow client may cost messages but never block a
  poster, and posting order must survive.
- **Handlers.** Each connection's two goroutines end each other: whichever
  notices that the peer is gone, everything must be released.
- **Board.** A page hears of an agent from live frames and from the fetch of each
  new connection, and the two race. Requests race as well between saving and
  broadcasting, and connections when the page has more than one. A notification
  may throw in the middle of an update.
- **Proxy, hooks, terminal.** Processes die at any point; events of hooks arrive
  after the end of their session; output is posted in the loop that feeds the
  local terminal.
- **Page connection.** Sockets and timers outlive the effect that made them, and
  report to whichever set-up is there by then. A mounted page must have one
  connection, and get it back.
- **Conversation.** A list is appended to by frames and replaced by fetches that
  were read earlier; the order is that of a text. Nothing may be listed twice,
  and nothing go missing unexplained.
- **serve.** Instances overlap, migrations are cut off, and a shutdown meets
  requests and terminals that do not end.
- **install and the stop hook.** A settings file is read, changed and rewritten in
  place while others write it; a transcript is read while it is written.

`PROJECT.json` lists each of these hazards with its line and the properties that
cover it.

## The modules

| Module | Models | How it corresponds to the code |
|---|---|---|
| `EventLog` | what the store promises | `Record` is a whole `SaveEvent`: append the event, set the agent's row, refuse a known id |
| `EventStore` | `sqlite.go` `SaveEvent` | one action per statement: `BeginTx`, `InsertEvent` (or `InsertConflict`, `InsertBusy`), `UpsertState`, `Commit`, after which the rows are durable, and `Return`, after which the caller knows; `Rollback` is the deferred one; `Cancel` is the end of the request context, `Crash` the end of the process |
| `EventStoreProofs` | | theorems about `EventStore` |
| `Hub` | `hub.go` | operations under the write lock are one step that waits until no broadcast is in its loop; `BroadcastLock`, `Offer`, `BroadcastUnlock` are the loop under the read lock. The operations do what the code does with any argument, a closed channel included; that callers register fresh channels only and broadcast each message once is a condition of `Next` (`FreshChans`, `FreshCalls`) |
| `HubProofs` | | theorems about `Hub` |
| `Server` | `handleWS`, `handleAgentWS` | `handler[c]` and `writer[c]` are the two goroutines of connection `c`; they call the operations of `Hub` without its conditions, so that a handler which misused the hub would be seen to |
| `ServerProofs` | | theorems about `Server` |
| `LiveBoard` | `handlePostEvent`, `handleGetAgents`, `useWebSocket.ts`, `agents.ts` | requests save (`EventLog!Record`) and broadcast in two steps; each connection has its link, channel, socket and fetch: `Open` is the upgrade with `onopen`, `Register` the registration that follows it, `Leave` the server's end breaking and `Disconnect` the page's; `HandleEvent` is `onmessage`, `HandleThrows` the same when its notification throws; `ReadAgents`, `SetAgents`, `FetchFails` are the fetch |
| `LiveBoardProofs` | | theorems about `LiveBoard` |
| `Proxy` | `agent/proxy.go`, `hook.go` | `pc[p]` is the place in `RunProxy`; `post[i]` follows each event's request to the store; the agent, its PTY, its tmux session, the tmux server's environment and the hooks are external; `KillFails` is a `kill-session` whose error `killTmuxSession` ignores |
| `ProxyProofs` | | theorems about `Proxy` |
| `Terminal` | `terminal/handler.go` | `main` and `reader` are the two goroutines of one `ServeWebSocket`, `once` its `sync.Once`; the program, the PTY's buffers and the browser are external |
| `TerminalProofs` | | theorems about `Terminal` |
| `Conversation` | `handleGetAgentEvents`, `GetAgentEvents`, `GetAgentSessionData`, the fetch of `agent/page.tsx`, the lists of `agents.ts` | `PostEvent` saves and broadcasts; `HandleEvent` (or `HandleThrows`) and `LoadAgentEvents` are the store's two operations; `Text` and `TextBefore` are what the database compares |
| `ConversationProofs` | | theorems about `Conversation` and `Reconnect` |
| `Reconnect` | `useWebSocket.ts` | the refs are variables, each callback is an action; `Setup` and `Cleanup` are the effect, `Schedule` is `scheduleReconnect` |
| `Serve` | `cmdServe`, `config.Load`, `NewSQLiteStore`, `migrate` | `main[p]` is the place in `cmdServe` of instance `p`, `listener[p]` the goroutine it starts, `conn[c]` the state `net/http` keeps of a connection |
| `ServeProofs` | | theorems about `Serve` and `ClaudeCode` |
| `ClaudeCode` | `cmdInstall`, `hookListContainsCommand`, `writeJSONFile`; `hook.go` for `stop` | `install[i]` is the place in `cmdInstall` of run `i`; `os.WriteFile` is `Truncate` and `Write` (or `WriteCut`); `RunStopHook` is a whole hook process |
| `MCHub`, `MCServer`, `MCLiveBoard`, `MCConversation`, `MCClaudeCode` | | the instances TLC checks |

The definitions of `Reconnect` and `ClaudeCode` that every module has (initial
states, next-state relation, specification) carry a prefix (`ConnInit`,
`ClaudeSpec`), since a module of proofs extends each of them beside another one.

`EventStore` implements `EventLog`, and `LiveBoard` and `Proxy` are built on it.
`Server` implements `Hub`. `LiveBoard` has a single page, with several
connections: a broadcast to one client is a single send, each channel is emptied
by a goroutine of its own, and the lock keeps the set of clients fixed meanwhile,
so the loop of `Hub` is one step there; the two queues a message passes (channel,
socket) are both kept. `Conversation` and `Reconnect` are the other two sides of
the page: `Reconnect` shows how many connections there may be, which is the
constant `Feeds` of `Conversation` and the reason for the several connections of
`LiveBoard`; why a frame is lost there is `Hub`'s and `LiveBoard`'s subject.
`Serve` is the process the server's parts live in.

Definitions headed "Faulty variant" are not part of any specification. Each is
a definition as a plausible bug would have it; with it in place of the original,
the property named for it in `PROJECT.json` fails. They show that the
properties depend on the code they are about.

### Abstractions

- An event is an id, an agent and a body. In `EventStore` the body is everything
  an `agent_state` row copies from the event; in `LiveBoard` it is the status. In
  `Conversation` an event has an agent, a type that matters (`session.start`,
  `output.stream` or any other) and a timestamp.
- A timestamp is a number of ticks, in base `Base` with `Digits` digits to the
  second; its text is the seconds, as one symbol, and the digits of the fraction
  without trailing zeros, as `time.RFC3339Nano` writes them. `Place[k]` is the
  `k`-th power of the base.
- In `Serve` the port is what a configuration decides, a request is one call of
  the store or none, and the two indexes are one statement of the schema.
- In `ClaudeCode` the user's other settings are the number of the edit that wrote
  them, and whether there is a number among them that a float64 does not hold;
  after the round trip through `any` it is rounded. An entry of a hook list is
  of one of four forms: as `install` writes it, flat, another command, or another
  command that ends in the same ` hook <type>`. A line of the transcript has an
  answer, has none, or is too long for the scanner.
- SQLite is modelled from its use: a deferred transaction takes the only write
  lock at its first INSERT or gives up when `busy_timeout` ends; a crash or a
  rollback discards what was staged.
- `sent[ch]` with the counter `got[ch]` is a channel with its history: what is
  queued is the part not yet received.
- A writer waiting for the lock does not hold up new readers in `Hub`, although
  Go's does: the model has every behaviour of the code and some more.
- TCP is what the handlers see of it. A peer that closed makes reads and writes
  fail. One that vanished takes writes into a buffer until the kernel gives up.
- A request of a proxy or a hook is sent, then stored or refused by the server,
  and may fail for its sender at any point, also when the server stores it
  later. It may also wait for an answer for ever. How many requests fail is not
  bounded.
- tmux is modelled from what `proxy.go` does with it: a server started by the
  first session, whose environment it keeps; a session that ends with its
  command; a client from which the user may detach. A PTY ends (`EIO`) when
  nobody holds its other end, which may be before or after the agent exits.
- Whether closing a PTY interrupts a read or write that waits on it depends on
  the build (the mode the PTY library leaves the file in), so `Terminal` allows
  both.
- In `LiveBoard` a connection whose server side broke loses what its channel
  holds, and one whose page side broke what is under way as well. The frames of
  one connection are handled in the order they were written, those of two in any
  order.

## What TLC checks

| Run | Question | Instance |
|---|---|---|
| `event_store` | Is a save atomic, isolated and truthful, across a crash too, and does it return? | 3 requests, 2 ids, 2 agents, 2 bodies |
| `hub` | Can any interleaving panic, lose, repeat or reorder a message? | 3 channels, 2 agents, 3 messages, capacity 1 |
| `server` | Do the handlers ever misuse the hub, is anything lost after the channel, is every connection torn down, and is no poster held up? | 1 connection, 3 events, 1 response, capacity 1 |
| `live_board` | When is a resting board right? | 2 requests, 1 agent, 2 statuses, 2 connections, capacity 1 |
| `proxy` | Are a session's events in order, does done stay done, what but an unanswered request keeps output from the terminal and the proxy from its end, does it leave anything behind? | 1 proxy, 2 chunks, 1 hook |
| `terminal` | Can the two goroutines clean up twice, late or not at all, and when does a terminal end because either side did? | buffers of 2, 4 frames |
| `conversation` | Can the two writers of an event list lose an event unexplained, repeat one, or show them in a wrong order? | 3 events, 2 visits, timestamps 0, 1, 2, 4 in base 2 with 2 digits, fetches and lists of 2 |
| `reconnect` | Can late callbacks give the page two connections, or none? | 3 sockets, 3 timers, 3 set-ups, back-off from 1 to 3 |
| `serve` | Is the schema there when a request needs it, is a clean exit clean, does serve stop? | 2 instances, 2 connections, 2 ports |
| `claude_code` | Does install write its entry once and otherwise only add, and is the last answer posted once? | 2 installs, 2 paths, 2 hook names, 1 edit, 2 lines |
| `server_responses`, `proxy_hooks` | Does the program do what its documents say? It does not, see below | small |

Bounds. Every property relates at most two messages, or a message and a lock
holder, so three messages allow two that overlap and one before or after them; a
capacity of one makes every channel full as soon as two messages meet. Three
requests over two ids give a conflict and an independent save. In `live_board` two
events of one agent can be stored and broadcast in different orders, and two
connections let a late frame or fetch of the first meet those of the second; a
cause belongs to one agent, and that agents do not disturb each other is the
theorem's, which has any number of them. `server` has one connection because its
properties are about one connection and the lock, and three events because the
third is the first that can meet a full channel whose writer is stuck; the
refinement and `FramesWithoutGaps` are proved for any number of connections, which
meet each other in the hub only, where `hub` has three. One proxy is enough for
its properties, each about one agent: two proxies share the tmux server only,
which `proxy_hooks` has. Two chunks let a late one be overtaken by another as well
as by `session.end`. Four frames are one more than fills a terminal's input buffer
and its writer. In `conversation` three events are one more than a fetch or a list
holds, and two visits let the answer of the first be applied after that of the
second; the moments 0, 1, 2 and 4 are a whole second, two fractions of it (each of
which continues the bare second, so that the database misorders them with it, and
neither of which continues the other, so that it must not misorder them), and the
next second, in the smallest base that has them. In `reconnect` two close events
and a timer of an earlier set-up can meet a third, and the back-off doubles, is
capped and is reset. In `serve` a second instance can migrate, bind the other port
or fail to bind while the first drains, and one connection can hang in the store
while another is idle or hijacked. In `claude_code` an install can read before and
write after another one or an edit, and a transcript of two lines has an answer
and then silence, an answer in each of two turns, or a line too long and an
answer. The bounds in guards are `MaxConns` (`LiveBoard!Open`), `MaxOutput`
(`Proxy!AgentWrites`), `MaxInput` (`Terminal!PeerSends`), `MaxVisits`
(`Conversation!Visit`), `MaxSetups` (`Reconnect!Setup`), and `MaxEdits` and
`MaxLines` (`ClaudeCode!EditSettings` and `WriteLine`). All the other sets are
finite because each request, channel and call is used once. Deadlock is not
checked: each model stops when everything that can be posted has been.

Fairness. `EventStore!FairSpec` lets a `SaveEvent` that has begun go on: it is a
goroutine, and SQLite's lock wait is bounded. `Server!FairSpec` lets handlers,
writers and broadcasts that can run do so, and the kernel time out on
unacknowledged data. Nothing makes a peer read (`WriterSends` is not fair),
connect, leave or post. `Proxy!FairSpec` lets a proxy go on and take the answers
it is given; nothing makes a request return, because the client has no timeout.
The two liveness properties of the proxy say what they need:
`ProxyFinishes` and `OutputShownWhileAnswered` are about the behaviours in which a
proxy's requests return (`RequestsReturn`), and say that nothing else is in the
way. `Terminal!FairSpec` lets the goroutines go on, a program exit on SIGHUP, and
the PTY be let go of after it. Nothing makes a program or a browser read:
`DisconnectEndsIfRead` is about programs whose input has room again and again,
`ExitEnds` about browsers that take or refuse what they are sent.
`Reconnect!FairConnSpec` is the browser's event loop: close events are delivered,
timers fire, and an attempt ends one way or the other; nothing makes a network
come back or stay. `Serve!FairSpec` lets the main goroutine go on and the five
seconds of the shutdown pass, and assumes nothing of handlers and clients.
`LiveBoard`, `Conversation` and `ClaudeCode` have no fairness, and only safety
properties.

### The board

`BoardRightUnlessRaced` is the central result about the page. A page with
nothing on its way to it shows each agent's stored status, except when one of
seven things has happened to that agent since the page opened a connection while
it had none:

1. *overtaken*: two of its events were broadcast in the other order than saved;
2. *dropped*: one met a full channel;
3. *unheard*: one was broadcast after the page's last fetch had read and before
   any channel of the page was registered;
4. *severed*: a connection broke with one queued or under way, and the page had
   another, so that no fetch followed;
5. *thrown*: a question's notification threw inside the update
   (`new Notification`, agents.ts:78), which lost the update with it;
6. *outdated*: a fetch was applied after something newer had been shown;
7. *unfetched*: the last connection's fetch failed.

Each cause is recorded where it happens, not where it shows. Each of the seven
is needed: without it TLC finds a wrong board. A wrong card stays wrong until
the agent's next event or the page's next connection. That a page has several
connections at a time adds only *severed*: whatever the order in which their
frames arrive, a stale one is followed by a newer one unless a cause is
recorded.

### The event lists

`MissingOnlyByCause` is the counterpart for the conversation page: a message that
has come past the page is in its agent's list exactly when none of five causes is
recorded for it.

1. *missed*: its frame was lost, to a full channel or a page without connection;
2. *evicted*: newer events pushed it out of a full list;
3. *overwritten*: a fetch the server answered before the event was saved was
   applied after its frame was;
4. *crowded*: a fetch had no room for it. The limit counts output chunks, which
   the page drops after it has them, so a busy terminal can empty a conversation;
5. *thrown*: the notification of a question threw before the question was listed.

"Exactly when" is the other half: a cause is taken back when the event is listed
again, so nothing listed is on record as missing, and a later fetch that includes
a lost event repairs the loss. `AnswersNewestInOrder` says what the textual order
of timestamps costs: two events of one second, of which the fraction of one
continues the other's, are sorted the wrong way round (5.5 s before 5 s), and the
limit then cuts the wrong one; of two sessions of an agent, a terminal may attach to
the older for the same reason. Any other pair is in order.

### The page's connection

`OneChainUnlessRevived` counts what will lead to a connection: sockets, sockets
that failed, timers. `unmountedRef` outlives the effect, so a close event of an
old socket that comes after the next set-up finds it false and schedules a
connection of its own. Each such event costs one more connection, for as long as
the page is mounted; React's second set-up in development is enough for it. The
property says that nothing else does. Each frame then arrives once per
connection; `NoDuplicates`, proved for any number `Feeds` of them, says that the
event lists are none the worse for it.

### serve, install and the stop hook

`StoreReadyWhenUsed`, `CleanExitCutsNothing` and `StopsWhenTold` say that the
order of `cmdServe` is right: every instance runs all of `migrate`, whatever
another one has done, before it listens; the store is closed only after
`Shutdown` has returned without an error; and a terminal, a board or a request
that hangs delays the end by five seconds at most. After a deadline requests are
cut off and `store.Close` is not run, in which case the exit is not a clean one.

`OneCommandEach` is about the form of entry that `install` writes: a hook list has
one at most, from however many paths installs ran, because
`hookListContainsCommand` compares the end of the command only. An entry in the
flat form is not looked at, see below. `InstallAddsOnly` says that apart from
its entries an install leaves the file as the user had it, but for numbers that a
float64 does not hold, which come back rounded. It has one exception, recorded in
`harm`: a write of `settings.json` that was cut off, or that raced another
change. Then anything may be lost, all of the file included, since it is
truncated first. And comparing the end of the command has a price
(main.go:279): in a list with somebody else's command of the same ending nothing
is installed. `AnswerPostedOnce` excludes a turn whose hook was not installed, came
before the transcript was complete or lost its request, a transcript with an
overlong line, and turns without an answer, at which an older answer is posted
again.

### Where the program and its documents differ

- Responses typed in a page are discarded: `RouteResponse` needs a listener, and
  no code but a test calls `RegisterAgent` (run `server_responses`).
- Hooks of an agent post under the id of another one, when both run in tmux: the
  tmux server keeps the environment it was started with (run `proxy_hooks`).

Three more configurations state a claim of a document that does not hold. They
are kept beside those of the runs, and TLC refutes each:

- `ProxyOutput.cfg` (module `Proxy`, property `OutputShown`). The design has the
  agent work normally in the terminal without the server
  (docs/plans/2026-03-02-ai-dashboard-design.md:129). A server that accepts a
  request and does not answer it stops the local terminal: output is posted
  between two reads of the PTY (proxy.go:158), by a client without a timeout
  (proxy.go:205). `OutputShownWhileAnswered` is what holds.
- `TerminalDisconnect.cfg` (module `Terminal`, property `DisconnectEnds`). The
  design has a disconnection kill the program
  (docs/plans/2026-03-03-browser-terminal-design.md:37). A goroutine that waits in
  a write to a program that does not read (handler.go:130) never looks at its
  connection. `DisconnectEndsIfRead` is what holds.
- `InstallFlat.cfg` (module `MCClaudeCode`, property `OneCommandOfAwayteam`).
  `hookListContainsCommand` is said to find a command that is already there
  (main.go:252). It does not find one in the flat form README.md:132 describes,
  and an install on top of it adds a second command.

Noted while modelling, without a configuration of its own:

- `/api/v1/ws/agents/:id` carries the events of every agent, since it registers
  its channel like `/api/v1/ws` does (README.md:245 calls them agent-specific).
- A page can come to rest with a status that is not current although its fetch
  succeeded (causes 1 to 6 above).
- README.md:126 says that `install` prints what to add; it writes it.
- A number in `settings.json` beyond the 53 bits of a float64 is rounded by
  `install`.
- A value of a hook that is no list is replaced by `install`.
- An agent whose status is `error` has no column on the board, hence no card.
- Detaching from the tmux session posts `session.end` although the agent runs
  until the proxy's deferred kill, and on if `kill-session` fails.

## What TLAPS proves

Every safety invariant, every action property and every refinement that a
passing run checks is also a theorem: for every set of requests, channels,
agents, connections, sockets, installs and messages, every channel capacity and
every bound. Each component has its type invariant as a theorem too.

**`EventStoreProofs`.** `TypeCorrect`, then `TransactionsIsolated`, the inductive
invariant: a transaction past its INSERT holds the write lock, has staged
exactly its event and its row, and its id is still unrecorded. Without it the
step at COMMIT could not be shown to be a `Record`. From it:
`StoreImplementsLog` (the refinement, `ImplementsEventLog`), `TablesAgree` and
`AnswersTruthful` (`SavedOnce`): whoever is told of success has its own event
stored, nobody else is told so for the same row, and a row whose caller was not
told belongs to a call that is about to return, or that died between the COMMIT
and its return.

**`HubProofs`.** `SafeInv` joins `NoPanic` to `RegistryInv`: the hub reaches open
channels only and no channel from two places, and a broadcast only visits
channels still registered, which is what the read lock is for.
`BroadcastsKeepOrder` adds that calls remembered as earlier have returned, so
the call that appends is nobody's predecessor. `NothingLostSilently` adds where
each message is while its call is idle, visiting or done.

**`ServerProofs`.** The operations of `Hub` that the handlers call do not refuse
misuse, so that it does not occur has to be proved. `CallersDisciplined` is the
invariant that does it (`CallerInv`): a channel is fresh until its handler has
registered it, and a message that is yet to be read is in one inbox, once, and
has not been routed. With it `HandlersImplementHub` (`ImplementsHub`) maps every
step of the server to a step of the disciplined hub or a stutter;
`ServerNeverPanics` follows by instantiating `HubProofs`. `NoGaps` (`FramesWithoutGaps`)
and `TypeCorrect` rest on `FramesInv`: what a peer has is a prefix of what its
channel was given, one message behind while the writer holds one.

**`LiveBoardProofs`.** `CardsAreStored`: every card shows a status that a stored
event of its agent has. The invariant says it of every place a status can come
from: rows, snapshots, channel and socket. `BoardAtRestRight`
(`BoardRightUnlessRaced`) says that a wrong board has a cause, and its invariant
`RaceInv` follows one agent's newest event all the way to its card:

- `RowsInv`: an agent's row is that of its last event in the log, an event of the
  log belongs to a request that was saved, and a restart that loses
  the broadcast of a request loses those of all earlier ones still to come;
- `ReadInv`: a snapshot is `agent_state` as it was at one length of the log;
- `LastInv`: if the fetch of the last connection is neither under way nor applied,
  `unfetched` is on record for every agent;
- `PipeInv`: on each connection, behind an event in the channel or the socket every
  later one of its agent follows or is still to be broadcast, or a cause is
  recorded;
- `NewsInv`: what the last fetch did not read is on its way or has been handled;
- `CardInv`: once that fetch is applied, a card is right or the newest event of
  its agent is still pending.

At rest nothing is pending, and `CardInv` is the theorem; the other five are what
carries it over the steps of the page.

**`ProxyProofs`.** `ReturnReaps` (`NothingLeftBehind`): the invariant adds that
before its PTY a proxy has no agent but one in a session, and that only proxies
using tmux have sessions, so the kill that is deferred is enough, unless it fails.
The three properties about events rest on where requests stand. `PostingInv` ties
what has been posted to the place in `RunProxy`, and says that a request not yet
answered is the current one or was given up; `RowsInv` that the log holds what was
stored, under the ids of those who sent it, and that a row is the last of them;
`EnvInv` that an agent that runs, hence whatever posts from within it, has an id
in its environment. From them `OwnEventsOrdered` (`OwnEventsInOrder`: only a
given-up request can be stored out of order), `DoneStays` (`DoneUnlessStraggler`)
and `ReturnsReported` (`ReturnReportsEnd`).

**`TerminalProofs`.** `SignalsLivingProcess` and `ReturnReleases`. `OnceInv` says
who holds the Once and that main waits for the process after the cleanup only;
it is what makes the second goroutine's waiting in `once.Do` matter.

**`ConversationProofs`**, on the event lists: `ListsHaveNoDuplicates`
(`NoDuplicates`) and `TypeCorrect`. The invariant adds that answers on their way
hold saved events only. `MissingExplained` (`MissingOnlyByCause`) needs more:
lists and answers hold events of their own agent only, and a listed message has no
cause on record even while another copy of its frame is on its way, to be handled
or to throw (`CauseInv`). A fetch's answer is never cut by the page, because it is
no longer than a list may be.

On the order of timestamps: `AnswersInOrder` (`AnswersNewestInOrder`), for any
base and any number of digits. Two things carry it. `TextsInOrder`: of two
moments of different seconds, or of one second whose fractions do not continue
each other, the earlier has the smaller text. Its proof finds the first digit in
which the two fractions differ (`FirstDifference`), and shows that the moments
agree above it. `SortedStrict`: the textual order of moments is strict and
transitive, so an agent with a session has a newest one for a terminal to attach to.
Where an argument by induction would be natural, the proofs take a least
counterexample (`LeastExists`, from the well-foundedness of the naturals).

On the page's connection: `SocketsTypeCorrect` and `OneChain`
(`OneChainUnlessRevived`). The count alone is not inductive: a clean-up must be
shown to take one chain away. `ChainInv` says that as long as the effect is set up
its socket or its timer is one of the chains, whatever the refs have lost track of
besides, and that a socket closed by a clean-up is stale, so its close event is no
chain until the next set-up revives it.

**`ServeProofs`**, on `serve`: `StoreIsReady` and `CleanExit`. The invariant adds
that an instance has the tables of every statement it has executed, that its
store is open from then until `Drained`, and that a connection with a request
belongs to an instance that serves or drains.

On `install` and the stop hook: `ClaudeTypeCorrect`; `CommandsOnce`
(`OneCommandEach`), because not only the file but every copy an install holds has
at most one entry of a hook in the form `install` writes (`CommandsInv`), and no
command of the same ending that was not there from the beginning;
`InstallOnlyAdds` (`InstallAddsOnly`), where `InstallInv` says that as long as no
harm is on record a truncated file belongs to one install that is alone between
truncation and write, and that what an install will write has all that the file
had, numbers rounded at most, unless the file was changed after it was read, which
the write would put on record as harm; `AnswersPosted` (`AnswerPostedOnce`), where
`TurnInv` says that at most one hook is due, and that nothing has been posted for
the turn whose hook has not run.

The assumptions are those of the modules: `NoRow`, `NoChan`, `Nobody`, `NoAgent`,
`NoPort`, `NoProc`, `NoPath` and `None` are not values they stand beside, a hook's
value that is no list is not one of the lists, capacities are positive, a base is
at least 2, the shortest back-off is positive and no longer than the longest, and
events and responses are different messages. `Conversation` also assumes that a
fetch asks for no more events than a list holds (both are 500 in the code).

Only model-checked are the liveness properties, which are beyond the prover:
`SaveReturns`, `GoneIsCleanedUp`, `SlowClientsDelayNobody`, `ProxyFinishes`,
`OutputShownWhileAnswered`, `DisconnectEndsIfRead`, `ExitEnds`, `ComesBack`,
`StopsWhenTold`. Proved without a run that repeats them are `RegistryInv` of the
hub, `CallerInv` and `HandlersNeverPanic` of the server, and the type invariants
of `Server`, `Terminal`, `Conversation`, `Serve` and `ClaudeCode`.

## Not modelled

- The goroutine of the proxy that reads responses: nothing is routed to it, so a
  model of it would have no step. Window resizes of proxy and terminal.
- `recentEvents` of the page, which nothing reads; browser notifications, but for
  the exception one may throw.
- Rendering, CORS headers, static files, the health check and the conversion of
  hook payloads, which keep no state that another part depends on.
- `sqlite_path`, which `config.Load` treats like the port.
