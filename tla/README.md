# A verification development for LLMBridge-cpp

LLMBridge-cpp is a C++17 SDK that puts one interface in front of many LLM
providers (OpenAI-compatible, Claude, Gemini): sessions with persistent
history, weighted routing with failover, a tool-calling loop, streaming, token
budgets and metrics, served in process, through a CLI and through gRPC. This
directory holds TLA+ models of its own code (`src/sdk`, `src/demo`), the TLC
runs that check them on small instances, and TLAPS proofs that hold for every
instance. The client half of the single-header HTTP library `httplib.h`, which every
provider call goes through, is modelled too; `src/third_party` is not part of it.

## 1. Inventory of the system

| component (files under `src/sdk`) | state | operations | talks to |
|---|---|---|---|
| Session store: `SessionManager`, `DataManager` | map id -> `Session`, its mutex; SQLite tables `sessions`, `messages`, another mutex | create, get, add message, history, list, delete, clear, load at start | SQLite; called by ChatSDK |
| Router | `backends_` (weight, fallback, fail_count, fail_time), `routes_`, recovery time, mutex, RNG | addBackend, addRoute, plan, markUnavailable, markAvailable, isHealthy, setRecoverAfterMs | called by ChatSDK; reads the clock |
| ChatSDK | `configs_`, `initialized_`; owns one of each component | initModels, createSession, sendMessage, sendMessageStream, ... | everything |
| LLMManager, ProviderFactory, ConfigLoader | providers and model infos by name; creators by type; none | register, init, create, parse | ChatSDK; providers |
| Providers: OpenAICompat, Claude, Gemini | endpoint, key, availability; per-stream SSE buffer and flags | initModel, sendMessage, sendMessageStream, request body, response, SSE events | remote HTTP API; the caller's callback |
| ContextManager | none | estimateTokens, countMessagesTokens, fitToBudget, summarizeConversation | ChatSDK |
| ToolRegistry | tools by name, no mutex | registerTool, execute, definitions, names | user tools |
| MetricsCollector | counters per model, mutex | record, getAll, reset, toJson | ChatSDK |
| gRPC server (`grpc_server.cc`), CLI demo (`src/demo`) | none of their own | one handler per RPC, on a thread pool; a read-eval loop | ChatSDK |
| HTTP client (`include/httplib.h`) | one socket, its SSL, the response of one call | connect, handshake, write, read head and body, close, repeat once | providers; the network |
| UUIDUtil, logger, fields.h | none that matters | ids, logging, JSON key names | |

What is hard in it. Every gRPC request runs on its own thread against one
`ChatSDK`; store, router and metrics lock themselves for the length of one method, so a
request is a long chain of short critical sections, with the network in the
middle. The database is written through in single autocommitted statements, and
every result is ignored. Provider calls fail, partly or completely, and are
retried on other backends by an order computed once, at the start. Timestamps
are whole seconds.

What makes each component correct, and the hazards behind it (each is listed with
its line and its properties in `PROJECT.json`):

* **Session store.** What is served and what is on disk must never drift apart by
  more than the one message being written; an acknowledged message survives a
  crash; a deleted session stays deleted; no caller waits for itself. Hard, for
  a call takes up to four separate critical sections of two mutexes, and the
  process may die between any two SQL statements.
* **Router.** Every plan starts with a backend that may get traffic if there is
  one, loses no member of the group, repeats none, and keeps the order of the
  weights, although `plan()` grows the vector it iterates.
* **ChatSDK requests.** A request tries every candidate before it gives up, ends
  after a bounded number of calls, leaves a well-formed conversation however
  requests and deletions overlap, and is counted once.
* **Providers (streams).** No text is lost, doubled or reordered by the way the
  network cuts the response, and the caller is told the end.
* **ContextManager.** The newest question survives trimming, what is kept is an
  unbroken run of the newest messages, and the budget is overrun by a bounded amount.
* **Request bodies, tools.** Through every pair of families and every reply, a call
  keeps its result behind it, nothing the history says is lost or told twice,
  arguments stay what they were, and each tool is offered under one name.
* **Start-up, CLI.** Re-initialisation, whole or failing half way, never leaves a model
  offered that cannot answer; a line goes to the model the prompt shows.
* **HTTP client.** Every descriptor is closed once; only a request the server left
  unanswered is repeated; a stalled server is given up; a body with a known end is whole.

## 2. Plan

In the order of importance. Everything in the table is done.

| module | models | composes | abstract specification |
|---|---|---|---|
| `MessageOrder` | `ORDER BY timestamp` over rows with ties | | `InTimeOrder` |
| `SessionStore` | `SessionManager` over `DataManager` | `MessageOrder` | `ConversationLog` |
| `SessionReaders` | `getSessionList`, `getSessionHistory` beside the writers | `SessionStore` | |
| `Router` | `Router` with breakers and plans | | `PlansByLoop` (the loop as written) for `Plans` (its result) |
| `ChatRequests` | `sendMessage`, `sendMessageStream`, metrics | `Router` (INSTANCE) | |
| `StreamParser` | `sendMessageStream` of the three providers | | `Events` (the stream read at once) |
| `ContextWindow` | `fitToBudget`, `summarizeConversation`, token estimates | | `Fit` (the longest run within the budget) |
| `Tools` | `ToolRegistry`, the demo's tools, their declarations | | |
| `Prompt` | request bodies, `parseResponse`, the rounds of tools | `ContextWindow`, `Tools` | the history itself |
| `Setup` | `ConfigLoader`, `ProviderFactory`, `LLMManager`, `initModels`, repeated and beside requests | `Router` | |
| `Cli` | the loop of the demo | `Setup` | |
| `HttpClient` | one POST through httplib | | `HttpCall` |

The theorems are in a module `...Proofs` beside each (those of `ContextWindow` and
`Tools` with `Prompt`'s); `SumTheorems` has the facts
about sums, flattened sequences and functions defined step by step that five of them
share.

Left for later: failing reads of the store.

## 3. The modules and the code

Every mapped definition and its lines are in `PROJECT.json` under `map`. Mutants
(definitions whose comment starts with "Mutant:") are plausible bugs; no
specification uses them.

### SessionStore (`SessionManager.cc`, `DataManager.cc`)

`cached`, `messages` and `updatedAt` are `sessions_` and the `Session` objects;
`rows`, `updateTime` and `table` are the two SQLite tables; `dmHolder` is
`DataManager::mutex_` where it is held over more than one action. A region under
`SessionManager`'s mutex calls nothing and is one action; a DataManager call is
one action, but `insertMessage` is two (INSERT, then UPDATE, with the process
able to die between them) and `getSession` is two (its second one, the nested
lock, never happens). `Create`/`CreateRow`, `GetMiss`/`GetNoRow`/`GetRow`,
`Compose`/`AddUnknown`/`AddPush`/`AddStamp`/`AddInsert`/`AddInsertFails`/`AddUpdate`,
`Erase`/`DeleteMessages`/`DeleteRow`, `EraseAll`/`ClearRows` are the calls in the
order of their regions; `Restart` is a crash at any point and the loading
constructor of the next process. `SerialClients` is the discipline of a program
like the CLI (one call at a time on a session); the gRPC server has none.
`WritesMayFail` lets SQLite refuse any statement, which the code ignores.

`ConversationLog` is what a client may rely on: per session a log that is served
from memory and runs ahead of the disk by at most one message. `Log` in
`SessionStore` is the refinement mapping: the served log is `messages` of a cached
session, the durable one what `LoadOrder` makes of its rows.

`SessionReaders` adds the two reads that combine map and database, each in its two
halves (`ListRows`/`ListMerge`, `HistoryFromMap` or `HistoryMiss`/`HistoryRows`),
with any step of the writers between them (`Others`). A reader changes nothing others look at,
so one stands for all. `steady`, `glimpsed` and `owed` are history: what was in the
map throughout the call, what was anywhere during it, what had been acknowledged before it.

### Router (`Router.cc`)

Each public method holds the mutex from end to end, so each is one action. A
breaker is `tripped` (`fail_count > 0`) and `age`, the whole seconds since
`fail_time`. `Plans(name)` is the set of vectors `plan()` may return: the draw of
the primary, the sorted rest and those that are down (`BuildOrder`), then the
fallback chains (`Appended`). The loop that appends them iterates the vector it
appends to; once an append has exceeded the capacity, the loop reads freed
memory, so each later candidate is found there or not (`Reads`). A crash at that
point is not modelled. `PlansByLoop` is the same loop as
written, one candidate and one fallback at a time (`LoopOver`, `WithChain`, `WithFallback`).

### ChatRequests (`ChatSDK.cc`, `LLMManager.cc`, `MetricsCollector.cc`)

A request is a thread in `sendMessage` or `sendMessageStream`. It locks nothing
between its calls, so a step reaches from one access to sessions or router to the
next: `Ask` (question stored, configuration looked up), `Read` (history), `Plan`
(`router_.plan`), then calls of one target at a time, and `Answer`. What a
provider returns is any outcome the three providers have: a failure, a text, an
empty reply, tool calls with or without text, an exception. `Fails`, `Succeeds`
carry the breaker and the metrics. A stream shows its chunks with the target they
come from, which the client is not told: those of one that fails later stay shown.
The breakers' clock runs beside, and deletions, in their two halves: `Delete` takes
the session out of memory, `DeleteRow` the row out of the database. Who asks for the
session in between, another request (`HangsInGetSession`) or a caller of `getSession`
(`GetSession`), locks `DataManager::mutex_` twice, as `store_deadlock` shows, and leaves
it `stuck`: from then on every write to a served session and every read of one that is
not in memory waits for ever (`HangsInAddMessage`, `HangsInGetHistory`).
The registry is a constant (the state after `buildRouter`), a session is the log
of the served `Session` object: that this agrees with the disk is `SessionStore`'s business.
`last`, `calls`, `downNow`, `refusals` are history variables.

### StreamParser (the three `sendMessageStream` and `processSseEvent`)

`sent` is what the server sends, as lines of the kinds the parsers tell apart
and line ends; `wire` is the same in one. `Arrive` is a call of `content_receiver` with the
next piece, of any length; `Cut` is one round of its loop (event out of the
buffer, `processSseEvent`), `CutThrows` the round in which jsoncpp throws,
`NothingToCut` the loop's end; `Complete`, `Broken` and `Refused` are what
`client.send` returns. A text is known by its position on the wire, so that a
lost, doubled or moved one shows. The families differ in `Separators`,
`DataAt`, `Says` and `LeavesLoop`.

### ContextWindow, Tools, Prompt (`ContextManager.cc`, `Tool.cc`, the providers)

A text in `ContextWindow` is a sequence of runs of characters of one width, which is
all the estimate and the cuts by bytes can tell apart; a cut may fall inside a
character, and `FirstBytes`, `Lacking` and `LastBytes` say what the estimate makes of
the pieces. `ReturnAll`, `Begin`, `Keep`, `Stop`, `Summarise` are the steps of
`fitToBudget`; `ContextBudget` is what `ChatSDK` calls it with.

`Tools` has the registry as a set of tools with different names; a tool is its
parameters and the arguments it has a result or an error for. `Prompt` takes
the fitted history into `sendMessage`'s rounds (`Begun`, `Ask`, `AskThrows`, `Fails`,
`AsksForTools`, `Ends`). The three request formats are brought to one shape, a list of turns of
parts (`OpenAIBody`, `ClaudeBody`, `GeminiBody`), and the three `parseResponse` to one
list of calls. Texts are numbers, so that a lost, moved or repeated one shows;
arguments are the kind of JSON they are, which is what parsing and writing back change.
What goes along a list (`ClaudeBody`, `Registered`, and `Picked` for what a filter leaves) is a
recursive function: the provers cannot look into `FoldLeft` and `SelectSeq`, whose
argument is an operator.

### Setup, Cli (`ConfigLoader.cc`, `ProviderFactory.cc`, `ChatSDK.cc`, `LLMManager.cc`, `cli_demo.cc`)

A configuration comes from a file (`loadFromFile`) or a gRPC request (`fromRequest`),
whose defaults differ. `Register`/`RegisterSkips`, `InitProvider`/`InitSkips`,
`BuildBackend`/`BuildGroup` are `initModels`' three passes, one write to a map per
action; `ServeRequest` is a round of another thread's request between any two.
`creators` is `ProviderFactory::creators_`, `RegisterType` a program's own
`registerProvider`; a provider is its class, URL, name and `isAvailable_`. `Cli` is the
demo: it initialises once, then `New`, `Switch`, `Say`, `Exit` in any order.

### HttpClient (`httplib.h`)

One call of a provider: `NewClient`, the addresses in turn, the TLS handshake, through a
proxy a CONNECT before it, `Write`, `Peek`, the status line, the fields, the memory for a
body whose length they tell (`Reserves`, `ReserveThrows`), the body
in its three framings, the trailers, the guard that closes, and `send`'s one
repetition. An answer is the sequence of its lines and pieces; the server sends
them one at a time, may put a keep-alive between any two (`drip`), and may close or drop the
connection at any point. `created` and `closed` count descriptors. `HttpCall` is
what the providers take for granted; `Phase` and the mapping next to it are the refinement.

## 4. Runs

| run | states | checks |
|---|---|---|
| `store_concurrent` | 2 117 001 (with symmetry) | two unrestrained callers and a reader, refused writes, a crash |
| `store_serial` | 149 575 | one call per session, willing SQLite, a crash; refinement and liveness |
| `store_deadlock` | violation | the nested lock |
| `router_plans` | 5 832 | all plans of all reachable routers; recovery |
| `router_chains` | violation | which chains are appended |
| `chat_mixed` | 5 797 496 | a blocking and a streaming request on one session of a group |
| `chat_rounds` | 111 036 | one request, five tool rounds, every kind of session; liveness |
| `stream_failover` | violation | when a stream goes to the next candidate |
| `streams` | 326 074 | all streams of up to three parts, all cuts, three families; liveness |
| `prompt` | 2 435 504 | every short history fitted, then two rounds of tools |
| `setup` | 944 603 | up to three initialisations, requests and creators between, the CLI on top |
| `http` | 98 816 | one POST, every scheme, proxy, framing, fault; refinement and liveness |

`TypeOK` of each module is not among a run's properties: it is proved
(`TypeCorrect`; in `Setup` as a part of its invariant; and `Prompt` has none: its types
are a part of the invariant `PInv`, with ids TLC could not enumerate).

**store_concurrent.** `MemoryAgreesWithDisk`: a served session lacks nothing that is
on disk, and the only served messages missing on disk are those whose `addMessage` is at
work or whose INSERT was refused. `AckedSurvives`: an acknowledged message of a
live session is on disk, also after the crash. `EraseIsFinal`: while the process
lives, a deleted id never comes back into the map. `ListFitsTheCall`: a list names
no session twice, none that was nowhere during the call, and misses none that was there all the while.
`HistoryHoldsTheAcked`: a history holds every message acknowledged before it was
asked for, even of a session whose row a concurrent `clearAllSession` took. Two callers
are enough for every pair of calls to overlap at every point, and the reader's two halves
enclose any of their steps; two sessions and two messages let calls on one session and on
another mix; one restart follows or precedes everything. The clock stands still
(`MaxTime` = 0): the properties here are about which messages there are, not about their
order. Threads, sessions and messages are interchangeable, and no temporal property
other than step properties is checked under the symmetry.

**store_serial.** `IsConversationLog` (refinement), `DeleteIsDurable`,
`RestartShowsTheSame` (same messages, order and time of update) and `CallsReturn`, all
under one caller per session and no reader (`UnreadSpec`), with one tick (`MaxTime` = 1), so that timestamps are equal and
different. Under unrestrained callers `CallsReturn` fails, which is `store_deadlock`.

**store_deadlock.** `DataManager::getSession` locks `mutex_` and calls
`getMessageBySessionId`, which locks it again. SessionManager hides this as long as every id
with a row is in the map; TLC finds the way around: a `getSession` between the
erase from the map and the DELETE. The comment at `DataManager.cc:130-133` states
the rule.

**router_plans.** The registry is whatever registrations, in any order and
repeated, make of six offers of backends and four of groups (chain into a group,
cyclic chain, unknown name, weight 0 and negative, equal weights, a group listing
a backend twice). The properties say of every plan: who is first
(`FirstIsEligible`), in what order the members come (`MembersInOrder`), that none
is lost (`EveryMemberIsTried`), that the first one's chain is complete whatever
the vector does and that no chain is followed further (`FallbacksAreTheMembersOwn`), that nothing is tried twice (`NothingIsTriedTwice`), and
that the set of plans is what the loop leaves (`PlansAreTheLoops`).
`BreakersRecover`: a backend that is not reported down for ever gets traffic
again. Three backends are enough for first, second and down member to differ and
for the vector to be exceeded by one chain and read by the next; MaxAge = 2 s
reaches past the larger recovery time of 1000 ms.

**router_chains.** `Router.h:39` says each candidate's chain is appended: see `Reads`.

**chat_mixed.** `ConversationsAreWellFormed`, `QuestionIsRead`, `MetricsAddUp` and
`NothingFollowsTheAnswer` with overlapping requests, a deletion at any point, a
`getSession` in the middle of it, and breakers that open and close with
RecoverMs = 0, which is the setting with most interleavings per state (a tick
suffices). `NothingFollowsTheAnswer`: chunks of another target come on a stream's callback only
behind those of a target that failed, so nothing stands behind an answer, and a returned
text is closed by its own target. One tool round is enough for a target to fail in one round and be
planned in the next. There are no chains of fallbacks here: a group of two
already gives each request a second candidate, and longer plans differ in nothing that requests share;
`chat_rounds` has the chains.

**chat_rounds.** One request with the code's own limit of five tool rounds, on a
session of a group, of one backend, of a model that is no longer configured, and
of a group without registered members, one backend never having been
initialised. It ends, or waits for the database's mutex after somebody asked for a
session in the middle of its deletion (`RequestsReturn`), and
returns nothing only for one of three reasons (`FailureMeansAllFailed`).

**stream_failover.** The comment at `ChatSDK.cc:276` lets a stream go to the next candidate when it
could not be set up (no connection, not 200). The loop does so whenever
`sendMessageStream` returns nothing, and a stream that broke off has shown its text by then:
the client gets two beginnings on one callback, even a "last" one before the second.

**streams.** `AnswerIsWhatWasShown`, `PiecesDoNotMatter`,
`EveryTextArrives`, `AnswersEnd`, `StreamReturns`. Three parts are enough for
an event before, at and after each cut, and for both ends of a stream to be
anywhere: a receiver keeps nothing between events but `streamFinish` and the
text. The separators are two and four symbols long and are cut at every place.

**prompt.** `LoopIsFit`: the loop of `fitToBudget` keeps the longest run of newest
messages within the budget and sums up exactly the rest. `QuestionSurvives`: the newest
question is the last message, or its beginning is. `OverrunIsBounded`: what is sent is
over the budget by the summary and a twentieth at most (a cut may fall inside a
two-byte character, whose bytes then count more than the character did). `EveryCallHasItsResult`,
`TellsTheHistory`, `ArgumentsSurvive` are about every request body, for each pair of families
and every sequence of replies. Texts of each width are cut inside and between
characters; the budgets go from none over the smallest that cut a question to one that
takes everything. Two rounds are enough for what one round left to be read by
another family and to meet results of the next; order and number of targets matter only
through which family reads and which replies.

**setup.** `AvailableIsUsable` holds at every moment, also in the middle of a repeated
`initModels`; `AcceptedIsAnswered` between them, with its exceptions named (a provider
replaced by a later entry that failed, and names that are or were groups);
`LinesGoWhereThePromptSays` for the CLI. The lists have up to two entries, good and
bad in every way the loader and the passes tell apart, three of them in one file; three
initialisations are enough for one to build on what a failed second left.

**http.** `DescriptorsAreReturned`, `OnlyTheUnansweredIsRepeated`, `StallsAreGivenUp`
and `KeepsTheContract` (refinement of `HttpCall`). Answers have each framing with up to
three pieces, an error status, a continuation, trailers, an encoding the build cannot
read, and junk in each place; addresses refuse, keep silent or answer; proxies take or
refuse. One piece more would only repeat a state of the reader.

Where the system may really stop (all calls done, or the bounds used up), the
configuration says so and deadlock is not checked.

## 5. Assumptions

* "No message" (`NoMsg`) is none, and no log of messages (`NoMsgAssumption`).
* The clock is not set back. SQLite returns rows of one timestamp in rowid order
  (index on `session_id`, stable sorter). UUIDs are fresh. SQLite reads succeed.
  One process uses a database file.
* Locking a `std::mutex` twice from one thread hangs, as with glibc.
* Fairness. Store: a thread inside a call keeps running (`WF` of `Proceed(t)`), the
  scheduler's promise; nobody must start a call. Requests: the same for every step but those
  that wait for the database's mutex when it is stuck, which have no way on (`Ask`, `Read` and
  `Answer` have that guard). So `RequestsReturn` has a premise the code does not secure:
  that nobody asks for a session between the two halves of its deletion. Each
  provider call ends, for the client waits 30 s for a connection and 60 s for a
  piece; a server that sends for ever is excluded. Router: time passes
  (`WF(Tick)`). Streams: something comes of a request for the same
  timeouts (`WF(Next)`), and what a server sends is finite.
* A server sends no text after it has announced the end. `AnswersEnd` states this
  as its premise, and under it proves what `ChatRequests` takes for granted in
  `Shows` and `StreamAnswers`.
* Streams carry `data: ` with the space, as the parsers of OpenAI and Gemini demand.
  Gemini events without `data:` but with `"candidates"` in them, and line ends that are a lone CR,
  are not modelled.
* HTTP: fairness is the client's alone (`WF(Client)`): each of its waits has a timeout.
  The server is unfair, and `StallsAreGivenUp` has the premise that its keep-alive lines
  end at some time, for nothing in the code bounds the whole of a call. `getaddrinfo` returns.
* A server's reply and its tool calls are any of `Replies`; servers of OpenAI and Claude give
  each call an id of its own.
* Bounds: `MaxInits` (initialisations), `MaxMessages` (length of a history), `MaxTime`, `MaxRestarts` (store), `MaxAge` (age of a breaker, at least
  once past the recovery time), `MaxToolRounds` (a constant of the code). The
  proofs hold for every value of each.

## 6. Proofs

All theorems are for every value of the constants: any number of threads,
sessions, messages, backends, requests, rounds and any stream. Each module with
proofs starts with its argument in short.

**SumTheorems.** Induction over data with a predicate as a parameter is out of the
provers' reach, but a set is an object: `Induction` says that a set of numbers that has 0
and is closed under successor has every number (by the least number it lacks). With
it, the recursive function behind `SumFunctionOnSet` exists, totals of
natural numbers are natural numbers, and an index can be taken out of a sum.

**SessionStoreProofs.** *The load.* `LoadOrderKeepsRows`: the load returns exactly the rows.
`LoadOrderInTimeOrder`: rows inserted in time order come back in insertion
order. The core is that `Rank` is an injection of a finite set into itself, hence
a bijection.

*Any callers.* The safety invariants of the writers in `store_concurrent` are not
inductive. They need: `Calling` (a call in progress is about a session that was
created, and carries the message addressed to it), `Holding` (the mutex is held
exactly inside the two-step calls), `Unborn` (an id not yet generated is nowhere),
`Pushed` (a message is in memory from its push, on disk from its INSERT until the
mutex is given up: this is what a concurrent DELETE must not get between),
`Deleting` (a session whose rows go is out of the map for good) and `Addressed`. `IInv` is
their conjunction; `Restart` uses `LoadOrderKeepsRows`. `MemoryCorrect` puts
`ServedCorrect` and `UnsavedCorrect` together. `EraseCorrect` and
`HungCorrect` are step properties from the same invariant; the second rests on
`Holding`: the hung thread holds the mutex every writing step needs.

*One caller per session.* Under `Disciplined` (`SerialClients`, and SQLite takes every
write), which is what the CLI does and `store_serial` checks: nobody else is in a call about
the same session (`Alone`), a session nobody is using is the same in memory and on disk
(`Settled`), the one caller's `pc` says by how much the two differ (`Steps`), rows
were inserted in the order of their times (`Timely`, so that a load is the identity),
and what is deleted is nowhere (`Deleted`). From it `DeleteCorrect`, `RestartCorrect`,
`SelfDeadlockCorrect` (without the discipline this is what `store_deadlock`
violates) and `LogCorrect`: `Init` maps to the log's, and each action to one
step of the log or none (`AddPush` is its `Extend`, `AddInsert` its `Persist`, `Restart`
its `Recover`).

*Readers.* `ReadersAreHarmless` hands every theorem above to `ReaderSpec`.
The readers' own invariant adds that a message is acknowledged once
(`Unacknowledged`), that a list can be made of what exists (`Finitely`), and what the
first half of each call brought to the second (`Listing`, `Asking`). `HistoryCorrect` then
is that a row once acknowledged can leave the table only with a deletion,
which `owed` excludes; `ListCorrect` that map and snapshot meet in no name but are merged by name.

**RouterProofs.** `TypeOK` is inductive; every other property follows from it in
the state, for all plans. `BuildOrder` and `Appended` are sets of bijections onto
a set that an order constrains, so a plan is an arrangement of known elements:
`Arranged` and `Chains` unfold the two, `Planned` puts them together.
`FallbacksCorrect` is `FirstChainCorrect` and `ChainsCorrect`. `LoopCorrect` shows the
description to be what the loop leaves, for any chains and groups: the places of the
fallbacks are taken in the order in which the loop comes to them, and one place
more turns the set of vectors described before it into the set described after
it (`OneSlotMore`), so a chain does (`OneCandidateMore`) and a turn of the loop with a candidate that is
found or missed does (`OneTurn`). A name that was met last can only be the last one appended
(`NewNameIsLast`), which is why the description leaves the loop no other result.

**ChatRequestsProofs.** `Standing` says of each request where it is: the targets
before the current one failed in this round, its calls fit in the rounds, its
order is a plan, and the plan has what `Router` promises (Router's own lemmas,
instantiated, not proved again). From it `WorkIsBounded`,
`NoTargetTwiceInARound`, `FailureMeansAllFailed`. `Talking` says who has said
what, for each step of a request; from it `ConversationsAreWellFormed` and
`QuestionIsRead`. `Streamed` says whose chunks a stream has shown (of targets that failed, then of the
current one), and that none but those of failed targets are followed by another's; from it
`NothingFollowsTheAnswer`. `MetricsCorrect` is the
invariant `Counted`: each step moves both sides of the two equations by the same,
and a request that threw does nothing any more.

**StreamParserProofs.** The buffer is `wire[taken+1..got]`. With that, the chunks of
an event come from one line that lies behind everything cut out before, so
`Sources` (each chunk comes from a line that was cut out and says what that line
says), `Ordered` (in the order of the lines), `Finished` and `Answer` are kept.
They give `AnswerIsWhatWasShown` and `AnswersEnd` for every stream and every cut.

`PiecesCorrect` compares two readings of one sequence, the receiver's and that of `Events`,
which reads all of it at once. `EventsAreRead` shows that the recursive function in `Events`
exists, from the last place of the stream to the first; `ToldSoFar` that what was shown
and what `Events` has behind `taken` is what it has from the beginning, whatever still
comes. It rests on `FirstCutStays`: a separator found in what has arrived is
still the first one when more has arrived, though one separator can begin inside
another. Between two pieces nothing is left to be cut (`AllIsCut`), which is
what fails for Gemini after the end of the stream. `TextsCorrect` is about streams of well-formed
frames: their ends are places on the wire (`Framing`, `FramesAreFraming`), the first separator behind
such a place is its frame's own (`FrameIsFound`), so a cut takes exactly one frame and its text
(`FrameCut`), and nothing can be left over when all has arrived (`AllFramesTaken`).

**PromptProofs.** *The fitting.* `SplitCorrect`: what is returned is the conversation, or a summary of
its oldest messages with all the others behind it, the newest of which may have been
cut. The invariant says the same of the loop: what it has kept is what it has
passed. `FitCorrect` adds what is left of the budget (`Measured`): the budget less the
costs of what is kept, so that the loop stops where the abstract window does. The
other two need what a cut of a text by bytes is worth: `FirstBytes` and its
estimate are computed run by run, and along the runs one shows that a beginning of k bytes
is not empty when k is not 0 (`QuestionCorrect`), and that it costs no more
than was allowed but for its last, broken character (`OverrunCorrect`). The
bound was off by one token before: the proof failed, and TLC found the conversation,
once it was given a text of exactly that length. `RequestsFit` carries the three to
`PromptSpec`, which is what the run checks.

*The bodies.* What can go wrong in a body depends on all of the history at once, so each
builder is compared with one plain thing: the pieces of the entries in a row, where the
pieces of an entry are its text or result and then its calls, as the family writes
them (`PiecesOf`). `Laid` says that turns, and results that wait for a turn, are the
beginning of that row, and that every turn with calls is one whole piece whose place in the row is
known. `OpenAILaid`, `ClaudeLaid` and `GeminiLaid` follow the three builders along the history with it;
the second needs the results that wait to be flushed before the next turn (the run shows
what becomes of `EveryCallHasItsResult` without it). `BodyLaid` puts the three together, and what
the properties say of a body is read off the row: the results behind a call
(`BodyAnswers`), the texts (`BodyTells`), the calls and their arguments (`BodyKeepsCalls`).

*The rounds.* `PInv` is the invariant: what waits is the body of the current
target, history and tools, and the history is `Sound`: only answers have
calls, after an entry with calls come their results in their order, with the ids and
names of the calls (`Answered`), only the first entry may be the system's (`SummaryFirst`),
and a result that is no error is one that a registered tool has for the
arguments of its call (`Computed`). `BegunHistory` says so of what `fitToBudget` returns,
by `ResultRoles` and so by `NothingIsSkipped`; `RoundKeeps` of a round of tools; `RegisteredTools`
says that registering in any order leaves no two tools under one name. All but the types
in `PInv` was checked by TLC before it was proved. `RegistrationsAssumption` says that what is
registered are tools.

**HttpClientProofs.** `DescriptorsCorrect`: the count of open descriptors is that of
the socket's, in every state; `Held` says at which `pc` there is a socket, and `CloseBalances` that closing it keeps the count
true. `RepetitionCorrect`: the error that allows a repetition is set at the peek
alone, and by `Unanswered` nothing of an answer has been read until then.
`ContractCorrect` is the refinement of `HttpCall`: nothing of a body is in the head (`Heading`), what
the caller got are the pieces read so far, or the bytes of the length (`Getting`, with
`ChunksGrow` for the chunks), and a call has no result until it is done, and is repeated only
with nothing accepted (`Standing`).

**SetupProofs.** `AvailableCorrect`: for any configurations, creators, number of
initialisations and requests between their steps, a model that is offered has its object,
its config and its URL. The invariant adds only that creators make known classes, that a
pass is inside its list of configs with names, and the types of the maps; what keeps the
property is that a new object takes `isInit_` away and that `initModel` gives it back at once with the
config (`InitModelOK`). `LinesCorrect`: while the CLI reads lines its one initialisation is over and nothing else
can start (`NothingElse`), so a session is one of the model in the prompt.
`AcceptedCorrect` follows the passes: a model with a config answers unless it is one of
the redone names (`Initialised`), and it has its place in the router or `buildRouter` still
has to go through an entry for it (`Placed`, `Pending`); between initialisations nothing is
pending, and the plan for a name that is no group holds the name (`OwnPlan`).
`EntriesAssumption`, `NoProviderAssumption`, `NoConfigAssumption` and `NoTypeAssumption` say that configurations are
lists of entries with lists of names, and that "no entry", "no name" and so on are none; `OwnTypesAssumption` that a program registers no creator of
its own for `gpt`, by which `registerBuiltinProviders` tells whether it has run.

**Only model-checked.** Liveness: `CallsReturn`, `BreakersRecover`,
`RequestsReturn`, `StreamReturns`, `StallsAreGivenUp`, which need fairness. Every
other property of a passing run is a theorem.

## 7. Not modelled, and known divergences without a run

Not modelled: `UUIDUtil`, the logger, JSON key names; latency and token sums of the
metrics, their JSON and their reset; temperature and token counts of the requests; the copying of
results to the gRPC wire; failing reads of the store and a second process on its file;
races inside one operation of a plain container (`initModels`' maps, the vector `getSession`
hands out), which are undefined behaviour below the grain of the models; of
httplib its server, the other verbs, keep-alive, redirects, authentication,
multipart, compression and WebSocket, which the SDK never uses. The reasons are with
the components in `PROJECT.json`.

Met while modelling, and not made a run of their own:

Store and requests

* `clearAllSessions` deletes the rows of `sessions` only; the schema's `on DELETE
  CASCADE` (`DataManager.cc:381`) does nothing, for foreign keys are never enabled.
* A backend in its window goes last in its group, but before the fallbacks, so a single
  model that is down is tried before its own healthy fallback on every request
  (`Router.cc:61-75, 153`), while `Router.h:8, 42` say it is not chosen.
* At the limit of tool rounds the text of the last reply is dropped (`ChatSDK.cc:196`);
  the log at `ChatSDK.cc:195` says it is returned.
* `MetricsCollector.h:6-7, 24` speaks of failures per model. A failed attempt that a
  fallback made good is recorded nowhere, and the one error of a failed request is
  booked under the session's name, which may be a group (`ChatSDK.cc:170-178`).
* An exception out of a provider (a JSON value of the wrong type, `std::stoi`)
  leaves `sendMessage` at once: no fail-over, no breaker, no metrics.
* A gRPC stream that failed returns status OK without `is_last`.

Prompts

* Gemini's body leaves out system messages, and with them the summary that
  `ContextManager.cc:104` adds so that the model keeps the gist; it also leaves out texts next to calls.
* Claude's arguments that are JSON but no object are sent as they are, against the comment at
  `ClaudeProvider.cc:329`.
* With a budget of 4 tokens or less the newest question is dropped, against
  `ContextManager.cc:89`; the history is not trimmed again when tool rounds make it longer.
* Streams offer no tools.

Streams

* OpenAI's and Claude's receivers cut at `\n\n` only: a server that ends lines
  with `\r\n` is never heard, and its stream comes back empty. All three lose a last
  event that no blank line follows. An additional blank line makes OpenAI's and
  Gemini's parsers lose the event behind it, since they look for `data: ` at the very start.
* After the end of a stream Gemini's receiver takes one more event per piece, so
  what is shown after it depends on the network.
* A proxy that refuses Gemini's stream looks like a stream that ended: the callback is told the
  end and the answer is "".

Start-up

* `parseModel` turns an entry without a provider down and `loadFromFile` the whole file with it
  (`ConfigLoader.cc:36`), also for a group, which needs none: the configuration of README.md:75-78 does not load.
* `initModels` returns true when single models failed, so the error the gRPC handler
  prepares (`grpc_server.cc:73`) is sent only for an empty list.
* An entry of unknown type is logged as skipped, but still initialises again a provider
  that an earlier entry left under its name; `addBackend` registers backends that have no provider;
  a name that once was a group stays one in the router.
* A gRPC client that leaves the weight out sends 0, which the router treats like a backend
  that is down; the handler passes on neither temperature nor max_tokens.
* `ModelInfo`'s `provider_` and `endpoint_` are never set; `LLMProvider` has no virtual
  destructor.

HTTP

* A `base_url` with a path, as README.md:73 has it (`http://127.0.0.1:11434/v1`), does not match the client's
  pattern and is taken as the name of a host, which does not exist.
* Without OpenSSL an https URL throws `std::invalid_argument` out of the provider.
* A body without a length that a reset or a timeout cut off counts as whole; a
  failed result may carry `Error::Success`; over https a read may wait twice its timeout;
  `getaddrinfo` has none; a descriptor beyond `FD_SETSIZE` is refused.
