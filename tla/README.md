# A formal model of the Aether gateway and its dashboard

Aether is an LLM gateway: a Go HTTP server streams answers of Groq's models to a
web dashboard, and uses three Python gRPC services (semantic cache, prompt
pruning, loop detection), Redis, ChromaDB, PostgreSQL and Kafka on the way. This
directory models its core and its dashboard in TLA+, model-checks them with TLC
and proves theorems about them with TLAPS.

    tlc -config ChatShared.cfg MCChatPipeline.tla      # one of the runs
    tlapm ChatPipelineProofs.tla                       # the proofs

`PROJECT.json` lists the components, the runs with their properties, the source
lines each definition models, the hazards and the theorems.

## 1. The system

| Component | State | Operations | Hard behaviour |
|---|---|---|---|
| Chat handler, `go/gateway/handlers.go` | locals of `Chat` per request | `Chat`, `streamCachedResponse`, `saveAssistantMessage`, `sessionHadCycle` | about ten remote calls per request, any of which can fail or be cut off by the client leaving; events already sent cannot be taken back |
| Groq provider, `go/providers/groq.go` | goroutine, channel of 64 tokens | `Complete` | blocking sends, two kinds of reader, cancellation |
| Model selection, `go/providers/selector.go` | none | `ClassifyPrompt`, `SelectModel` | none: a placeholder heuristic |
| Session store, `go/session/store.go` | a Redis list per session, at most 50 messages, 24 h | `Append`, `GetHistory`, `Clear`, `Exists` | several requests of one session at once; expiry |
| Cycle detector, `python/cycle_detector` | a Redis list of 20 responses and a flag (1 h) per session | `CheckCycle`, `Remediate` | goes on after the gateway's timeout; threads; read, add and flag are separate calls |
| Semantic cache, `python/cache`, `go/cache` | a ChromaDB collection shared by all | `Query`, `Write` | written asynchronously; shared by sessions, flagged per session |
| Pruning, `python/pruning`, `go/pruning` | none | `Prune` | a pure function; on failure the original |
| Rate limiter, `go/gateway/rateLimiter.go` | a Redis counter with expiry per user | one check per request | INCR and EXPIRE apart; an INCR that is sent again |
| Analytics logger, `go/analytics` | a channel of 1000 events, one worker | `Log`, worker, `Publish` | drops when full, two sinks that fail separately, crashes |
| Analytics queries, `go/gateway/analytics_handler.go` | none | five GET endpoints | five queries that are no snapshot; rows that are passed over and results that break off, answered as a success |
| OAuth login, `go/gateway/auth_handler.go` | a state cookie | `GoogleLogin`, `GoogleCallback` | two tabs, one cookie |
| Dashboard root and token, `App.jsx`, `utils/auth.js` | `authed` per tab; token and user in localStorage | load, storage event, sign in and out | several tabs, late events, expiry |
| Dashboard stream reader, `utils/streaming.js` | buffer of one stream | `streamChat` | bytes cut anywhere, aborts, five ways to end |
| Dashboard chat page, `pages/Chat.jsx`, `utils/storage.js` | React state, refs, conversations in localStorage | send, switch, new chat, leave, callbacks | callbacks of an old stream after a switch; tabs that share the store |
| Dashboard analytics page, `pages/Analytics.jsx` | panels, badge, spinner, timer | open, poll, leave | overlapping rounds, partial failure |

The handler is where the server's parts meet. A request passes the limiter, loads
the session list, appends the user's message, prunes, asks Redis for a cycle flag,
asks the cache, and either serves a HIT or calls the model (with the cached answer
as a hint on FEW_SHOT). It streams the tokens through gin's `c.Stream`. When the
final token of a MISS arrives it asks the detector, and if the response closes a
loop it remediates and streams a second call as a correction. Then it writes the
final event, saves the answer, starts the asynchronous cache write and logs a row.
The detector sets the flag that the next request of the session reads.

In the browser the chat page opens one `streamChat` per prompt, whose callbacks
write to the bubble and the conversation that the page's refs name at that moment.
All tabs share localStorage. The analytics page polls what the logger's worker has
inserted.

What makes each component correct, in words: the provider delivers every text
in order and then one final token; the handler sends a well-formed event stream
with one terminal event and leaves history, cache and analytics in agreement
with what was shown; the store is the tail of what was appended; the detector
compares each LLM response with the responses before it; the cache serves
nothing but good first responses; the limiter admits ten requests a second and
never locks a user out; the logger loses rows only in the ways it counts; sign-in
leaves all tabs agreeing with the stored token; the reader tells each event once,
in order; the chat page keeps an answer in the conversation its prompt was sent
in and always comes back to where the user can send; the analytics page shows
one round's answers, and in the panels without times in the end the newest.

## 2. What is modelled

Definitions named `D_X` are `D` with the mistake `X` in it: they are used to show
that each property can fail, and are not part of a specification.

### TokenStream

One call of `Complete` and one reader of its channel. The goroutine is the
program counter `pc` (`check` the select on the context, `recv` in
`stream.Recv`, `send` a send that may block, `closed`). The channel is the part of
`sent` that is not yet `read`: keeping all of `sent` lets properties talk about the
whole stream. The reader is one of two: `stream` is `c.Stream`, which returns
without reading on when `CloseNotify` has fired, `range` is the retry loop, which
always reads on. `Disconnect` cancels the context; `NotifyClose` comes later; a
handler that returns also cancels its context. Groq is free to send chunks with
or without text and with or without usage, to end the stream or to fail.

### ChatPipeline

`Handler.Chat` for several requests at once. `chat[r]` is the handler's local
state; `pc` names the call it is about to make. Each remote call is an action, so
requests interleave between any two calls:

| Action | Code |
|---|---|
| `Arrive`, `GetHistory`, `AppendUser` | binding, load, append and prune, handlers.go 144-187 |
| `SessionHadCycle`, `QueryCache`, `ServeHit` | flag and cache, 189-215, 449-517 |
| `CallLLM`, `StreamToken`, `StreamError`, `StreamEnd`, `ClientGone` | first call and `c.Stream`, 234-293, 439-441 |
| `DetectorServes` | `CheckCycle` in the Python process, also after the gateway gave up |
| `CheckReturns`, `Remediate`, `RetryCall`, `RetryToken`, `RetryEnd` | the loop branch, 293-388 |
| `Finish`, `SaveAssistantMessage`, `WriteAsync`, `Log` | final event and persistence, 390-436 |
| `CacheWrite`, `FlagExpires`, `Disconnect`, `BufferFull` | the goroutine of `WriteAsync`, Redis, the client, net/http |

`events` are the SSE events written and `seen` how many of them have been flushed
to the client. gin flushes when a step of `c.Stream` returns and `writeSSE` does
not flush, which is why `seen` matters: the whole loop branch is one step.
`history`, `window`, `cycleflag`, `entries` and `writes` are what requests share.
`rows` is what was handed to the logger. `faults` counts failing calls, up to
`MaxFaults`; a call that carries the request's context also fails, at no cost, once
the client is gone.

Data is abstract. A response is what it says (`ans`) and how many tokens it has.
Two responses are similar to the detector when they say the same. A prompt is
what it is close to in the cache (`Closeness`). Pruning may replace it by
`PruneOf`. The model chosen for the first call is free. The context keeps roles
and origins of messages, not their text; pruning shortens texts and never drops
a message (`compress_history` returns one turn per turn), so it does not change
the context.

Left out here: the 24 h expiry of session lists and windows, the contents of the
retry's context (the handler builds it from its own locals), headers, and the
numbers in the final event.

`DetectorServes` is one call of the detector in one action, and leaves behind whatever
that call may: redis-py may have sent the transaction of `add_node` again, so that the
response is in the window several times (`AddNode`), and an exception, answered with PASS,
may come before `add_node`, after it, or after `flag_cycle` has had its effect
(`DetectorRaises`). Each resend and each exception is a fault. What it leaves out is that
other calls come between its `get_nodes` and its `add_node`, and restarts of the process:
these are in `CycleDetector`, which takes the call apart.

### CycleDetector

`CheckCycle` of the Python process for several calls at once, in finer steps than
`ChatPipeline`. `call[c].pc` is where the thread of call `c` stands, `call[c].gate` what
the gateway knows of it; the two differ once the gateway has given the call up.

| Action | Code |
|---|---|
| `Submit`, `GiveUp` | the client's call and its 500 ms, cycledetector/client.go 76-89 |
| `Start` | a free thread of the pool takes the next call, grpc_server.py 33-39 |
| `Embed`, `Load` | the lazily loaded model, embedding.py 24-50 |
| `Read` | `get_nodes` and `find_cycle`, servicer.py 42-43, cluster.py 32-67 |
| `Add`, `FlagCycle`, `Reply` | servicer.py 45-58, graph_store.py 41-64 |
| `Raise` | the `except` branch, from any step, before or after Redis did its part, servicer.py 60-67 |
| `Resend` | redis-py sends a transaction again when its reply is lost |
| `Restart`, `WindowExpires`, `FlagExpires` | a killed process, the two expiry times in Redis |

A call stands for the response it brings. Of the embeddings only `similar` is kept: a
reflexive and symmetric relation, chosen at the start. It need not be transitive,
because a cosine of 0.9 is not. The pipeline of `add_node` is one step, as redis-py
sends it as MULTI/EXEC. `log` and `forgotten` are history variables: all nodes ever
added, and how many of them had been when the list last expired.

Left out: the other two services that share the pool and the model, a graceful
shutdown that overlaps with the next process, and `clear`, which nothing in the
services calls.

### EventFeed and SSEReader

`EventFeed` is what `streamChat` promises its caller: events are published, the page
is told the audible ones once each and in order up to the first that ends the
stream, and the feed ends in one way. `SSEReader` is `streamChat` itself, and
`ImplementsFeed` the refinement (`published <- written`).

| Action | Code (streaming.js) |
|---|---|
| `NotSignedIn`, `Fetch`, `FetchFails`, `Respond`, `Refused` | the token check, the request and a status other than 200, 54-88 |
| `Abort` | the AbortController; an abort while a refusal's body is read is swallowed by the inner `catch`, 84, 160-163 |
| `Write`, `Close` (gateway), `Break`, `Chunk` (network) | frames, and the pieces in which they come |
| `Receive` in `Chunk`: `Read` of the buffer and what is `Coming` | one turn of the loop, 97-159 |
| `Split`, `Trim` and `FrameOf`, `FramesOf`, `Dispatch` | split at blank lines and keep the rest; parse; stop at the first ending; call back and return, 104-158 |
| `EndOfStream` | `done`, whatever the buffer holds, 99-100 |

A character is a piece of a numbered frame or a line feed, so that the buffer can be
compared with what was written and a chunk may end between two line feeds. A
"junk" frame is one that does not parse or says nothing known.

Both modules filter with `Kept` of the module `Filter`, as does `ChatPage`: it is
`Array.prototype.filter` as a recursive function on a set of positions. `SelectSeq` and the
folds say the same of a test given as an operator, but nothing can be proved about them
here: the provers cannot instantiate an operator parameter.

### ChatPage

Several mountings of the Chat component (`Pages`: tabs, or the component mounted
again after the analytics page) over one localStorage. A stream is known by the
number of its send and tells its page what `EventFeed` allows.

| Action | Code |
|---|---|
| `Mount`, `NewChat` (`StartNewChat`) | Chat.jsx 106-127 |
| `Select` (`SelectFound`, `SelectMissing`) | `selectConversation` and its early return, 129-141 |
| `Send` | `handleSend` up to its first await, 149-196 |
| `Hear`, `OnFinal`, `OnError`, `EndsSilently`, `Refuse` | the callbacks and the code after the await, 198-266 |
| `Leave`, `CloseTab` | the route to the analytics page; the browser |
| `Save`, `CreateConversation`, `AppendMessage` | storage.js 46-97, each a read and a write of all conversations in one turn |
| `Screen`, `Bubble`, `Sidebar`, `EmptyState` | what the components show, Chat.jsx 280-433, ChatMessage.jsx, Sidebar.jsx |

A turn of JavaScript is one step, with its reads and writes of localStorage (an
assumption on the browser: tabs that really run at once could interleave inside it). Effects run
once, as in a production build. `deleteConversation` is not an action: Chat passes
`onConvoDeleted` to a sidebar that takes no such prop.

### RateLimiter, AnalyticsLogger, AnalyticsPage, and Telemetry

`RateLimiter` is the middleware for one user: `Incr`, `IncrAgain` (go-redis sends an INCR
again when its reply is lost, so that one request counts twice and nobody may see the 1 that
would set the expiry), `IncrFails` (with or without effect) and `Expire`, whose error nobody looks
at, with `KeyExpires` and the steps of other requests between any two.
`AnalyticsLogger` is `Log` with its drop, the worker's `Take`, `Insert` and
`Publish`. `AnalyticsPage` is `Open`, `Tick`, `Query` (one endpoint's SQL runs, seeing
the rows inserted so far), `BreaksOff`, `Show`, `Fail` and `Leave`; its rounds are a bag,
because two rounds with the same answers are two rounds.

What an endpoint answers is what its handler makes of the rows. The four list handlers go
on after a row they cannot scan, do not ask `rows.Err()` when the rows end, and answer 200
with what they have. So a result that breaks off is answered as if it were all
(`BreaksOff`), and an endpoint whose rows bring `created_at`, a TIMESTAMPTZ that pgx v5 does
not scan into a Go string, finds none (`Found`, `Timestamped`).

`Telemetry` composes the three by `INSTANCE`: `Serve` is a step of the limiter and, unless
the handler returned on one of its paths that do not log, of the logger (handlers.go
423-434), `Crash` ends the gateway for both, and the page's queries read the logger's rows.
This is where the end-to-end liveness lives: what was served and logged comes to be shown
in the panels without times.

### SignIn

The tabs of one browser, their `App` state, localStorage with its late storage events,
the gateway's `oauth_state` cookie, and OAuth flows.

| Action | Code |
|---|---|
| `Login`, `LoginFails`, `GoogleLogin` | Login.jsx 10-15, auth_handler.go 53-71 |
| `Return`, `Answer` | `GoogleCallback`: the state check, then exchange, profile and token, 79-139 |
| `Load` | App's first effect, App.jsx 28-60 |
| `StorageEvent`, `Recheck` | App.jsx 69-76, `isAuthenticated`, auth.js 64-79 |
| `Logout` | auth.js 84-95, from Sidebar's `UserSection` |
| `CookieExpires`, `TokenExpires`, `Open` | ten minutes, 24 hours, the user |

`excused` is history: the flows that overlapped another one or were too slow.

### The MC modules

`MCCycleDetector` gives the calls to one session or to two. `MCChatPipeline` has two
prompts that are a MISS for one another, and a pruned form of the first that is a
FEW_SHOT of it, so that all three tiers happen. `MCChatPage` has two pages. Answers,
requests and sessions are symmetric, and so are the detector's calls the gateway does
not give up; liveness runs without symmetry. `SSEReader`, `SignIn` and `Telemetry` need
no MC module.

## 3. What the runs show

| Run | Bounds | Shows |
|---|---|---|
| token_stream | channel 2, 4 chunks, both readers | order, completeness, the reader always returns, and a goroutine stays only if the client left with the channel full |
| chat_live | 2 requests, 1 session, 1 fault, a client that may leave | event protocol, a client that stays is answered, every request ends; without the fault, an LLM turn whose [DONE] was seen is in the next context |
| chat_shared | 2 requests, 2 sessions, 2 prompts, 1 fault | analytics rows, and what the cache, the histories and the windows hold |
| chat_flagged | 3 requests, 2 sessions | a violation: a flagged response is served to another session |
| cycle_detector | 3 calls of a session, 2 threads, window 2, loops of 2, 1 fault, 1 call that may be given up | the window is the newest responses, no answered turn is missed, a flag has a reason |
| cycle_live | 3 calls, 2 sessions, 1 thread | every queued call ends, given up or not |
| sse_reader | 3 frames of 2 pieces, six kinds, every chunking | the reader implements `EventFeed`, holds back no whole frame, is silent only if the server was, and returns |
| chat_page | 2 pages, 2 conversations kept, 3 ids, 2 sends, 2 events | answers go home and follow their prompts, bubbles tell their stream, view and sidebar are one conversation, "streaming" means a live stream, the store changes on top only, a page can send again |
| chat_page_cleanup | the same, with corrections | a violation: a bubble goes on thinking after its stream is over |
| sign_in | 2 tabs, 3 flows | tabs agree with the stored token, a refusal has a reason, only a fresh token opens the app, signing out reaches all |
| telemetry | 4 requests, limit 2, queue 2, 1 INCR sent again, 1 crash | the limit, no lock-out without a fault, rows in order, none disappears |
| telemetry_page | 2 requests, limit 1, queue 1, 2 panels, one with times, 2 rounds, 1 broken result, 1 crash | panels of one round, a screen that is never blank without a reason, and what was served is shown in the panel without times |

The bounds are small on purpose. The channel's capacity matters only as full,
empty or neither, so two slots suffice for four chunks. Two requests are enough for
every pairwise interleaving on a session, and the properties relate at most two
requests. A response of one token distinguishes no text from some, and a retry that broke
off from one that did not; `EventsInOrder` and the other theorems of `ChatPipelineProofs`
hold for responses of any length. A list of three messages and a window of two are trimmed within
a run. `MinCycleLength` is 1 or 2 so that a loop needs one or two earlier turns; the
code's 3 only needs more requests. For the detector three calls fill a window of two
and trim it, and can close a loop of two or miss it; the third call is also the one that
waits when both threads are busy. One fault reaches every single failure, and the
loop branch after it.

Three frames are one before, one that ends and one after the ending; two pieces and two
line feeds make every kind of cut. Two pages are two tabs, or a page and its successor;
three ids against a store of two evict; two sends overlap on two pages or follow each
other on one. Three flows in two tabs let one overwrite the cookie of another and a
third come after. A limit of two with four requests is below the limit, at it and over it,
and lets one request count twice; in a queue of two an event waits behind another while the
worker holds a third and a fourth is dropped, so that their order can go wrong. On the
page two rounds can overtake each other and one result break off. Systems that have
finished stop, so deadlock is not checked.

In chat_page the quota of localStorage never fails (`QuotaFails` is FALSE): where it
does, a write is lost silently, `AnswerFollowsPrompt` claims nothing and
`ViewIsOneConversation` no longer that the sidebar lists what is shown. The theorems of
`ChatPageProofs` hold for either value of `QuotaFails`.

### Fairness

`TokenStream` assumes the goroutine and the handler are scheduled and Groq answers
every `Recv`. A client need never leave, but the close of its connection is noticed.
`ChatPipeline` assumes each handler takes its next step, which the code justifies by
timeouts on every gRPC call (500 ms to 12 s), Redis's client timeouts, and a Groq
stream that ends (`TokenStream`'s `ReaderReturns`). Nothing is assumed of clients,
faults and flag expiry. `CycleDetector` assumes that free threads take calls and that
each call goes on to its next step: a model loads or fails to, and Redis answers or its
connection breaks. The code sets no timeout there (grpc_server.py 42), so a Redis that
keeps a connection open and says nothing would hold a thread for good.

`SSEReader` assumes that a response comes, that what was written arrives, and that the
gateway closes its streams, which is what `RequestsFinish` says of it; nothing is assumed
of aborts and broken connections. `ChatPage` assumes that each stream ends, which is
`SSEReader`'s `ReaderReturns`; users do what they like. `SignIn` assumes that the browser
loads the page it was sent to and delivers storage events. `Telemetry` assumes that the
middleware, the worker and the timer go on and that of the page's queries one gets its
answer in the end; crashes, failures, openings and leavings are never due.

### Where code and comments disagree

Two runs state a comment of the code and TLC refutes it.

* `FlaggedNotServed` (handlers.go 505-507): flags are per session, the cache is not.
* `BubblesCleanedUp` (Chat.jsx 257-258): the clean-up hands a function to
  `patchAssistant`, which spreads an object, so that no field changes.

More was met while modelling, in comments that say more than the code does:

* groq.go 40, "always closed": a client that leaves while the channel is full leaves the
  producer blocked for good; `ReleasedUnlessAbandoned` shows it is the only way. And the
  producer of groq.go 74 does block once 64 tokens wait.
* handlers.go 71: the loop_detected event is written but not flushed before the retry.
* handlers.go 139-140: a retry that breaks off after some text becomes the final
  response with the first call's usage.
* interface.go 23: on a HIT, [DONE] is sent before the answer is saved, so the next turn
  may not see it; `LLMTurnsInContext` is what does hold.
* graph_store.py 8-9: a call the gateway gave up is added after the call of the next
  turn, so list order is not turn order and a loop's length counts nodes, not turns.
* handlers.go 505-506: no flag for a loop below `MIN_CYCLE_LENGTH`; embedding.py 21: the
  lock is declared and never taken.
* auth.js 60: a token whose payload has a `-` or `_` is base64url and not base64; `atob`
  throws, so it opens the tab it came to and no other.
* auth_handler.go 91 makes the state single-use by removing the cookie, whichever flow's
  it is by then: `RefusedForAReason` names who pays.
* analytics_handler.go 11, "all queries are scoped to the last 24 hours": the requests
  and cycles queries are not.
* analytics_handler.go 85, 181 and 245 name the charts, the table and the panel that
  timeseries, requests and cycles feed. They feed them nothing: with pgx v5 a TIMESTAMPTZ does
  not scan into a Go string (119, 226, 277), the loops pass over the error, and the answer is
  an empty list with status 200, so that the page shows empty panels and no badge. (It would
  scan if the connection string chose the simple protocol, whose results are text.) No list
  handler asks `rows.Err()`, so a result that broke off is answered as if it were all.
  `ServedIsShown` is therefore about the other panels only. No run states the comments: it
  would refute what `Found` says in so many words.
* logger.go 64-80 never writes `remediation_applied`, `original_tokens` and
  `pruned_tokens`, so the panels for them always show none.
* Chat.jsx 57, "kept in sync with localStorage": not with what another tab writes, which
  is why `SelectMissing` exists.
* storage.js 8, the title is from the first user message: a conversation that was evicted
  while its stream was live comes back titled by the answer. Blank chats evict too.

## 4. What is proved

`TokenStreamProofs` proves type correctness, `InOrder`, `NoBareClose` and
`CleanEndIsComplete` for every capacity, number of chunks and set of readers. Its
invariant adds to the types what the producer holds at each `pc` (the next text, or
the final token when all texts are in the channel) and that a reader in its loop has
not taken a final token.

`ChatPipelineProofs` proves `TypeOK`, `EventOrder` and `CacheProvenance` for every
set of requests, sessions, prompts and answers, every bound and every choice of
optional services, with any number of faults and leaving clients. None is
inductive. `IInv` adds, per request, which event was written last at each program
point (`EventInv`: this is what makes the next event legal), that before the model is
called the tier is MISS and nothing is answered, and that a MISS has no hint in its
context (`ResponseInv`); that sessions hold no hints (`HistoryInv`); and that an entry
comes from a request that is past its write, whose reply no longer changes
(`CacheInv`). The lemma `Moves` says that a handler's step keeps all of this if it
keeps its own part and does not touch a settled request; one lemma per action
discharges that.

Its second part proves the six other invariants of the runs, `RowsTellTheTruth`,
`StayingClientIsAnswered`, `HistoryIsWhatWasShown`, `HistoryWellFormed`, `WindowFromLLM`
and `LLMTurnsInContext`, from `OInv`, which rests on `IInv`:

* `HandlersInv`, per request: what its events, tier, check, usage and final response have
  to do with each other at each program point, and with the client's having left. It holds
  what the handler's locals promise the rows and the lists that are written later.
* `RowsInv`, `MessagesInv`, `WindowsInv`: a row, a message or a window's item agrees with
  the handler it comes from. A handler past that write never changes what was recorded of
  it (`Evolves`), so they are kept by every step that writes none.
  `MessagesInv` also has that a request's question is in a list once and its answer once
  and later (`QuestionFirst`), `WindowsInv` that before the first fault a request is in a
  window once: after one it may be there again, as redis-py may have sent `add_node` again.
* `TurnsInv` and `ContextInv`: with no fault, the answer of a finished LLM turn is in its
  session's list, or the list is full and has lost it; a request that arrives after that turn
  has it in the context it loads, from then on. The list goes on changing under the other
  requests: `ContextInv` carries the fact from the list at the moment of loading to the
  context.

`CycleDetectorProofs` proves `TypeOK`, `WindowIsRecent`, `AnsweredTurnsAreCompared` and
`FlagIsJustified` for any number of calls, sessions and threads, every window size and
shortest loop, every similarity relation and any number of faults. `IInv` adds per call
that what it found was in the window it read and is the nearest similar node
(`FoundInv`: by the time the call adds its own node the window may be another one, so
this is said of `log`, which only grows); how far the call has got, in particular that a
call that is about to flag has added its node behind what it read (`ProgressInv`); that
calls that were over when it was made, and answered without an exception, have
their node in what it read (`AfterInv`); and that what waits in the queue is queued
(`QueueInv`). `FindCycleFacts` shows that the search returns the least offset.

`TelemetryProofs` proves the types of the composition and seven properties of it for any
number of requests, every limit, queue size and set of panels, and any number of rounds
and crashes. Each component has an invariant. `LimiterInv`: the counter is at least the number
of requests of its window (more when an INCR was sent again), and at most one of them, the one that made the key, is still to
set the expiry (without this the limit does not follow, since a second request could
start the count again). `LoggerInv`: the table, then what the worker is inserting, then
the queue, taken as one sequence `Chain`, is a subsequence of what was logged; `InLogOrder`
alone is not inductive, as the order of the queue decides the order of the rows.
`PageInv`: the panels are all there or none is, and one of spinner, badge and panels is.
A step of `Telemetry` is a step of one component, or of two for `Serve` and `Crash`, so
the three invariants are kept one by one. The bag of rounds has lemmas for one round less
and one round more.

`SignInProofs` proves the types, `TabsAgree`, `UserIsTokens`, `RefusedForAReason` and
`OnlyFreshTokenOpens` for any number of tabs and flows. `FlowsInv` says that flows are
numbered, that no two tabs carry the same one, and that one carried has not been stored
and so has not expired (a token from the URL is stored without looking at its expiry:
this is why it is fresh). `ExcuseInv` says that a tab at Google either still has its flow
in the cookie or is excused, and that two tabs in a flow are both excused.

`ChatPageProofs` proves `TypeOK`, `AnswersGoHome`, `AnswerFollowsPrompt`,
`BubblesTellTheirStream`, `ViewIsOneConversation`, `SendingMeansLive` and the action
property `OnlyTopChanges` for any set of pages and any bounds, with or without a quota that
fails. `CInv` adds to the types

* `StreamsInv`: a live stream is the latest of its page and its page's session is the one it
  fills. This is what the callbacks rely on: they write to whatever the refs name, and it is
  right only because every way of leaving a conversation aborts the stream first.
* `StoreInv`: ids in the store differ, a message belongs to a stream of that conversation,
  an answer is there once and is the whole text of a finished stream, and (unless setItem
  may fail) it comes behind its prompt.
* `PagesInv`: a bubble shows the text of its stream, and its fields say no more than the
  stream has done; the last bubble of a sending page is the live stream's; the refs, the
  accumulated text, the active id and the pill agree with the stream.

`OnlyTopChanges` says that a step of any page moves one conversation to the top and
changes or drops no other but the evicted one; it needs that the store's ids differ.

`SSEReaderProofs` proves that `SSEReader` implements `EventFeed` (`ImplementsFeed`),
`Prompt`, `SilentOnlyWithoutEnding` and that onError is called just when the stream failed,
for every number of frames, every length of a frame's body and every way of cutting the
bytes. What makes `Prompt` inductive is `Between(k, r)`: whenever the reader waits, what has
arrived is k whole frames and r characters of the next, for an r below a frame's length; the
buffer is exactly these r characters; the page was told the audible ones of the k frames, and
none of them was an ending. That a chunk leads from one `Between` to another or to an end is
shown along the code: buffer and chunk are one stretch of the bytes written (`StretchConcat`);
its delimiters are the ends of whole frames (`CutsFacts`, where division by the frame's length
comes in); so the parts are bodies and the rest a beginning (`SplitFacts`); a body is
recognized (`FrameOfFacts`); the loop comes to the frames up to the first ending
(`VisitedFacts`); and having told of k frames and then of v is having told of k + v
(`HeardMore`). The refinement follows step by step: `Write` is `Publish`, a chunk that
completes frames is `Tell`, every other way to end is `Stop`, and the rest are stutters.

`FilterProofs` has what the last two need of `Kept`: which positions it lists and in which
order, that it lists nothing else, what one more element does, and that positions listed in
order are its result. Induction is by least counterexample: `Least` is derived from the
library's theorem on well-founded orders, and `UpTo` states the induction for a
set where the usual theorem has an operator parameter, so the provers can use it.

The proofs assume the named assumptions of the modules: capacities, limits and bounds are
positive or natural, pruning and closeness are functions on the given prompts, the empty
response is not an answer; thread, window and loop sizes are positive; there is a panel,
and "not asked" is not a number. TLC evaluates them in every run.

Only model-checked: liveness, which is out of the prover's reach (`ReaderReturns` of
`TokenStream` and of `SSEReader`, `RequestsFinish`, `CallsEnd`, `CanSendAgain`,
`LogoutReachesAll`, `ServedIsShown` and `ReleasedUnlessAbandoned`). Every invariant and every
action property of the passing runs is also a theorem.

## 5. Not modelled, and the plan

Next, in order:

1. `SessionStore` with `SessionLog`, an abstract log whose tail it implements
   (refinement), with expiry and corrupted entries.
2. `SemanticCache` and `Pruner`: thresholds and extraction as pure functions against
   reference definitions.
3. A theorem that `TokenStream`'s reader under `c.Stream` refines what `ChatPipeline` takes
   a call of the model to be. (`CycleDetector` does not refine `DetectorServes`, which reads
   and adds in one step while its calls overlap: the two are related by what they leave in
   the window, `WindowIsRecent` and `WindowFromLLM`.)

Not modelled: in `ChatPipeline` the 24 h expiry of session lists, and what the retry's
context holds; in `SignIn` the account a page goes on showing after another tab has
signed in with another one (Chat.jsx 52 reads it when it renders); in `AnalyticsPage` what
the SQL aggregates and the charts draw. The race of threads that load the embedding model
is in `CycleDetector` (`models` counts the loads), but costs time only and has no property.

Not planned: generated gRPC code, charts and mock pages, styles, start-up and
configuration beyond which optional services there are, and directories that are empty in
this commit (routing, verification, loop breaker).
