----------------------------- MODULE ChatPipeline -----------------------------
(***************************************************************************)
(* POST /v1/chat: Handler.Chat of src/go/gateway/handlers.go, for several  *)
(* requests at once, with everything they share: the session lists and     *)
(* cycle flags in Redis, the windows of the Python cycle detector and the  *)
(* semantic cache behind its asynchronous writes.                          *)
(*                                                                         *)
(* Every call of the handler to another process is a step of its own, and  *)
(* can fail. The LLM's token stream is what module TokenStream promises:   *)
(* texts in order, then one final token, clean or with an error.           *)
(*                                                                         *)
(* A text is abstracted to what it says (an answer) and how many tokens of *)
(* it there are; a prompt to what it is close to in the semantic cache.    *)
(*                                                                         *)
(* A definition named D_X is D with the mistake X in it. It is no part of  *)
(* the specification: it shows that a property can tell D from D_X.        *)
(***************************************************************************)
EXTENDS Naturals, Sequences, FiniteSets

CONSTANTS
    Requests,        \* the calls of POST /v1/chat considered
    Sessions,        \* session ids
    Keys,            \* prompts as the cache sees them, pruned or not
    Prompts,         \* the prompts users type
    PruneOf,         \* what the pruning service makes of a prompt
    Closeness,       \* tier of the similarity of two keys
    Answers,         \* what a response can say
    NoAnswer,        \* what the empty response says
    MaxTokens,       \* bound of the model: tokens of a response
    MaxMessages,     \* messages kept per session: 50 in the code
    WindowSize,      \* responses kept per session: 20 in the code
    MinCycleLength,  \* shortest loop that is remediated: 3 in the code
    MaxFaults,       \* bound of the model: failing calls in a behaviour
    MayLeave,        \* bound of the model: requests whose client may disconnect
    Clients          \* the optional services that are not nil at startup

ASSUME PromptsAssumption ==
    /\ Prompts \subseteq Keys
    /\ PruneOf \in [Prompts -> Keys]
    /\ Closeness \in [Keys \X Keys -> {"HIT", "FEW_SHOT", "MISS"}]
ASSUME AnswersAssumption == NoAnswer \notin Answers
ASSUME BoundsAssumption ==
    /\ MaxTokens \in Nat \ {0}
    /\ MaxMessages \in Nat \ {0}
    /\ WindowSize \in Nat \ {0}
    /\ MinCycleLength \in Nat \ {0}
    /\ MaxFaults \in Nat
ASSUME MayLeaveAssumption == MayLeave \subseteq Requests
ASSUME ClientsAssumption == Clients \subseteq {"cache", "pruning", "cycle"}

VARIABLES
    chat,       \* the state of each request's handler, and its client
    history,    \* session:{id}:messages, the Redis list of each session
    window,     \* the detector's recent responses of each session
    cycleflag,  \* cycleflag:{id} exists in Redis
    entries,    \* the semantic cache
    writes,     \* WriteAsync goroutines in flight
    rows,       \* what the handlers handed to the analytics logger
    faults,     \* calls that failed so far
    flagged     \* history: <<session, answer>> the detector flagged

vars == <<chat, history, window, cycleflag, entries, writes, rows, faults, flagged>>

detector == <<window, cycleflag, flagged>>
cache    == <<entries, writes>>
-----------------------------------------------------------------------------
(* Data. *)

Text  == [ans : Answers \cup {NoAnswer}, len : 0 .. MaxTokens]
Empty == [ans |-> NoAnswer, len |-> 0]

\* The texts one token longer than t. The first token settles what is said.
Longer(t) ==
    {[ans |-> a, len |-> t.len + 1] : a \in IF t.len = 0 THEN Answers ELSE {t.ans}}

Message  == [role : {"user", "assistant", "system"}, from : Requests, text : Text]
User(r)  == [role |-> "user", from |-> r, text |-> Empty]
Hint(e)  == [role |-> "system", from |-> e.from, text |-> e.text]
Entry    == [key : Keys, text : Text, from : Requests]
Model    == {"fast", "powerful"}

Event ==
    {"token", "loop_detected", "remediation", "correction", "final", "error", "reject"}

PC == {"idle", "load", "append", "flag", "query", "hit", "call", "stream",
       "verdict", "remediate", "retry", "retrying", "finish", "save", "write",
       "log", "done"}

\* The local state of Chat for one request. reply and retry are the texts of its
\* first and second LLM call, check the CheckCycle call in the detector, usage
\* the call whose usage is reported. events are the SSE events written, of which
\* the client has been sent the first `seen`. after are the requests of the same
\* session whose [DONE] had reached the client when this one was made.
Chat ==
    [pc : PC, session : Sessions, key : Keys, tier : {"HIT", "FEW_SHOT", "MISS"},
     context : Seq(Message), model : Model, reply : Text,
     check : {"none", "asked", "PASS", "REMEDIATE"},
     newModel : Model, retry : Text, usage : 0 .. 2,
     events : Seq(Event), seen : Nat, gone : BOOLEAN, after : SUBSET Requests]

Row == [from : Requests, model : Model \cup {"cache"}, usage : 0 .. 2,
        hit : BOOLEAN, cycle : BOOLEAN]

\* The n last elements of s.
LastOf(s, n) == SubSeq(s, IF Len(s) > n THEN Len(s) - n + 1 ELSE 1, Len(s))

\* Store.Append: RPUSH and LTRIM in one transaction.
Remember_Untrimmed(h, m) == Append(h, m)

Remember(h, m) == LastOf(Append(h, m), MaxMessages)

\* remediationApplied, and the response and model Chat ends up with.
Applied(c) == c.retry.len > 0
Response_First(c) == c.reply

Response(c) == IF Applied(c) THEN c.retry ELSE c.reply

FinalModel_First(c) == c.model

FinalModel(c) == IF Applied(c) THEN c.newModel ELSE c.model

CycleSeen(c) == \E i \in 1 .. Len(c.events) : c.events[i] = "loop_detected"
-----------------------------------------------------------------------------
Init ==
    /\ chat \in [Requests -> {[pc |-> "idle", session |-> s, key |-> p,
          tier |-> "MISS", context |-> <<>>, model |-> "fast", reply |-> Empty,
          check |-> "none", newModel |-> "fast", retry |-> Empty, usage |-> 0,
          events |-> <<>>, seen |-> 0, gone |-> FALSE, after |-> {}]
          : s \in Sessions, p \in Prompts}]
    /\ history = [s \in Sessions |-> <<>>]
    /\ window = [s \in Sessions |-> <<>>]
    /\ cycleflag = [s \in Sessions |-> FALSE]
    /\ entries = {}
    /\ writes = {}
    /\ rows = {}
    /\ faults = 0
    /\ flagged = {}

At(r, pc) == chat[r].pc = pc

\* A call fails: for its own reasons, or because it carries the context of a
\* request whose client has gone.
Fault   == faults < MaxFaults /\ faults' = faults + 1
Fail(r) == Fault \/ (chat[r].gone /\ UNCHANGED faults)

\* The handler answers with a JSON error and returns.
Reject(r) ==
    chat' = [chat EXCEPT ![r].pc = "done", ![r].events = <<"reject">>, ![r].seen = 1]
-----------------------------------------------------------------------------
(* Before the LLM call. *)

\* A request comes in; its JSON may be invalid. Which session and prompt it
\* brings is settled in Init.
Arrive(r) ==
    /\ At(r, "idle")
    /\ \/ Reject(r)
       \/ chat' = [chat EXCEPT ![r].pc = "load",
             ![r].after = {q \in Requests \ {r} :
                 /\ chat[q].session = chat[r].session
                 /\ \E i \in 1 .. chat[q].seen : chat[q].events[i] = "final"}]
    /\ UNCHANGED <<history, detector, cache, rows, faults>>

\* GetHistory, and the user message appended in memory.
GetHistory(r) ==
    /\ At(r, "load")
    /\ \/ /\ chat' = [chat EXCEPT ![r].pc = "append",
                ![r].context = Append(history[chat[r].session], User(r))]
          /\ UNCHANGED faults
       \/ Reject(r) /\ Fail(r)
    /\ UNCHANGED <<history, detector, cache, rows>>

\* Store.Append of the user message, whose failure is only logged; then Prune,
\* which answers with the pruned prompt or, on any error, the prompt itself.
AppendUser(r) ==
    /\ At(r, "append")
    /\ LET s == chat[r].session IN
          \/ history' = [history EXCEPT ![s] = Remember(@, User(r))] /\ UNCHANGED faults
          \/ UNCHANGED history /\ Fail(r)
    /\ \E k \in {chat[r].key} \cup
                (IF "pruning" \in Clients THEN {PruneOf[chat[r].key]} ELSE {}) :
          chat' = [chat EXCEPT ![r].pc = "flag", ![r].key = k]
    /\ UNCHANGED <<detector, cache, rows>>

\* sessionHadCycle: a flagged session skips the cache, a Redis error does not.
SessionHadCycle(r) ==
    /\ At(r, "flag")
    /\ \/ /\ "cache" \notin Clients \/ cycleflag[chat[r].session]
          /\ chat' = [chat EXCEPT ![r].pc = "call"]
          /\ UNCHANGED faults
       \/ /\ "cache" \in Clients
          /\ chat' = [chat EXCEPT ![r].pc = "query"]
          /\ IF cycleflag[chat[r].session] THEN Fail(r) ELSE UNCHANGED faults
    /\ UNCHANGED <<history, detector, cache, rows>>

\* The cached prompts nearest to k (the collection is asked for one result).
Rank(t) == CASE t = "HIT" -> 2 [] t = "FEW_SHOT" -> 1 [] t = "MISS" -> 0

Nearest(k) ==
    {e \in entries : \A d \in entries :
        Rank(Closeness[<<k, d.key>>]) <= Rank(Closeness[<<k, e.key>>])}

\* Query of the semantic cache, where every error is a MISS, and the switch on
\* its tier: a HIT is served, a FEW_SHOT puts the similar answer before the
\* conversation.
QueryCache(r) ==
    /\ At(r, "query")
    /\ \/ /\ entries = {}
          /\ chat' = [chat EXCEPT ![r].pc = "call"]
          /\ UNCHANGED faults
       \/ /\ \E e \in Nearest(chat[r].key) :
                LET tier == Closeness[<<chat[r].key, e.key>>] IN
                chat' = [chat EXCEPT ![r].tier = tier,
                   ![r].pc = IF tier = "HIT" THEN "hit" ELSE "call",
                   ![r].reply = IF tier = "HIT" THEN e.text ELSE @,
                   ![r].context = IF tier = "FEW_SHOT" THEN <<Hint(e)>> \o @ ELSE @]
          /\ UNCHANGED faults
       \/ /\ chat' = [chat EXCEPT ![r].pc = "call"]
          /\ Fail(r)
    /\ UNCHANGED <<history, detector, cache, rows>>

\* streamCachedResponse: all words (one "token" here) and the final event in one
\* step of c.Stream, flushed at its end; nothing if the client has gone.
ServeHit(r) ==
    /\ At(r, "hit")
    /\ \/ chat' = [chat EXCEPT ![r].pc = "save", ![r].events = <<"token", "final">>,
                               ![r].seen = 2]
       \/ chat[r].gone /\ chat' = [chat EXCEPT ![r].pc = "save"]
    /\ UNCHANGED <<history, detector, cache, rows, faults>>

\* provider.Complete for the model ClassifyPrompt and SelectModel chose.
CallLLM(r) ==
    /\ At(r, "call")
    /\ \/ /\ \E m \in Model :
                chat' = [chat EXCEPT ![r].pc = "stream", ![r].model = m]
          /\ UNCHANGED faults
       \/ Reject(r) /\ Fail(r)
    /\ UNCHANGED <<history, detector, cache, rows>>
-----------------------------------------------------------------------------
(* The steps of c.Stream. gin flushes at the end of a step, and only there. *)

StreamToken(r) ==
    /\ At(r, "stream")
    /\ chat[r].reply.len < MaxTokens
    /\ \E t \in Longer(chat[r].reply) :
          chat' = [chat EXCEPT ![r].reply = t, ![r].events = Append(@, "token"),
                               ![r].seen = @ + 1]
    /\ UNCHANGED <<history, detector, cache, rows, faults>>

StreamError_Silent(r) ==
    /\ At(r, "stream")
    /\ Fail(r)
    /\ chat' = [chat EXCEPT ![r].pc = "done"]
    /\ UNCHANGED <<history, detector, cache, rows>>

StreamError(r) ==
    /\ At(r, "stream")
    /\ Fail(r)
    /\ chat' = [chat EXCEPT ![r].pc = "done", ![r].events = Append(@, "error"),
                            ![r].seen = @ + 1]
    /\ UNCHANGED <<history, detector, cache, rows>>

\* c.Stream finds the client gone: Chat returns with nothing saved or logged.
ClientGone(r) ==
    /\ At(r, "stream")
    /\ chat[r].gone
    /\ chat' = [chat EXCEPT ![r].pc = "done"]
    /\ UNCHANGED <<history, detector, cache, rows, faults>>

Checked_AnyTier(c) == "cycle" \in Clients /\ c.reply.len > 0

\* Only a MISS with a response is sent to CheckCycle.
Checked(c) == "cycle" \in Clients /\ c.reply.len > 0 /\ c.tier = "MISS"

StreamEnd_AlwaysWaits(r) ==
    /\ At(r, "stream")
    /\ chat' = [chat EXCEPT ![r].usage = 1, ![r].pc = "verdict",
                            ![r].check = IF Checked(chat[r]) THEN "asked" ELSE "none"]
    /\ UNCHANGED <<history, detector, cache, rows, faults>>

\* The final token.
StreamEnd(r) ==
    /\ At(r, "stream")
    /\ chat' = [chat EXCEPT ![r].usage = 1,
                   ![r].pc = IF Checked(chat[r]) THEN "verdict" ELSE "finish",
                   ![r].check = IF Checked(chat[r]) THEN "asked" ELSE "none"]
    /\ UNCHANGED <<history, detector, cache, rows, faults>>
-----------------------------------------------------------------------------
(* The cycle detector, in its own process. *)

\* find_cycle: turns since the latest similar response in the window, 0 = none.
CycleLength(w, t) ==
    LET similar == {i \in 1 .. Len(w) : w[i].ans = t.ans}
    IN IF similar = {} THEN 0
       ELSE Len(w) + 1 - (CHOOSE i \in similar : \A j \in similar : j <= i)

\* What the servicer makes of the response of request r and the window it reads.
Verdict(r) ==
    IF CycleLength(window[chat[r].session], chat[r].reply) >= MinCycleLength
      THEN "REMEDIATE" ELSE "PASS"

\* add_node, whose transaction Redis has executed n times: redis-py sends it again
\* when its reply is lost.
AddNode(r, n) ==
    LET node == [ans |-> chat[r].reply.ans, from |-> r]
    IN  window' = [window EXCEPT ![chat[r].session] =
                      LastOf(@ \o [i \in 1 .. n |-> node], WindowSize)]

\* flag_cycle, if the response closes a loop.
FlagCycle(r) ==
    LET s == chat[r].session
    IN  IF Verdict(r) = "REMEDIATE"
          THEN /\ cycleflag' = [cycleflag EXCEPT ![s] = TRUE]
               /\ flagged' = flagged \cup {<<s, chat[r].reply.ans>>}
          ELSE UNCHANGED <<cycleflag, flagged>>

Faults(n) == faults + n <= MaxFaults /\ faults' = faults + n

DetectorAnswers(r) ==
    /\ \E n \in 1 .. MaxFaults + 1 : AddNode(r, n) /\ Faults(n - 1)
    /\ FlagCycle(r)
    /\ chat' = [chat EXCEPT ![r].check = Verdict(r)]

\* An exception, which the servicer answers with PASS: before add_node has had its
\* effect, after it, or after flag_cycle has had its own.
DetectorRaises(r) ==
    /\ \/ UNCHANGED detector /\ Faults(1)
       \/ /\ \E n \in 1 .. MaxFaults : AddNode(r, n) /\ Faults(n)
          /\ FlagCycle(r) \/ UNCHANGED <<cycleflag, flagged>>
    /\ chat' = [chat EXCEPT ![r].check = "PASS"]

\* CheckCycle of the Python servicer, which runs to its end even when the
\* gateway has stopped waiting.
DetectorServes(r) ==
    /\ chat[r].check = "asked"
    /\ DetectorAnswers(r) \/ DetectorRaises(r)
    /\ UNCHANGED <<history, cache, rows>>

\* The hour of a cycle flag is over.
FlagExpires(s) ==
    /\ cycleflag[s]
    /\ cycleflag' = [cycleflag EXCEPT ![s] = FALSE]
    /\ UNCHANGED <<chat, history, window, flagged, cache, rows, faults>>
-----------------------------------------------------------------------------
(* After the first response, still in the same step of c.Stream. *)

\* CheckCycle of the Go client: the detector's answer, or PASS on any error.
CheckReturns(r) ==
    /\ At(r, "verdict")
    /\ \/ /\ chat[r].check = "REMEDIATE"
          /\ chat' = [chat EXCEPT ![r].pc = "remediate",
                                  ![r].events = Append(@, "loop_detected")]
          /\ UNCHANGED faults
       \/ /\ chat[r].check = "PASS"
          /\ chat' = [chat EXCEPT ![r].pc = "finish"]
          /\ UNCHANGED faults
       \/ /\ chat' = [chat EXCEPT ![r].pc = "finish"]
          /\ Fail(r)
    /\ UNCHANGED <<history, detector, cache, rows>>

\* Remediate: escalate_model recommends the powerful model, the fallback of the
\* gateway and that of the servicer keep the current one.
Remediate(r) ==
    /\ At(r, "remediate")
    /\ \E m \in Model :
          /\ \/ m = "powerful" /\ UNCHANGED faults
             \/ m = chat[r].model /\ Fail(r)
          /\ chat' = [chat EXCEPT ![r].pc = "retry", ![r].newModel = m,
                                  ![r].events = Append(@, "remediation")]
    /\ UNCHANGED <<history, detector, cache, rows>>

RetryCall(r) ==
    /\ At(r, "retry")
    /\ \/ chat' = [chat EXCEPT ![r].pc = "retrying"] /\ UNCHANGED faults
       \/ chat' = [chat EXCEPT ![r].pc = "finish"] /\ Fail(r)
    /\ UNCHANGED <<history, detector, cache, rows>>

RetryToken(r) ==
    /\ At(r, "retrying")
    /\ chat[r].retry.len < MaxTokens
    /\ \E t \in Longer(chat[r].retry) :
          chat' = [chat EXCEPT ![r].retry = t, ![r].events = Append(@, "correction")]
    /\ UNCHANGED <<history, detector, cache, rows, faults>>

RetryEnd_ReportsError(r) ==
    /\ At(r, "retrying")
    /\ \/ chat' = [chat EXCEPT ![r].pc = "finish", ![r].usage = 2] /\ UNCHANGED faults
       \/ /\ chat' = [chat EXCEPT ![r].pc = "finish", ![r].events = Append(@, "error")]
          /\ Fail(r)
    /\ UNCHANGED <<history, detector, cache, rows>>

\* The retry's final token brings its usage; an error leaves the first call's.
RetryEnd(r) ==
    /\ At(r, "retrying")
    /\ \/ chat' = [chat EXCEPT ![r].pc = "finish", ![r].usage = 2] /\ UNCHANGED faults
       \/ chat' = [chat EXCEPT ![r].pc = "finish"] /\ Fail(r)
    /\ UNCHANGED <<history, detector, cache, rows>>

\* net/http sends what is buffered when the corrections fill its buffer.
BufferFull(r) ==
    /\ At(r, "retrying")
    /\ chat[r].retry.len > 0
    /\ chat[r].seen < Len(chat[r].events)
    /\ chat' = [chat EXCEPT ![r].seen = Len(chat[r].events)]
    /\ UNCHANGED <<history, detector, cache, rows, faults>>

Finish_Flushes(r) ==
    /\ At(r, "finish")
    /\ chat' = [chat EXCEPT ![r].pc = "save", ![r].events = Append(@, "final"),
                            ![r].seen = Len(chat[r].events) + 1]
    /\ UNCHANGED <<history, detector, cache, rows, faults>>

\* The final event and [DONE].
Finish(r) ==
    /\ At(r, "finish")
    /\ chat' = [chat EXCEPT ![r].pc = "save", ![r].events = Append(@, "final")]
    /\ UNCHANGED <<history, detector, cache, rows, faults>>

\* saveAssistantMessage, with a context of its own; its failure is only logged.
SaveAssistantMessage(r) ==
    /\ At(r, "save")
    /\ LET c == chat[r]
           m == [role |-> "assistant", from |-> r, text |-> Response(c)]
       IN \/ /\ history' = IF Response(c).len = 0 THEN history
                           ELSE [history EXCEPT ![c.session] = Remember(@, m)]
             /\ UNCHANGED faults
          \/ UNCHANGED history /\ Response(c).len > 0 /\ Fault
    /\ chat' = [chat EXCEPT ![r].pc = IF chat[r].tier = "HIT" THEN "log" ELSE "write"]
    /\ UNCHANGED <<detector, cache, rows>>

Cacheable_Corrected(c) == "cache" \in Clients /\ Response(c).len > 0 /\ c.tier = "MISS"

Cacheable(c) ==
    /\ "cache" \in Clients
    /\ Response(c).len > 0
    /\ c.tier = "MISS"
    /\ ~Applied(c)

WriteAsync(r) ==
    /\ At(r, "write")
    /\ writes' = writes \cup
          (IF Cacheable(chat[r])
             THEN {[key |-> chat[r].key, text |-> Response(chat[r]), from |-> r]}
             ELSE {})
    /\ chat' = [chat EXCEPT ![r].pc = "log"]
    /\ UNCHANGED <<history, detector, entries, rows, faults>>

\* logger.Log, then the step ends: gin flushes, and Chat returns.
Log(r) ==
    /\ At(r, "log")
    /\ LET c == chat[r] IN
          rows' = rows \cup {[from |-> r, usage |-> c.usage, cycle |-> CycleSeen(c),
             hit   |-> c.tier = "HIT",
             model |-> IF c.tier = "HIT" THEN "cache" ELSE FinalModel(c)]}
    /\ chat' = [chat EXCEPT ![r].pc = "done", ![r].seen = Len(chat[r].events)]
    /\ UNCHANGED <<history, detector, cache, faults>>
-----------------------------------------------------------------------------
(* The rest of the world. *)

\* A WriteAsync goroutine: SemanticCache.write adds an entry, or the call fails.
CacheWrite(e) ==
    /\ writes' = writes \ {e}
    /\ \/ entries' = entries \cup {e} /\ UNCHANGED faults
       \/ UNCHANGED entries /\ Fault
    /\ UNCHANGED <<chat, history, detector, rows>>

Disconnect(r) ==
    /\ r \in MayLeave
    /\ chat[r].pc \notin {"idle", "done"}
    /\ ~chat[r].gone
    /\ chat' = [chat EXCEPT ![r].gone = TRUE]
    /\ UNCHANGED <<history, detector, cache, rows, faults>>

Handler(r) ==
    \/ GetHistory(r) \/ AppendUser(r) \/ SessionHadCycle(r) \/ QueryCache(r)
    \/ ServeHit(r) \/ CallLLM(r) \/ StreamToken(r) \/ StreamError(r)
    \/ ClientGone(r) \/ StreamEnd(r) \/ CheckReturns(r) \/ Remediate(r)
    \/ RetryCall(r) \/ RetryToken(r) \/ RetryEnd(r) \/ Finish(r)
    \/ SaveAssistantMessage(r) \/ WriteAsync(r) \/ Log(r)

Next ==
    \/ \E r \in Requests : \/ Arrive(r) \/ Handler(r) \/ DetectorServes(r)
                           \/ BufferFull(r) \/ Disconnect(r)
    \/ \E s \in Sessions : FlagExpires(s)
    \/ \E e \in writes : CacheWrite(e)

Spec == Init /\ [][Next]_vars

\* Every handler is scheduled, every call it waits for answers or times out,
\* and Groq ends its streams. Clients, faults and expiring flags are free.
Fairness ==
    \A r \in Requests : WF_vars(Handler(r)) /\ WF_vars(DetectorServes(r))

FairSpec == Spec /\ Fairness
-----------------------------------------------------------------------------
(* Properties. *)

TypeOK ==
    /\ chat \in [Requests -> Chat]
    /\ \A r \in Requests :
          /\ chat[r].seen <= Len(chat[r].events)
          /\ chat[r].pc \in {"idle", "load", "append"} => chat[r].key \in Prompts
    /\ history \in [Sessions -> Seq(Message)]
    /\ window \in [Sessions -> Seq([ans : Answers \cup {NoAnswer}, from : Requests])]
    /\ cycleflag \in [Sessions -> BOOLEAN]
    /\ entries \subseteq Entry
    /\ writes \subseteq Entry
    /\ rows \subseteq Row
    /\ faults \in 0 .. MaxFaults
    /\ flagged \subseteq Sessions \X (Answers \cup {NoAnswer})

\* The SSE protocol the dashboard relies on (streaming.js): tokens, then at most
\* one loop_detected, remediation and corrections in that order, then one
\* terminal event with nothing after it.
Precedes(a, b) ==
    CASE b = "token"         -> a \in {"none", "token"}
      [] b = "loop_detected" -> a = "token"
      [] b = "remediation"   -> a = "loop_detected"
      [] b = "correction"    -> a \in {"remediation", "correction"}
      [] b = "final"         -> a \in {"none", "token", "remediation", "correction"}
      [] b = "error"         -> a \in {"none", "token"}
      [] b = "reject"        -> a = "none"

EventOrder ==
    \A r \in Requests :
        LET ev == chat[r].events IN
        \A i \in 1 .. Len(ev) : Precedes(IF i = 1 THEN "none" ELSE ev[i - 1], ev[i])

\* What the cache can ever serve: the whole response of a finished first call
\* that was made on a MISS, with no cached answer in its context, and that no
\* correction replaced (the write guard of Chat, and cache/client.go: "must
\* only be called on the MISS path after a successful LLM response").
CacheProvenance ==
    \A e \in entries \cup writes :
        LET c == chat[e.from] IN
        /\ c.tier = "MISS" /\ c.usage > 0
        /\ e.text = c.reply /\ e.text.len > 0
        /\ ~Applied(c)
        /\ \A i \in 1 .. Len(c.context) : c.context[i].role # "system"

\* What a session remembers as the answer is what its client was shown last:
\* the correction if one was streamed, else the first or the cached response.
Corrected(c) == \E i \in 1 .. Len(c.events) : c.events[i] = "correction"

HistoryIsWhatWasShown ==
    \A s \in Sessions : \A i \in 1 .. Len(history[s]) :
        LET m == history[s][i]
            c == chat[m.from]
        IN /\ c.session = s
           /\ m.role = "assistant" =>
                 m.text = IF Corrected(c) THEN c.retry ELSE c.reply

\* A session's list is bounded, has at most one user and one assistant message
\* of a request, and never an answer before its question, whatever the other
\* requests of the session append in between.
HistoryWellFormed ==
    \A s \in Sessions :
        LET h == history[s] IN
        /\ Len(h) <= MaxMessages
        /\ \A i, j \in 1 .. Len(h) :
              (i < j /\ h[i].from = h[j].from)
                 => h[i].role = "user" /\ h[j].role = "assistant"

\* The detector compares LLM responses only: a window never has a response from
\* the cache, one built on a similar cached answer, or one of another session, and
\* none twice, unless a call failed: a response that Redis was sent again counts
\* for two turns in the length of a loop.
WindowFromLLM ==
    \A s \in Sessions :
        LET w == window[s] IN
        /\ Len(w) <= WindowSize
        /\ \A i \in 1 .. Len(w) :
              LET c == chat[w[i].from] IN
              /\ c.session = s /\ c.tier = "MISS" /\ c.usage > 0
              /\ c.reply.ans = w[i].ans
        /\ faults = 0 => \A i, j \in 1 .. Len(w) : i # j => w[i].from # w[j].from

\* The analytics row of a request agrees with what happened in it: the cache is
\* named as the model exactly when no LLM was called, cycle_detected is what the
\* client was told, and the model is the one whose text the client saw last.
RowsTellTheTruth ==
    /\ \A x, y \in rows : x.from = y.from => x = y
    /\ \A x \in rows :
          LET c == chat[x.from] IN
          /\ x.hit <=> x.model = "cache"
          /\ x.hit <=> x.usage = 0
          /\ x.cycle <=> (c.check = "REMEDIATE" /\ CycleSeen(c))
          /\ ~x.hit => x.model = IF Corrected(c) THEN c.newModel ELSE c.model

\* A client that stays is sent everything that was written, and that ends in
\* exactly one of the final event, an SSE error or a JSON error.
StayingClientIsAnswered ==
    \A r \in Requests :
        (chat[r].pc = "done" /\ ~chat[r].gone)
            => LET ev == chat[r].events IN
               /\ chat[r].seen = Len(ev)
               /\ ev # <<>>
               /\ ev[Len(ev)] \in {"final", "error", "reject"}

\* A turn answered by the LLM is in the conversation of the next request its
\* client makes after [DONE]: c.Stream flushes [DONE] only after the step that
\* saved the answer. Failed calls and the trim of a full list are excepted.
InContext(r, q) ==
    \/ Len(chat[r].context) > MaxMessages
    \/ \E i \in 1 .. Len(chat[r].context) :
          chat[r].context[i].role = "assistant" /\ chat[r].context[i].from = q

Answered(q) == Response(chat[q]).len > 0

LLMTurnsInContext ==
    \A r \in Requests : \A q \in chat[r].after :
        (faults = 0 /\ chat[r].context # <<>> /\ chat[q].tier # "HIT" /\ Answered(q))
            => InContext(r, q)

\* Every request ends.
RequestsFinish ==
    \A r \in Requests : chat[r].pc = "load" ~> chat[r].pc = "done"

\* Comment of sessionHadCycle: the flag "prevents cache from serving a response
\* that was previously flagged as wrong/stuck".
FlaggedNotServed ==
    [][\A r \in Requests :
          (chat[r].pc # "hit" /\ chat'[r].pc = "hit")
              => ~\E s \in Sessions :
                    cycleflag[s] /\ <<s, chat'[r].reply.ans>> \in flagged]_vars
=============================================================================
