------------------------------ MODULE Telemetry ------------------------------
(***************************************************************************)
(* The way of a request from the rate limiter to the analytics page: a     *)
(* request the limiter admits is answered by the chat handler, which logs  *)
(* it; the logger's worker puts it in request_logs, which the page reads.  *)
(* The gateway may crash and start again; Redis, PostgreSQL and the page   *)
(* go on.                                                                  *)
(***************************************************************************)
EXTENDS Naturals, Sequences, FiniteSets

CONSTANTS
    Requests, RequestLimit, MaxResent,          \* RateLimiter
    QueueCapacity,                              \* AnalyticsLogger
    Endpoints, Lists, Timestamped,              \* AnalyticsPage
    NotAsked, MaxOpen, MaxBroken,
    MaxCrashes                                  \* bound: crashes of the gateway

ASSUME RequestLimitAssumption == RequestLimit \in Nat \ {0}
ASSUME QueueCapacityAssumption == QueueCapacity \in Nat \ {0}
ASSUME EndpointsAssumption ==
    /\ Endpoints # {} /\ NotAsked \notin Nat
    /\ Timestamped \subseteq Lists /\ Lists \subseteq Endpoints
ASSUME BoundsAssumption ==
    /\ MaxResent \in Nat /\ MaxOpen \in Nat
    /\ MaxBroken \in Nat /\ MaxCrashes \in Nat

VARIABLES
    step, count, expires, resent, window, expireLost,
    queue, worker, job, rows, topic, logged, lost,
    mounted, timers, rounds, panels, error, loading, broken,
    crashes

Limiter == INSTANCE RateLimiter
Logger == INSTANCE AnalyticsLogger WITH Events <- Requests
Page == INSTANCE AnalyticsPage

limiter == <<step, count, expires, resent, window, expireLost>>
logger == <<queue, worker, job, rows, topic, logged, lost>>
page == <<mounted, timers, rounds, panels, error, loading, broken>>
vars == <<limiter, logger, page, crashes>>

TypeOK ==
    /\ Limiter!TypeOK
    /\ Logger!TypeOK
    /\ Page!TypeOK
    /\ crashes \in 0 .. MaxCrashes

Init ==
    /\ Limiter!Init
    /\ Logger!Init
    /\ Page!Init
    /\ crashes = 0

Limit == Limiter!Internal /\ UNCHANGED <<logger, page, crashes>>

\* The chat handler answers request r and logs it. A request that ends in an error
\* or whose client leaves in its stream is not logged.
Serve(r) ==
    /\ Limiter!Served(r)
    /\ Logger!Log(r) \/ UNCHANGED logger
    /\ UNCHANGED <<page, crashes>>

Work == Logger!Internal /\ UNCHANGED <<limiter, page, crashes>>

Crash ==
    /\ crashes < MaxCrashes
    /\ crashes' = crashes + 1
    /\ Limiter!Crash
    /\ Logger!Crash
    /\ UNCHANGED page

Tick == Page!Tick /\ UNCHANGED <<limiter, logger, crashes>>

\* A query of the page runs in PostgreSQL, or a round that has its answers ends.
Answer ==
    /\ \E round \in DOMAIN rounds :
          \/ \E e \in Endpoints : Page!Query(round, e, Len(rows))
          \/ Page!Show(round)
    /\ UNCHANGED <<limiter, logger, crashes>>

Look ==
    /\ \/ Page!Open
       \/ Page!Leave
       \/ \E round \in DOMAIN rounds :
             \/ Page!Fail(round)
             \/ \E e \in Endpoints : Page!BreaksOff(round, e, Len(rows))
    /\ UNCHANGED <<limiter, logger, crashes>>

Next ==
    \/ Limit
    \/ \E r \in Requests : Serve(r)
    \/ Work
    \/ Crash
    \/ Tick
    \/ Answer
    \/ Look

Spec == Init /\ [][Next]_vars

\* The middleware and the handler go on, and Redis ends a key that has an expiry;
\* the worker goes on; the timer ticks; of the page's queries under way one gets
\* its answer in the end. No crash, failure, opening or leaving is ever due.
Fairness ==
    /\ WF_vars(Limit)
    /\ WF_vars(\E r \in Requests : Serve(r))
    /\ WF_vars(Work)
    /\ WF_vars(Tick)
    /\ WF_vars(Answer)

FairSpec == Spec /\ Fairness

\* Names a configuration can list.
LimitPerWindow == Limiter!LimitPerWindow
ShutOutOnlyByFault == Limiter!ShutOutOnlyByFault
InLogOrder == Logger!InLogOrder
NoneDisappears == Logger!NoneDisappears
OneTimer == Page!OneTimer
PanelsOfOneRound == Page!PanelsOfOneRound
ShowsWhatItGot == Page!ShowsWhatItGot

\* The panels of some endpoints show every row, and every event that is not lost
\* has its row.
UpToDate(endpoints) ==
    /\ \A e \in endpoints : panels[e] = Len(rows)
    /\ {logged[i] : i \in DOMAIN logged} \subseteq
           {rows[i] : i \in DOMAIN rows} \cup lost

\* handlers.go:423, logger.go:34-60, Analytics.jsx:32-55. Once a request was
\* logged, a page that stays open and gets its answers comes to show in the panels
\* without times all that was logged and not lost, whatever rounds overlap and
\* whatever results break off on the way.
ServedIsShown ==
    logged # <<>> ~> UpToDate(Endpoints \ Timestamped) \/ ~mounted \/ error
=============================================================================
