---------------------------- MODULE AnalyticsPage ----------------------------
(***************************************************************************)
(* The analytics page (dashboard/src/pages/Analytics.jsx): fetchAll asks   *)
(* all the analytics endpoints at once, when the page opens and then at    *)
(* every tick of a timer that does not wait for the last round to end, so  *)
(* that rounds may overlap. Each endpoint is one query of request_logs     *)
(* (gateway/analytics_handler.go), run at a time of its own; what matters  *)
(* of its answer is how many of the table's rows it speaks of.             *)
(*                                                                         *)
(* A list endpoint passes over a row it cannot scan, and takes the end of  *)
(* the rows for the end of the result without asking for an error. So it   *)
(* may answer 200 with fewer rows than there are. It always does where the *)
(* rows bring created_at: pgx does not scan a TIMESTAMPTZ into a string.   *)
(*                                                                         *)
(* A definition named D_X is D with the mistake X in it. It is no part of  *)
(* the specification: it shows that a property can tell D from D_X.        *)
(***************************************************************************)
EXTENDS Naturals, Bags

CONSTANTS
    Endpoints,  \* summary, timeseries, models, requests, cycles in the code
    Lists,      \* those that answer row by row: all but summary
    Timestamped, \* those whose rows have a time: timeseries, requests, cycles
    NotAsked,   \* in the place of an answer that is not there yet
    MaxOpen,    \* bound: rounds under way at once (no bound in the code)
    MaxBroken   \* bound: results that break off (no bound in the code)

VARIABLES
    mounted,    \* the page is open
    timers,     \* intervals that run
    rounds,     \* the rounds of this opening under way, a bag: a round is
                \* endpoint -> the rows it answered with, or NotAsked
    panels,     \* endpoint -> the rows the page's panels show, or NotAsked
    error,      \* the badge
    loading,    \* the spinner is in the place of the panels
    broken      \* results that broke off so far

page == <<mounted, timers, rounds, panels, error, loading, broken>>

Nothing == [e \in Endpoints |-> NotAsked]

Answers == [Endpoints -> Nat \cup {NotAsked}]

TypeOK ==
    /\ mounted \in BOOLEAN
    /\ timers \in Nat
    /\ IsABag(rounds) /\ DOMAIN rounds \subseteq Answers
    /\ panels \in Answers
    /\ error \in BOOLEAN
    /\ loading \in BOOLEAN
    /\ broken \in 0 .. MaxBroken

Init ==
    /\ mounted = FALSE
    /\ timers = 0
    /\ rounds = EmptyBag
    /\ panels = Nothing
    /\ error = FALSE
    /\ loading = TRUE
    /\ broken = 0

FetchAll ==
    /\ BagCardinality(rounds) < MaxOpen
    /\ rounds' = rounds (+) SetToBag({Nothing})

\* The route turns to the page.
Open ==
    /\ ~mounted
    /\ mounted' = TRUE
    /\ timers' = timers + 1
    /\ FetchAll
    /\ UNCHANGED <<panels, error, loading, broken>>

Tick ==
    /\ timers > 0
    /\ FetchAll
    /\ UNCHANGED <<mounted, timers, panels, error, loading, broken>>

\* Clean-up. The state of the page is gone, the rounds that go on have nothing
\* left to change, and the next opening starts anew.
Forget ==
    /\ rounds' = EmptyBag /\ panels' = Nothing
    /\ error' = FALSE /\ loading' = TRUE

Leave ==
    /\ mounted
    /\ mounted' = FALSE
    /\ timers' = timers - 1
    /\ Forget
    /\ UNCHANGED broken

Without(round) == rounds (-) SetToBag({round})

\* What endpoint e answers, with status 200, where the table has n rows.
Found(e, n) == IF e \in Timestamped THEN 0 ELSE n

\* Endpoint e answers a round with n rows.
Answered(round, e, n) ==
    /\ round[e] = NotAsked
    /\ rounds' = Without(round) (+) SetToBag({[round EXCEPT ![e] = n]})

\* The gateway runs the query of endpoint e for a round, over all the rows.
Query_ShowsAtOnce(round, e, rows) ==
    /\ Answered(round, e, Found(e, rows))
    /\ panels' = IF loading THEN panels ELSE [panels EXCEPT ![e] = Found(e, rows)]
    /\ UNCHANGED <<mounted, timers, error, loading, broken>>
Query(round, e, rows) ==
    /\ Answered(round, e, Found(e, rows))
    /\ UNCHANGED <<mounted, timers, panels, error, loading, broken>>

\* The connection to PostgreSQL breaks while a list is read: rows.Next() is FALSE,
\* and what has been read is answered as if it were all.
BreaksOff(round, e, rows) ==
    /\ e \in Lists
    /\ broken < MaxBroken /\ broken' = broken + 1
    /\ \E n \in 0 .. Found(e, rows) : Answered(round, e, n)
    /\ UNCHANGED <<mounted, timers, panels, error, loading>>

\* The last answer of a round is there: Promise.all gives them together, and
\* one render shows them, with the error gone.
Show(round) ==
    /\ \A e \in Endpoints : round[e] # NotAsked
    /\ panels' = round
    /\ error' = FALSE
    /\ loading' = FALSE
    /\ rounds' = Without(round)
    /\ UNCHANGED <<mounted, timers, broken>>

\* An answer of a round is an error, or none: Promise.all rejects at once, and
\* the other answers of the round are ignored.
Fail_KeepsSilent(round) ==
    /\ loading' = FALSE
    /\ rounds' = Without(round)
    /\ UNCHANGED <<mounted, timers, panels, error, broken>>
Fail(round) ==
    /\ error' = TRUE
    /\ loading' = FALSE
    /\ rounds' = Without(round)
    /\ UNCHANGED <<mounted, timers, panels, broken>>

\* What the user sees: the spinner or the panels, the time of the last update
\* and the error badge.
Screen ==
    [spinner |-> loading,
     panels  |-> IF loading THEN Nothing ELSE panels,
     updated |-> panels # Nothing,
     badge   |-> error]

\* Analytics.jsx:53-54. Opening and leaving the page any number of times leaves
\* one timer with the page and none without.
OneTimer == timers = IF mounted THEN 1 ELSE 0

\* Analytics.jsx:34-43. However the rounds overlap, the panels change together,
\* and what they show together was found by one round: never the summary of one
\* beside the table of another.
PanelsOfOneRound ==
    [][panels' # panels =>
          \/ panels' = Nothing
          \/ /\ panels' \in BagToSet(rounds)
             /\ \A e \in Endpoints : panels'[e] # NotAsked]_panels

\* Analytics.jsx:33-48, :75-108. A page that shows no spinner and no error shows
\* panels that came from the gateway, and one that has an update to name shows
\* every one of them.
ShowsWhatItGot ==
    LET full == \A e \in Endpoints : Screen.panels[e] # NotAsked
    IN  /\ Screen.spinner \/ Screen.badge \/ full
        /\ Screen.updated => full

=============================================================================
