----------------------------- MODULE RateLimiter -----------------------------
(***************************************************************************)
(* RateLimitMiddleware (src/go/gateway/rateLimiter.go) for one user, whose *)
(* counter is one Redis key. INCR and EXPIRE are two calls to Redis; other *)
(* requests, the end of the key's second and the end of the gateway may    *)
(* come between them. Redis itself is external: INCR makes a missing key   *)
(* without an expiry, and keeps the expiry of one that is there. go-redis  *)
(* sends a command again when its reply is lost, although it took effect.  *)
(*                                                                         *)
(* A definition named D_X is D with the mistake X in it. It is no part of  *)
(* the specification: it shows that a property can tell D from D_X.        *)
(***************************************************************************)
EXTENDS Naturals, FiniteSets

CONSTANTS
    Requests,       \* the requests of the user
    RequestLimit,   \* REQUEST_LIMIT: 10 in the code
    MaxResent       \* bound: INCRs sent again (go-redis sends one three times again)

VARIABLES
    step,       \* [request -> "arriving" | "resending" | "expiring" | "admitted" |
                \*             "served" | "rejected" | "failed"]
    count,      \* the key's value, 0 when there is no key
    expires,    \* the key has an expiry
    resent,     \* INCRs sent again so far
    window,     \* history: the requests counted since the key was made
    expireLost  \* history: a key was left without its EXPIRE

limiter == <<step, count, expires, resent, window, expireLost>>

TypeOK ==
    /\ step \in [Requests -> {"arriving", "resending", "expiring", "admitted", "served",
                              "rejected", "failed"}]
    /\ count \in Nat
    /\ expires \in BOOLEAN
    /\ resent \in 0 .. MaxResent
    /\ window \subseteq Requests
    /\ expireLost \in BOOLEAN
    /\ expires => count > 0

Init ==
    /\ step = [r \in Requests |-> "arriving"]
    /\ count = 0
    /\ expires = FALSE
    /\ resent = 0
    /\ window = {}
    /\ expireLost = FALSE

Goto(r, where) == step' = [step EXCEPT ![r] = where]

\* An INCR of r is on its way to Redis.
Sending(r) == step[r] \in {"arriving", "resending"}

\* Redis executes it.
Counted(r) ==
    /\ count' = count + 1
    /\ window' = window \cup {r}

\* The reply to INCR decides what the middleware does next.
Incr_NoExpire(r) ==
    /\ Sending(r)
    /\ Counted(r)
    /\ Goto(r, IF count + 1 > RequestLimit THEN "rejected" ELSE "admitted")
    /\ UNCHANGED <<expires, resent, expireLost>>
Incr_OffByOne(r) ==
    /\ Sending(r)
    /\ Counted(r)
    /\ Goto(r, IF count + 1 = 1 THEN "expiring"
               ELSE IF count > RequestLimit THEN "rejected" ELSE "admitted")
    /\ UNCHANGED <<expires, resent, expireLost>>
Incr(r) ==
    /\ Sending(r)
    /\ Counted(r)
    /\ Goto(r, IF count + 1 = 1 THEN "expiring"
               ELSE IF count + 1 > RequestLimit THEN "rejected" ELSE "admitted")
    /\ UNCHANGED <<expires, resent, expireLost>>

\* INCR was done, its reply is lost, and it is sent again. The reply that comes at
\* last need not be 1, and then nobody sets the expiry of a key this one made.
IncrAgain(r) ==
    /\ Sending(r)
    /\ resent < MaxResent /\ resent' = resent + 1
    /\ Counted(r)
    /\ Goto(r, "resending")
    /\ expireLost' = (expireLost \/ count = 0)
    /\ UNCHANGED expires

\* INCR fails: it was not done, or it was and no reply came.
IncrFails(r) ==
    /\ Sending(r)
    /\ Goto(r, "failed")
    /\ \/ UNCHANGED <<count, window, expireLost>>
       \/ Counted(r) /\ expireLost' = (expireLost \/ count = 0)
    /\ UNCHANGED <<expires, resent>>

\* EXPIRE, whose error the code does not look at.
Expire(r) ==
    /\ step[r] = "expiring"
    /\ Goto(r, IF 1 > RequestLimit THEN "rejected" ELSE "admitted")
    /\ \/ expires' = TRUE /\ UNCHANGED expireLost
       \/ UNCHANGED expires /\ expireLost' = TRUE
    /\ UNCHANGED <<count, resent, window>>

\* The key's second is over.
KeyExpires ==
    /\ expires
    /\ count' = 0 /\ expires' = FALSE /\ window' = {}
    /\ UNCHANGED <<step, resent, expireLost>>

\* c.Next(): the chat handler has answered the request.
Served(r) ==
    /\ step[r] = "admitted"
    /\ Goto(r, "served")
    /\ UNCHANGED <<count, expires, resent, window, expireLost>>

\* The gateway process ends, with the requests it was working on.
Crash ==
    /\ step' = [r \in Requests |->
                   IF step[r] \in {"resending", "expiring", "admitted"}
                     THEN "failed" ELSE step[r]]
    /\ expireLost' = (expireLost \/ \E r \in Requests : step[r] = "expiring")
    /\ UNCHANGED <<count, expires, resent, window>>

Internal ==
    \/ \E r \in Requests : Incr(r) \/ IncrAgain(r) \/ IncrFails(r) \/ Expire(r)
    \/ KeyExpires

\* rateLimiter.go:33, :47. However the requests of one second interleave, no
\* more than the limit of them are let through.
LimitPerWindow ==
    Cardinality({r \in window : step[r] \in {"expiring", "admitted", "served"}})
        <= RequestLimit

\* rateLimiter.go:43-45. A counter that will never expire, so that the user is
\* shut out for good, is left only by a lost EXPIRE or INCR reply or a crash.
ShutOutOnlyByFault ==
    count > 0 /\ ~expires => \/ expireLost
                             \/ \E r \in Requests : step[r] = "expiring"

=============================================================================
