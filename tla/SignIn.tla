------------------------------- MODULE SignIn -------------------------------
(***************************************************************************)
(* Signing in and out with the tabs of one browser: the root component     *)
(* (dashboard/src/App.jsx), the stored token (dashboard/src/utils/auth.js) *)
(* and the gateway's OAuth handler (gateway/auth_handler.go). The tabs     *)
(* share the oauth_state cookie and localStorage; localStorage tells the   *)
(* other tabs of a change by a storage event, which comes some time later. *)
(* The browser and Google are external. Flows are numbered; a flow's       *)
(* number stands for its state, its code and the token it ends in.         *)
(*                                                                         *)
(* A definition named D_X is D with the mistake X in it. It is no part of  *)
(* the specification: it shows that a property can tell D from D_X.        *)
(***************************************************************************)
EXTENDS Naturals, FiniteSets

CONSTANTS
    Tabs,
    MaxFlows    \* bound: how often GoogleLogin is called

ASSUME MaxFlowsAssumption == MaxFlows \in Nat

None == 0
Flows == 1 .. MaxFlows
Unknown == MaxFlows + 1     \* the user of a token that could not be decoded

VARIABLES
    cookie,     \* oauth_state, or None
    token,      \* aether_token, or None
    user,       \* the token aether_user was decoded from, or None
    expired,    \* the tokens whose exp has passed
    undecodable,    \* the tokens atob fails on: it takes base64, a JWT is
                \* base64url, and a name that is not ASCII can tell
    flows,      \* how many flows were begun
    at,         \* [tab -> "blank" | "loading" | "app" | "google" |
                \*         "callback" | "refused" | "failed"]
    carries,    \* [tab -> the flow it is in, or the token in the URL it loads]
    authed,     \* [tab -> App's state, FALSE where App does not run]
    pending,    \* tabs with a storage event to come
    excused     \* history: flows that overlapped another, or were too slow

tokens == <<expired, undecodable>>
vars == <<cookie, token, user, tokens, flows, at, carries, authed, pending,
          excused>>
storage == <<token, user>>

TypeOK ==
    /\ cookie \in Flows \cup {None}
    /\ token \in Flows \cup {None}
    /\ user \in Flows \cup {None, Unknown}
    /\ expired \subseteq Flows /\ undecodable \subseteq Flows
    /\ flows \in 0 .. MaxFlows
    /\ at \in [Tabs -> {"blank", "loading", "app", "google", "callback",
                        "refused", "failed"}]
    /\ carries \in [Tabs -> Flows \cup {None}]
    /\ \A t \in Tabs : at[t] = "app" => carries[t] = None
    /\ authed \in [Tabs -> BOOLEAN]
    /\ pending \subseteq {t \in Tabs : at[t] = "app"}
    /\ excused \subseteq Flows

Init ==
    /\ cookie = None
    /\ token = None
    /\ user = None
    /\ expired = {} /\ undecodable = {}
    /\ flows = 0
    /\ at = [t \in Tabs |-> "blank"]
    /\ carries = [t \in Tabs |-> None]
    /\ authed = [t \in Tabs |-> FALSE]
    /\ pending = {}
    /\ excused = {}

Go(t, where, with) ==
    /\ at' = [at EXCEPT ![t] = where]
    /\ carries' = [carries EXCEPT ![t] = with]

\* Tab t leaves the app, if it ran it, for another page.
Unload(t) ==
    /\ authed' = [authed EXCEPT ![t] = FALSE]
    /\ pending' = pending \ {t}

\* localStorage.setItem and removeItem: a change is told to the other tabs.
Store(t, new) ==
    /\ token' = new
    /\ pending' = (pending \ {t}) \cup
                     {o \in Tabs \ {t} : at[o] = "app" /\ new # token}

\* What the payload of a token says, with the placeholder for one that fails.
Decoded(new) == IF new \in undecodable THEN Unknown ELSE new

SetToken(t, new) ==
    /\ Store(t, new)
    /\ user' = Decoded(new)

ClearAuth(t) ==
    /\ Store(t, None)
    /\ user' = None

HasExpired == token \in expired \ undecodable

\* setAuthed(isAuthenticated()) in tab t, which removes an expired token, and
\* says no to one it cannot decode.
Recheck_KeepsExpired(t) ==
    /\ authed' = [authed EXCEPT ![t] = token \notin {None} \cup expired \cup undecodable]
    /\ pending' = pending \ {t}
    /\ UNCHANGED storage
Recheck_NoExpiry(t) ==
    /\ authed' = [authed EXCEPT ![t] = token \notin {None} \cup undecodable]
    /\ pending' = pending \ {t}
    /\ UNCHANGED storage
Recheck(t) ==
    /\ authed' = [authed EXCEPT ![t] = token \notin {None} \cup expired \cup undecodable]
    /\ \/ HasExpired /\ ClearAuth(t)
       \/ ~HasExpired /\ pending' = pending \ {t} /\ UNCHANGED storage

\* The user opens the app, reloads it, or comes back to it from another page.
Open(t) ==
    /\ at[t] \in {"blank", "app", "google", "refused", "failed"}
    /\ Go(t, "loading", None)
    /\ Unload(t)
    /\ UNCHANGED <<cookie, storage, tokens, flows, excused>>

\* The app's first effect: a token in the URL is stored and stripped from it;
\* without one the stored token decides.
Load(t) ==
    /\ at[t] = "loading"
    /\ Go(t, "app", None)
    /\ \/ /\ carries[t] # None
          /\ SetToken(t, carries[t])
          /\ authed' = [authed EXCEPT ![t] = TRUE]
       \/ carries[t] = None /\ Recheck(t)
    /\ UNCHANGED <<cookie, tokens, flows, excused>>

\* onStorage.
StorageEvent_Deaf(t) ==
    /\ t \in pending
    /\ pending' = pending \ {t}
    /\ UNCHANGED <<cookie, storage, tokens, flows, at, carries, authed, excused>>
StorageEvent(t) ==
    /\ t \in pending
    /\ Recheck(t)
    /\ UNCHANGED <<cookie, tokens, flows, at, carries, excused>>

\* The sidebar's UserSection, with the menu to sign out, is there.
UserSection(t) == at[t] = "app" /\ authed[t]

\* logout
Logout(t) ==
    /\ UserSection(t)
    /\ ClearAuth(t)
    /\ authed' = [authed EXCEPT ![t] = FALSE]
    /\ Go(t, "loading", None)
    /\ UNCHANGED <<cookie, tokens, flows, excused>>

\* The flows that wait for Google or for the gateway.
Underway == {carries[t] : t \in {t \in Tabs : at[t] \in {"google", "callback"}}}

\* GoogleLogin: a new state in the cookie and in the URL of the consent page.
GoogleLogin_KeepsCookie ==
    /\ flows' = flows + 1
    /\ cookie' = IF cookie = None THEN flows + 1 ELSE cookie
GoogleLogin ==
    /\ flows' = flows + 1
    /\ cookie' = flows + 1

\* What the tab shows: the login page with its button, or the app.
LoginShown(t) == at[t] = "app" /\ ~authed[t]

\* handleGoogleLogin
Login(t) ==
    /\ LoginShown(t)
    /\ flows < MaxFlows
    /\ GoogleLogin
    /\ Go(t, "google", flows + 1)
    /\ excused' = excused \cup
                     (IF Underway = {} THEN {} ELSE Underway \cup {flows + 1})
    /\ Unload(t)
    /\ UNCHANGED <<storage, tokens>>

\* randomState fails: no cookie is set.
LoginFails(t) ==
    /\ LoginShown(t)
    /\ Go(t, "failed", None)
    /\ Unload(t)
    /\ UNCHANGED <<cookie, storage, tokens, flows, excused>>

\* Google sends the browser to GoogleCallback, which compares the state with the
\* cookie the request came with.
Return(t) ==
    /\ at[t] = "google"
    /\ Go(t, IF cookie = carries[t] THEN "callback" ELSE "refused", carries[t])
    /\ UNCHANGED <<cookie, storage, tokens, flows, authed, pending, excused>>

\* The answer of GoogleCallback. It removes the cookie, whichever flow's it is
\* by then, and leads to the app with a token, to the app without one (the user
\* declined), or to an error page (the exchange, the profile or the signing).
Answer(t) ==
    /\ at[t] = "callback"
    /\ cookie' = None
    /\ \/ /\ Go(t, "loading", carries[t])
          /\ undecodable' \in {undecodable, undecodable \cup {carries[t]}}
       \/ Go(t, "loading", None) /\ UNCHANGED undecodable
       \/ Go(t, "failed", None) /\ UNCHANGED undecodable
    /\ UNCHANGED <<storage, expired, flows, authed, pending, excused>>

\* The ten minutes of the cookie are over.
CookieExpires ==
    /\ cookie # None
    /\ excused' = excused \cup {cookie}
    /\ cookie' = None
    /\ UNCHANGED <<storage, tokens, flows, at, carries, authed, pending>>

\* The 24 hours of the stored token are over. (One still in a URL is seconds old.)
TokenExpires ==
    /\ token # None /\ token \notin expired
    /\ expired' = expired \cup {token}
    /\ UNCHANGED <<cookie, storage, undecodable, flows, at, carries, authed,
                  pending, excused>>

Next ==
    \/ \E t \in Tabs :
          \/ Open(t) \/ Load(t) \/ StorageEvent(t) \/ Logout(t)
          \/ Login(t) \/ LoginFails(t) \/ Return(t) \/ Answer(t)
    \/ CookieExpires
    \/ TokenExpires

Spec == Init /\ [][Next]_vars

\* The browser loads what it was sent to, and delivers its storage events.
Fairness == \A t \in Tabs : WF_vars(Load(t)) /\ WF_vars(StorageEvent(t))

FairSpec == Spec /\ Fairness

\* App.jsx:59, :70-76. A tab with no storage event to come shows the app exactly
\* when a token is stored: no tab is signed in alone, none is left behind. (A
\* token that cannot be decoded parts them: the tab it came to shows the app
\* until it is reloaded, the others do not, though auth.js:60 says they would.)
TabsAgree ==
    \A t \in Tabs :
        at[t] = "app" /\ t \notin pending /\ token \notin undecodable
            => (authed[t] <=> token # None)

\* auth.js:18-35, :92-95. The cached user is the one the token says, whichever
\* tabs sign in, sign out and find the token expired.
UserIsTokens == user = Decoded(token)

\* auth_handler.go:81-97. The state check turns a flow down only when another
\* flow overlapped it, for they share one cookie, or the cookie had expired.
RefusedForAReason ==
    \A t \in Tabs : at[t] = "refused" => carries[t] \in excused

\* auth.js:64-79, App.jsx:33-46. No step shows the app in a tab that did not show
\* it while the token then stored is none or has expired.
OnlyFreshTokenOpens ==
    [][\A t \in Tabs : ~authed[t] /\ authed'[t]
                           => token' # None /\ token' \notin expired']_vars

\* App.jsx:69-76. Signing out in one tab reaches the others, unless somebody
\* signs in again first.
LogoutReachesAll ==
    \A t \in Tabs : (token = None /\ authed[t]) ~> (~authed[t] \/ token # None)
=============================================================================
