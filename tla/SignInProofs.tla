----------------------------- MODULE SignInProofs -----------------------------
(***************************************************************************)
(* Proofs about SignIn, for any number of tabs and of flows. That signing  *)
(* out reaches the other tabs is a temporal property and stays with TLC.   *)
(***************************************************************************)
EXTENDS SignIn, TLAPS

\* A tab that goes to Google, or comes back, carries the flow it is in.
InFlow(t) == at[t] \in {"google", "callback"}

\* Flows are numbered one after the other, and each is with one tab at most. One
\* that a tab carries has not been stored yet, so it cannot have expired.
FlowsInv ==
    /\ \A t \in Tabs : carries[t] <= flows /\ (InFlow(t) => carries[t] # None)
    /\ token <= flows
    /\ \A t, o \in Tabs : t # o /\ carries[t] # None => carries[t] # carries[o]
    /\ \A t \in Tabs : carries[t] # None => carries[t] # token /\ carries[t] \notin expired
    /\ \A f \in expired : f <= flows

\* The cookie of a flow is overwritten or removed only when the flow is excused.
ExcuseInv ==
    /\ \A t \in Tabs : at[t] = "google" => carries[t] \in excused \/ cookie = carries[t]
    /\ \A t, o \in Tabs : t # o /\ InFlow(t) /\ InFlow(o) => carries[t] \in excused
    /\ RefusedForAReason

IInv == TypeOK /\ FlowsInv /\ ExcuseInv /\ TabsAgree /\ UserIsTokens

Place == {"blank", "loading", "app", "google", "callback", "refused", "failed"}

LEMMA Numbers == Flows \subseteq Nat /\ None \notin Flows /\ None \in Nat /\ Unknown \notin Flows
BY MaxFlowsAssumption DEF Flows, None, Unknown

\* Where a tab is after it went somewhere.
LEMMA GoTypes ==
    ASSUME TypeOK, NEW t \in Tabs, NEW where \in Place, NEW with \in Flows \cup {None},
           Go(t, where, with), where = "app" => with = None
    PROVE  /\ at' \in [Tabs -> Place]
           /\ carries' \in [Tabs -> Flows \cup {None}]
           /\ at'[t] = where /\ carries'[t] = with
           /\ \A o \in Tabs : o # t => at'[o] = at[o] /\ carries'[o] = carries[o]
           /\ \A o \in Tabs : at'[o] = "app" => carries'[o] = None
BY DEF TypeOK, Go, Place

\* A tab that leaves the app, or was not there.
LEMMA UnloadTypes ==
    ASSUME TypeOK, NEW t \in Tabs, Unload(t),
           \A o \in Tabs : o # t => at'[o] = at[o]
    PROVE  /\ authed' \in [Tabs -> BOOLEAN]
           /\ pending' \subseteq {o \in Tabs : at'[o] = "app"}
           /\ ~authed'[t] /\ t \notin pending'
           /\ \A o \in Tabs : o # t => authed'[o] = authed[o] /\ (o \in pending' <=> o \in pending)
BY DEF TypeOK, Unload

\* What a change of the stored token does.
LEMMA StoreTypes ==
    ASSUME TypeOK, NEW t \in Tabs, NEW new \in Flows \cup {None}, Store(t, new),
           \A o \in Tabs : o # t => at'[o] = at[o]
    PROVE  /\ token' = new
           /\ pending' \subseteq {o \in Tabs : at'[o] = "app"}
           /\ t \notin pending'
           /\ \A o \in Tabs : o # t /\ at[o] = "app" /\ o \notin pending' =>
                                  o \notin pending /\ token' = token
BY DEF TypeOK, Store

\* What a look at the stored token does, in a tab that shows the app after it.
LEMMA RecheckTypes ==
    ASSUME TypeOK, UserIsTokens, NEW t \in Tabs, Recheck(t), undecodable' = undecodable,
           at'[t] = "app", \A o \in Tabs : o # t => at'[o] = at[o]
    PROVE  /\ token' \in {token, None} /\ UserIsTokens'
           /\ user' \in Flows \cup {None, Unknown}
           /\ authed' \in [Tabs -> BOOLEAN]
           /\ pending' \subseteq {o \in Tabs : at'[o] = "app"}
           /\ token' \notin undecodable => (authed'[t] <=> token' # None)
           /\ authed'[t] => token' = token /\ token # None /\ token \notin expired
           /\ \A o \in Tabs : o # t => authed'[o] = authed[o]
           /\ \A o \in Tabs : o # t /\ at[o] = "app" /\ o \notin pending' =>
                                  o \notin pending /\ token' = token
<1>1. /\ authed' \in [Tabs -> BOOLEAN]
      /\ authed'[t] <=> token \notin {None} \cup expired \cup undecodable
      /\ \A o \in Tabs : o # t => authed'[o] = authed[o]
    BY DEF TypeOK, Recheck
<1>2. CASE HasExpired /\ ClearAuth(t)
    <2>1. /\ token' = None /\ user' = None
          /\ pending' \subseteq {o \in Tabs : at'[o] = "app"}
          /\ \A o \in Tabs : o # t /\ at[o] = "app" /\ o \notin pending' =>
                                 o \notin pending /\ token' = token
        BY <1>2, StoreTypes DEF ClearAuth
    <2>2. token \in expired /\ None \notin undecodable
        BY <1>2, Numbers DEF HasExpired, TypeOK
    <2>3. UserIsTokens'
        BY <2>1, <2>2 DEF UserIsTokens, Decoded
    <2> QED BY <1>1, <2>1, <2>2, <2>3
<1>3. CASE ~HasExpired /\ pending' = pending \ {t} /\ UNCHANGED storage
    <2>1. token' = token /\ user' = user
        BY <1>3 DEF storage
    <2>2. UserIsTokens'
        BY <2>1 DEF UserIsTokens, Decoded
    <2>3. token \in expired => token \in undecodable
        BY <1>3 DEF HasExpired
    <2> QED BY <1>1, <1>3, <2>1, <2>2, <2>3 DEF TypeOK
<1> QED BY <1>2, <1>3 DEF Recheck

\* The numbers stay in order while no flow begins and no token expires.
LEMMA FlowsKept ==
    ASSUME TypeOK, FlowsInv,
           \A o \in Tabs : carries'[o] \in {carries[o], None},
           \A o \in Tabs : InFlow(o)' => InFlow(o) /\ carries'[o] = carries[o],
           flows' = flows, expired' = expired, token' <= flows,
           \A o \in Tabs : carries'[o] # None => carries'[o] # token'
    PROVE  FlowsInv'
<1>1. \A o \in Tabs : carries'[o] <= flows'
    BY Numbers DEF FlowsInv, TypeOK, None
<1>2. \A o \in Tabs : InFlow(o)' => carries'[o] # None
    BY DEF FlowsInv
<1>3. \A t, o \in Tabs : t # o /\ carries'[t] # None => carries'[t] # carries'[o]
    BY DEF FlowsInv
<1>4. \A o \in Tabs : carries'[o] # None => carries'[o] \notin expired'
    BY DEF FlowsInv
<1>5. \A f \in expired' : f <= flows'
    BY DEF FlowsInv
<1> QED BY <1>1, <1>2, <1>3, <1>4, <1>5 DEF FlowsInv, InFlow

\* Open, LoginFails: a tab goes elsewhere and carries nothing.
LEMMA LeaveKeeps ==
    ASSUME IInv, NEW t \in Tabs, NEW where \in {"loading", "failed"},
           Go(t, where, None), Unload(t),
           UNCHANGED <<cookie, storage, tokens, flows, excused>>
    PROVE  IInv'
<1> USE DEF IInv
<1>1. /\ where \in Place /\ where # "app" /\ where # "google" /\ where # "callback"
      /\ where # "refused"
    BY DEF Place
<1>2. /\ at' \in [Tabs -> Place] /\ carries' \in [Tabs -> Flows \cup {None}]
      /\ at'[t] = where /\ carries'[t] = None
      /\ \A o \in Tabs : o # t => at'[o] = at[o] /\ carries'[o] = carries[o]
      /\ \A o \in Tabs : at'[o] = "app" => carries'[o] = None
    BY <1>1, GoTypes
<1>3. /\ authed' \in [Tabs -> BOOLEAN]
      /\ pending' \subseteq {o \in Tabs : at'[o] = "app"}
      /\ ~authed'[t] /\ t \notin pending'
      /\ \A o \in Tabs : o # t => authed'[o] = authed[o] /\ (o \in pending' <=> o \in pending)
    BY <1>2, UnloadTypes
<1>4. /\ cookie' = cookie /\ token' = token /\ user' = user /\ expired' = expired
      /\ undecodable' = undecodable /\ flows' = flows /\ excused' = excused
    BY DEF storage, tokens
<1>5. TypeOK'
    BY <1>2, <1>3, <1>4 DEF TypeOK, Place
<1>6. FlowsInv'
    <2>1. token' <= flows /\ \A o \in Tabs : carries'[o] # None => carries'[o] # token'
        BY <1>2, <1>4 DEF FlowsInv
    <2>2. \A o \in Tabs : InFlow(o)' => InFlow(o) /\ carries'[o] = carries[o]
        BY <1>1, <1>2 DEF InFlow
    <2> QED BY <1>2, <1>4, <2>1, <2>2, FlowsKept
<1>7. ExcuseInv'
    BY <1>1, <1>2, <1>4 DEF ExcuseInv, RefusedForAReason, InFlow
<1>8. TabsAgree'
    BY <1>1, <1>2, <1>3, <1>4 DEF TabsAgree
<1>9. UserIsTokens'
    BY <1>4 DEF UserIsTokens, Decoded
<1> QED BY <1>5, <1>6, <1>7, <1>8, <1>9

\* The token of a URL is stored, or the stored one is looked at.
LEMMA LoadKeeps ==
    ASSUME IInv, NEW t \in Tabs, Load(t)
    PROVE  IInv'
<1> USE DEF IInv
<1>1. at[t] = "loading" /\ Go(t, "app", None)
    BY DEF Load
<1>2. /\ at' \in [Tabs -> Place] /\ carries' \in [Tabs -> Flows \cup {None}]
      /\ at'[t] = "app" /\ carries'[t] = None
      /\ \A o \in Tabs : o # t => at'[o] = at[o] /\ carries'[o] = carries[o]
      /\ \A o \in Tabs : at'[o] = "app" => carries'[o] = None
    BY <1>1, GoTypes DEF Place
<1>3. /\ cookie' = cookie /\ expired' = expired /\ undecodable' = undecodable
      /\ flows' = flows /\ excused' = excused
    BY DEF Load, tokens
<1>4. ExcuseInv'
    BY <1>2, <1>3 DEF ExcuseInv, RefusedForAReason, InFlow
<1>5. CASE carries[t] # None /\ SetToken(t, carries[t]) /\ authed' = [authed EXCEPT ![t] = TRUE]
    <2>1. carries[t] \in Flows
        BY <1>5 DEF TypeOK
    <2>2. /\ token' = carries[t] /\ user' = Decoded(carries[t])
          /\ pending' \subseteq {o \in Tabs : at'[o] = "app"} /\ t \notin pending'
          /\ \A o \in Tabs : o # t /\ at[o] = "app" /\ o \notin pending' =>
                                 o \notin pending /\ token' = token
        BY <1>2, <1>5, <2>1, StoreTypes DEF SetToken
    <2>3. /\ authed' \in [Tabs -> BOOLEAN] /\ authed'[t]
          /\ \A o \in Tabs : o # t => authed'[o] = authed[o]
        BY <1>5 DEF TypeOK
    <2>4. TypeOK'
        BY <1>2, <1>3, <2>1, <2>2, <2>3 DEF TypeOK, Place, Decoded
    <2>5. FlowsInv'
        <3>1. token' <= flows /\ \A o \in Tabs : carries'[o] # None => carries'[o] # token'
            BY <1>2, <1>5, <2>2 DEF FlowsInv
        <3>2. \A o \in Tabs : InFlow(o)' => InFlow(o) /\ carries'[o] = carries[o]
            BY <1>2 DEF InFlow
        <3> QED BY <1>2, <1>3, <3>1, <3>2, FlowsKept
    <2>6. TabsAgree'
        BY <1>2, <1>3, <1>5, <2>2, <2>3 DEF TabsAgree
    <2>7. UserIsTokens'
        BY <1>3, <2>2 DEF UserIsTokens, Decoded
    <2> QED BY <1>4, <2>4, <2>5, <2>6, <2>7
<1>6. CASE carries[t] = None /\ Recheck(t)
    <2>1. /\ token' \in {token, None} /\ UserIsTokens'
          /\ user' \in Flows \cup {None, Unknown}
          /\ authed' \in [Tabs -> BOOLEAN]
          /\ pending' \subseteq {o \in Tabs : at'[o] = "app"}
          /\ token' \notin undecodable => (authed'[t] <=> token' # None)
          /\ \A o \in Tabs : o # t => authed'[o] = authed[o]
          /\ \A o \in Tabs : o # t /\ at[o] = "app" /\ o \notin pending' =>
                                 o \notin pending /\ token' = token
        BY <1>2, <1>3, <1>6, RecheckTypes
    <2>2. TypeOK'
        BY <1>2, <1>3, <2>1 DEF TypeOK, Place
    <2>3. FlowsInv'
        BY <1>2, <1>3, <1>6, <2>1, Numbers DEF FlowsInv, InFlow, TypeOK
    <2>4. TabsAgree'
        BY <1>2, <1>3, <2>1 DEF TabsAgree
    <2> QED BY <1>4, <2>1, <2>2, <2>3, <2>4
<1> QED BY <1>5, <1>6 DEF Load

LEMMA StorageEventKeeps ==
    ASSUME IInv, NEW t \in Tabs, StorageEvent(t)
    PROVE  IInv'
<1> USE DEF IInv
<1>1. /\ at[t] = "app" /\ at' = at /\ carries' = carries
      /\ cookie' = cookie /\ expired' = expired /\ undecodable' = undecodable
      /\ flows' = flows /\ excused' = excused
    BY DEF StorageEvent, tokens, TypeOK
<1>2. /\ token' \in {token, None} /\ UserIsTokens'
      /\ user' \in Flows \cup {None, Unknown}
      /\ authed' \in [Tabs -> BOOLEAN]
      /\ pending' \subseteq {o \in Tabs : at'[o] = "app"}
      /\ token' \notin undecodable => (authed'[t] <=> token' # None)
      /\ \A o \in Tabs : o # t => authed'[o] = authed[o]
      /\ \A o \in Tabs : o # t /\ at[o] = "app" /\ o \notin pending' =>
                             o \notin pending /\ token' = token
    BY <1>1, RecheckTypes DEF StorageEvent
<1>3. TypeOK'
    BY <1>1, <1>2 DEF TypeOK
<1>4. FlowsInv'
    BY <1>1, <1>2, Numbers DEF FlowsInv, InFlow, TypeOK
<1>5. ExcuseInv'
    BY <1>1 DEF ExcuseInv, RefusedForAReason, InFlow
<1>6. TabsAgree'
    BY <1>1, <1>2 DEF TabsAgree
<1> QED BY <1>2, <1>3, <1>4, <1>5, <1>6

LEMMA LogoutKeeps ==
    ASSUME IInv, NEW t \in Tabs, Logout(t)
    PROVE  IInv'
<1> USE DEF IInv
<1>1. Go(t, "loading", None) /\ at[t] = "app"
    BY DEF Logout, UserSection
<1>2. /\ at' \in [Tabs -> Place] /\ carries' \in [Tabs -> Flows \cup {None}]
      /\ at'[t] = "loading" /\ carries'[t] = None
      /\ \A o \in Tabs : o # t => at'[o] = at[o] /\ carries'[o] = carries[o]
      /\ \A o \in Tabs : at'[o] = "app" => carries'[o] = None
    BY <1>1, GoTypes DEF Place
<1>3. /\ cookie' = cookie /\ expired' = expired /\ undecodable' = undecodable
      /\ flows' = flows /\ excused' = excused
    BY DEF Logout, UserSection, tokens
<1>4. /\ token' = None /\ user' = None
      /\ pending' \subseteq {o \in Tabs : at'[o] = "app"}
      /\ \A o \in Tabs : o # t /\ at[o] = "app" /\ o \notin pending' =>
                             o \notin pending /\ token' = token
    BY <1>2, StoreTypes DEF Logout, UserSection, ClearAuth
<1>5. /\ authed' \in [Tabs -> BOOLEAN]
      /\ \A o \in Tabs : o # t => authed'[o] = authed[o]
    BY DEF Logout, UserSection, TypeOK
<1>6. TypeOK'
    BY <1>2, <1>3, <1>4, <1>5 DEF TypeOK, Place
<1>7. FlowsInv'
    <2>1. token' <= flows /\ \A o \in Tabs : carries'[o] # None => carries'[o] # token'
        BY <1>4, Numbers DEF TypeOK, None
    <2>2. \A o \in Tabs : InFlow(o)' => InFlow(o) /\ carries'[o] = carries[o]
        BY <1>2 DEF InFlow
    <2> QED BY <1>2, <1>3, <2>1, <2>2, FlowsKept
<1>8. ExcuseInv'
    BY <1>2, <1>3 DEF ExcuseInv, RefusedForAReason, InFlow
<1>9. TabsAgree'
    BY <1>2, <1>3, <1>4, <1>5 DEF TabsAgree
<1>10. UserIsTokens'
    BY <1>3, <1>4, Numbers DEF UserIsTokens, Decoded, TypeOK
<1> QED BY <1>6, <1>7, <1>8, <1>9, <1>10

\* A new flow: it and those under way are excused, unless it is alone.
LEMMA LoginKeeps ==
    ASSUME IInv, NEW t \in Tabs, Login(t)
    PROVE  IInv'
<1> USE DEF IInv
<1>1. /\ at[t] = "app" /\ flows < MaxFlows
      /\ flows' = flows + 1 /\ cookie' = flows + 1
      /\ Go(t, "google", flows + 1) /\ Unload(t)
      /\ token' = token /\ user' = user /\ expired' = expired
      /\ undecodable' = undecodable
      /\ excused' = excused \cup (IF Underway = {} THEN {} ELSE Underway \cup {flows + 1})
    BY DEF Login, LoginShown, GoogleLogin, storage, tokens
<1>2. flows \in Nat /\ flows + 1 \in Flows
    BY <1>1, MaxFlowsAssumption DEF TypeOK, Flows
<1>3. /\ at' \in [Tabs -> Place] /\ carries' \in [Tabs -> Flows \cup {None}]
      /\ at'[t] = "google" /\ carries'[t] = flows + 1
      /\ \A o \in Tabs : o # t => at'[o] = at[o] /\ carries'[o] = carries[o]
      /\ \A o \in Tabs : at'[o] = "app" => carries'[o] = None
    BY <1>1, <1>2, GoTypes DEF Place
<1>4. /\ authed' \in [Tabs -> BOOLEAN]
      /\ pending' \subseteq {o \in Tabs : at'[o] = "app"}
      /\ \A o \in Tabs : o # t => authed'[o] = authed[o] /\ (o \in pending' <=> o \in pending)
    BY <1>1, <1>3, UnloadTypes
<1>5. \A o \in Tabs : InFlow(o) => carries[o] \in Underway /\ carries[o] \in Flows
    BY DEF Underway, InFlow, FlowsInv, TypeOK
<1>6. Underway \subseteq Flows
    BY DEF Underway, InFlow, FlowsInv, TypeOK
<1>7. TypeOK'
    BY <1>1, <1>2, <1>3, <1>4, <1>6 DEF TypeOK, Place, Flows
<1>8. \A o \in Tabs : carries[o] \in Nat /\ carries[o] <= flows
    BY Numbers DEF FlowsInv, TypeOK
<1>9. FlowsInv'
    <2>1. \A o \in Tabs : carries'[o] <= flows' /\ (InFlow(o)' => carries'[o] # None)
        BY <1>1, <1>2, <1>3, <1>8 DEF FlowsInv, InFlow, None
    <2>2. token' <= flows' /\ token' # flows + 1
        BY <1>1, <1>2, Numbers DEF FlowsInv, TypeOK
    <2>3. \A o, p \in Tabs : o # p /\ carries'[o] # None => carries'[o] # carries'[p]
        BY <1>2, <1>3, <1>8 DEF FlowsInv
    <2>4. flows + 1 \notin expired /\ \A f \in expired' : f <= flows'
        BY <1>1, <1>2, Numbers DEF FlowsInv, TypeOK
    <2>5. \A o \in Tabs : carries'[o] # None => carries'[o] # token' /\ carries'[o] \notin expired'
        BY <1>1, <1>3, <2>2, <2>4 DEF FlowsInv
    <2> QED BY <2>1, <2>2, <2>3, <2>4, <2>5 DEF FlowsInv, InFlow
<1>10. ExcuseInv'
    <2>1. ASSUME NEW o \in Tabs, at'[o] = "google"
          PROVE  carries'[o] \in excused' \/ cookie' = carries'[o]
        BY <1>1, <1>3, <1>5, <2>1 DEF InFlow
    <2>2. ASSUME NEW o \in Tabs, NEW p \in Tabs, o # p, InFlow(o)', InFlow(p)'
          PROVE  carries'[o] \in excused'
        BY <1>1, <1>3, <1>5, <2>2 DEF InFlow
    <2>3. RefusedForAReason'
        BY <1>1, <1>3 DEF ExcuseInv, RefusedForAReason
    <2> QED BY <2>1, <2>2, <2>3 DEF ExcuseInv, InFlow
<1>11. TabsAgree'
    BY <1>1, <1>3, <1>4 DEF TabsAgree
<1>12. UserIsTokens'
    BY <1>1 DEF UserIsTokens, Decoded
<1> QED BY <1>7, <1>9, <1>10, <1>11, <1>12

\* Google sends the browser back, and the state is compared with the cookie.
LEMMA ReturnKeeps ==
    ASSUME IInv, NEW t \in Tabs, Return(t)
    PROVE  IInv'
<1> USE DEF IInv
<1>1. PICK where \in {"callback", "refused"} :
        /\ Go(t, where, carries[t])
        /\ where = "refused" => cookie # carries[t]
    BY DEF Return
<1>2. /\ at[t] = "google" /\ cookie' = cookie /\ token' = token /\ user' = user
      /\ expired' = expired /\ undecodable' = undecodable /\ flows' = flows
      /\ authed' = authed /\ pending' = pending /\ excused' = excused
    BY DEF Return, storage, tokens
<1>3. /\ at' \in [Tabs -> Place] /\ at'[t] = where /\ carries' = carries
      /\ \A o \in Tabs : o # t => at'[o] = at[o]
    BY <1>1 DEF Go, TypeOK, Place
<1>4. where # "app" /\ where # "google"
    BY <1>1
<1>5. TypeOK'
    BY <1>2, <1>3, <1>4 DEF TypeOK, Place
<1>6. FlowsInv'
    <2>1. \A o \in Tabs : InFlow(o)' => InFlow(o)
        BY <1>2, <1>3 DEF InFlow
    <2> QED BY <1>2, <1>3, <2>1, FlowsKept DEF FlowsInv
<1>7. ExcuseInv'
    <2>1. \A o \in Tabs : at'[o] = "google" => carries'[o] \in excused' \/ cookie' = carries'[o]
        BY <1>2, <1>3, <1>4 DEF ExcuseInv
    <2>2. \A o, p \in Tabs : o # p /\ InFlow(o)' /\ InFlow(p)' => carries'[o] \in excused'
        BY <1>2, <1>3 DEF ExcuseInv, InFlow
    <2>3. RefusedForAReason'
        BY <1>1, <1>2, <1>3 DEF ExcuseInv, RefusedForAReason
    <2> QED BY <2>1, <2>2, <2>3 DEF ExcuseInv, InFlow
<1>8. TabsAgree' /\ UserIsTokens'
    BY <1>2, <1>3, <1>4 DEF TabsAgree, UserIsTokens, Decoded
<1> QED BY <1>5, <1>6, <1>7, <1>8

\* The answer to a callback: the cookie is gone, and the tabs that were under way
\* beside this one are excused already.
LEMMA AnswerKeeps ==
    ASSUME IInv, NEW t \in Tabs, Answer(t)
    PROVE  IInv'
<1> USE DEF IInv
<1>1. /\ at[t] = "callback" /\ cookie' = None /\ token' = token /\ user' = user
      /\ expired' = expired /\ flows' = flows
      /\ authed' = authed /\ pending' = pending /\ excused' = excused
    BY DEF Answer, storage
<1>2. PICK where \in {"loading", "failed"}, with \in {carries[t], None} :
        /\ Go(t, where, with)
        /\ undecodable' \in {undecodable, undecodable \cup {carries[t]}}
    BY DEF Answer
<1>3. carries[t] \in Flows /\ carries[t] # token
    BY <1>1 DEF FlowsInv, InFlow, TypeOK
<1>4. where # "app" /\ where # "google" /\ where # "callback" /\ where # "refused"
    BY <1>2
<1>5. /\ at' \in [Tabs -> Place] /\ carries' \in [Tabs -> Flows \cup {None}]
      /\ at'[t] = where /\ carries'[t] = with
      /\ \A o \in Tabs : o # t => at'[o] = at[o] /\ carries'[o] = carries[o]
      /\ \A o \in Tabs : at'[o] = "app" => carries'[o] = None
    BY <1>2, <1>3, <1>4, GoTypes DEF Place
<1>6. undecodable \subseteq undecodable' /\ undecodable' \subseteq Flows
    BY <1>2, <1>3 DEF TypeOK
<1>7. t \notin pending
    BY <1>1 DEF TypeOK
<1>8. TypeOK'
    BY <1>1, <1>4, <1>5, <1>6, <1>7 DEF TypeOK, Place
<1>9. FlowsInv'
    <2>1. token' <= flows /\ \A o \in Tabs : carries'[o] # None => carries'[o] # token'
        BY <1>1, <1>2, <1>5 DEF FlowsInv
    <2>2. \A o \in Tabs : InFlow(o)' => InFlow(o) /\ carries'[o] = carries[o]
        BY <1>4, <1>5 DEF InFlow
    <2> QED BY <1>1, <1>2, <1>5, <2>1, <2>2, FlowsKept
<1>10. ExcuseInv'
    <2>1. ASSUME NEW o \in Tabs, at'[o] = "google"
          PROVE  carries'[o] \in excused'
        BY <1>1, <1>4, <1>5, <2>1 DEF ExcuseInv, InFlow
    <2>2. \A o, p \in Tabs : o # p /\ InFlow(o)' /\ InFlow(p)' => carries'[o] \in excused'
        BY <1>1, <1>4, <1>5 DEF ExcuseInv, InFlow
    <2>3. RefusedForAReason'
        BY <1>1, <1>4, <1>5 DEF ExcuseInv, RefusedForAReason
    <2> QED BY <2>1, <2>2, <2>3 DEF ExcuseInv, InFlow
<1>11. TabsAgree'
    BY <1>1, <1>4, <1>5, <1>6 DEF TabsAgree
<1>12. UserIsTokens'
    <2>1. token \in undecodable' <=> token \in undecodable
        BY <1>2, <1>3
    <2> QED BY <1>1, <2>1 DEF UserIsTokens, Decoded
<1> QED BY <1>8, <1>9, <1>10, <1>11, <1>12

\* Time passes.
LEMMA CookieExpiresKeeps == ASSUME IInv, CookieExpires PROVE IInv'
<1> USE DEF IInv
<1>1. /\ cookie # None /\ cookie' = None /\ excused' = excused \cup {cookie}
      /\ token' = token /\ user' = user /\ expired' = expired
      /\ undecodable' = undecodable /\ flows' = flows /\ at' = at
      /\ carries' = carries /\ authed' = authed /\ pending' = pending
    BY DEF CookieExpires, storage, tokens
<1>2. TypeOK'
    BY <1>1 DEF TypeOK
<1>3. FlowsInv'
    BY <1>1 DEF FlowsInv, InFlow
<1>4. ExcuseInv'
    BY <1>1 DEF ExcuseInv, RefusedForAReason, InFlow
<1>5. TabsAgree' /\ UserIsTokens'
    BY <1>1 DEF TabsAgree, UserIsTokens, Decoded
<1> QED BY <1>2, <1>3, <1>4, <1>5

LEMMA TokenExpiresKeeps == ASSUME IInv, TokenExpires PROVE IInv'
<1> USE DEF IInv
<1>1. /\ token # None /\ expired' = expired \cup {token}
      /\ token' = token /\ user' = user /\ cookie' = cookie /\ excused' = excused
      /\ undecodable' = undecodable /\ flows' = flows /\ at' = at
      /\ carries' = carries /\ authed' = authed /\ pending' = pending
    BY DEF TokenExpires, storage
<1>2. TypeOK'
    BY <1>1 DEF TypeOK
<1>3. FlowsInv'
    BY <1>1 DEF FlowsInv, InFlow
<1>4. ExcuseInv'
    BY <1>1 DEF ExcuseInv, RefusedForAReason, InFlow
<1>5. TabsAgree' /\ UserIsTokens'
    BY <1>1 DEF TabsAgree, UserIsTokens, Decoded
<1> QED BY <1>2, <1>3, <1>4, <1>5

LEMMA Starts == Init => IInv
<1> SUFFICES ASSUME Init PROVE IInv
    OBVIOUS
<1>1. TypeOK
    BY MaxFlowsAssumption DEF Init, TypeOK
<1>2. FlowsInv
    BY Numbers DEF Init, FlowsInv, InFlow, None
<1>3. ExcuseInv
    BY DEF Init, ExcuseInv, RefusedForAReason, InFlow
<1>4. TabsAgree /\ UserIsTokens
    BY DEF Init, TabsAgree, UserIsTokens, Decoded
<1> QED BY <1>1, <1>2, <1>3, <1>4 DEF IInv

LEMMA Steps == IInv /\ [Next]_vars => IInv'
<1> SUFFICES ASSUME IInv, [Next]_vars PROVE IInv'
    OBVIOUS
<1>1. ASSUME NEW t \in Tabs, Open(t) \/ LoginFails(t) PROVE IInv'
    BY <1>1, LeaveKeeps DEF Open, LoginFails
<1>2. ASSUME NEW t \in Tabs,
             Load(t) \/ StorageEvent(t) \/ Logout(t) \/ Login(t) \/ Return(t) \/ Answer(t)
      PROVE  IInv'
    BY <1>2, LoadKeeps, StorageEventKeeps, LogoutKeeps, LoginKeeps, ReturnKeeps, AnswerKeeps
<1>3. CASE CookieExpires \/ TokenExpires
    BY <1>3, CookieExpiresKeeps, TokenExpiresKeeps
<1>4. CASE UNCHANGED vars
    BY <1>4 DEF vars, tokens, IInv, TypeOK, FlowsInv, InFlow, ExcuseInv,
       RefusedForAReason, TabsAgree, UserIsTokens, Decoded
<1> QED BY <1>1, <1>2, <1>3, <1>4 DEF Next

LEMMA Inductive == Spec => []IInv
BY Starts, Steps, PTL DEF Spec

----------------------------------------------------------------------------
(* The theorems. *)

\* The types of the variables; a tab that runs the app has no token left in its
\* URL, and only such tabs wait for a storage event.
THEOREM TypeCorrect == Spec => []TypeOK
<1>1. IInv => TypeOK
    BY DEF IInv
<1> QED BY <1>1, Inductive, PTL

\* A tab with no storage event to come shows the app exactly when a token that can
\* be decoded is stored, however many tabs sign in and out.
THEOREM TabsInAgreement == Spec => []TabsAgree
<1>1. IInv => TabsAgree
    BY DEF IInv
<1> QED BY <1>1, Inductive, PTL

\* The cached user is always the one of the stored token.
THEOREM UserOfToken == Spec => []UserIsTokens
<1>1. IInv => UserIsTokens
    BY DEF IInv
<1> QED BY <1>1, Inductive, PTL

\* The state check turns down no flow that was alone and in time.
THEOREM RefusalsExcused == Spec => []RefusedForAReason
<1>1. IInv => RefusedForAReason
    BY DEF IInv, ExcuseInv
<1> QED BY <1>1, Inductive, PTL

\* No step of any tab shows the app on no token, or on one that has expired.
THEOREM OpensOnFreshToken == Spec => OnlyFreshTokenOpens
<1>1. ASSUME IInv, [Next]_vars, NEW t \in Tabs, ~authed[t], authed'[t]
      PROVE  token' # None /\ token' \notin expired'
    <2> USE DEF IInv
    <2>1. PICK o \in Tabs : Load(o) \/ StorageEvent(o)
        <3>1. ASSUME NEW o \in Tabs,
                     Open(o) \/ Login(o) \/ LoginFails(o) \/ Logout(o)
              PROVE  authed' = [authed EXCEPT ![o] = FALSE]
            BY <3>1 DEF Open, Login, LoginFails, Logout, Unload
        <3>2. ASSUME NEW o \in Tabs, authed' = [authed EXCEPT ![o] = FALSE] PROVE FALSE
            BY <1>1, <3>2 DEF TypeOK
        <3>3. ASSUME authed' = authed PROVE FALSE
            BY <1>1, <3>3
        <3>4. ASSUME NEW o \in Tabs, Return(o) \/ Answer(o) PROVE authed' = authed
            BY <3>4 DEF Return, Answer
        <3>5. ASSUME CookieExpires \/ TokenExpires \/ UNCHANGED vars PROVE authed' = authed
            BY <3>5 DEF CookieExpires, TokenExpires, vars
        <3> QED BY <1>1, <3>1, <3>2, <3>3, <3>4, <3>5 DEF Next
    <2>2. \A p \in Tabs : p # o => authed'[p] = authed[p]
        <3>1. PICK v : authed' = [authed EXCEPT ![o] = v]
            BY <2>1 DEF Load, StorageEvent, Recheck
        <3> QED BY <3>1 DEF TypeOK
    <2>3. t = o
        BY <1>1, <2>2
    <2>4. expired' = expired
        BY <2>1 DEF Load, StorageEvent, tokens
    <2>5. CASE carries[o] # None /\ SetToken(o, carries[o])
        <3>1. token' = carries[o]
            BY <2>5 DEF SetToken, Store
        <3> QED BY <1>1, <2>4, <2>5, <3>1 DEF FlowsInv
    <2>6. CASE Recheck(o)
        <3>1. token \notin {None} \cup expired \cup undecodable
            BY <1>1, <2>3, <2>6 DEF Recheck, TypeOK
        <3>2. token' = token
            BY <2>6, <3>1 DEF Recheck, HasExpired, storage
        <3> QED BY <2>4, <3>1, <3>2
    <2> QED BY <2>1, <2>5, <2>6 DEF Load, StorageEvent
<1>2. IInv /\ [Next]_vars =>
        [\A t \in Tabs : ~authed[t] /\ authed'[t]
                              => token' # None /\ token' \notin expired']_vars
    BY <1>1
<1> QED BY <1>2, Inductive, PTL DEF Spec, OnlyFreshTokenOpens
===============================================================================
