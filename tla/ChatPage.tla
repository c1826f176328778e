------------------------------- MODULE ChatPage -------------------------------
(***************************************************************************)
(* The chat page of the dashboard: src/dashboard/src/pages/Chat.jsx, the   *)
(* conversation store of utils/storage.js and the message bubble of        *)
(* components/ChatMessage.jsx.                                             *)
(*                                                                         *)
(* A page is one mounting of the Chat component. A second tab is another   *)
(* page, and so is the component mounted again on the way back from the    *)
(* analytics page. Each page has its own React state and refs; all pages   *)
(* share one localStorage. A turn of JavaScript, and what it does to       *)
(* localStorage, is one step.                                              *)
(*                                                                         *)
(* A stream is one call of streamChat. What it may tell the page is what   *)
(* EventFeed says: events in order, then one ending or none. An event is   *)
(* <<s, k>>, the k-th event of stream s, so that texts can be compared     *)
(* with what was streamed. A prompt is known by the number of its send.    *)
(*                                                                         *)
(* A definition named D_X is D with the mistake X in it. It is no part of  *)
(* the specification: it shows that a property can tell D from D_X.        *)
(***************************************************************************)
EXTENDS Naturals, Sequences, Filter

CONSTANTS
    Pages,        \* mountings of the Chat component, in all tabs
    MaxConvos,    \* MAX_CONVOS: 50 in the code
    QuotaFails,   \* whether localStorage.setItem may throw
    Kinds,        \* bound of the model: the kinds of events told
    MaxIds,       \* bound of the model: conversation ids made
    MaxSends,     \* bound of the model: prompts sent
    MaxEvents     \* bound of the model: events of all streams together

ASSUME MaxConvosAssumption == MaxConvos \in Nat \ {0}
ASSUME QuotaFailsAssumption == QuotaFails \in BOOLEAN
ASSUME BoundsAssumption ==
    /\ Kinds \subseteq {"content", "correction", "events"}
    /\ MaxIds \in Nat /\ MaxSends \in Nat /\ MaxEvents \in Nat

VARIABLES
    store,      \* localStorage: the conversations, most recent first
    ids,        \* conversation ids made so far
    streams,    \* history: the streams opened, each with its page, its session,
                \* the kinds of the events told so far and its state: "open",
                \* "refused" (its refusal's body is being read), "finished" (by
                \* onFinal) or "stopped" (in any other way)
    mount,      \* [page -> "unborn" | "mounted" | "gone"]
    list,       \* conversations: the page's copy of the store
    active,     \* activeId, 0 for null
    view,       \* messages
    sending,    \* sending
    session,    \* sessionRef
    current,    \* assistantIdRef and abortRef: the send they belong to, or 0
    acc         \* contentRef, correctionRef and eventsRef

vars  == <<store, ids, streams, mount, list, active, view, sending, session,
           current, acc>>
state == <<list, active, view, sending>>
refs  == <<session, current, acc>>

Events == {"content", "correction", "events"}
NoText == [kind \in Events |-> <<>>]

\* The events of one kind that stream s has told, in order.
Streamed(s, kind) ==
    LET log == streams[s].log
    IN  Kept([i \in DOMAIN log |-> <<s, i>>], {i \in DOMAIN log : log[i] = kind})

\* The events told so far, by all streams.
Told == LET told[n \in 0 .. Len(streams)] ==
                IF n = 0 THEN 0 ELSE told[n - 1] + Len(streams[n].log)
        IN  told[Len(streams)]

Live(s) == streams[s].state \in {"open", "refused"}

Mounted(p) == mount[p] = "mounted"
-----------------------------------------------------------------------------
(* storage.js                                                              *)

NewChatTitle == <<>>

\* mkTitle: the first text of a conversation, if there is any.
MkTitle(m) ==
    IF m.role = "assistant" /\ m.text["content"] = <<>> THEN NewChatTitle
                                                         ELSE <<m.role, m.send>>

\* A full store drops its last conversation; setItem may fail, silently.
Save(convos) ==
    \/ store' = SubSeq(convos, 1,
                       IF Len(convos) < MaxConvos THEN Len(convos) ELSE MaxConvos)
    \/ QuotaFails /\ store' = store

CreateConversation(id) ==
    Save(<<[id |-> id, title |-> NewChatTitle, messages |-> <<>>]>> \o store)

Found(id) == {i \in DOMAIN store : store[i].id = id}

LoadConversation(id) == store[CHOOSE i \in Found(id) : \A j \in Found(id) : i <= j]

Without(id) == Kept(store, (DOMAIN store) \ Found(id))

AppendMessage_InPlace(id, m) ==
    IF Found(id) = {}
      THEN Save(<<[id |-> id, title |-> MkTitle(m), messages |-> <<m>>]>> \o store)
      ELSE Save([i \in DOMAIN store |-> IF i \notin Found(id) THEN store[i] ELSE
                    [store[i] EXCEPT
                       !.messages = Append(@, m),
                       !.title = IF @ = NewChatTitle /\ m.role = "user"
                                   THEN MkTitle(m) ELSE @]])
AppendMessage_Copies(id, m) ==
    IF Found(id) = {}
      THEN Save(<<[id |-> id, title |-> MkTitle(m), messages |-> <<m>>]>> \o store)
      ELSE LET c == LoadConversation(id)
           IN  Save(<<[c EXCEPT !.messages = Append(@, m)]>> \o store)
\* The conversation gets the message and moves to the top. One that has been
\* dropped meanwhile comes back with this message alone.
AppendMessage(id, m) ==
    IF Found(id) = {}
      THEN Save(<<[id |-> id, title |-> MkTitle(m), messages |-> <<m>>]>> \o store)
      ELSE LET c == LoadConversation(id)
           IN  Save(<<[c EXCEPT
                         !.messages = Append(@, m),
                         !.title = IF @ = NewChatTitle /\ m.role = "user"
                                     THEN MkTitle(m) ELSE @]>> \o Without(id))

Stored(role, s, text) == [role |-> role, send |-> s, text |-> text]

\* The conversations the sidebar lists, and lets the user click on.
Entries(convos) == [i \in DOMAIN convos |-> convos[i].id]
-----------------------------------------------------------------------------
(* The messages of a page.                                                 *)

\* A message's id is 0 unless it is the bubble a send has put on the page:
\* the messages a page loads from the store have ids of their own.
Message(role, s, id, text, meta) ==
    [role |-> role, send |-> s, id |-> id, text |-> text, meta |-> meta,
     error |-> FALSE, loading |-> FALSE, streaming |-> FALSE]

UserMessage(s) == Message("user", s, 0, NoText, FALSE)

Placeholder(s) == [Message("assistant", s, s, NoText, FALSE) EXCEPT !.loading = TRUE]

Loaded(messages) ==
    [i \in DOMAIN messages |->
        Message(messages[i].role, messages[i].send, 0, messages[i].text,
                messages[i].role = "assistant")]

\* patchAssistant: message i becomes new[i] if it is the bubble the page's refs
\* name.
Patched(p, new) ==
    [i \in DOMAIN view[p] |->
        IF current[p] # 0 /\ view[p][i].id = current[p] THEN new[i] ELSE view[p][i]]

Patch(p, new) == view' = [view EXCEPT ![p] = Patched(p, new)]

Ended(m) == [m EXCEPT !.loading = FALSE, !.streaming = FALSE]

\* The patch of onFinal.
Answered(m, text) == [Ended(m) EXCEPT !.text = text, !.meta = TRUE, !.error = FALSE]

\* The patch of onError.
PatchError(p) ==
    Patch(p, [i \in DOMAIN view[p] |-> [Ended(view[p][i]) EXCEPT !.error = TRUE]])

\* setSending(false), which does nothing to a page that is gone.
NotSending(p) == sending' = [sending EXCEPT ![p] = FALSE]

Refresh(p) == list' = [list EXCEPT ![p] = IF Mounted(p) THEN Entries(store') ELSE @]

EndStream(s, how) == streams' = [streams EXCEPT ![s].state = how]

\* What a bubble looks like: ChatMessage.
Bubble(m) ==
    [dots       |-> m.loading /\ m.text["content"] = <<>>,
     text       |-> m.text["content"],
     correction |-> m.text["correction"],
     cursor     |-> m.streaming /\ ~(m.loading /\ m.text["content"] = <<>>),
     cards      |-> m.text["events"],
     error      |-> m.error,
     tags       |-> ~m.streaming /\ m.meta]

\* The suggestions, in the place of the messages. One that is clicked on only
\* fills the input.
EmptyState(p) == view[p] = <<>>

\* What the page shows, and what it lets the user do.
Screen(p) ==
    [empty    |-> EmptyState(p),
     bubbles  |-> [i \in DOMAIN view[p] |-> Bubble(view[p][i])],
     pill     |-> sending[p],
     inputOff |-> sending[p]]

\* The sidebar: its entries, and those it marks as the open conversation. Where
\* it lists none it says so.
Sidebar(p) ==
    [entries |-> list[p],
     marked  |-> {i \in DOMAIN list[p] : list[p][i] = active[p]}]

Bubbles(p) == {i \in DOMAIN view[p] : view[p][i].role = "assistant"}
-----------------------------------------------------------------------------
(* What the user does.                                                     *)

TypeOK ==
    /\ ids \in 0 .. MaxIds
    /\ Len(streams) \in 0 .. MaxSends
    /\ \A s \in DOMAIN streams :
          /\ streams[s].page \in Pages /\ streams[s].session \in 1 .. ids
          /\ streams[s].log \in Seq(Events)
          /\ streams[s].state \in {"open", "refused", "finished", "stopped"}
    /\ Len(store) <= MaxConvos
    /\ \A i \in DOMAIN store : store[i].id \in 1 .. ids
    /\ \A i, j \in DOMAIN store : store[i].id = store[j].id => i = j
    /\ mount \in [Pages -> {"unborn", "mounted", "gone"}]
    /\ active \in [Pages -> 0 .. ids]
    /\ session \in [Pages -> 0 .. ids]
    /\ sending \in [Pages -> BOOLEAN]
    /\ current \in [Pages -> 0 .. Len(streams)]
    /\ acc \in [Pages -> [Events -> Seq((DOMAIN streams) \X (1 .. MaxEvents))]]
    /\ \A p \in Pages : ~Mounted(p) => view[p] = <<>> /\ ~sending[p]

Init ==
    /\ store = <<>>
    /\ ids = 0
    /\ streams = <<>>
    /\ mount = [p \in Pages |-> "unborn"]
    /\ list = [p \in Pages |-> <<>>]
    /\ active = [p \in Pages |-> 0]
    /\ view = [p \in Pages |-> <<>>]
    /\ sending = [p \in Pages |-> FALSE]
    /\ session = [p \in Pages |-> 0]
    /\ current = [p \in Pages |-> 0]
    /\ acc = [p \in Pages |-> NoText]

\* abortRef.current?.abort(): the page's latest stream is cancelled, if it is
\* live. One whose refusal is being read still calls onError.
Abort(p) ==
    streams' = [s \in DOMAIN streams |->
        IF s # current[p] \/ ~Live(s) THEN streams[s]
        ELSE [streams[s] EXCEPT !.state = "stopped"]]

\* newSessionId: a random UUID, taken to be one that was never used.
NewSessionId == ids + 1

\* startNewChat
StartNewChat(p) ==
    /\ ids < MaxIds
    /\ Abort(p)
    /\ ids' = NewSessionId
    /\ session' = [session EXCEPT ![p] = NewSessionId]
    /\ active' = [active EXCEPT ![p] = 0]
    /\ view' = [view EXCEPT ![p] = <<>>]
    /\ NotSending(p)
    /\ CreateConversation(NewSessionId)
    /\ list' = [list EXCEPT ![p] = Entries(store')]
    /\ UNCHANGED <<current, acc>>

\* The component is mounted, and its first effect starts a new chat.
Mount(p) ==
    /\ mount[p] = "unborn"
    /\ mount' = [mount EXCEPT ![p] = "mounted"]
    /\ StartNewChat(p)

NewChat(p) ==
    /\ Mounted(p)
    /\ StartNewChat(p)
    /\ UNCHANGED mount

\* selectConversation, before and after its early return. The page's list may
\* name a conversation the store has dropped since.
SelectMissing(p, id) ==
    /\ Found(id) = {}
    /\ Abort(p)
    /\ IF current[p] # 0 /\ streams[current[p]].state = "refused"
         THEN PatchError(p)
         ELSE UNCHANGED view
    /\ IF current[p] # 0 /\ Live(current[p]) THEN NotSending(p)
                                             ELSE UNCHANGED sending
    /\ UNCHANGED <<store, ids, mount, list, active, refs>>

SelectFound_NoAbort(p, id) ==
    /\ Found(id) # {}
    /\ session' = [session EXCEPT ![p] = id]
    /\ active' = [active EXCEPT ![p] = id]
    /\ view' = [view EXCEPT ![p] = Loaded(LoadConversation(id).messages)]
    /\ NotSending(p)
    /\ UNCHANGED <<store, ids, streams, mount, list, current, acc>>
SelectFound_KeepsSession(p, id) ==
    /\ Found(id) # {}
    /\ Abort(p)
    /\ active' = [active EXCEPT ![p] = id]
    /\ view' = [view EXCEPT ![p] = Loaded(LoadConversation(id).messages)]
    /\ NotSending(p)
    /\ UNCHANGED <<store, ids, mount, list, session, current, acc>>
SelectFound(p, id) ==
    /\ Found(id) # {}
    /\ Abort(p)
    /\ session' = [session EXCEPT ![p] = id]
    /\ active' = [active EXCEPT ![p] = id]
    /\ view' = [view EXCEPT ![p] = Loaded(LoadConversation(id).messages)]
    /\ NotSending(p)
    /\ UNCHANGED <<store, ids, mount, list, current, acc>>

Select(p) ==
    /\ Mounted(p)
    /\ \E i \in DOMAIN list[p] :
          LET id == Sidebar(p).entries[i]
          IN  SelectFound(p, id) \/ SelectMissing(p, id)

\* handleSend, up to its first await.
Send_KeepsText(p) ==
    LET s == Len(streams) + 1 IN
    /\ Mounted(p) /\ ~Screen(p).inputOff
    /\ s <= MaxSends
    /\ view' = [view EXCEPT ![p] = @ \o <<UserMessage(s), Placeholder(s)>>]
    /\ AppendMessage(session[p], Stored("user", s, NoText))
    /\ active' = [active EXCEPT ![p] = session[p]]
    /\ list' = [list EXCEPT ![p] = Entries(store')]
    /\ current' = [current EXCEPT ![p] = s]
    /\ sending' = [sending EXCEPT ![p] = TRUE]
    /\ streams' = Append(streams, [page |-> p, session |-> session[p],
                                   log |-> <<>>, state |-> "open"])
    /\ UNCHANGED <<ids, mount, session, acc>>
Send(p) ==
    LET s == Len(streams) + 1 IN
    /\ Mounted(p) /\ ~Screen(p).inputOff
    /\ s <= MaxSends
    /\ view' = [view EXCEPT ![p] = @ \o <<UserMessage(s), Placeholder(s)>>]
    /\ AppendMessage(session[p], Stored("user", s, NoText))
    /\ active' = [active EXCEPT ![p] = session[p]]
    /\ list' = [list EXCEPT ![p] = Entries(store')]
    /\ current' = [current EXCEPT ![p] = s]
    /\ acc' = [acc EXCEPT ![p] = NoText]
    /\ sending' = [sending EXCEPT ![p] = TRUE]
    /\ streams' = Append(streams, [page |-> p, session |-> session[p],
                                   log |-> <<>>, state |-> "open"])
    /\ UNCHANGED <<ids, mount, session>>

Forget(p) ==
    /\ mount' = [mount EXCEPT ![p] = "gone"]
    /\ list' = [list EXCEPT ![p] = <<>>]
    /\ active' = [active EXCEPT ![p] = 0]
    /\ view' = [view EXCEPT ![p] = <<>>]
    /\ NotSending(p)

\* To the analytics page: the component is unmounted. Nothing aborts its
\* stream, whose callbacks and refs live on.
Leave(p) ==
    /\ Mounted(p)
    /\ Forget(p)
    /\ UNCHANGED <<store, ids, streams, refs>>

\* The tab is closed or reloaded: its stream is never heard of again.
CloseTab(p) ==
    /\ mount[p] # "unborn"
    /\ \/ Mounted(p)
       \/ current[p] # 0 /\ Live(current[p])
    /\ Forget(p)
    /\ streams' = [s \in DOMAIN streams |->
                      IF streams[s].page = p /\ Live(s)
                        THEN [streams[s] EXCEPT !.state = "stopped"]
                        ELSE streams[s]]
    /\ UNCHANGED <<store, ids, refs>>
-----------------------------------------------------------------------------
(* What a stream tells its page.                                           *)

\* The patches of onToken, onLoopDetected and onRemediation. Only a token changes
\* the flags.
Heard(m, kind, text) ==
    [m EXCEPT !.text[kind] = text,
              !.loading = @ /\ kind = "events",
              !.streaming = @ \/ kind # "events"]

Hear(s, kind) ==
    LET p    == streams[s].page
        text == Append(acc[p][kind], <<s, Len(streams[s].log) + 1>>)
    IN  /\ streams[s].state = "open"
        /\ Told < MaxEvents
        /\ streams' = [streams EXCEPT ![s].log = Append(@, kind)]
        /\ acc' = [acc EXCEPT ![p][kind] = text]
        /\ Patch(p, [i \in DOMAIN view[p] |-> Heard(view[p][i], kind, text)])
        /\ UNCHANGED <<store, ids, mount, list, active, sending, session, current>>

\* The response has a status other than 200.
Refuse(s) ==
    /\ streams[s].state = "open" /\ streams[s].log = <<>>
    /\ EndStream(s, "refused")
    /\ UNCHANGED <<store, ids, mount, state, refs>>

OnFinal_NoStore(s) ==
    LET p == streams[s].page IN
    /\ streams[s].state = "open"
    /\ EndStream(s, "finished")
    /\ Patch(p, [i \in DOMAIN view[p] |-> Answered(view[p][i], acc[p])])
    /\ NotSending(p)
    /\ UNCHANGED <<store, ids, mount, list, active, refs>>
\* onFinal stores the answer in the page's session of now, not of then.
OnFinal(s) ==
    LET p == streams[s].page IN
    /\ streams[s].state = "open"
    /\ EndStream(s, "finished")
    /\ Patch(p, [i \in DOMAIN view[p] |-> Answered(view[p][i], acc[p])])
    /\ AppendMessage(session[p], Stored("assistant", s, acc[p]))
    /\ Refresh(p)
    /\ NotSending(p)
    /\ UNCHANGED <<ids, mount, active, refs>>

OnError(s) ==
    LET p == streams[s].page IN
    /\ Live(s)
    /\ EndStream(s, "stopped")
    /\ PatchError(p)
    /\ NotSending(p)
    /\ UNCHANGED <<store, ids, mount, list, active, refs>>

EndsSilently_NoReset(s) ==
    /\ streams[s].state = "open"
    /\ EndStream(s, "stopped")
    /\ UNCHANGED <<store, ids, mount, state, refs>>
\* streamChat returns and no ending was told: [DONE] came first, or the server
\* closed the response. The clean-up hands patchAssistant a function, which it
\* spreads as an object: no field changes. Only setSending(false) has effect.
EndsSilently(s) ==
    /\ streams[s].state = "open"
    /\ EndStream(s, "stopped")
    /\ NotSending(streams[s].page)
    /\ UNCHANGED <<store, ids, mount, list, active, view, refs>>

EndOf(s) == OnFinal(s) \/ OnError(s) \/ EndsSilently(s)

Next ==
    \/ \E p \in Pages :
          Mount(p) \/ NewChat(p) \/ Select(p) \/ Send(p) \/ Leave(p) \/ CloseTab(p)
    \/ \E s \in DOMAIN streams :
          \/ \E kind \in Kinds : Hear(s, kind)
          \/ Refuse(s) \/ OnFinal(s) \/ OnError(s) \/ EndsSilently(s)

Spec == Init /\ [][Next]_vars

\* streamChat returns (SSEReader!ReaderReturns).
Fairness ==
    \A s \in 1 .. MaxSends : WF_vars(s \in DOMAIN streams /\ EndOf(s))

FairSpec == Spec /\ Fairness
-----------------------------------------------------------------------------
(* What must be true.                                                      *)

Answers(c) == {i \in DOMAIN c.messages : c.messages[i].role = "assistant"}

\* Chat.jsx:243. onFinal stores the answer in the page's session of that
\* moment, and still every stored answer is in the conversation its prompt was
\* sent in, is all that its stream told, and is stored once.
AnswersGoHome ==
    \A i \in DOMAIN store : \A j \in Answers(store[i]) :
        LET m == store[i].messages[j]
        IN  /\ streams[m.send].session = store[i].id
            /\ streams[m.send].state = "finished"
            /\ \A kind \in Events : m.text[kind] = Streamed(m.send, kind)
            /\ \A k \in Answers(store[i]) \ {j} : store[i].messages[k].send # m.send

\* Chat.jsx:243, storage.js:88-93. Where the prompt of a finished stream is in
\* the store its answer is too, after it, even if the page had been left.
AnswerFollowsPrompt ==
    ~QuotaFails =>
        \A i \in DOMAIN store : \A j \in (DOMAIN store[i].messages) \ Answers(store[i]) :
            streams[store[i].messages[j].send].state = "finished" =>
                \E k \in Answers(store[i]) :
                    k > j /\ store[i].messages[k].send = store[i].messages[j].send

\* Chat.jsx:96-98, :202-212, ChatMessage.jsx:69-123. A bubble on a page holds the
\* events of its own stream, all of them, sorted by kind and in order, and none of
\* another stream's. None is an empty box or at once thinking and in error, and
\* the tags come only with a finished answer.
BubblesTellTheirStream ==
    \A p \in Pages : \A i \in Bubbles(p) :
        LET m == view[p][i]
            b == Screen(p).bubbles[i]
        IN  /\ \A kind \in Events : m.text[kind] = Streamed(m.send, kind)
            /\ \/ b.dots \/ b.cursor \/ b.error \/ b.tags
               \/ b.text # <<>> \/ b.correction # <<>>
            /\ b.error => ~b.dots /\ ~b.cursor
            /\ b.tags => streams[m.send].state = "finished"

\* Chat.jsx:136-138, :172. A page shows the messages of one conversation, the
\* one it would send the next prompt to and the one marked in the sidebar.
ViewIsOneConversation ==
    \A p \in Pages : Mounted(p) =>
        /\ \A i \in DOMAIN view[p] : streams[view[p][i].send].session = session[p]
        /\ active[p] # 0 => active[p] = session[p]
        /\ active[p] # 0 /\ ~QuotaFails => \E i \in DOMAIN list[p] : Sidebar(p).marked = {i}
        /\ active[p] = 0 => Screen(p).empty

\* Chat.jsx:153, :190, :265. A mounted page says it is streaming exactly while
\* a stream of its own is live; that stream is the only one, and the last
\* bubble is the one it fills.
SendingMeansLive ==
    \A p \in Pages : Mounted(p) =>
        LET live == {s \in DOMAIN streams : streams[s].page = p /\ Live(s)}
            last == Len(view[p])
        IN  /\ Screen(p).pill <=> live # {}
            /\ live \subseteq {current[p]}
            /\ Screen(p).pill =>
                  /\ view[p][last].id = current[p]
                  /\ Screen(p).bubbles[last].dots \/ Screen(p).bubbles[last].cursor

\* storage.js:46-97. A step changes one conversation at most, by one message and
\* the title it did not have yet, and puts it on top; the others keep their contents and their
\* order, and only a full store loses any, from its end.
OnlyTopChanges ==
    [][/\ Len(store') <= MaxConvos
       /\ store' # store =>
             LET top    == store'[1]
                 others == Without(top.id)
             IN  /\ Tail(store') = SubSeq(others, 1, Len(store') - 1)
                 /\ Len(store') - 1 < Len(others) => Len(store') = MaxConvos
                 /\ Found(top.id) # {} =>
                       LET old == LoadConversation(top.id) IN
                       /\ Len(top.messages) = Len(old.messages) + 1
                       /\ SubSeq(top.messages, 1, Len(old.messages)) = old.messages
                       /\ old.title # NewChatTitle => top.title = old.title
      ]_store

\* Chat.jsx:365-366, :372. A page that is streaming comes back to where the
\* user can send again.
CanSendAgain == \A p \in Pages : sending[p] ~> ~sending[p]

\* Chat.jsx:257-258: "guard: if the stream ended without calling onFinal or
\* onError (e.g. server closed connection early), clean up gracefully". A
\* bubble thinks or blinks only while its stream is live.
BubblesCleanedUp ==
    \A p \in Pages : \A i \in Bubbles(p) :
        LET b == Screen(p).bubbles[i]
        IN  b.dots \/ b.cursor => Live(view[p][i].send)
=============================================================================
