----------------------------- MODULE TokenStream -----------------------------
(***************************************************************************)
(* One streamed LLM call: the goroutine of GroqProvider.Complete           *)
(* (src/go/providers/groq.go), the buffered channel it returns, and the    *)
(* reader of that channel in Handler.Chat (src/go/gateway/handlers.go).    *)
(*                                                                         *)
(* There are two readers in the code. The first call of a request is read  *)
(* by gin's c.Stream, which before every step looks whether the client has *)
(* gone and then stops reading. The retry after a detected cycle is read   *)
(* by a `for range` loop, which never looks at the client.                 *)
(*                                                                         *)
(* The channel is the window sent[read+1 .. Len(sent)] of the tokens put   *)
(* into it so far, so that its whole past can be talked about.             *)
(*                                                                         *)
(* A definition named D_X is D with the mistake X in it. It is no part of  *)
(* the specification: it shows that a property can tell D from D_X.        *)
(***************************************************************************)
EXTENDS Naturals, Sequences

CONSTANTS
    Capacity,     \* slots of the channel: 64 in the code
    MaxChunks,    \* bound of the model: chunks Groq sends in one stream
    Readers       \* the readers considered: a subset of {"stream", "range"}

ASSUME CapacityAssumption == Capacity \in Nat \ {0}
ASSUME MaxChunksAssumption == MaxChunks \in Nat
ASSUME ReadersAssumption == Readers \subseteq {"stream", "range"}

VARIABLES
    pc,         \* the goroutine: "check" | "recv" | "send" | "closed"
    pending,    \* the token a blocked or coming send holds
    usage,      \* inputTokens/outputTokens captured so far, 0 = none
    sent,       \* every token put into the channel, oldest first
    read,       \* how many of them the reader has taken
    ctx,        \* the request's context: "live" | "cancelled"
    clientGone, \* gin's CloseNotify has fired
    reader,     \* who reads: "stream" (c.Stream) or "range" (the retry)
    reading,    \* the reader is still in its loop
    chunks,     \* history: chunks Groq has sent on this stream
    texts,      \* history: how many of them had text
    reported    \* history: the last usage Groq reported, 0 = none

vars == <<pc, pending, usage, sent, read, ctx, clientGone, reader, reading,
          chunks, texts, reported>>

groq   == <<chunks, texts, reported>>
client == <<ctx, clientGone>>
-----------------------------------------------------------------------------
\* A token. text is its number among the chunks with text; 0 is no text.
Text(i)      == [text |-> i, final |-> FALSE, err |-> FALSE, usage |-> 0]
CleanEnd(u)  == [text |-> 0, final |-> TRUE, err |-> FALSE, usage |-> u]
ErrorEnd     == [text |-> 0, final |-> TRUE, err |-> TRUE, usage |-> 0]

Token == [text : Nat, final : BOOLEAN, err : BOOLEAN, usage : Nat]

InChannel == Len(sent) - read

TypeOK ==
    /\ pc \in {"check", "recv", "send", "closed"}
    /\ pending \in Token
    /\ usage \in Nat
    /\ sent \in Seq(Token)
    /\ read \in 0 .. Len(sent)
    /\ ctx \in {"live", "cancelled"}
    /\ clientGone \in BOOLEAN
    /\ reader \in {"stream", "range"}
    /\ reading \in BOOLEAN
    /\ chunks \in 0 .. MaxChunks
    /\ texts \in 0 .. chunks
    /\ reported \in Nat

Init ==
    /\ pc = "check"
    /\ pending = ErrorEnd
    /\ usage = 0
    /\ sent = <<>>
    /\ read = 0
    /\ ctx = "live"
    /\ clientGone = FALSE
    /\ reader \in Readers
    /\ reading = TRUE
    /\ chunks = 0
    /\ texts = 0
    /\ reported = 0
-----------------------------------------------------------------------------
(* The goroutine. *)

Hold(t) == pending' = t /\ pc' = "send"

\* The select at the head of the loop.
CheckContext ==
    /\ pc = "check"
    /\ IF ctx = "cancelled"
         THEN Hold(ErrorEnd)
         ELSE pc' = "recv" /\ UNCHANGED pending
    /\ UNCHANGED <<usage, sent, read, client, reader, reading, groq>>

RecvChunk_UsageSkipped ==
    /\ pc = "recv"
    /\ chunks < MaxChunks
    /\ chunks' = chunks + 1
    /\ \E u \in {0, chunks + 1}, hasText \in BOOLEAN :
          /\ usage' = IF u > 0 /\ hasText THEN u ELSE usage
          /\ reported' = IF u > 0 THEN u ELSE reported
          /\ IF hasText
               THEN texts' = texts + 1 /\ Hold(Text(texts + 1))
               ELSE texts' = texts /\ pc' = "check" /\ UNCHANGED pending
    /\ UNCHANGED <<sent, read, client, reader, reading>>

\* stream.Recv returns a chunk: it may carry usage (a positive total), it may
\* carry text, and one with neither is skipped. Usage is captured before a chunk
\* without a choice is skipped.
RecvChunk ==
    /\ pc = "recv"
    /\ chunks < MaxChunks
    /\ chunks' = chunks + 1
    /\ \E u \in {0, chunks + 1}, hasText \in BOOLEAN :
          /\ usage' = IF u > 0 THEN u ELSE usage
          /\ reported' = IF u > 0 THEN u ELSE reported
          /\ IF hasText
               THEN texts' = texts + 1 /\ Hold(Text(texts + 1))
               ELSE texts' = texts /\ pc' = "check" /\ UNCHANGED pending
    /\ UNCHANGED <<sent, read, client, reader, reading>>

\* stream.Recv returns io.EOF.
RecvEOF ==
    /\ pc = "recv"
    /\ Hold(CleanEnd(usage))
    /\ UNCHANGED <<usage, sent, read, client, reader, reading, groq>>

RecvError_Continues ==
    /\ pc = "recv"
    /\ pc' = "check"
    /\ UNCHANGED <<pending, usage, sent, read, client, reader, reading, groq>>

\* stream.Recv fails: a broken connection, or the cancelled context.
RecvError ==
    /\ pc = "recv"
    /\ Hold(ErrorEnd)
    /\ UNCHANGED <<usage, sent, read, client, reader, reading, groq>>

Send_Overwrites ==
    /\ pc = "send"
    /\ sent' = IF InChannel < Capacity THEN Append(sent, pending) ELSE sent
    /\ pc' = IF pending.final THEN "closed" ELSE "check"
    /\ UNCHANGED <<pending, usage, read, client, reader, reading, groq>>

Send_NoReturn ==
    /\ pc = "send"
    /\ InChannel < Capacity
    /\ sent' = Append(sent, pending)
    /\ pc' = IF pending.final /\ ~pending.err THEN "closed" ELSE "check"
    /\ UNCHANGED <<pending, usage, read, client, reader, reading, groq>>

\* tokenCh <- pending: blocks while the buffer is full, whatever the context
\* says. The deferred close follows a final token.
Send ==
    /\ pc = "send"
    /\ InChannel < Capacity
    /\ sent' = Append(sent, pending)
    /\ pc' = IF pending.final THEN "closed" ELSE "check"
    /\ UNCHANGED <<pending, usage, read, client, reader, reading, groq>>
-----------------------------------------------------------------------------
(* The reader in Handler.Chat, and the client behind it. *)

\* The reader leaves its loop. What Chat does after the final token makes no
\* difference to the channel; when Chat returns, net/http cancels the context.
Return == reading' = FALSE /\ ctx' = "cancelled" /\ UNCHANGED clientGone

\* One step of c.Stream, or of the `for range` of the retry: take a token, and
\* leave the loop after a final (or failed, which is final) one. On a channel
\* that is closed and empty the loop ends too.
Take ==
    /\ reading
    /\ reader = "stream" => ~clientGone
    /\ InChannel > 0 \/ pc = "closed"
    /\ read' = IF InChannel > 0 THEN read + 1 ELSE read
    /\ IF InChannel = 0 \/ sent[read + 1].final
         THEN Return
         ELSE UNCHANGED <<reading, client>>
    /\ UNCHANGED <<pc, pending, usage, sent, reader, groq>>

\* c.Stream sees CloseNotify before a step and returns without reading on.
Abandon ==
    /\ reading
    /\ reader = "stream"
    /\ clientGone
    /\ Return
    /\ UNCHANGED <<pc, pending, usage, sent, read, reader, groq>>

\* The client closes the connection: net/http cancels the context, and then
\* fires CloseNotify.
Disconnect ==
    /\ ctx = "live"
    /\ ctx' = "cancelled"
    /\ UNCHANGED <<pc, pending, usage, sent, read, clientGone, reader, reading, groq>>

NotifyClose ==
    /\ ctx = "cancelled"
    /\ reading
    /\ ~clientGone
    /\ clientGone' = TRUE
    /\ UNCHANGED <<pc, pending, usage, sent, read, ctx, reader, reading, groq>>
-----------------------------------------------------------------------------
Producer == CheckContext \/ RecvChunk \/ RecvEOF \/ RecvError \/ Send
Consumer == Take \/ Abandon
Client   == Disconnect \/ NotifyClose

Next == Producer \/ Consumer \/ Client

Spec == Init /\ [][Next]_vars

\* The goroutine and the handler are scheduled, and Groq answers every Recv
\* (with a chunk, EOF or an error). Nothing makes a client leave, but once its
\* connection is closed CloseNotify fires.
Fairness ==
    /\ WF_vars(Producer)
    /\ WF_vars(Consumer)
    /\ WF_vars(NotifyClose)

FairSpec == Spec /\ Fairness
-----------------------------------------------------------------------------
(* Properties. *)

\* The tokens come in the order Groq sent the text, none is skipped or doubled,
\* and nothing follows a final token (interface.go: "true on the last token").
InOrder ==
    \A i \in 1 .. Len(sent) :
        IF sent[i].final THEN i = Len(sent) ELSE sent[i].text = i

\* A reader still in its loop never meets a closed and empty channel: the guard
\* "channel closed without a final token (shouldn't happen)" of Handler.Chat is
\* never taken.
NoBareClose == ~(reading /\ InChannel = 0 /\ pc = "closed")

\* A reader that took a clean final token has had every text Groq sent, and
\* that token has the last usage Groq reported, even when Groq reported it in
\* a chunk without choices.
CleanEndIsComplete ==
    \A i \in 1 .. read :
        (sent[i].final /\ ~sent[i].err)
            => /\ i = texts + 1
               /\ sent[i].usage = reported

\* Every handler gets out of its loop.
ReaderReturns == <>~reading

\* The goroutine is left behind in one way only: the client went away and the
\* channel was full, so that the send of groq.go never returns.
ReleasedUnlessAbandoned ==
    <>[](pc = "closed" \/ (clientGone /\ InChannel = Capacity))
=============================================================================
