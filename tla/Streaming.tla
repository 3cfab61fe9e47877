----------------------------- MODULE Streaming -----------------------------
(***************************************************************************)
(* One request to /v1/chat/completions or /v1/responses in                  *)
(* src/internal/app/server.go: from the body of the request to the last     *)
(* event on the wire.                                                       *)
(*                                                                          *)
(* The upstream answers with frames that repeat the text so far.  While     *)
(* they arrive the handler forwards what is new, with tools through the     *)
(* fence gate; at the end it sends what remains of the text it would have   *)
(* sent in one piece.  Attempts may break off at any frame.  Which account  *)
(* and exit serve them is Gateway's subject.                                *)
(***************************************************************************)
EXTENDS ReplyText

CONSTANTS
    Answers,       \* what the upstream may have to say: [think, text]
    RetryAttempts, \* rtCfg().RetryAttempts
    MaxFrames,     \* bound on the frames of an attempt
    MaxRewrites    \* bound on the frames that are no continuation

ASSUME AnswersAreTexts == Answers \subseteq [think : Text, text : Text]
\* A word that comes twice has been sent twice.
ASSUME EachWordOnce ==
    \A a \in Answers : \A w \in Words : \A s \in {a.think, a.text} :
        \A i, j \in DOMAIN s : s[i] = w /\ s[j] = w => i = j
ASSUME StreamBounds ==
    /\ RetryAttempts \in Nat \ {0}
    /\ {MaxFrames, MaxRewrites} \subseteq Nat

VARIABLES
    mode,      \* the request: which API, streamed or not, with tools or not
    pc,        \* where the handler is
    answer,    \* the upstream's answer ...
    pos,       \* ... and how much of it its last frame shows
    rewrites,  \* how often it has changed its mind
    attempts,  \* attempts that failed
    raw,       \* the frames of this attempt
    emitted,   \* tracker.emitted
    emittedReasoning, \* rtracker.emitted
    gate,      \* the toolFenceGate
    wire,      \* what was written to the client
    rows       \* the statuses recordRequest was called with

vars == <<mode, pc, answer, pos, rewrites, attempts, raw, emitted, emittedReasoning,
          gate, wire, rows>>
upstream == <<answer, pos, rewrites>>
trackers == <<emitted, emittedReasoning, gate>>

Mode == [api : {"chat", "responses"}, stream : BOOLEAN, tools : BOOLEAN]
Frame == [think : Text, text : Text]
Status == {"400", "429", "502"}
Kind == {"open", "reasoning", "content", "calls", "text", "finish", "error", "json"} \cup Status
Event == [kind : Kind, text : Text]

TypeOK ==
    /\ mode \in Mode
    /\ pc \in {"start", "calling", "reading", "done"}
    /\ answer \in Answers
    /\ pos \in Nat
    /\ rewrites \in 0..MaxRewrites
    /\ attempts \in 0..RetryAttempts
    /\ raw \in Seq(Frame)
    /\ {emitted, emittedReasoning} \subseteq Text
    /\ gate \in Gate
    /\ wire \in Seq(Event)
    /\ rows \in {<<>>, <<"200">>, <<"502">>}

Init ==
    /\ mode \in Mode
    /\ pc = "start"
    /\ answer \in Answers
    /\ pos = 0 /\ rewrites = 0 /\ attempts = 0
    /\ raw = <<>> /\ emitted = <<>> /\ emittedReasoning = <<>>
    /\ gate = newToolFenceGate
    /\ wire = <<>> /\ rows = <<>>

-----------------------------------------------------------------------------
(* Writing to the client *)

event(kind) == <<[kind |-> kind, text |-> <<>>]>>
chunk(kind, text) == IF text = <<>> THEN <<>> ELSE <<[kind |-> kind, text |-> text]>>

\* sseWriter: the first chunk is preceded by the headers and the role.  The other
\* API has sent its headers before.
Sent(events) ==
    IF events = <<>> THEN wire ELSE (IF wire = <<>> THEN event("open") ELSE wire) \o events

\* A failure: an event once the stream has begun, a status otherwise.
FailureReply(status) == IF wire # <<>> THEN wire \o event("error") ELSE event(status)

\* Mutant: the row holds the status the client saw.
FailAsSeen(status) ==
    /\ pc' = "done"
    /\ rows' = Append(rows, status)
    /\ wire' = FailureReply(status)

\* callGemini returned an error: it is recorded as a 502, whatever the client is told.
Fail(status) ==
    /\ pc' = "done"
    /\ rows' = Append(rows, "502")
    /\ wire' = FailureReply(status)

-----------------------------------------------------------------------------
(* Reading the request *)

\* Invalid JSON, an unknown model, unsupported content, no prompt.
badRequest ==
    /\ pc = "start"
    /\ pc' = "done"
    /\ wire' = event("400")
    /\ UNCHANGED <<mode, upstream, attempts, raw, trackers, rows>>

\* The call begins.  /v1/responses sends its headers and response.created first.
accept ==
    /\ pc = "start"
    /\ pc' = "calling"
    /\ wire' = IF mode.api = "responses" /\ mode.stream THEN event("open") ELSE wire
    /\ UNCHANGED <<mode, upstream, attempts, raw, trackers, rows>>

\* No slot, no account, too long a prompt: an error before anything is sent upstream.
refused(status) ==
    /\ pc = "calling" /\ attempts = 0
    /\ Fail(status)
    /\ UNCHANGED <<mode, upstream, attempts, raw, trackers>>

-----------------------------------------------------------------------------
(* Frames *)

\* The upstream shows p tokens of its answer, the reasoning first.
frameOf(a, p) ==
    LET t == Len(a.think) IN
    [think |-> SubSeq(a.think, 1, IF p < t THEN p ELSE t),
     text |-> IF p < t THEN <<>> ELSE SubSeq(a.text, 1, p - t)]
size(a) == Len(a.think) + Len(a.text)

\* The next frame goes on, or the upstream has written something else.
upstreamWrites(a, p) ==
    /\ \/ a = answer /\ p \in pos+1..size(a) /\ UNCHANGED rewrites
       \/ a # answer /\ p = size(a) /\ rewrites < MaxRewrites /\ rewrites' = rewrites + 1
    /\ answer' = a /\ pos' = p

startAttempt ==
    /\ pc = "calling"
    /\ pc' = "reading"
    /\ UNCHANGED <<mode, upstream, attempts, raw, trackers, wire, rows>>

\* lineCB on a frame f: the reasoning, then the text.
forward(f) ==
    LET thought == IF mode.api = "chat" THEN deltaOf(emittedReasoning, f.think) ELSE <<>>
        delta == deltaOf(emitted, f.text)
        passed == gatePush(gate, delta)
        content == IF mode.tools THEN From(passed.sent, Len(gate.sent) + 1) ELSE delta
    IN /\ emittedReasoning' = emittedReasoning \o thought
       /\ emitted' = emitted \o delta
       /\ gate' = IF mode.tools THEN passed ELSE gate
       /\ wire' = Sent(chunk("reasoning", thought) \o chunk("content", content))

\* readBody has a line; a request that is not streamed only collects it.
line(a, p) ==
    /\ pc = "reading"
    /\ Len(raw) < MaxFrames
    /\ upstreamWrites(a, p)
    /\ raw' = Append(raw, frameOf(a, p))
    /\ IF mode.stream THEN forward(frameOf(a, p)) ELSE UNCHANGED <<trackers, wire>>
    /\ UNCHANGED <<mode, pc, attempts, rows>>

hasContentFrame == \E i \in DOMAIN raw : raw[i].text # <<>> \/ raw[i].think # <<>>

\* The attempt breaks off, has another status, or no content frame.  What was let
\* through cannot be taken back, so only a silent attempt is repeated.
attemptFails ==
    /\ pc = "reading"
    /\ attempts' = attempts + 1
    /\ IF emitted # <<>> \/ emittedReasoning # <<>> \/ attempts' = RetryAttempts
       THEN Fail("502") /\ UNCHANGED <<raw, pos>>
       ELSE raw' = <<>> /\ pos' = 0 /\ pc' = "calling" /\ UNCHANGED <<wire, rows>>
    /\ UNCHANGED <<mode, answer, rewrites, trackers>>

-----------------------------------------------------------------------------
(* The end of the answer *)

\* Mutant: the longest reasoning is not cleaned as its deltas were.
extractReasoningRaw ==
    LET T == {raw[i].think : i \in DOMAIN raw}
    IN CHOOSE t \in T : \A u \in T : Len(u) <= Len(t)

\* The longest reasoning of the frames.
extractReasoning ==
    LET T == {raw[i].think : i \in DOMAIN raw}
    IN cleanGeminiText(CHOOSE t \in T : \A u \in T : Len(u) <= Len(t))

\* The last text that is not blank.
extractResponseText ==
    LET Solid == {i \in DOMAIN raw : TrimSpace(raw[i].text) # <<>>} IN
    IF Solid = {} THEN <<>> ELSE cleanGeminiText(raw[Greatest(Solid)].text)

replyText == IF mode.tools THEN textOf(extractResponseText) ELSE extractResponseText
replyCalls == IF mode.tools THEN toolCalls(extractResponseText) ELSE 0

\* Mutant: the remainder is taken from what the tracker let through.
sentTextOfTracker == emitted

\* What the client has of the text: with tools, what the gate sent.
sentText == IF mode.tools THEN gate.sent ELSE emitted

calls == IF replyCalls > 0 THEN event("calls") ELSE <<>>

\* chat: the remaining reasoning, the remaining text, the calls, the end.
chatEnd ==
    chunk("reasoning", remainingOf(extractReasoning, emittedReasoning))
        \o chunk("content", remainingOf(replyText, sentText)) \o calls \o event("finish")

\* responses: the remaining text, one event for each output, the end.
responsesEnd ==
    chunk("content", remainingOf(replyText, sentText)) \o calls
        \o (IF replyText # <<>> \/ replyCalls = 0
            THEN <<[kind |-> "text", text |-> replyText]>> ELSE <<>>)
        \o event("finish")

deliver ==
    /\ pc' = "done"
    /\ rows' = Append(rows, "200")
    /\ wire' = IF ~mode.stream THEN <<[kind |-> "json", text |-> replyText]>>
               ELSE Sent(IF mode.api = "chat" THEN chatEnd ELSE responsesEnd)

\* streamGenerate returned; callGemini refuses an answer without text.
replied ==
    /\ pc = "reading"
    /\ hasContentFrame
    /\ IF extractResponseText = <<>> THEN Fail("502") ELSE deliver
    /\ UNCHANGED <<mode, upstream, attempts, raw, trackers>>

Next ==
    \/ badRequest
    \/ accept
    \/ \E status \in Status : refused(status)
    \/ startAttempt
    \/ \E a \in Answers : \E p \in 1..size(a) : line(a, p)
    \/ attemptFails
    \/ replied

Spec == Init /\ [][Next]_vars

-----------------------------------------------------------------------------
(* Properties *)

\* The texts of the events of one kind, put together.
Pieces(events, kind) ==
    LET pieces[w \in Seq(Event)] ==
        IF w = <<>> THEN <<>>
        ELSE pieces[Front(w)] \o (IF Last(w).kind = kind THEN Last(w).text ELSE <<>>)
    IN pieces[events]

Delivered(kind) == Pieces(wire, kind)

Finished == wire # <<>> /\ wire[Len(wire)].kind = "finish"

\* Every frame continues the one before, once cleaned; the reasoning also as it came,
\* for the longest one counts.
Cumulative ==
    \A i, j \in DOMAIN raw : i < j =>
        /\ IsPrefix(cleanGeminiText(raw[i].text), cleanGeminiText(raw[j].text))
        /\ IsPrefix(cleanGeminiText(raw[i].think), cleanGeminiText(raw[j].think))
        /\ IsPrefix(raw[i].think, raw[j].think)

\* However the upstream cuts a text it only continues, the pieces a client of the
\* stream gets are the text a client without streaming gets, up to white space at
\* its ends, and the whole reasoning (server.go:313-323, 643-646).
AnswerDelivered ==
    Finished /\ Cumulative /\ (mode.tools => WellFenced(extractResponseText)) =>
        /\ TrimSpace(Delivered("content")) = replyText
        /\ mode.api = "chat" => Delivered("reasoning") = extractReasoning

\* Whatever the upstream rewrites, whatever is retried, nothing of an answer comes
\* twice (gemini.go:210-214, 535).  The answers hold every word once.
NothingTwice ==
    \A w \in Words : \A kind \in {"content", "reasoning"} :
        Cardinality({i \in DOMAIN Delivered(kind) : Delivered(kind)[i] = w}) <= 1

\* What the gate has let through and what it holds depends on the text alone, not on
\* where the frames cut it (messages.go:198-209).
CutIndependent ==
    mode.stream /\ mode.tools => gate = gatePush(newToolFenceGate, emitted)

Rank(kind) ==
    CASE kind = "open" -> 1 [] kind = "reasoning" -> 2 [] kind = "content" -> 3
      [] kind = "calls" -> 4 [] kind = "text" -> 5 [] OTHER -> 6

\* The upstream shows all its reasoning before its text.
ThinksFirst ==
    \A i, j \in DOMAIN raw : i < j /\ raw[i].text # <<>> => raw[j].think = raw[i].think

\* The order of a stream: opened once, reasoning before text, one end, nothing after
\* it; and a status or a JSON body only where no stream was opened (sse.go:10-14).
StreamShape ==
    /\ \A i \in DOMAIN wire : wire[i].kind \notin Status \cup {"json"} => wire[1].kind = "open"
    /\ ThinksFirst => \A i, j \in DOMAIN wire : i < j =>
            /\ Rank(wire[i].kind) <= Rank(wire[j].kind)
            /\ Rank(wire[i].kind) \in {2, 3} \/ Rank(wire[i].kind) < Rank(wire[j].kind)
    /\ \A i \in DOMAIN wire : wire[i].kind \in Status \cup {"json"} => Len(wire) = 1
    /\ (pc = "done") => wire # <<>> /\ Rank(wire[Len(wire)].kind) = 6

\* The claim of gemini_test.go:176 and messages.go:210-211: the pieces of a stream make
\* up exactly the final text, and what the gate holds back is sent at the end.
StreamEqualsText == Finished => TrimSpace(Delivered("content")) = replyText
=============================================================================
