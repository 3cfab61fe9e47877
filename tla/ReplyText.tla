----------------------------- MODULE ReplyText -----------------------------
(***************************************************************************)
(* What src/internal/app does to the text of a reply: cleaning, the         *)
(* tracker that turns cumulative frames into deltas, the gate that keeps    *)
(* tool calls away from the client, and the parser of tool calls.           *)
(*                                                                          *)
(* A text is a sequence of tokens, each standing for a run of characters    *)
(* the code treats alike:                                                   *)
(*   "bt"      three backticks         "call"  the word tool_call            *)
(*   "nl"     a line break            "sp"    other white space             *)
(*   "{}"     JSON (or a piece of it) "code"  ```python?code_reference&...  *)
(* and everything else is a word.  A cut inside a token behaves like one    *)
(* before it: its half is held back or trimmed in the same way.             *)
(***************************************************************************)
EXTENDS Naturals, Sequences, FiniteSets, SequencesExt

CONSTANT Words

Space == {"sp", "nl"}
Tokens == Words \cup Space \cup {"bt", "call", "{}", "code"}
Text == Seq(Tokens)

toolFenceOpen == <<"bt", "call">>
toolFenceClose == <<"bt">>

Least(S) == CHOOSE i \in S : \A j \in S : i <= j
Greatest(S) == CHOOSE i \in S : \A j \in S : i >= j

\* Where marker occurs in s: strings.Index takes the least.
Occurrences(s, marker) ==
    {i \in 1..(Len(s) - Len(marker) + 1) : SubSeq(s, i, i + Len(marker) - 1) = marker}

From(s, i) == SubSeq(s, i, Len(s))

TrimSpace(s) ==
    LET Solid == {i \in DOMAIN s : s[i] \notin Space} IN
    IF Solid = {} THEN <<>> ELSE SubSeq(s, Least(Solid), Greatest(Solid))

\* ReplaceAllString(s, ""): the matches from left to right, each behind the last.
\* match[s] is the first match <<first, last>>, or empty.
Without(s, match) ==
    LET cut[t \in Text] ==
        IF match[t] = <<>> THEN t
        ELSE SubSeq(t, 1, match[t][1] - 1) \o cut[From(t, match[t][2] + 1)]
    IN cut[s]

-----------------------------------------------------------------------------
(* cleanGeminiText and the tracker *)

\* codeArtifactRe: the opening, the nearest three backticks, one line break.
Artifact[t \in Text] ==
    LET Opened == {i \in DOMAIN t : t[i] = "code" /\ \E j \in i+1..Len(t) : t[j] = "bt"} IN
    IF Opened = {} THEN <<>>
    ELSE LET i == Least(Opened)
             j == Least({k \in i+1..Len(t) : t[k] = "bt"})
         IN <<i, IF j < Len(t) /\ t[j + 1] = "nl" THEN j + 1 ELSE j>>

cleanGeminiText(t) == TrimSpace(Without(t, Artifact))

\* Does a frame's text extend what the tracker has let through?
Extends(emitted, fullText) ==
    LET cleaned == cleanGeminiText(fullText) IN
    Len(cleaned) > Len(emitted) /\ IsPrefix(emitted, cleaned)

\* deltaTracker.Push: what it returns, and what it has let through afterwards.
deltaOf(emitted, fullText) ==
    IF Extends(emitted, fullText)
    THEN From(cleanGeminiText(fullText), Len(emitted) + 1) ELSE <<>>

-----------------------------------------------------------------------------
(* The fence gate *)

Gate == [buf : Text, sent : Text, inFence : BOOLEAN]
newToolFenceGate == [buf |-> <<>>, sent |-> <<>>, inFence |-> FALSE]

\* Mutant: nothing is held back outside a fence.
partialPrefixLenNone(s, marker) == 0

\* How much of the end of s could be the beginning of marker.
partialPrefixLen(s, marker) ==
    Greatest({0} \cup {k \in 1..(Len(marker) - 1) :
        k <= Len(s) /\ IsPrefix(From(s, Len(s) - k + 1), marker)})

\* One turn of the loop of toolFenceGate.Push: the next mark, or the rest.
Marks(g) == Occurrences(g.buf, IF g.inFence THEN toolFenceClose ELSE toolFenceOpen)

passMark(g) ==
    LET i == Least(Marks(g)) IN
    IF g.inFence
    THEN [g EXCEPT !.buf = From(@, i + Len(toolFenceClose)), !.inFence = FALSE]
    ELSE [buf |-> From(g.buf, i + Len(toolFenceOpen)),
          sent |-> g.sent \o SubSeq(g.buf, 1, i - 1),
          inFence |-> TRUE]

holdBack(g) ==
    LET cut == Len(g.buf) - partialPrefixLen(g.buf, toolFenceOpen) IN
    IF g.inFence THEN g
    ELSE [g EXCEPT !.buf = From(@, cut + 1), !.sent = @ \o SubSeq(g.buf, 1, cut)]

pushLoop[g \in Gate] == IF Marks(g) = {} THEN holdBack(g) ELSE pushLoop[passMark(g)]

gatePush(gate, delta) == pushLoop[[gate EXCEPT !.buf = @ \o delta]]

-----------------------------------------------------------------------------
(* Parsing the tool calls *)

\* Where the header ```tool_call\s*\n at i may end, ...
HeaderEnds(t, i) ==
    {h \in i+2..Len(t) : t[h] = "nl" /\ \A k \in i+2..h : t[k] \in Space}
\* ... and where \n``` may stand behind it.
TailsAfter(t, h) == {e \in h+1..Len(t)-1 : t[e] = "nl" /\ t[e + 1] = "bt"}

\* toolCallRe at i: the header as long as possible, then the body as short as possible.
CallsAt(t, i) == {h \in HeaderEnds(t, i) : TailsAfter(t, h) # {}}
CallAt(t, i) ==
    LET h == Greatest(CallsAt(t, i)) IN [header |-> h, tail |-> Least(TailsAfter(t, h))]

FirstCall(t) == {i \in Occurrences(t, toolFenceOpen) : CallsAt(t, i) # {}}
ToolCall[t \in Text] ==
    IF FirstCall(t) = {} THEN <<>>
    ELSE LET i == Least(FirstCall(t)) IN <<i, CallAt(t, i).tail + 1>>

\* A body the JSON decoder accepts: its strings may hold backticks, not line breaks.
ValidJSON(body) ==
    LET s == TrimSpace(body) IN
    /\ s # <<>> /\ s[1] = "{}" /\ s[Len(s)] = "{}"
    /\ \A i \in DOMAIN s : s[i] \in {"{}", "bt"}

\* The calls parseToolCalls finds: how many bodies are valid.
toolCalls(text) ==
    LET count[t \in Text] ==
        IF FirstCall(t) = {} THEN 0
        ELSE LET m == CallAt(t, Least(FirstCall(t))) IN
             count[From(t, m.tail + 2)]
                 + (IF ValidJSON(SubSeq(t, m.header + 1, m.tail - 1)) THEN 1 ELSE 0)
    IN count[text]

\* The text without the blocks, those with invalid JSON included.
textOf(text) == TrimSpace(Without(text, ToolCall))

-----------------------------------------------------------------------------
(* What is left to send at the end *)

\* Mutant: what does not continue the sent text is sent whole.
remainingOfResends(full, emitted) ==
    IF IsPrefix(emitted, full) THEN From(full, Len(emitted) + 1) ELSE full

remainingOf(full, emitted) ==
    IF IsPrefix(emitted, full) THEN From(full, Len(emitted) + 1) ELSE <<>>

-----------------------------------------------------------------------------
(* Texts on which the gate and the parser agree *)

\* Every fence is a complete call that ends at the first backticks behind it, and
\* the text does not begin with one.
WellFenced(t) ==
    /\ \A i \in Occurrences(t, toolFenceOpen) :
        /\ CallsAt(t, i) # {}
        /\ CallAt(t, i).tail + 1 = Least({k \in i+1..Len(t) : t[k] = "bt"})
    /\ ~IsPrefix(toolFenceOpen, TrimSpace(t))
=============================================================================
