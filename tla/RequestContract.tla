-------------------------- MODULE RequestContract --------------------------
(***************************************************************************)
(* What streamGenerateWithFiles promises to the handler that calls it.      *)
(*                                                                          *)
(* A call may be turned away at once or starts working.  While it works it  *)
(* sends the prompt to the upstream at most MaxSends times.  Once a part of *)
(* an answer has reached the client it sends nothing more: the client has   *)
(* one answer, never the beginnings of two.  Every call that starts ends,   *)
(* with an answer or a failure, and nothing happens to it afterwards.       *)
(***************************************************************************)
EXTENDS Naturals

CONSTANTS Requests, MaxSends

VARIABLES phase, sends

vars == <<phase, sends>>

Ended == {"answered", "failed"}

Init ==
    /\ phase = [r \in Requests |-> "new"]
    /\ sends = [r \in Requests |-> 0]

Move(r, from, to) ==
    /\ phase[r] \in from
    /\ phase' = [phase EXCEPT ![r] = to]
    /\ UNCHANGED sends

Reject(r) == Move(r, {"new"}, "failed")
Accept(r) == Move(r, {"new"}, "working")
Stream(r) == sends[r] > 0 /\ Move(r, {"working"}, "streaming")
Answer(r) == sends[r] > 0 /\ Move(r, {"working", "streaming"}, "answered")
Fail(r) == Move(r, {"working", "streaming"}, "failed")

Send(r) ==
    /\ phase[r] = "working"
    /\ sends[r] < MaxSends
    /\ sends' = [sends EXCEPT ![r] = @ + 1]
    /\ UNCHANGED phase

Step(r) == Reject(r) \/ Accept(r) \/ Stream(r) \/ Answer(r) \/ Fail(r) \/ Send(r)

Next == \E r \in Requests : Step(r)

EveryCallEnds == \A r \in Requests : phase[r] = "working" ~> phase[r] \in Ended

Spec == Init /\ [][Next]_vars
LiveSpec == Spec /\ EveryCallEnds
=============================================================================
