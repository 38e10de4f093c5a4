------------------------------ MODULE Exchange ------------------------------
(***************************************************************************)
(* What the connection to the switch promises to a caller that gives it up  *)
(* after a failure: requests are asked one at a time, and an answer, when   *)
(* one is delivered, is the answer to the request asked last.               *)
(***************************************************************************)
EXTENDS Naturals

VARIABLES
    phase,   \* "down", "ready", "asking", "answered" or "failed"
    asked,   \* the name of the last request
    answer   \* the request the delivered answer belongs to, 0 if none is

xvars == <<phase, asked, answer>>

Init == phase = "down" /\ asked = 0 /\ answer = 0

Open ==
    /\ phase = "down"
    /\ phase' \in {"ready", "failed"}
    /\ UNCHANGED <<asked, answer>>

Ask ==
    /\ phase \in {"ready", "answered"}
    /\ phase' \in {"asking", "failed"}
    /\ asked' = asked + 1
    /\ answer' = 0

Answer ==
    /\ phase = "asking"
    /\ phase' = "answered"
    /\ answer' = asked
    /\ UNCHANGED asked

Fail ==
    /\ phase \in {"ready", "asking", "answered"}
    /\ phase' = "failed"
    /\ answer' = 0
    /\ UNCHANGED asked

Close ==
    /\ phase # "asking"
    /\ phase' = "down"
    /\ answer' = 0
    /\ UNCHANGED asked

Next == Open \/ Ask \/ Answer \/ Fail \/ Close

Spec == Init /\ [][Next]_xvars
=============================================================================
