----------------------------- MODULE TaskProtocol -----------------------------
(***************************************************************************)
(* What the application promises the host and its user about tasks,        *)
(* without saying how: a process works, waits for one answer, or rests; it *)
(* asks for one thing at a time; an answer is used once, by the process    *)
(* that asked for it; an answer for a process that is gone changes nothing.*)
(***************************************************************************)
EXTENDS Integers

VARIABLES
    id,         \* the process, or the last one there was
    status,     \* "absent", "working", "waiting" or "resting"
    count,      \* questions the process has asked so far
    asked       \* questions without an answer, <<process, number>>

protocolVars == <<id, status, count, asked>>

Own(q) == status # "absent" /\ q[1] = id

Init ==
    /\ id = 0 /\ status = "absent" /\ count = 0 /\ asked = {}

\* a new process works, and its first question is the code it needs to start
Start ==
    /\ status = "absent"
    /\ id' = id + 1
    /\ \/ status' = "working" /\ count' = 1 /\ asked' = asked \union {<<id + 1, 1>>}
       \/ UNCHANGED <<status, count, asked>>

\* only a working process asks, and only when it has no open question
Ask ==
    /\ status = "working"
    /\ \A q \in asked : ~Own(q)
    /\ count' = count + 1
    /\ asked' = asked \union {<<id, count + 1>>}
    /\ UNCHANGED <<id, status>>

\* it waits when it has an open question, and rests when it has none
Pause ==
    /\ status = "working"
    /\ status' = IF \E q \in asked : Own(q) THEN "waiting" ELSE "resting"
    /\ UNCHANGED <<id, count, asked>>

\* an answer sets a waiting process to work; it may ask the next question at once, or fail
Use(q) ==
    /\ Own(q) /\ q[2] = count
    /\ \/ /\ status' \in {"working"} \union (IF status = "waiting" THEN {"resting"} ELSE {})
          /\ asked' = asked \ {q} /\ UNCHANGED count
       \/ /\ status' = "working"
          /\ count' = count + 1
          /\ asked' = (asked \ {q}) \union {<<id, count + 1>>}
       \/ /\ status' = "absent" /\ count' = 0
          /\ asked' = asked \ {q}
    /\ UNCHANGED id

Discard(q) ==
    /\ ~Own(q)
    /\ asked' = asked \ {q}
    /\ UNCHANGED <<id, status, count>>

Answer == \E q \in asked : Use(q) \/ Discard(q)

\* the user lets a resting process run on
Wake ==
    /\ status = "resting" /\ status' = "working"
    /\ UNCHANGED <<id, count, asked>>

End ==
    /\ status # "absent" /\ status' = "absent" /\ count' = 0
    /\ UNCHANGED <<id, asked>>

Next == Start \/ Ask \/ Pause \/ Answer \/ Wake \/ End

Spec == Init /\ [][Next]_protocolVars

=============================================================================
