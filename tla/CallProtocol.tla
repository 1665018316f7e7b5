---------------------------- MODULE CallProtocol ----------------------------
(***************************************************************************)
(* What a session promises about the tool calls of its model replies: a    *)
(* call is asked for once, starts at most once and only while it is owed   *)
(* an answer, and is answered at most once, after which nothing of it      *)
(* happens any more.  Ending a turn interrupts what still runs.            *)
(***************************************************************************)
CONSTANT CallIds

VARIABLES asked, running, answered

vars == <<asked, running, answered>>

Init == asked = {} /\ running = {} /\ answered = {}

Ask == /\ asked' \in SUBSET CallIds
       /\ asked \subseteq asked'
       /\ UNCHANGED <<running, answered>>

Start(c) == /\ c \in asked \ (running \cup answered)
            /\ running' = running \cup {c}
            /\ UNCHANGED <<asked, answered>>

\* A refused call is answered without having started.
Answer(c) == /\ c \in asked \ answered
             /\ answered' = answered \cup {c}
             /\ running' = running \ {c}
             /\ UNCHANGED asked

EndTurn == running' = {} /\ UNCHANGED <<asked, answered>>

Next == \/ Ask
        \/ \E c \in asked : Start(c) \/ Answer(c)
        \/ EndTurn

Spec == Init /\ [][Next]_vars
=============================================================================
