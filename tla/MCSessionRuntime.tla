-------------------------- MODULE MCSessionRuntime --------------------------
(* Instances of SessionRuntime for TLC.                                    *)
EXTENDS SessionRuntime, TLC

CONSTANTS a, b, p, q

\* One runtime in each of two processes ...
TwoProcs == [r \in {a, b} |-> IF r = a THEN p ELSE q]
\* ... or two runtimes in one process.
OneProc == [r \in {a, b} |-> p]

\* How often each runtime may record.
OneAndOne == [r \in {a, b} |-> 1]
TwoAndOne == [r \in {a, b} |-> IF r = a THEN 2 ELSE 1]
=============================================================================
