------------------------------ MODULE EventLog ------------------------------
(***************************************************************************)
(* What the persistent half of a session promises to everybody above it:   *)
(* one append-only history, and any number of runtimes each of which holds *)
(* a state that is the replay of a prefix of that history and only ever    *)
(* moves forward along it.  SessionRuntime.tla is the detailed system that *)
(* implements this contract.                                               *)
(***************************************************************************)
EXTENDS Naturals, Sequences

CONSTANTS Readers,  \* the runtimes that fold the history into a state
          Events    \* what an entry of the history may be

VARIABLES log,      \* the one durable history of the session
          view      \* what each reader has folded so far

vars == <<log, view>>

IsPrefixOf(s, t) == /\ Len(s) <= Len(t)
                    /\ \A i \in 1..Len(s) : s[i] = t[i]

Init == /\ log = <<>>
        /\ view = [r \in Readers |-> <<>>]

\* One entry is added at the end; nothing already written changes.
Extend == /\ Len(log') = Len(log) + 1
          /\ log'[Len(log')] \in Events
          /\ IsPrefixOf(log, log')
          /\ UNCHANGED view

\* A reader catches up with some or all of the history.
Advance(r) == /\ view' = [view EXCEPT ![r] = view'[r]]
              /\ IsPrefixOf(view[r], view'[r])
              /\ IsPrefixOf(view'[r], log)
              /\ UNCHANGED log

\* Readers of a process that is gone, or one that was closed, hold nothing.
Forget(S) == /\ view' = [r \in Readers |-> IF r \in S THEN <<>> ELSE view[r]]
             /\ UNCHANGED log

Next == \/ Extend
        \/ \E r \in Readers : Advance(r)
        \/ \E S \in SUBSET Readers : Forget(S)

Spec == Init /\ [][Next]_vars
=============================================================================
