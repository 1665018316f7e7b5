---------------------------- MODULE SessionTitle ----------------------------
(***************************************************************************)
(* The name a session gets from its first message: asked of a model while  *)
(* the turn already runs, cleaned, and recorded                            *)
(* (packages/runtime/src/session-title.ts, autoTitleInBackground of        *)
(* desktop-host.ts).                                                       *)
(*                                                                         *)
(* A text is a sequence of marks: "x" a letter, " " a blank, "q" a quote,  *)
(* "t" the label "Title:", "c" a control character, "n" a line break, "."  *)
(* any other sign.                                                         *)
(***************************************************************************)
EXTENDS Naturals, Sequences, SequencesExt, FiniteSetsExt

CONSTANTS Messages,       \* the messages the user sends
          MaxTitleChars

-----------------------------------------------------------------------------
Without(text, marks) == SelectSeq(text, LAMBDA m : m \notin marks)

Trim(text) ==
  LET kept == {i \in DOMAIN text : text[i] # " "}
  IN  IF kept = {} THEN <<>> ELSE SubSeq(text, Min(kept), Max(kept))

Unwrap(text) ==
  IF Len(text) >= 2 /\ Head(text) = "q" /\ Last(text) = "q" THEN Trim(Tail(Front(text))) ELSE text

FirstLine(text) ==
  LET Line(i) == LET ends == {j \in i..Len(text) : text[j] = "n"}
                 IN  Trim(SubSeq(text, i, IF ends = {} THEN Len(text) ELSE Min(ends) - 1))
      starts == {i \in DOMAIN text : (i = 1 \/ text[i - 1] = "n") /\ Line(i) # <<>>}
  IN  IF starts = {} THEN <<>> ELSE Line(Min(starts))

Unlabel(text) == IF text # <<>> /\ Head(text) = "t" THEN Trim(Tail(text)) ELSE text
Collapse(text) ==
  FoldLeft(LAMBDA out, m : IF m = " " /\ out # <<>> /\ Last(out) = " " THEN out ELSE Append(out, m),
           <<>>, text)
Truncate(text) ==
  IF Len(text) <= MaxTitleChars THEN text ELSE Append(SubSeq(text, 1, MaxTitleChars - 1), ".")

\* sanitizeTitle: <<>> when nothing with a letter is left.
SanitizeTitle(raw) ==
  LET line == Without(FirstLine(raw), {"c"})
      title == Collapse(Unwrap(Trim(Unlabel(Unwrap(Trim(line))))))
  IN  IF "x" \in ToSet(title) THEN Truncate(title) ELSE <<>>

-----------------------------------------------------------------------------
VARIABLES
  at,      \* each message: its request for a name
  agent,   \* idle, starting (before turn.start), turn
  turns,   \* turns recorded, so user messages in the state
  mute,    \* the model has said something that makes no title
  title    \* the message that named the session, or "none"

vars == <<at, agent, turns, mute, title>>

TypeOK ==
  /\ at \in [Messages -> {"none", "opening", "asking", "naming", "over"}]
  /\ agent \in {"idle", "starting", "turn"} /\ turns \in Nat
  /\ mute \in BOOLEAN /\ title \in Messages \cup {"none"}

Init ==
  /\ at = [m \in Messages |-> "none"] /\ agent = "idle" /\ turns = 0
  /\ mute = FALSE /\ title = "none"

\* A message wakes the agent; whether it may name the session is decided before
\* the first await, while no user message is in the state.
Send(m) ==
  /\ at[m] = "none"
  /\ IF agent # "idle" THEN at' = [at EXCEPT ![m] = "over"] /\ UNCHANGED agent
     ELSE /\ agent' = "starting"
          /\ at' = [at EXCEPT ![m] = IF turns = 0 THEN "opening" ELSE "over"]
  /\ UNCHANGED <<turns, mute, title>>

TurnStarts ==
  /\ agent = "starting" /\ agent' = "turn" /\ turns' = turns + 1
  /\ UNCHANGED <<at, mute, title>>

TurnFails == agent = "starting" /\ agent' = "idle" /\ UNCHANGED <<at, turns, mute, title>>
TurnEnds == agent = "turn" /\ agent' = "idle" /\ UNCHANGED <<at, turns, mute, title>>

ProviderOpens(m) ==
  /\ at[m] = "opening" /\ at' = [at EXCEPT ![m] = "asking"]
  /\ UNCHANGED <<agent, turns, mute, title>>

\* The reply is drained; SanitizeTitle makes a title of it or not.
Drained(m) ==
  /\ at[m] = "asking"
  /\ \E usable \in BOOLEAN :
       /\ at' = [at EXCEPT ![m] = IF usable THEN "naming" ELSE "over"]
       /\ mute' = (mute \/ ~usable)
  /\ UNCHANGED <<agent, turns, title>>

Named(m) ==
  /\ at[m] = "naming" /\ at' = [at EXCEPT ![m] = "over"]
  /\ title' = m
  /\ UNCHANGED <<agent, turns, mute>>

Next == \/ \E m \in Messages : Send(m) \/ ProviderOpens(m) \/ Drained(m) \/ Named(m)
        \/ TurnStarts \/ TurnFails \/ TurnEnds

\* The provider answers (ProviderRequest.tla ends every request).
Fairness == \A m \in Messages : WF_vars(ProviderOpens(m) \/ Drained(m) \/ Named(m))

Spec == Init /\ [][Next]_vars /\ Fairness

-----------------------------------------------------------------------------
\* The message that started the first turn names the session, unless the model
\* says nothing usable: the turn that starts meanwhile must not hide that it was
\* the first.
FirstIsNamed ==
  (turns = 1 /\ agent = "turn" /\ title = "none")
    ~> (title # "none" \/ mute)
=============================================================================
