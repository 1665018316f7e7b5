-------------------------- MODULE ProviderRequest --------------------------
(***************************************************************************)
(* One request to a model over HTTP: attempts, deadlines, back-off, stop   *)
(* (packages/providers/src/http.ts, http-errors.ts, stream() of the two    *)
(* providers).                                                             *)
(*                                                                         *)
(* The server, the network, the clock and the user act freely between the  *)
(* awaits of postSse.  A delay has no length: a timer that runs may fire.  *)
(* onStatus is left out: nothing in the repository passes one.             *)
(***************************************************************************)
EXTENDS Naturals, Sequences, SequencesExt, FiniteSets

CONSTANTS MaxRetries,     \* maxRetries (3 in the code)
          MaxChunks       \* a bound on what the server sends

VARIABLES
  phase,      \* the await the request stands at
  attempt,
  open,       \* the attempts whose connection is still held
  heard,      \* for every chunk handed on, the attempt it came from
  stopped,    \* options.signal.aborted
  status,     \* the error status whose body is read, 0 when there is none
  outcome

vars == <<phase, attempt, open, heard, stopped, status, outcome>>

Phases == {"fetch", "firstByte", "connected", "errorBody", "retrying", "backoff", "streaming",
           "over"}
Statuses == {400, 401, 413, 429, 500}
Outcomes == {"none", "ok", "aborted", "timeout", "provider_error", "rate_limited",
             "context_overflow", "unreported"}

TypeOK ==
  /\ phase \in Phases /\ attempt \in 0..MaxRetries /\ open \subseteq 0..MaxRetries
  /\ heard \in Seq(0..MaxRetries) /\ stopped \in BOOLEAN
  /\ status \in Statuses \union {0} /\ outcome \in Outcomes

Init ==
  /\ phase = "fetch" /\ attempt = 0 /\ open = {0} /\ heard = <<>>
  /\ stopped = FALSE /\ status = 0 /\ outcome = "none"

-----------------------------------------------------------------------------
ClassifyHttpError(code) ==
  CASE code = 429 -> "rate_limited"
    [] code = 413 -> "context_overflow"
    [] OTHER -> "provider_error"

IsRetryableStatus(code) == code = 429 \/ code >= 500

\* stream(): whatever is thrown once the user has stopped is a stop.
End(reason) ==
  /\ phase' = "over"
  /\ outcome' = IF stopped THEN "aborted" ELSE reason

\* A catch block of postSse: the bridge has cut the connection.
TryAgain(reason, retryable) ==
  /\ open' = open \ {attempt}
  /\ IF stopped \/ ~retryable \/ attempt >= MaxRetries
     THEN End(reason) /\ UNCHANGED attempt
     ELSE attempt' = attempt + 1 /\ phase' = "retrying" /\ UNCHANGED outcome
  /\ UNCHANGED <<heard, stopped, status>>

Waiting == phase \in {"fetch", "firstByte"}

\* The connection, or the reading of its first byte, fails; a stop makes it fail.
Fails == Waiting /\ TryAgain("provider_error", TRUE)

\* withTimeout: one deadline for the headers and the first byte.
FirstByteTimeout == Waiting /\ TryAgain("timeout", TRUE)

Answers ==
  /\ phase = "fetch"
  /\ \/ phase' = "firstByte" /\ UNCHANGED <<open, status, outcome>>
     \/ open' = open \ {attempt} /\ End("provider_error") /\ UNCHANGED status   \* 200 without a body
     \/ \E code \in Statuses :
          phase' = "errorBody" /\ status' = code /\ UNCHANGED <<open, outcome>>
  /\ UNCHANGED <<attempt, heard, stopped>>

\* readErrorBody, which has no deadline, returns the text or, if reading fails, "".
ErrorBodyRead ==
  /\ phase = "errorBody"
  /\ TryAgain(ClassifyHttpError(status), IsRetryableStatus(status))

\* The next round of the loop; an aborted bridge makes its fetch fail at once.
Slept ==
  /\ phase = "backoff"
  /\ IF stopped
     THEN End("aborted") /\ UNCHANGED <<open, status>>
     ELSE phase' = "fetch" /\ open' = open \union {attempt} /\ status' = 0 /\ UNCHANGED outcome
  /\ UNCHANGED <<attempt, heard, stopped>>

FirstByte ==
  /\ phase = "firstByte"
  /\ phase' = "connected"
  /\ UNCHANGED <<attempt, open, heard, stopped, status, outcome>>

\* The retry, or the connection, is recorded.  The first byte, or the end of an
\* empty body, is then handed on by the first pull.
Recorded ==
  /\ \/ phase = "retrying" /\ phase' = "backoff" /\ UNCHANGED heard
     \/ phase = "connected" /\ phase' = "streaming" /\ heard' = Append(heard, attempt)
  /\ UNCHANGED <<attempt, open, stopped, status, outcome>>

\* The append fails: nobody closes the connection then, unless a stop has cut it.
RecordFails ==
  /\ phase \in {"retrying", "connected"}
  /\ open' = IF stopped THEN {} ELSE open
  /\ End("unreported")
  /\ UNCHANGED <<attempt, heard, stopped, status>>

-----------------------------------------------------------------------------
\* monitoredBody.
Chunk ==
  /\ phase = "streaming"
  /\ Len(heard) < MaxChunks
  /\ heard' = Append(heard, attempt)
  /\ UNCHANGED <<phase, attempt, open, stopped, status, outcome>>

BodyEnds(reason) ==
  /\ phase = "streaming"
  /\ open' = open \ {attempt}
  /\ IF reason = "ok" THEN phase' = "over" /\ outcome' = "ok" ELSE End(reason)
  /\ UNCHANGED <<attempt, heard, stopped, status>>

Done == BodyEnds("ok")
Breaks == BodyEnds("provider_error")

\* Mutant: a stream that falls silent is asked for again.
IdleTimeout_Again == phase = "streaming" /\ TryAgain("timeout", TRUE)

IdleTimeout == BodyEnds("timeout")

Stop == ~stopped /\ phase # "over" /\ stopped' = TRUE /\ UNCHANGED <<phase, attempt, open, heard, status, outcome>>

Next ==
  \/ Fails \/ FirstByteTimeout \/ Answers \/ ErrorBodyRead \/ Slept \/ FirstByte
  \/ Recorded \/ RecordFails
  \/ Chunk \/ Done \/ Breaks \/ IdleTimeout \/ Stop

-----------------------------------------------------------------------------
\* Mutant: the bridge is taken down once the headers are there.
StopCuts_Headers == stopped /\ (Fails \/ Breaks)

\* bridgeAbort: a stop cuts whatever is being waited for, the error body included.
StopCuts == stopped /\ (Fails \/ ErrorBodyRead \/ Breaks)

\* Timers fire, an append ends and an abort cuts; the server owes nothing.
Fairness ==
  /\ WF_vars(FirstByteTimeout) /\ WF_vars(IdleTimeout) /\ WF_vars(Slept)
  /\ WF_vars(StopCuts) /\ WF_vars(Recorded \/ RecordFails)

Spec == Init /\ [][Next]_vars /\ Fairness

-----------------------------------------------------------------------------
\* What the consumer hears comes from one attempt: an answer that has begun is
\* never asked for again, so no text and no call reaches a turn twice, no attempt
\* starts while the connection of an earlier one is held, and none is held in the
\* end, but for the one whose answer could not be recorded (http.ts:80-184).
OneAnswer ==
  /\ heard # <<>> => phase \in {"streaming", "over"} /\ ToSet(heard) = {attempt}
  /\ open \subseteq {attempt}
  /\ phase = "over" /\ outcome # "unreported" => open = {}

\* A request ends whatever the server does, except that a refusal whose body
\* never comes is waited for until the user stops (http-errors.ts:37-45).
RequestEnds == <>[](phase = "over" \/ (phase = "errorBody" /\ ~stopped))
=============================================================================
