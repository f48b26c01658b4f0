--------------------------- MODULE CircuitBreaker ---------------------------
(***************************************************************************)
(* The circuit breaker (resilience/circuit_breaker.py) that the threads of *)
(* one process share, around the retry loop (resilience/retry.py), as      *)
(* ingestion/github_client.py puts them together in _request.              *)
(*                                                                         *)
(* Each method of the breaker holds its lock for its whole body, so it is  *)
(* one step; the request in between is not locked, and other threads'      *)
(* reports may come while it is under way.  A call to an open breaker      *)
(* raises CircuitOpenError and changes nothing, so it has no action.       *)
(***************************************************************************)
EXTENDS Integers, FiniteSets

CONSTANTS
  Threads,      \* threads that call GitHub
  Threshold,    \* failure_threshold
  Cooldown,     \* cooldown_seconds
  MaxTries      \* settings.retry_max_attempts

ASSUME SettingsAssumption ==
  Threshold \in Nat \ {0} /\ Cooldown \in Nat \ {0} /\ MaxTries \in Nat \ {0}

VARIABLES
  state,     \* _state
  failures,  \* _consecutive_failures, counted up to Enough
  openFor,   \* seconds since _opened_at, counted up to Cooldown; -1 for None
  pc,        \* where a thread is in call
  seen,      \* its local variable current
  attempt,   \* the number of the attempt its retry loop is at
  weather,   \* how GitHub answers now
  sinceFail  \* history: seconds since a failure was reported, up to Cooldown

breakerVars == <<state, failures, openFor, pc, seen, attempt, weather, sinceFail>>

State == {"closed", "open", "half_open"}
\* The code compares the count with Threshold only.
Enough == Threshold + 1

\* requests.request answers, answers 429 or 5xx, or raises RequestException.
Outcome == {"answer", "bad_answer", "exception"}

BreakerTypeOK ==
  /\ state \in State
  /\ failures \in 0..Enough
  /\ openFor \in -1..Cooldown
  /\ pc \in [Threads -> {"idle", "calling", "succeeded", "failed"}]
  /\ seen \in [Threads -> State]
  /\ attempt \in [Threads -> 0..MaxTries]
  /\ weather \in Outcome
  /\ sinceFail \in 0..Cooldown

BreakerInit ==
  /\ state = "closed"
  /\ failures = 0
  /\ openFor = -1
  /\ pc = [t \in Threads |-> "idle"]
  /\ seen = [t \in Threads |-> "closed"]
  /\ attempt = [t \in Threads |-> 0]
  /\ weather \in Outcome
  /\ sinceFail = Cooldown

-----------------------------------------------------------------------------

\* Mutant of Cooled: strictly more than the cooldown, which is not counted.
CooledLate == openFor > Cooldown

\* The cooldown has passed since the breaker opened.
Cooled == openFor >= Cooldown

\* call: the state property turns an open breaker half open after its
\* cooldown; a thread that does not find it open goes on to the request.
Enter(t) ==
  /\ pc[t] = "idle"
  /\ state = "open" => Cooled
  /\ state' = IF state = "open" THEN "half_open" ELSE state
  /\ seen' = [seen EXCEPT ![t] = state']
  /\ pc' = [pc EXCEPT ![t] = "calling"]
  /\ attempt' = [attempt EXCEPT ![t] = 1]
  /\ UNCHANGED <<failures, openFor, weather, sinceFail>>

LastAttempt(t) == attempt[t] = MaxTries

\* Mutant of Result: the last exception is swallowed.
ResultSwallowed(outcome) == "succeeded"

\* What the retry loop's end means to the breaker: the last exception is
\* raised, the last bad answer is returned like a good one.
Result(outcome) == IF outcome = "exception" THEN "failed" ELSE "succeeded"

\* One attempt of the retry loop ends: with an answer, or as the last one,
\* the loop ends; otherwise the thread sleeps and tries again.
Attempt(t) ==
  /\ pc[t] = "calling"
  /\ IF weather = "answer" \/ LastAttempt(t)
     THEN /\ pc' = [pc EXCEPT ![t] = Result(weather)]
          /\ attempt' = [attempt EXCEPT ![t] = 0]
     ELSE /\ attempt' = [attempt EXCEPT ![t] = @ + 1]
          /\ UNCHANGED pc
  /\ UNCHANGED <<state, failures, openFor, seen, weather, sinceFail>>

\* Mutant of OnSuccess: only the count is reset.
OnSuccessCountOnly(t) ==
  /\ pc[t] = "succeeded"
  /\ failures' = 0
  /\ pc' = [pc EXCEPT ![t] = "idle"]
  /\ UNCHANGED <<state, openFor, seen, attempt, weather, sinceFail>>

\* _on_success: closes the breaker, whatever its state.
OnSuccess(t) ==
  /\ pc[t] = "succeeded"
  /\ failures' = 0
  /\ state' = "closed"
  /\ openFor' = -1
  /\ pc' = [pc EXCEPT ![t] = "idle"]
  /\ UNCHANGED <<seen, attempt, weather, sinceFail>>

\* Mutant of OnFailure: a failed probe keeps the time of the first opening.
OnFailureOldStamp(t) ==
  LET n == IF failures < Enough THEN failures + 1 ELSE failures
  IN  /\ pc[t] = "failed"
      /\ failures' = n
      /\ IF state = "half_open" \/ n >= Threshold
         THEN state' = "open" /\ openFor' = IF openFor = -1 THEN 0 ELSE openFor
         ELSE UNCHANGED <<state, openFor>>
      /\ pc' = [pc EXCEPT ![t] = "idle"]
      /\ sinceFail' = 0
      /\ UNCHANGED <<seen, attempt, weather>>

\* _on_failure: counts, and opens the breaker (again) from now on when it was
\* half open or the count is reached.
OnFailure(t) ==
  LET n == IF failures < Enough THEN failures + 1 ELSE failures
  IN  /\ pc[t] = "failed"
      /\ failures' = n
      /\ IF state = "half_open" \/ n >= Threshold
         THEN state' = "open" /\ openFor' = 0
         ELSE UNCHANGED <<state, openFor>>
      /\ pc' = [pc EXCEPT ![t] = "idle"]
      /\ sinceFail' = 0
      /\ UNCHANGED <<seen, attempt, weather>>

\* A second passes.
Tick ==
  /\ sinceFail < Cooldown \/ openFor \in 0..(Cooldown - 1)
  /\ openFor' = IF openFor \in 0..(Cooldown - 1) THEN openFor + 1 ELSE openFor
  /\ sinceFail' = IF sinceFail < Cooldown THEN sinceFail + 1 ELSE sinceFail
  /\ UNCHANGED <<state, failures, pc, seen, attempt, weather>>

\* GitHub, or the network to it, fails or recovers.
Weather ==
  /\ weather' \in Outcome
  /\ UNCHANGED <<state, failures, openFor, pc, seen, attempt, sinceFail>>

-----------------------------------------------------------------------------

\* What a thread does inside a call.
Step(t) == Attempt(t) \/ OnSuccess(t) \/ OnFailure(t)

BreakerNext ==
  \/ \E t \in Threads : Enter(t) \/ Step(t)
  \/ Tick
  \/ Weather

BreakerSpec == BreakerInit /\ [][BreakerNext]_breakerVars

\* Time passes, a call ends (the request has a timeout), and GitHub is called
\* again and again: backfills and webhooks do not stop.
Fairness ==
  /\ WF_breakerVars(Tick)
  /\ \A t \in Threads : WF_breakerVars(Enter(t)) /\ WF_breakerVars(Step(t))

FairSpec == BreakerSpec /\ Fairness

-----------------------------------------------------------------------------
(* Properties                                                              *)

\* The breaker is closed exactly while fewer than Threshold failures have
\* been reported since the last success: neither a failed probe, nor a report
\* of a call that began in an earlier state, makes state and count disagree.
StateMatchesCount ==
  /\ state = "closed" <=> failures < Threshold
  /\ state = "closed" <=> openFor = -1

\* "fails fast (no network call) for `cooldown_seconds`": with Threshold
\* failures and no success since, no call begins within the cooldown of the
\* last failure reported, be it of a probe or of a call that was late.
CooldownIsWaited ==
  [][\A t \in Threads :
       pc[t] = "idle" /\ pc'[t] = "calling" /\ failures >= Threshold
         => sinceFail >= Cooldown]_breakerVars

\* When GitHub answers for good the breaker closes for good, whatever calls
\* are still under way and however often it has opened before.
Recovers == <>[](weather = "answer") => <>[](state = "closed")

\* When GitHub cannot be reached for good the breaker ends up not closed, so
\* that calls are let through after a cooldown only, whatever successes were
\* still under way when the outage began.
OutageIsCutOff == <>[](weather = "exception") => <>[](state # "closed")
=============================================================================
