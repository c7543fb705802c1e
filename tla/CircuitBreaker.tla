----------------------------- MODULE CircuitBreaker -----------------------------
(***************************************************************************)
(* The circuit breaker of src/llm/circuit_breaker.py, shared by the API    *)
(* threads that call the model through OpenAICompatibleLLM._chat.  allow,  *)
(* on_success and on_failure run under the breaker's lock and are one step *)
(* each; the call they surround is in flight between them, so the answer   *)
(* of a call admitted in one state of the breaker arrives in another.      *)
(*                                                                         *)
(* A refused caller fails at once and changes nothing: it is a stutter.    *)
(***************************************************************************)
EXTENDS Integers, FiniteSets

CONSTANTS
  Callers,       \* threads that use the client
  Threshold,     \* failure_threshold of an enabled breaker
  Cooldown,      \* cooldown_seconds, in ticks of the clock
  MaxSetBacks    \* bound: how often the system clock is set back

ASSUME ThresholdAssumption == Threshold \in Nat \ {0}
ASSUME CooldownAssumption == Cooldown \in Nat \ {0}
ASSUME SetBackAssumption == MaxSetBacks \in Nat

VARIABLES
  state,       \* closed, open or half_open
  failures,    \* consecutive failures; kept at Threshold, where it stops to matter
  probing,     \* _probe_in_flight
  elapsed,     \* _now() - _opened_at, kept at Cooldown
  call,        \* the call each thread has in flight
  endpoint,    \* it answers, does not, or answers with what is no text
  sinceAdmit,  \* time since a call was last admitted, kept at Cooldown (history)
  setBacks     \* how often the clock was set back

breaker == <<state, failures, probing, elapsed>>
breakerVars == <<breaker, call, endpoint, sinceAdmit, setBacks>>

CircuitState == {"closed", "open", "half_open"}
Endpoint == {"up", "down", "garbled"}
(* doomed: the endpoint was down at some moment of the call, which may     *)
(* therefore fail; probe: it was admitted to try an open circuit.          *)
Call == [flying: BOOLEAN, probe: BOOLEAN, doomed: BOOLEAN]
NoCall == [flying |-> FALSE, probe |-> FALSE, doomed |-> FALSE]

Upto(n, bound) == IF n < bound THEN n ELSE bound

BreakerInit ==
  /\ state = "closed"
  /\ failures = 0
  /\ probing = FALSE
  /\ elapsed = Cooldown
  /\ call = [c \in Callers |-> NoCall]
  /\ endpoint = "up"
  /\ sinceAdmit = Cooldown
  /\ setBacks = 0

-----------------------------------------------------------------------------
(* allow() said yes, and the request is sent.                              *)
Send(c, probe) ==
  /\ call' = [call EXCEPT ![c] = [flying |-> TRUE, probe |-> probe, doomed |-> endpoint = "down"]]
  /\ sinceAdmit' = 0
  /\ UNCHANGED <<endpoint, setBacks>>

AllowClosed(c) ==
  /\ ~call[c].flying
  /\ state = "closed"
  /\ Send(c, FALSE)
  /\ UNCHANGED breaker

(* The cooldown is over: the circuit is half open, this call is the probe. *)
AllowOpen(c) ==
  /\ ~call[c].flying
  /\ state = "open" /\ elapsed >= Cooldown
  /\ state' = "half_open"
  /\ probing' = TRUE
  /\ Send(c, TRUE)
  /\ UNCHANGED <<failures, elapsed>>

-----------------------------------------------------------------------------
(* The call of c is over.                                                  *)
Land(c) == call' = [call EXCEPT ![c] = NoCall] /\ UNCHANGED <<endpoint, sinceAdmit, setBacks>>

OnSuccess ==
  /\ state' = "closed"
  /\ failures' = 0
  /\ probing' = FALSE
  /\ UNCHANGED elapsed

(* Mutant: reopening does not restart the clock.                           *)
OnFailure_KeepsClock ==
  LET n == Upto(failures + 1, Threshold) IN
  /\ failures' = n
  /\ IF state = "half_open"
       THEN state' = "open" /\ probing' = FALSE /\ UNCHANGED elapsed
       ELSE /\ UNCHANGED probing
            /\ IF n >= Threshold THEN state' = "open" /\ elapsed' = 0
               ELSE UNCHANGED <<state, elapsed>>

(* Mutant: the half-open branch is missing and the threshold is tested for *)
(* equality.                                                               *)
OnFailure_NoReopen ==
  LET n == Upto(failures + 1, Threshold) IN
  /\ failures' = n
  /\ UNCHANGED probing
  /\ IF n = Threshold /\ failures < Threshold
       THEN state' = "open" /\ elapsed' = 0
       ELSE UNCHANGED <<state, elapsed>>

(* A failure in half_open reopens the circuit; so does the one that        *)
(* reaches the threshold, and one that arrives in open restarts its clock. *)
OnFailure ==
  LET n == Upto(failures + 1, Threshold) IN
  /\ failures' = n
  /\ \/ state = "half_open" /\ state' = "open" /\ elapsed' = 0 /\ probing' = FALSE
     \/ /\ state # "half_open"
        /\ IF n >= Threshold THEN state' = "open" /\ elapsed' = 0
           ELSE UNCHANGED <<state, elapsed>>
        /\ UNCHANGED probing

(* The endpoint answered, perhaps to a retry after it came back.           *)
Succeed(c) ==
  /\ call[c].flying /\ endpoint = "up"
  /\ OnSuccess
  /\ Land(c)

(* Timeouts, refused connections and error answers, retries exhausted.     *)
Fail(c) ==
  /\ call[c].flying /\ call[c].doomed
  /\ OnFailure
  /\ Land(c)

(* LLMOutputError, or the TypeError of an answer of another shape: the     *)
(* breaker is told nothing.                                                *)
OutputError(c) ==
  /\ call[c].flying /\ endpoint = "garbled"
  /\ Land(c)
  /\ UNCHANGED breaker

-----------------------------------------------------------------------------
(* The clock and the endpoint (external).                                  *)
Tick ==
  /\ elapsed' = Upto(elapsed + 1, Cooldown)
  /\ sinceAdmit' = Upto(sinceAdmit + 1, Cooldown)
  /\ UNCHANGED <<state, failures, probing, call, endpoint, setBacks>>

(* time.time follows the system clock, which may be set back: then more    *)
(* than the cooldown has to pass.                                          *)
SetBack ==
  /\ setBacks < MaxSetBacks
  /\ setBacks' = setBacks + 1
  /\ \E back \in 1..2 * Cooldown : elapsed' = elapsed - back
  /\ UNCHANGED <<state, failures, probing, call, endpoint, sinceAdmit>>

TurnsInto(e) ==
  /\ endpoint' = e /\ e # endpoint
  /\ call' = [c \in Callers |->
               [call[c] EXCEPT !.doomed = @ \/ (e = "down" /\ call[c].flying)]]
  /\ UNCHANGED <<breaker, sinceAdmit, setBacks>>

Allow(c) == AllowClosed(c) \/ AllowOpen(c)
Return(c) == Succeed(c) \/ Fail(c) \/ OutputError(c)

BreakerNext ==
  \/ \E c \in Callers : Allow(c) \/ Return(c)
  \/ Tick \/ SetBack
  \/ \E e \in Endpoint : TurnsInto(e)

BreakerSpec == BreakerInit /\ [][BreakerNext]_breakerVars

(* Every call ends (the client has a time-out), time passes, and customers *)
(* keep calling: otherwise nobody would find out that the endpoint is back.*)
BreakerFairness ==
  /\ \A c \in Callers : WF_breakerVars(Return(c))
  /\ WF_breakerVars(Tick)
  /\ WF_breakerVars(\E c \in Callers : Allow(c))

FairBreaker == BreakerSpec /\ BreakerFairness

-----------------------------------------------------------------------------
(* Every variable stays in its type, and the parts of the breaker agree: a *)
(* probe is in flight exactly when it is half open, so the branch of allow *)
(* for a half-open breaker without a probe is never taken; it is closed    *)
(* exactly below the threshold.                                            *)
BreakerTypeOK ==
  /\ state \in CircuitState
  /\ failures \in 0..Threshold
  /\ probing \in BOOLEAN
  /\ elapsed \in Int /\ elapsed <= Cooldown
  /\ call \in [Callers -> Call]
  /\ endpoint \in Endpoint
  /\ sinceAdmit \in 0..Cooldown
  /\ setBacks \in 0..MaxSetBacks
  /\ probing <=> state = "half_open"
  /\ state = "closed" <=> failures < Threshold

Admits(c) == ~call[c].flying /\ call'[c].flying

(* While the circuit is not closed, at least Cooldown passes between two   *)
(* calls that reach the endpoint, whatever answers of earlier calls arrive *)
(* in between and although the clock is set back (no storm of probes).     *)
ProbeSpacing ==
  [][\A c \in Callers : Admits(c) /\ state # "closed" => sinceAdmit = Cooldown]_breakerVars

(* An outage, however long, is survived: once the endpoint is back for     *)
(* good the breaker closes for good, with no one resetting it, also when   *)
(* the clock was set back during the cooldown.                             *)
RecoversFromOutage ==
  [](endpoint # "garbled") /\ <>[](endpoint = "up") => <>[](state = "closed")
=============================================================================
