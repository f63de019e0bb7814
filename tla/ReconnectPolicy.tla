---------------------------- MODULE ReconnectPolicy ----------------------------
(* core/src/network/reconnect_policy.{h,cpp}: the counter of failed attempts    *)
(* and the delay before the next one.  The object has two fields and no lock;   *)
(* a policy is the record of the two, an operation maps it to its successor.    *)
EXTENDS Integers

CONSTANTS MaxAttempts,     \* Config::max_attempts
          InitialDelayMs,  \* Config::initial_delay_ms
          MaxDelayMs       \* Config::max_delay_ms

\* qk4_create() replaces a count that is not positive; the two delays are the
\* constants 1000 and 60000 of Engine's constructor.
ASSUME PolicyConfig ==
  /\ MaxAttempts \in Nat \ {0}
  /\ InitialDelayMs \in Nat \ {0} /\ MaxDelayMs \in Nat
  /\ InitialDelayMs <= MaxDelayMs

Policies == [attempt : Nat, reconnecting : BOOLEAN]

Reset(p) == [attempt |-> 0, reconnecting |-> FALSE]

OnConnected(p) == Reset(p)

OnDisconnected(p) == IF p.reconnecting THEN p ELSE [attempt |-> 0, reconnecting |-> TRUE]

OnAttemptFailed(p) == [p EXCEPT !.attempt = @ + 1]

\* A wrong variant: one attempt too many.
IsExhaustedLate(p) == p.attempt > MaxAttempts

IsExhausted(p) == p.attempt >= MaxAttempts

\* The loop of getNextDelayMs(): its delay after the passes for 2 .. n.
Doubled[n \in Nat] ==
  IF n <= 1 THEN InitialDelayMs
  ELSE IF Doubled[n - 1] < MaxDelayMs THEN 2 * Doubled[n - 1] ELSE Doubled[n - 1]

\* A wrong variant: what the loop has doubled is not cut to the greatest delay.
NextDelayMsUncut(p) == IF p.attempt <= 0 THEN InitialDelayMs ELSE Doubled[p.attempt]

NextDelayMs(p) ==
  IF p.attempt <= 0 THEN InitialDelayMs
  ELSE IF Doubled[p.attempt] < MaxDelayMs THEN Doubled[p.attempt] ELSE MaxDelayMs
================================================================================
