----------------------------- MODULE SpinPeriod -----------------------------
(***************************************************************************)
(* Periodic spinning of the rclc executor (src/rclc/src/rclc/executor.c):  *)
(* rclc_executor_spin_period calls rclc_executor_spin_one_period in a      *)
(* loop until spin_some reports an error.  One call captures               *)
(* invocation_time from the system clock when it is still 0, runs          *)
(* spin_some, computes sleep_time = invocation_time + period - now in      *)
(* nanoseconds, sleeps sleep_time / 1000000 whole milliseconds when        *)
(* sleep_time > 0, and advances invocation_time by exactly one period.     *)
(*                                                                         *)
(* Time is an integer count of ticks; MsTicks ticks make one millisecond,  *)
(* so the integer division by 1000000 is a division by MsTicks.  How long  *)
(* a spin_some takes and how much the OS oversleeps are chosen by the      *)
(* environment from small sets.                                            *)
(***************************************************************************)
EXTENDS Naturals

CONSTANTS
  Period,        \* the period argument, in ticks
  MsTicks,       \* ticks per millisecond
  Durations,     \* how long one spin_some can take, in ticks
  Oversleep,     \* how much longer than asked rclc_sleep_ms can sleep
  StartTimes,    \* what the system clock reads at the first call (> 0)
  MayFail,       \* whether spin_some can return an error
  MaxOverruns,   \* how many spin_some calls may take longer than a period
  MaxRounds      \* bound on completed spin_one_period calls

ASSUME /\ Period \in Nat \ {0} /\ MsTicks \in Nat \ {0}
       /\ Durations \subseteq Nat /\ Oversleep \subseteq Nat
       /\ StartTimes \subseteq Nat \ {0}

VARIABLES
  now,            \* the system clock
  invocationTime, \* executor->invocation_time (0 = not yet captured)
  pc,             \* "running", or "returned" once spin_period returned
  k,              \* history: spin_one_period calls that advanced the time
  excess,         \* history: sum over calls of (duration - Period) when > 0
  overruns        \* environment: spin_some calls longer than Period so far

vars == <<now, invocationTime, pc, k, excess, overruns>>

\* rclc_sleep_ms(sleep_time / 1000000): whole milliseconds, truncated.
SleepTicks(st) == (st \div MsTicks) * MsTicks

\* The outcomes of spin_some that spin_period continues on, and the others.
SpinSomeResults == IF MayFail THEN {"OK", "TIMEOUT", "ERROR"} ELSE {"OK", "TIMEOUT"}

\* Lateness of the current call: how long after its slot it began.
Lateness == now - invocationTime

\* The environment's bound on overlong spin_some calls.
Admissible(d) == d > Period => overruns < MaxOverruns

-----------------------------------------------------------------------------
(* Fault variants *)

\* Fault variant: end_time_point is read before spin_some instead of after
\* it, so the sleep does not deduct the time the round took.
SpinOnePeriodEndBeforeSpin(inv, d, rc, x) ==
  LET st == (inv + Period) - now IN
  IF rc \notin {"OK", "TIMEOUT"}
  THEN [now |-> now + d, inv |-> inv, adv |-> FALSE]
  ELSE [now |-> now + d + (IF st > 0 THEN SleepTicks(st) + x ELSE 0),
        inv |-> inv + Period, adv |-> TRUE]

\* The body of rclc_executor_spin_one_period after the capture, with the
\* slot inv, a spin_some of d ticks returning rc, and an oversleep of x:
\* the clock after the call, the new invocation_time, and whether the call
\* got past the error return.
SpinOnePeriodBody(inv, d, rc, x) ==
  LET st == (inv + Period) - (now + d) IN
  IF rc \notin {"OK", "TIMEOUT"}
  THEN [now |-> now + d, inv |-> inv, adv |-> FALSE]
  ELSE [now |-> now + d + (IF st > 0 THEN SleepTicks(st) + x ELSE 0),
        inv |-> inv + Period, adv |-> TRUE]

\* One call of rclc_executor_spin_one_period by the loop of spin_period;
\* an error from spin_some makes both return.
SpinOnePeriod ==
  /\ pc = "running"
  /\ k < MaxRounds
  /\ LET inv == IF invocationTime = 0 THEN now ELSE invocationTime IN
     \E d \in Durations, rc \in SpinSomeResults, x \in Oversleep :
       LET r == SpinOnePeriodBody(inv, d, rc, x) IN
       /\ Admissible(d)
       /\ now' = r.now
       /\ invocationTime' = r.inv
       /\ pc' = IF r.adv THEN "running" ELSE "returned"
       /\ k' = IF r.adv THEN k + 1 ELSE k
       /\ excess' = IF d > Period THEN excess + (d - Period) ELSE excess
       /\ overruns' = IF d > Period THEN overruns + 1 ELSE overruns

Init ==
  /\ now \in StartTimes
  /\ invocationTime = 0
  /\ pc = "running"
  /\ k = 0
  /\ excess = 0
  /\ overruns = 0

Next == SpinOnePeriod

Spec == Init /\ [][Next]_vars

-----------------------------------------------------------------------------
(* Properties *)

\* Between two calls of spin_period, the next call starts at most the
\* accumulated overrun of all earlier spin_some calls, plus one oversleep,
\* after its slot: the calls after an overrun skip their sleep and catch
\* up, so short rounds never add lateness.
LatenessBoundedByOverruns ==
  (invocationTime # 0 /\ pc = "running") =>
     Lateness <= excess + (CHOOSE m \in Oversleep : \A y \in Oversleep : y <= m)


=============================================================================
