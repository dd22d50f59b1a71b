---------------------------- MODULE RetryOperation ----------------------------
(***************************************************************************)
(* One operation of a client under its retry policy:                       *)
(* common/core/src/retry_operation.ts and retry_policy.ts.                 *)
(*                                                                         *)
(* Every network operation of the device and module clients is wrapped in  *)
(* a RetryOperation: it is called, and called again after a delay while it *)
(* fails with an error the policy retries and the maximum timeout has not  *)
(* passed.  Times are milliseconds from the start of the operation; the    *)
(* clock jumps from event to event.                                        *)
(***************************************************************************)
EXTENDS Integers

CONSTANTS
  Normal, Throttled,     \* the two sets of ExponentialBackoffWithJitterParameters
  ImmediateFirstRetry,   \* immediateFirstRetry of the policy
  OperationTimeout,      \* _maxTimeout, the whole of the operation
  Durations,             \* how long an attempt may take
  Randoms,               \* 100 * Math.random()
  RetryLateness          \* how late the event loop runs a timer

\* ju and jd are given in percent.
Parameters == [c : Nat, cMin : Nat \ {0}, cMax : Nat, ju : 0..100, jd : 0..100]

ASSUME RetryAssumption ==
  /\ Normal \in Parameters /\ Throttled \in Parameters
  /\ \A p \in {Normal, Throttled} : p.cMin <= p.cMax /\ p.ju <= p.jd
  /\ ImmediateFirstRetry \in BOOLEAN
  /\ OperationTimeout \in Nat
  /\ Durations \subseteq Nat
  /\ Randoms \subseteq 0..99
  /\ RetryLateness \in Nat

VARIABLES
  clock,
  phase,        \* the attempt is running, the retry is waiting, or it is done
  retryCount,   \* attempts made, counted before each attempt
  timer,        \* when the waiting retry is due
  throttled,    \* whether the last attempt failed with a ThrottlingError
  failedAt,     \* history: when the last attempt failed
  finals        \* history: calls of finalCallback

retryVars == <<clock, phase, retryCount, timer, throttled, failedAt, finals>>

RetryTypeOK ==
  /\ clock \in Nat
  /\ phase \in {"running", "waiting", "done"}
  /\ retryCount \in Nat \ {0}
  /\ timer \in Nat
  /\ throttled \in BOOLEAN
  /\ failedAt \in Nat
  /\ finals \in {0, 1}

-----------------------------------------------------------------------------
(* ExponentialBackOffWithJitter.                                           *)

constants(isThrottled) == IF isThrottled THEN Throttled ELSE Normal

Least(a, b) == IF a <= b THEN a ELSE b
Growth(x) == 2 ^ (x - 1) - 1

\* Math.random() * (maxRandomFactor - minRandomFactor)
randomJitter(p, random) ==
  (((p.c * (100 - p.ju)) \div 100 - (p.c * (100 - p.jd)) \div 100) * random)
    \div 100

\* Mutant of nextRetryTimeout: the floor of the interval forgotten.
nextRetryTimeoutNoFloor(count, isThrottled, random) ==
  LET p == constants(isThrottled) IN
  Least(Growth(count) * randomJitter(p, random), p.cMax)

nextRetryTimeout(count, isThrottled, random) ==
  LET p == constants(isThrottled) IN
  IF ImmediateFirstRetry /\ count = 0 /\ ~isThrottled
    THEN 0
    ELSE Least(p.cMin + Growth(count) * randomJitter(p, random), p.cMax)

\* DefaultErrorFilter: whether an attempt may be repeated after the error.
Errors == {"transient", "throttling", "fatal"}
shouldRetry(error) == error # "fatal"

-----------------------------------------------------------------------------
(* RetryOperation.                                                         *)

\* The first attempt is made by retry() itself.
RetryInit ==
  /\ clock = 0
  /\ phase = "running"
  /\ retryCount = 1
  /\ timer = 0
  /\ throttled = FALSE
  /\ failedAt = 0
  /\ finals = 0

finalCallback(time) ==
  /\ clock' = time
  /\ phase' = "done"
  /\ finals' = finals + 1
  /\ UNCHANGED <<retryCount, timer>>

Succeeds(duration) ==
  /\ phase = "running"
  /\ finalCallback(clock + duration)
  /\ UNCHANGED <<throttled, failedAt>>

\* Mutants of Fails: the expiry not checked, nobody told after the expiry, and
\* the final error reported while the retry is scheduled all the same.
FailsNoExpiry(duration, error, random) ==
  LET time == clock + duration IN
  /\ phase = "running"
  /\ throttled' = (error = "throttling")
  /\ failedAt' = time
  /\ IF shouldRetry(error)
       THEN /\ clock' = time
            /\ phase' = "waiting"
            /\ timer' = time + nextRetryTimeout(retryCount, throttled', random)
            /\ UNCHANGED <<retryCount, finals>>
       ELSE finalCallback(time)

FailsSilently(duration, error, random) ==
  LET time == clock + duration IN
  /\ phase = "running"
  /\ throttled' = (error = "throttling")
  /\ failedAt' = time
  /\ clock' = time
  /\ phase' = IF shouldRetry(error) /\ time < OperationTimeout THEN "waiting" ELSE "done"
  /\ timer' = time + nextRetryTimeout(retryCount, throttled', random)
  /\ finals' = IF shouldRetry(error) THEN finals ELSE finals + 1
  /\ UNCHANGED retryCount

\* The deadline is compared with the time of the failure, not with the time
\* at which the retry will run.
Fails(duration, error, random) ==
  LET time == clock + duration IN
  /\ phase = "running"
  /\ throttled' = (error = "throttling")
  /\ failedAt' = time
  /\ IF shouldRetry(error) /\ time < OperationTimeout
       THEN /\ clock' = time
            /\ phase' = "waiting"
            /\ timer' = time + nextRetryTimeout(retryCount, throttled', random)
            /\ UNCHANGED <<retryCount, finals>>
       ELSE finalCallback(time)

\* The timer runs the operation again, up to RetryLateness milliseconds late.
Retries(late) ==
  /\ phase = "waiting"
  /\ clock' = timer + late
  /\ phase' = "running"
  /\ retryCount' = retryCount + 1
  /\ UNCHANGED <<timer, throttled, failedAt, finals>>

RetryNext ==
  \/ \E duration \in Durations :
       \/ Succeeds(duration)
       \/ \E error \in Errors, random \in Randoms :
            Fails(duration, error, random)
  \/ \E late \in {0, RetryLateness} : Retries(late)

RetrySpec == RetryInit /\ [][RetryNext]_retryVars

\* The operation calls back and the event loop runs the timer.
FairSpec == RetrySpec /\ WF_retryVars(RetryNext)

-----------------------------------------------------------------------------
(* Properties.                                                             *)

\* No attempt starts later than the longest backoff after the deadline,
\* of the kind the last failure calls for.
StartedBeforeLimit ==
  /\ RetryTypeOK
  /\ phase = "running" => clock < OperationTimeout + constants(throttled).cMax + RetryLateness

\* The wait before a retry, after so many attempts, as the policy documents its
\* ends: the first retry may be immediate, no other is sooner than the minimal
\* interval, and none is later than the upper end of the formula.
ShortestWait(count, isThrottled) ==
  IF ImmediateFirstRetry /\ count = 1 /\ ~isThrottled
    THEN 0
    ELSE constants(isThrottled).cMin

LongestWait(count, isThrottled) ==
  LET p == constants(isThrottled) IN
  Least(p.cMin + Growth(count) * ((p.c * (100 - p.ju)) \div 100), p.cMax)

\* Whatever the random numbers, the attempts before and the mix of errors, an
\* attempt is repeated neither sooner nor later than the policy lets it be after
\* that many attempts and the error that the last one failed with.
BackoffRespected ==
  [][phase = "waiting" /\ phase' = "running"
       => clock' - failedAt \in ShortestWait(retryCount, throttled)
                             ..(LongestWait(retryCount, throttled) + RetryLateness)]_retryVars

\* However often it fails, the operation comes to an end: its caller is called
\* back, and never again.
EventuallyFinal == <>[](finals = 1)

=============================================================================
