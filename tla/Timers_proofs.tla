----------------------------- MODULE Timers_proofs -----------------------------
(***************************************************************************)
(* Proofs about the components that timers and retries drive: the          *)
(* container of messages on the wire, for every check period, every range  *)
(* of timeouts and every lateness of the timers; one operation under its   *)
(* retry policy, for all parameters of the policy, durations of attempts,  *)
(* random numbers and delays of the event loop; the registration's state   *)
(* machine, for every number of calls and every set of transports; and the *)
(* client objects, for every number of calls, losses, attempts and changes *)
(* of the twin, and methods called in any combination.                     *)
(***************************************************************************)
EXTENDS CountingLemmas, OnTheWire, RetryOperation, PollingStateMachine, DeviceClient

-----------------------------------------------------------------------------
(* The container of messages on the wire.                                  *)
(*                                                                         *)
(* The wait of a message is bounded because the remembered timer is always *)
(* armed for a check that comes in time: a message that was on the wire    *)
(* when that timer was armed had not expired then (ChecksInTime).  That    *)
(* needs the entries to be sorted by time (Sorted), since the check stops  *)
(* at the first entry that has not expired.                                *)

\* A message is stamped with the second, rounded down, in which it was added.
Stamped ==
  /\ \A k \in Keys : addedAt[k] <= now
  /\ \A k \in DOMAIN onTheWire : onTheWire[k] = Floor(addedAt[k])

\* The entries of the map are sorted by time in the order of insertion.
Sorted ==
  \A j, k \in Keys : j <= k => addedAt[j] <= addedAt[k]

\* Timers were armed in the past and are not overdue by more than MaxLate.
Punctual ==
  \A t \in DOMAIN timers :
    /\ timers[t] - 1000 * TimerCheck \in Nat
    /\ timers[t] - 1000 * TimerCheck <= now
    /\ now <= timers[t] + MaxLate

\* No message on the wire had expired when the remembered timer was armed.
ChecksInTime ==
  \A k \in DOMAIN onTheWire :
    Round(timers[timeoutTimer] - 1000 * TimerCheck) - onTheWire[k] < MaxTimeout

Bookkeeping == TypeOK /\ AnsweredOnce
Timing == Stamped /\ Sorted /\ Punctual /\ TimerArmed /\ ChecksInTime
IInv == Bookkeeping /\ Timing

-----------------------------------------------------------------------------
(* Arithmetic of the clock.                                                *)

\* Round is at most a second ahead of Floor, neither decreases, and they lose
\* less than a second and at most half a second.
LEMMA Rounding ==
  ASSUME NEW a \in Nat, NEW b \in Nat, a <= b
  PROVE  /\ Floor(a) \in Nat /\ Round(a) \in Nat
         /\ Round(a) - Floor(b) <= 1
         /\ Floor(a) <= Floor(b)
         /\ Round(a) <= Round(b)
         /\ 1000 * Floor(a) <= a /\ a <= 1000 * Floor(a) + 999
         /\ a <= 1000 * Round(a) + 499 /\ 1000 * Round(a) <= a + 500
BY DEF Floor, Round

-----------------------------------------------------------------------------
(* The helpers.                                                            *)

\* Recorded keeps the histories of the right type and calls the callback of
\* exactly the messages gone, once more.
LEMMA RecordedFacts ==
  ASSUME Bookkeeping, NEW gone \in SUBSET DOMAIN onTheWire,
         NEW why \in {"complete", "purge", "timeout"}, NEW n \in Nat,
         onTheWire' = Rewired(gone, n), Recorded(gone, why, n), now \in Nat,
         ContainerAssumption
  PROVE  /\ identifier' \in Nat
         /\ Keys \subseteq Keys'
         /\ DOMAIN onTheWire' \subseteq Keys'
         /\ onTheWire' \in [DOMAIN onTheWire' -> Nat]
         /\ reason' \in [Keys' -> {"pending", "complete", "purge", "timeout"}]
         /\ callbackCalls' \in [Keys' -> Nat]
         /\ addedAt' \in [Keys' -> Nat]
         /\ AnsweredOnce'
<1>0. /\ identifier \in Nat
      /\ DOMAIN onTheWire \subseteq 1..identifier
      /\ onTheWire \in [DOMAIN onTheWire -> Nat]
      /\ reason \in [1..identifier -> {"pending", "complete", "purge", "timeout"}]
      /\ callbackCalls \in [1..identifier -> Nat]
      /\ addedAt \in [1..identifier -> Nat]
      /\ AnsweredOnce
  BY DEF Bookkeeping, TypeOK, Keys
<1>1. identifier' = identifier + n /\ identifier' \in Nat
  BY <1>0 DEF Recorded
<1>2. Keys = 1..identifier /\ Keys' = 1..(identifier + n)
  BY <1>1 DEF Keys
<1>3. Keys \subseteq Keys' /\ (identifier + 1 .. identifier + n) \subseteq Keys'
  <2>1. \A k \in Keys : k \in Keys'
    BY <1>0, <1>2
  <2>2. \A k \in identifier + 1 .. identifier + n : k \in Keys'
    BY <1>0, <1>2
  <2> QED
    BY <2>1, <2>2
<1>4. Floor(now) \in Nat
  BY Z3 DEF Floor
<1>5. /\ DOMAIN onTheWire' = (DOMAIN onTheWire \ gone)
                               \cup (identifier + 1 .. identifier + n)
      /\ \A k \in DOMAIN onTheWire' :
            onTheWire'[k] = IF k > identifier THEN Floor(now) ELSE onTheWire[k]
      /\ onTheWire' = [k \in DOMAIN onTheWire' |-> onTheWire'[k]]
  BY DEF Rewired
<1>6. DOMAIN onTheWire' \subseteq Keys'
  BY <1>0, <1>2, <1>3, <1>5
<1>7. onTheWire' \in [DOMAIN onTheWire' -> Nat]
  <2> SUFFICES ASSUME NEW k \in DOMAIN onTheWire'
               PROVE  onTheWire'[k] \in Nat
    BY <1>5
  <2>1. CASE k > identifier
    BY <2>1, <1>4, <1>5
  <2>2. CASE ~(k > identifier)
    <3>1. k \in DOMAIN onTheWire
      BY <2>2, <1>0, <1>5
    <3> QED
      BY <3>1, <2>2, <1>0, <1>5
  <2> QED
    BY <2>1, <2>2
<1>8. /\ \A k \in Keys' : k > identifier =>
            reason'[k] = "pending" /\ callbackCalls'[k] = 0
      /\ \A k \in Keys : reason'[k] = IF k \in gone THEN why ELSE reason[k]
      /\ \A k \in Keys : callbackCalls'[k] = IF k \in gone THEN callbackCalls[k] + 1 ELSE callbackCalls[k]
      /\ \A k \in Keys' : k \in Keys <=> ~(k > identifier)
  <2>1. /\ \A k \in Keys : ~(k > identifier) /\ k \in Keys'
        /\ \A k \in Keys' : k \in Keys <=> ~(k > identifier)
    BY <1>0, <1>2
  <2>2. \A k \in Keys' :
          /\ reason'[k] = IF k > identifier THEN "pending"
                          ELSE IF k \in gone THEN why ELSE reason[k]
          /\ callbackCalls'[k] = IF k > identifier THEN 0
                         ELSE IF k \in gone THEN callbackCalls[k] + 1 ELSE callbackCalls[k]
    BY <1>2 DEF Recorded
  <2> QED
    BY <2>1, <2>2
<1>9. reason' \in [Keys' -> {"pending", "complete", "purge", "timeout"}]
  BY <1>0, <1>2 DEF Recorded
<1>10. callbackCalls' \in [Keys' -> Nat]
  BY <1>0, <1>2 DEF Recorded
<1>11. addedAt' \in [Keys' -> Nat]
  BY <1>0, <1>2 DEF Recorded
<1>12. AnsweredOnce'
  <2> SUFFICES ASSUME NEW k \in Keys'
               PROVE  IF k \in DOMAIN onTheWire'
                        THEN callbackCalls'[k] = 0 /\ reason'[k] = "pending"
                        ELSE callbackCalls'[k] = 1 /\ reason'[k] # "pending"
    BY DEF AnsweredOnce
  <2>1. CASE k > identifier
    <3>1. k \in DOMAIN onTheWire'
      BY <2>1, <1>0, <1>1, <1>2, <1>5
    <3> QED
      BY <3>1, <2>1, <1>8
  <2>2. CASE k \in gone
    <3>1. k \in Keys /\ k \in DOMAIN onTheWire /\ ~(k > identifier)
      BY <2>2, <1>0, <1>2, <1>8
    <3>2. k \notin DOMAIN onTheWire'
      BY <3>1, <2>2, <1>0, <1>5
    <3>3. callbackCalls[k] = 0
      BY <3>1, <1>0 DEF AnsweredOnce
    <3> QED
      BY <3>1, <3>2, <3>3, <2>2, <1>8
  <2>3. CASE ~(k > identifier) /\ k \notin gone
    <3>1. k \in Keys
      BY <2>3, <1>8
    <3>2. k \in DOMAIN onTheWire' <=> k \in DOMAIN onTheWire
      BY <2>3, <3>1, <1>0, <1>2, <1>5
    <3> QED
      BY <3>1, <3>2, <2>3, <1>0, <1>8 DEF AnsweredOnce
  <2> QED
    BY <2>1, <2>2, <2>3
<1> QED
  BY <1>1, <1>3, <1>6, <1>7, <1>9, <1>10, <1>11, <1>12

\* clearTimeout keeps the timers a function of armed timers.
LEMMA ClearedFacts ==
  ASSUME NEW m \in Nat, NEW ts, DOMAIN ts \subseteq 1..m,
         ts \in [DOMAIN ts -> Nat], NEW t
  PROVE  /\ DOMAIN Cleared(ts, t) = DOMAIN ts \ {t}
         /\ DOMAIN Cleared(ts, t) \subseteq 1..m
         /\ Cleared(ts, t) \in [DOMAIN Cleared(ts, t) -> Nat]
         /\ \A u \in DOMAIN Cleared(ts, t) : Cleared(ts, t)[u] = ts[u]
BY DEF Cleared

\* setTimeout of the timers m + 1 .. last adds them, due a check period later.
LEMMA ArmedFacts ==
  ASSUME NEW m \in Nat, NEW ts, DOMAIN ts \subseteq 1..m,
         ts \in [DOMAIN ts -> Nat], now \in Nat, ContainerAssumption,
         NEW last \in Nat, m <= last
  PROVE  LET armed == Armed(ts, (m + 1)..last) IN
         /\ DOMAIN armed \subseteq 1..last
         /\ DOMAIN armed = DOMAIN ts \cup ((m + 1)..last)
         /\ armed \in [DOMAIN armed -> Nat]
         /\ \A u \in DOMAIN armed :
               armed[u] = IF u > m THEN now + 1000 * TimerCheck ELSE ts[u]
<1> DEFINE armed == Armed(ts, (m + 1)..last)
<1>0. now + 1000 * TimerCheck \in Nat
  BY DEF ContainerAssumption
<1>1. DOMAIN armed = DOMAIN ts \cup ((m + 1)..last)
  BY DEF Armed
<1>2. \A u \in DOMAIN armed :
        armed[u] = IF u > m THEN now + 1000 * TimerCheck ELSE ts[u]
  BY <1>1 DEF Armed
<1>3. ASSUME NEW u \in DOMAIN armed PROVE armed[u] \in Nat
  <2>1. CASE u > m
    BY <1>0, <1>2, <2>1
  <2>2. CASE ~(u > m)
    <3>1. u \in DOMAIN ts
      <4>1. u \notin (m + 1)..last
        BY <2>2
      <4> QED
        BY <1>1, <4>1
    <3> QED
      BY <1>2, <2>2, <3>1
  <2> QED
    BY <2>1, <2>2
<1>4. armed \in [DOMAIN armed -> Nat]
  BY <1>3 DEF Armed
<1> QED
  BY <1>1, <1>2, <1>4

\* The clock only shows times.
LEMMA TickFacts ==
  ASSUME Tick, ContainerAssumption
  PROVE  now' \in Nat
<1>1. PICK later \in Instants : now' = later
  BY DEF Tick
<1>2. PICK second \in 0..MaxTime, milli \in Millis : later = 1000 * second + milli
  BY DEF Instants
<1>3. second \in Nat /\ milli \in Nat
  BY MillisAssumption DEF ContainerAssumption
<1> QED
  BY <1>1, <1>2, <1>3

-----------------------------------------------------------------------------
(* The bookkeeping is inductive by itself.                                 *)

\* The empty container that the constructor leaves satisfies the bookkeeping.
LEMMA BookkeepingInit ==
  ASSUME Init, ContainerAssumption
  PROVE  Bookkeeping
BY DEF Init, Bookkeeping, TypeOK, AnsweredOnce, Keys, ContainerAssumption

\* Time and what changes nothing else leave the bookkeeping as it is.
LEMMA UnchangedFacts ==
  ASSUME Bookkeeping, now' \in Nat,
         UNCHANGED <<container, timeoutInSeconds, clocks, history>>
  PROVE  Bookkeeping'
<1>1. /\ onTheWire' = onTheWire /\ identifier' = identifier
      /\ timers' = timers /\ timerCount' = timerCount /\ timeoutTimer' = timeoutTimer
      /\ reason' = reason /\ callbackCalls' = callbackCalls /\ addedAt' = addedAt
      /\ timeoutInSeconds' = timeoutInSeconds
  BY DEF container, clocks, history
<1>2. Keys' = Keys
  BY <1>1 DEF Keys
<1>3. TypeOK'
  BY <1>1, <1>2 DEF Bookkeeping, TypeOK
<1>4. AnsweredOnce'
  BY <1>1, <1>2 DEF Bookkeeping, AnsweredOnce
<1> QED
  BY <1>3, <1>4 DEF Bookkeeping

\* Every method of the container, and the clock, preserves the bookkeeping.
LEMMA BookkeepingStep ==
  ASSUME Bookkeeping, [Next]_vars, ContainerAssumption
  PROVE  Bookkeeping'
<1> USE DEF Bookkeeping
<1>0. TypeOK
  OBVIOUS
<1>1. CASE add
  <2>1. /\ onTheWire' = Rewired({}, 1)
        /\ Recorded({}, "pending", 1)
    BY <1>1 DEF add
  <2>2. Recorded({}, "purge", 1)
    BY <2>1 DEF Recorded
  <2>3. /\ timerCount' \in Nat
        /\ DOMAIN timers' \subseteq 1..timerCount'
        /\ timers' \in [DOMAIN timers' -> Nat]
        /\ timeoutTimer' \in 0..timerCount'
    <3>1. CASE DOMAIN onTheWire = {}
      <4>1. {timerCount + 1} = (timerCount + 1)..(timerCount + 1)
        BY <1>0 DEF TypeOK
      <4>2. /\ timers' = Armed(timers, (timerCount + 1)..(timerCount + 1))
            /\ timerCount' = timerCount + 1
            /\ timeoutTimer' = timerCount + 1
        BY <1>1, <3>1, <4>1 DEF add
      <4>3. /\ timerCount \in Nat /\ timerCount + 1 \in Nat
            /\ timerCount <= timerCount + 1 /\ now \in Nat
        BY <1>0 DEF TypeOK
      <4>4. /\ DOMAIN timers' \subseteq 1..(timerCount + 1)
            /\ timers' \in [DOMAIN timers' -> Nat]
        <5>1. DOMAIN timers \subseteq 1..timerCount /\ timers \in [DOMAIN timers -> Nat]
          BY <1>0 DEF TypeOK
        <5> QED
          BY <4>2, <4>3, <5>1, ArmedFacts
      <4>5. timerCount + 1 \in 0..(timerCount + 1)
        BY <4>3
      <4> QED
        BY <4>2, <4>3, <4>4, <4>5
    <3>2. CASE DOMAIN onTheWire # {}
      BY <1>1, <3>2 DEF add, clocks, TypeOK
    <3> QED
      BY <3>1, <3>2
  <2>4. /\ now' = now /\ now \in Nat
        /\ timeoutInSeconds' = timeoutInSeconds
        /\ timeoutInSeconds \in MinTimeout..MaxTimeout
    BY <1>0, <1>1 DEF add, TypeOK
  <2>5. {} \in SUBSET DOMAIN onTheWire
    OBVIOUS
  <2>6. /\ identifier' \in Nat
        /\ DOMAIN onTheWire' \subseteq Keys'
        /\ onTheWire' \in [DOMAIN onTheWire' -> Nat]
        /\ reason' \in [Keys' -> {"pending", "complete", "purge", "timeout"}]
        /\ callbackCalls' \in [Keys' -> Nat]
        /\ addedAt' \in [Keys' -> Nat]
        /\ AnsweredOnce'
    BY <2>1, <2>2, <2>4, <2>5, RecordedFacts
  <2> QED
    BY <2>3, <2>4, <2>6 DEF TypeOK
<1>2. ASSUME NEW k \in Keys, complete(k)
      PROVE  Bookkeeping'
  <2>1. /\ onTheWire' = Rewired({k}, 0)
        /\ Recorded({k}, "complete", 0)
        /\ {k} \in SUBSET DOMAIN onTheWire
    BY <1>2 DEF complete
  <2>2. /\ timerCount' \in Nat
        /\ DOMAIN timers' \subseteq 1..timerCount'
        /\ timers' \in [DOMAIN timers' -> Nat]
        /\ timeoutTimer' \in 0..timerCount'
    BY <1>2, ClearedFacts DEF complete, TypeOK
  <2> QED
    BY <1>2, <2>1, <2>2, RecordedFacts DEF complete, TypeOK
<1>3. CASE purge
  <2>1. /\ onTheWire' = Rewired(DOMAIN onTheWire, 0)
        /\ Recorded(DOMAIN onTheWire, "purge", 0)
    BY <1>3 DEF purge
  <2>2. /\ timerCount' \in Nat
        /\ DOMAIN timers' \subseteq 1..timerCount'
        /\ timers' \in [DOMAIN timers' -> Nat]
        /\ timeoutTimer' \in 0..timerCount'
    BY <1>3, ClearedFacts DEF purge, TypeOK
  <2> QED
    BY <1>3, <2>1, <2>2, RecordedFacts DEF purge, TypeOK
<1>4. ASSUME NEW seconds \in MinTimeout..MaxTimeout,
             setTimeoutInSeconds(seconds)
      PROVE  Bookkeeping'
  BY <1>4 DEF setTimeoutInSeconds, container, clocks, history,
              TypeOK, AnsweredOnce, Keys
<1>5. ASSUME NEW t \in DOMAIN timers, NEW n \in 0..MaxKey,
             NEW alone \in BOOLEAN, timeout(t, n, alone)
      PROVE  Bookkeeping'
  <2>1. /\ onTheWire' = Rewired(Expired, n)
        /\ Recorded(Expired, "timeout", n)
        /\ Expired \in SUBSET DOMAIN onTheWire
        /\ n \in Nat
    BY <1>5 DEF timeout, Expired, ContainerAssumption
  <2> DEFINE kept == DOMAIN onTheWire \ Expired
             fired == Cleared(timers, t)
             last == IF alone THEN timerCount + 2 ELSE timerCount + 1
  <2>2. /\ DOMAIN fired \subseteq 1..timerCount
        /\ fired \in [DOMAIN fired -> Nat]
    BY ClearedFacts DEF TypeOK
  <2>3. /\ timerCount' \in Nat
        /\ DOMAIN timers' \subseteq 1..timerCount'
        /\ timers' \in [DOMAIN timers' -> Nat]
        /\ timeoutTimer' \in 0..timerCount'
    <3>1. CASE kept = {} /\ n = 0
      BY <1>5, <2>2, <3>1 DEF timeout, TypeOK
    <3>2. CASE ~(kept = {} /\ n = 0)
      <4>1. /\ timers' = Armed(fired, (timerCount + 1)..last)
            /\ timerCount' = last
            /\ timeoutTimer' = last
        BY <1>5, <3>2 DEF timeout
      <4>2. last \in Nat /\ timerCount <= last /\ timerCount \in Nat
        BY DEF TypeOK
      <4> HIDE DEF last, fired
      <4>3. now \in Nat
        BY DEF TypeOK
      <4>4. /\ DOMAIN timers' \subseteq 1..last
            /\ timers' \in [DOMAIN timers' -> Nat]
        BY <2>2, <4>1, <4>2, <4>3, ArmedFacts
      <4> QED
        BY <4>1, <4>2, <4>4
    <3> QED
      BY <3>1, <3>2
  <2>4. UNCHANGED <<now, timeoutInSeconds>>
    BY <1>5 DEF timeout
  <2> QED
    BY <2>1, <2>3, <2>4, RecordedFacts DEF TypeOK
<1>6. CASE Tick
  <2>1. now' \in Nat /\ UNCHANGED <<container, timeoutInSeconds, clocks, history>>
    BY <1>6, TickFacts DEF Tick
  <2> QED
    BY <2>1, UnchangedFacts
<1>7. CASE UNCHANGED vars
  <2>1. now' \in Nat /\ UNCHANGED <<container, timeoutInSeconds, clocks, history>>
    BY <1>7 DEF vars, TypeOK
  <2> QED
    BY <2>1, UnchangedFacts
<1> QED
  BY <1>1, <1>2, <1>3, <1>4, <1>5, <1>6, <1>7 DEF Next

\* The model's state has its type.
THEOREM TypeCorrect == Spec => []TypeOK
<1> USE ContainerAssumption
<1>1. Init => Bookkeeping
  BY BookkeepingInit
<1>2. Bookkeeping /\ [Next]_vars => Bookkeeping'
  BY BookkeepingStep
<1>3. Bookkeeping => TypeOK
  BY DEF Bookkeeping
<1> QED
  BY <1>1, <1>2, <1>3, PTL DEF Spec

\* AnsweredOnce: whatever the order of acknowledgements, purges and checks, a
\* message's callback is called once, when the message leaves the wire.
THEOREM CallbackOnce == Spec => []AnsweredOnce
<1> USE ContainerAssumption
<1>1. Init => Bookkeeping
  BY BookkeepingInit
<1>2. Bookkeeping /\ [Next]_vars => Bookkeeping'
  BY BookkeepingStep
<1>3. Bookkeeping => AnsweredOnce
  BY DEF Bookkeeping
<1> QED
  BY <1>1, <1>2, <1>3, PTL DEF Spec

-----------------------------------------------------------------------------
(* Timing.                                                                 *)

\* With no message and no timer there is nothing to be late for.
LEMMA TimingInit ==
  ASSUME Init, ContainerAssumption
  PROVE  Timing
BY DEF Init, Timing, Stamped, Sorted, Punctual, TimerArmed, ChecksInTime, Keys

\* What the helpers do to the stamps: new entries are stamped now.
LEMMA StampStep ==
  ASSUME IInv, NEW gone \in SUBSET DOMAIN onTheWire,
         NEW why, NEW n \in Nat,
         onTheWire' = Rewired(gone, n), Recorded(gone, why, n), now' = now
  PROVE  Stamped' /\ Sorted'
<1> USE DEF IInv, Bookkeeping, Timing, TypeOK
<1>1. Keys' = 1..(identifier + n) /\ Keys = 1..identifier
  BY DEF Keys, Recorded
<1>2. \A k \in Keys' :
        addedAt'[k] = IF k > identifier THEN now ELSE addedAt[k]
  BY <1>1 DEF Recorded
<1>3. \A k \in DOMAIN onTheWire' :
        /\ k \in Keys'
        /\ k \notin DOMAIN onTheWire => k > identifier
        /\ onTheWire'[k] = IF k > identifier THEN Floor(now) ELSE onTheWire[k]
  BY <1>1 DEF Rewired
<1>4. Stamped'
  <2>1. ASSUME NEW k \in Keys' PROVE addedAt'[k] <= now'
    BY <1>1, <1>2 DEF Stamped
  <2>2. ASSUME NEW k \in DOMAIN onTheWire'
        PROVE  onTheWire'[k] = Floor(addedAt'[k])
    <3>1. CASE k > identifier
      BY <1>2, <1>3, <3>1
    <3>2. CASE ~(k > identifier)
      BY <1>2, <1>3, <3>2 DEF Stamped
    <3> QED
      BY <3>1, <3>2
  <2> QED
    BY <2>1, <2>2 DEF Stamped
<1>5. Sorted'
  BY <1>1, <1>2 DEF Sorted, Stamped
<1> QED
  BY <1>4, <1>5

\* The loop of the check overlooks nothing: what it keeps has not expired.
LEMMA KeptIsFresh ==
  ASSUME IInv, ContainerAssumption, NEW k \in DOMAIN onTheWire \ Expired
  PROVE  Round(now) - onTheWire[k] < MaxTimeout
<1> USE DEF IInv, Bookkeeping, Timing, TypeOK, ContainerAssumption
<1>1. PICK j \in DOMAIN onTheWire : j <= k /\ ~HasExpired(j)
  BY DEF Expired
<1>2. addedAt[j] <= addedAt[k] /\ addedAt[j] \in Nat /\ addedAt[k] \in Nat
  BY <1>1 DEF Sorted
<1>3. onTheWire[j] <= onTheWire[k]
  BY <1>1, <1>2, Rounding DEF Stamped
<1>4. Round(now) \in Nat
  BY Rounding
<1> QED
  BY <1>1, <1>3, <1>4 DEF HasExpired

\* A message added now has not expired for a timer armed now or before.
LEMMA AddedIsFresh ==
  ASSUME ContainerAssumption, now \in Nat, NEW since \in Nat, since <= now
  PROVE  Round(since) - Floor(now) < MaxTimeout
<1>1. Round(since) - Floor(now) <= 1 /\ Round(since) \in Nat /\ Floor(now) \in Nat
  BY Rounding, SMTT(30)
<1>2. QED
  <2>1. MaxTimeout \in Nat /\ 2 <= MaxTimeout
    BY DEF ContainerAssumption
  <2>2. PICK r \in Nat, f \in Nat : r = Round(since) /\ f = Floor(now) /\ r - f <= 1
    BY <1>1
  <2>3. r - f < MaxTimeout
    BY <2>1, <2>2
  <2> QED
    BY <2>2, <2>3

\* What the new map holds: the old stamps of the entries kept, and the time of
\* the new ones.
LEMMA RewiredFacts ==
  ASSUME TypeOK, NEW gone, NEW n \in Nat, onTheWire' = Rewired(gone, n)
  PROVE  /\ n = 0 => DOMAIN onTheWire' = DOMAIN onTheWire \ gone
         /\ \A k \in DOMAIN onTheWire' :
              onTheWire'[k] = IF k \in DOMAIN onTheWire THEN onTheWire[k] ELSE Floor(now)
<1>1. identifier \in Nat /\ DOMAIN onTheWire \subseteq 1..identifier
  BY DEF TypeOK, Keys
<1>2. /\ DOMAIN onTheWire' = (DOMAIN onTheWire \ gone)
                               \cup (identifier + 1 .. identifier + n)
      /\ \A k \in DOMAIN onTheWire' :
            onTheWire'[k] = IF k > identifier THEN Floor(now) ELSE onTheWire[k]
  BY DEF Rewired
<1>3. \A k \in DOMAIN onTheWire : ~(k > identifier)
  BY <1>1
<1>4. \A k \in identifier + 1 .. identifier + n : k > identifier /\ n # 0
  BY <1>1
<1> QED
  BY <1>2, <1>3, <1>4

\* Every method of the container, and the clock, preserves the timing facts.
LEMMA TimingStep ==
  ASSUME IInv, [Next]_vars, ContainerAssumption
  PROVE  Timing'
<1> USE DEF IInv, Bookkeeping
<1>0. TypeOK /\ Timing /\ now \in Nat /\ TimerCheck \in Nat /\ MaxLate \in Nat
  BY DEF TypeOK, ContainerAssumption
<1>1. CASE add
  <2>1. /\ onTheWire' = Rewired({}, 1)
        /\ Recorded({}, "pending", 1)
        /\ now' = now
        /\ {} \in SUBSET DOMAIN onTheWire
    BY <1>1 DEF add
  <2>2. Stamped' /\ Sorted'
    BY <2>1, StampStep
  <2>3. \A k \in DOMAIN onTheWire' :
          onTheWire'[k] = IF k \in DOMAIN onTheWire THEN onTheWire[k] ELSE Floor(now)
    BY <1>0, <2>1, RewiredFacts
  <2>4. CASE DOMAIN onTheWire = {}
    <3> DEFINE m == timerCount
    <3>1. /\ timers' = Armed(timers, {m + 1})
          /\ timeoutTimer' = m + 1
      BY <1>1, <2>4 DEF add
    <3>2. /\ DOMAIN timers' = DOMAIN timers \cup {m + 1}
          /\ timers'[m + 1] = now + 1000 * TimerCheck
          /\ \A u \in DOMAIN timers : timers'[u] = timers[u]
      BY <1>0, <3>1 DEF Armed, TypeOK
    <3>3. Punctual'
      BY <1>0, <2>1, <3>2 DEF Punctual, Timing
    <3>4. TimerArmed'
      BY <3>1, <3>2 DEF TimerArmed
    <3>5. timers'[timeoutTimer'] - 1000 * TimerCheck = now
      BY <1>0, <3>1, <3>2
    <3>6. ChecksInTime'
      BY <1>0, <2>3, <2>4, <3>5, AddedIsFresh DEF ChecksInTime
    <3> QED
      BY <2>2, <3>3, <3>4, <3>6 DEF Timing
  <2>5. CASE DOMAIN onTheWire # {}
    <3>1. UNCHANGED clocks
      BY <1>1, <2>5 DEF add
    <3>2. Punctual' /\ TimerArmed'
      BY <1>0, <2>1, <2>5, <3>1 DEF clocks, Punctual, TimerArmed, Timing
    <3>3. /\ timers[timeoutTimer] - 1000 * TimerCheck \in Nat
          /\ timers[timeoutTimer] - 1000 * TimerCheck <= now
      BY <1>0, <2>5 DEF Punctual, TimerArmed, Timing
    <3>4. ChecksInTime'
      BY <1>0, <2>3, <3>1, <3>3, AddedIsFresh
         DEF clocks, ChecksInTime, Timing
    <3> QED
      BY <2>2, <3>2, <3>4 DEF Timing
  <2> QED
    BY <2>4, <2>5
<1>2. ASSUME NEW k \in Keys, complete(k)
      PROVE  Timing'
  <2>1. /\ onTheWire' = Rewired({k}, 0)
        /\ Recorded({k}, "complete", 0)
        /\ now' = now
        /\ {k} \in SUBSET DOMAIN onTheWire
    BY <1>2 DEF complete
  <2>2. Stamped' /\ Sorted'
    BY <2>1, StampStep
  <2>3. /\ DOMAIN onTheWire' = DOMAIN onTheWire \ {k}
        /\ \A j \in DOMAIN onTheWire' : onTheWire'[j] = onTheWire[j]
    BY <1>0, <2>1, RewiredFacts
  <2>4. Punctual'
    BY <1>0, <1>2, <2>1 DEF complete, Cleared, Punctual, Timing
  <2>5. CASE DOMAIN onTheWire = {k}
    BY <2>2, <2>3, <2>4, <2>5 DEF Timing, TimerArmed, ChecksInTime
  <2>6. CASE DOMAIN onTheWire # {k}
    <3>1. timers' = timers /\ timeoutTimer' = timeoutTimer
      BY <1>2, <2>6 DEF complete
    <3>2. TimerArmed'
      BY <1>0, <2>3, <3>1 DEF TimerArmed, Timing
    <3>3. ChecksInTime'
      BY <1>0, <2>3, <3>1 DEF ChecksInTime, Timing
    <3> QED
      BY <2>2, <2>4, <3>2, <3>3 DEF Timing
  <2> QED
    BY <2>5, <2>6
<1>3. CASE purge
  <2>1. /\ onTheWire' = Rewired(DOMAIN onTheWire, 0)
        /\ Recorded(DOMAIN onTheWire, "purge", 0)
        /\ now' = now
    BY <1>3 DEF purge
  <2>2. Stamped' /\ Sorted'
    BY <2>1, StampStep
  <2>3. DOMAIN onTheWire' = {}
    BY <2>1 DEF Rewired, TypeOK
  <2>4. Punctual'
    BY <1>0, <1>3 DEF purge, Cleared, Punctual, Timing
  <2> QED
    BY <2>2, <2>3, <2>4 DEF Timing, TimerArmed, ChecksInTime
<1>4. ASSUME NEW seconds \in MinTimeout..MaxTimeout,
             setTimeoutInSeconds(seconds)
      PROVE  Timing'
  BY <1>0, <1>4 DEF setTimeoutInSeconds, container, clocks, history, Timing,
              Stamped, Sorted, Punctual, TimerArmed, ChecksInTime, Keys
<1>5. ASSUME NEW t \in DOMAIN timers, NEW n \in 0..MaxKey,
             NEW alone \in BOOLEAN, timeout(t, n, alone)
      PROVE  Timing'
  <2>1. /\ onTheWire' = Rewired(Expired, n)
        /\ Recorded(Expired, "timeout", n)
        /\ now' = now
        /\ Expired \in SUBSET DOMAIN onTheWire
        /\ n \in Nat
    BY <1>5 DEF timeout, Expired, ContainerAssumption
  <2>2. Stamped' /\ Sorted'
    BY <2>1, StampStep
  <2> DEFINE kept == DOMAIN onTheWire \ Expired
             fired == Cleared(timers, t)
             last == IF alone THEN timerCount + 2 ELSE timerCount + 1
  <2>3. DOMAIN onTheWire' = kept \cup (identifier + 1 .. identifier + n)
    BY <2>1 DEF Rewired
  <2>4. CASE kept = {} /\ n = 0
    <3>1. DOMAIN onTheWire' = {} /\ timers' = fired
      BY <1>0, <1>5, <2>3, <2>4 DEF timeout, TypeOK
    <3>2. Punctual'
      BY <1>0, <2>1, <3>1 DEF Cleared, Punctual, Timing
    <3> QED
      BY <2>2, <3>1, <3>2 DEF Timing, TimerArmed, ChecksInTime
  <2>5. CASE ~(kept = {} /\ n = 0)
    <3>1. /\ timers' = Armed(fired, (timerCount + 1)..last)
          /\ timeoutTimer' = last
      BY <1>5, <2>5 DEF timeout
    <3>2. last \in Nat /\ timerCount < last /\ timerCount \in Nat
      BY <1>0 DEF TypeOK
    <3>3. /\ DOMAIN timers' = (DOMAIN timers \ {t}) \cup ((timerCount + 1)..last)
          /\ \A u \in DOMAIN timers' :
               timers'[u] = IF u > timerCount THEN now + 1000 * TimerCheck
                            ELSE timers[u]
      <4> HIDE DEF last
      <4> QED
        BY <1>0, <3>1, <3>2 DEF Armed, Cleared, TypeOK
    <3>4. last \in DOMAIN timers' /\ timers'[last] = now + 1000 * TimerCheck
      BY <3>2, <3>3
    <3>5. Punctual'
      BY <1>0, <2>1, <3>3 DEF Punctual, Timing, TypeOK
    <3>6. TimerArmed'
      BY <3>1, <3>4 DEF TimerArmed
    <3>7. timers'[timeoutTimer'] - 1000 * TimerCheck = now
      BY <1>0, <3>1, <3>4
    <3>8. ASSUME NEW k \in DOMAIN onTheWire'
          PROVE  Round(now) - onTheWire'[k] < MaxTimeout
      <4>1. CASE k > identifier
        BY <1>0, <2>1, <4>1, AddedIsFresh DEF Rewired
      <4>2. CASE ~(k > identifier)
        <5>1. k \in kept /\ onTheWire'[k] = onTheWire[k]
          BY <1>0, <2>1, <2>3, <4>2 DEF Rewired, TypeOK
        <5> QED
          BY <5>1, KeptIsFresh
      <4> QED
        BY <4>1, <4>2
    <3>9. ChecksInTime'
      BY <3>7, <3>8 DEF ChecksInTime
    <3> QED
      BY <2>2, <3>5, <3>6, <3>9 DEF Timing
  <2> QED
    BY <2>4, <2>5
<1>6. CASE Tick
  <2>1. /\ now < now' /\ now' \in Nat
        /\ \A t \in DOMAIN timers : now' <= timers[t] + MaxLate
        /\ UNCHANGED <<container, clocks, history>>
    BY <1>6, TickFacts DEF Tick
  <2>2. Punctual'
    BY <1>0, <2>1 DEF clocks, Punctual, Timing, TypeOK
  <2>3. Stamped'
    BY <1>0, <2>1 DEF container, history, Stamped, Timing, TypeOK, Keys
  <2> QED
    BY <1>0, <2>1, <2>2, <2>3
       DEF container, clocks, history, Timing, Sorted, TimerArmed, ChecksInTime, Keys
<1>7. CASE UNCHANGED vars
  BY <1>0, <1>7 DEF vars, container, clocks, history, Timing,
              Stamped, Sorted, Punctual, TimerArmed, ChecksInTime, Keys
<1> QED
  BY <1>1, <1>2, <1>3, <1>4, <1>5, <1>6, <1>7 DEF Next

\* The inductive invariant holds in every reachable state of the container.
LEMMA IInvariant == Spec => []IInv
<1> USE ContainerAssumption
<1>1. Init => IInv
  BY BookkeepingInit, TimingInit DEF IInv
<1>2. IInv /\ [Next]_vars => IInv'
  BY BookkeepingStep, TimingStep DEF IInv
<1> QED
  BY <1>1, <1>2, PTL DEF Spec

\* The remembered timer is armed while a message waits.
THEOREM AlwaysChecked == Spec => []TimerArmed
<1> USE ContainerAssumption
<1>1. IInv => TimerArmed
  BY DEF IInv, Timing
<1> QED
  BY <1>1, IInvariant, PTL

\* The wait of a message is bounded: the check of the remembered timer comes
\* at most a period after the message had not yet expired.
THEOREM WaitIsBounded == Spec => []BoundedWait
<1> USE ContainerAssumption
<1>1. IInv => BoundedWait
  <2> SUFFICES ASSUME IInv, NEW k \in DOMAIN onTheWire
               PROVE  now - addedAt[k] <= 1000 * (MaxTimeout + TimerCheck - 1) + 499 + MaxLate
    BY DEF BoundedWait
  <2> USE DEF IInv, Bookkeeping, Timing, TypeOK, ContainerAssumption
  <2> DEFINE since == timers[timeoutTimer] - 1000 * TimerCheck
  <2>1. /\ since \in Nat
        /\ now <= since + 1000 * TimerCheck + MaxLate
    BY DEF TimerArmed, Punctual
  <2>2. /\ Round(since) - Floor(addedAt[k]) < MaxTimeout
        /\ addedAt[k] \in Nat
    BY DEF ChecksInTime, Stamped
  <2>3. /\ 1000 * Round(since) + 499 >= since
        /\ 1000 * Floor(addedAt[k]) <= addedAt[k]
        /\ Round(since) \in Nat /\ Floor(addedAt[k]) \in Nat
    BY <2>1, <2>2, Rounding
  <2> HIDE DEF since
  <2> QED
    BY <2>1, <2>2, <2>3
<1> QED
  BY <1>1, IInvariant, PTL

\* A message is not timed out a second and a half early: only the check
\* answers with a TimeoutError, and it compares whole seconds.
THEOREM TimeoutsNotEarly == Spec => NeverEarly
<1> USE ContainerAssumption
<1> DEFINE TimedOut(k) == reason[k] = "pending" /\ reason'[k] = "timeout"
           Waited(k) == now - addedAt[k] >= 1000 * timeoutInSeconds - 1499
<1>1. IInv /\ [Next]_vars => [\A k \in Keys : TimedOut(k) => Waited(k)]_vars
  <2> SUFFICES ASSUME IInv, Next, NEW k \in Keys, TimedOut(k)
               PROVE  Waited(k)
    OBVIOUS
  <2> USE DEF IInv, Bookkeeping, Timing, TypeOK, ContainerAssumption
  <2>1. k \in Nat /\ 1 <= k /\ k <= identifier /\ identifier \in Nat
    BY DEF Keys
  <2>2. ASSUME NEW gone, NEW why, NEW n \in Nat, Recorded(gone, why, n)
        PROVE  k \in gone /\ why = "timeout"
    <3>1. k \in 1..(identifier + n) /\ ~(k > identifier)
      BY <2>1
    <3>2. reason'[k] = IF k \in gone THEN why ELSE reason[k]
      BY <2>2, <3>1 DEF Recorded
    <3>3. reason[k] = "pending" /\ reason'[k] = "timeout"
      OBVIOUS
    <3> QED
      BY <3>2, <3>3
  <2>3. k \in Expired
    <3>1. ~add
      BY <2>2 DEF add
    <3>2. ASSUME NEW j \in Keys PROVE ~complete(j)
      BY <2>2 DEF complete
    <3>3. ~purge
      BY <2>2 DEF purge
    <3>4. ASSUME reason' = reason PROVE FALSE
      BY <3>4
    <3>5. ~Tick /\ \A seconds : ~setTimeoutInSeconds(seconds)
      BY <3>4 DEF Tick, setTimeoutInSeconds, history
    <3>6. PICK t \in DOMAIN timers, n \in 0..MaxKey, alone \in BOOLEAN :
            timeout(t, n, alone)
      BY <3>1, <3>2, <3>3, <3>5 DEF Next
    <3> QED
      BY <2>2, <3>6 DEF timeout
  <2>4. Round(now) - Floor(addedAt[k]) >= timeoutInSeconds
    <3>1. HasExpired(k) /\ k \in DOMAIN onTheWire
      BY <2>1, <2>3 DEF Expired
    <3>2. onTheWire[k] = Floor(addedAt[k])
      BY <3>1 DEF Stamped
    <3> QED
      BY <3>1, <3>2 DEF HasExpired
  <2>5. /\ addedAt[k] \in Nat
        /\ 1000 * Round(now) <= now + 500 /\ Round(now) \in Nat
        /\ addedAt[k] <= 1000 * Floor(addedAt[k]) + 999
        /\ Floor(addedAt[k]) \in Nat
    BY Rounding
  <2> QED
    BY <2>4, <2>5
<1> QED
  BY <1>1, IInvariant, PTL DEF Spec, NeverEarly

-----------------------------------------------------------------------------
(* The operation under its retry policy.                                   *)
(*                                                                         *)
(* The inductive invariant says of a waiting retry that it was scheduled   *)
(* before the deadline, within the interval of the policy for the error of *)
(* the failed attempt; of a running attempt it says when it may have       *)
(* started; and that the caller has not been called back until it is done. *)
(* The rest is arithmetic of the formula: the random part of an interval   *)
(* is never negative, for a power of two is at least one (it is the number *)
(* of the subsets of a set).                                               *)

-----------------------------------------------------------------------------
(* Arithmetic.                                                             *)

\* A product of naturals is one, and grows with its second factor.
LEMMA Products ==
  ASSUME NEW a \in Nat, NEW x \in Nat, NEW y \in Nat, x <= y
  PROVE  a * x \in Nat /\ a * y \in Nat /\ a * x <= a * y
<1>1. PICK d \in Nat : y = x + d
  <2>1. y - x \in Nat /\ y = x + (y - x)
    OBVIOUS
  <2>2. QED
    BY <2>1
<1>2. \A m, n \in Nat : m * n \in Nat
  OBVIOUS
<1>3. a * y = a * x + a * d
  BY <1>1
<1>4. QED
  BY <1>2, <1>3

\* So does a quotient.
LEMMA Quotients ==
  ASSUME NEW x \in Nat, NEW y \in Nat, x <= y
  PROVE  x \div 100 \in Nat /\ y \div 100 \in Nat /\ x \div 100 <= y \div 100
OBVIOUS
-----------------------------------------------------------------------------
(* The interval of a retry.                                                *)

\* The parameters are of the types the policy gives them.
LEMMA ConstantsFacts ==
  ASSUME NEW t \in BOOLEAN
  PROVE  /\ constants(t) \in Parameters
         /\ constants(t).c \in Nat /\ constants(t).cMin \in Nat \ {0}
         /\ constants(t).cMax \in Nat \ {0} /\ constants(t).cMin <= constants(t).cMax
         /\ 100 - constants(t).ju \in Nat /\ 100 - constants(t).jd \in Nat
         /\ 100 - constants(t).jd <= 100 - constants(t).ju
<1>1. PICK p \in Parameters : p = constants(t) /\ p.cMin <= p.cMax /\ p.ju <= p.jd
  <2>1. constants(t) \in {Normal, Throttled}
    BY DEF constants
  <2>2. \A q \in {Normal, Throttled} :
          q \in Parameters /\ q.cMin <= q.cMax /\ q.ju <= q.jd
    BY RetryAssumption
  <2> QED
    BY <2>1, <2>2
<1>2. p.c \in Nat /\ p.cMin \in Nat \ {0} /\ p.cMax \in Nat /\ p.ju \in 0..100 /\ p.jd \in 0..100
  BY SMTT(30) DEF Parameters
<1>3. p.cMax \in Nat \ {0}
  <2>1. \A c \in Nat \ {0}, d \in Nat : c <= d => d \in Nat \ {0}
    OBVIOUS
  <2> QED
    BY <1>1, <1>2, <2>1, Zenon
<1>4. 100 - p.ju \in Nat /\ 100 - p.jd \in Nat /\ 100 - p.jd <= 100 - p.ju
  <2>1. \A u, d \in 0..100 :
          100 - u \in Nat /\ 100 - d \in Nat /\ (u <= d => 100 - d <= 100 - u)
    OBVIOUS
  <2> QED
    BY <1>1, <1>2, <2>1, Zenon
<1>5. QED
  BY <1>1, <1>2, <1>3, <1>4

\* The random part of the interval is never negative, and never more than the
\* upper end of the documented one.
LEMMA JitterBounds ==
  ASSUME NEW t \in BOOLEAN, NEW random \in Randoms
  PROVE  /\ randomJitter(constants(t), random) \in Nat
         /\ (constants(t).c * (100 - constants(t).ju)) \div 100 \in Nat
         /\ randomJitter(constants(t), random)
              <= (constants(t).c * (100 - constants(t).ju)) \div 100
<1>1. PICK c \in Nat, u \in Nat, d \in Nat :
        /\ c = constants(t).c /\ u = 100 - constants(t).ju /\ d = 100 - constants(t).jd
        /\ d <= u
  BY ConstantsFacts
<1>2. c * d \in Nat /\ c * u \in Nat /\ c * d <= c * u
  BY <1>1, Products
<1>3. PICK low \in Nat, high \in Nat :
        low = (c * d) \div 100 /\ high = (c * u) \div 100 /\ low <= high
  BY <1>2, Quotients
<1>4. PICK w \in Nat : w = high - low /\ w <= high
  BY <1>3
<1>5. random \in Nat /\ random <= 100
  BY RetryAssumption
<1>6. w * random \in Nat /\ w * 100 \in Nat /\ w * random <= w * 100
  BY <1>5, Products
<1>7. (w * random) \div 100 \in Nat /\ (w * random) \div 100 <= (w * 100) \div 100
  BY <1>6, Quotients
<1>8. (w * 100) \div 100 = w
  OBVIOUS
<1>9. randomJitter(constants(t), random) = (w * random) \div 100
  BY <1>1, <1>3, <1>4 DEF randomJitter
<1>10. (constants(t).c * (100 - constants(t).ju)) \div 100 = high
  BY <1>1, <1>3
<1>11. QED
  BY <1>3, <1>4, <1>7, <1>8, <1>9, <1>10

\* The growth of the interval is that of a power of two, which is at least one.
LEMMA GrowthNatural ==
  ASSUME NEW count \in Nat \ {0}
  PROVE  Growth(count) \in Nat
<1>1. count - 1 \in Nat
  OBVIOUS
<1>2. PICK k \in Nat : k = 2 ^ (count - 1) /\ k # 0
  BY <1>1, PowerPositive
<1>3. QED
  BY <1>2 DEF Growth

\* The ends of the interval are times, and the shortest wait is the minimal
\* interval or none.
LEMMA WaitFacts ==
  ASSUME NEW count \in Nat \ {0}, NEW t \in BOOLEAN
  PROVE  /\ ShortestWait(count, t) \in Nat /\ LongestWait(count, t) \in Nat
         /\ ShortestWait(count, t) <= constants(t).cMin
         /\ LongestWait(count, t) <= constants(t).cMax
<1>1. PICK lo \in Nat, hi \in Nat :
        lo = constants(t).cMin /\ hi = constants(t).cMax /\ lo <= hi
  BY ConstantsFacts
<1>2. ShortestWait(count, t) \in {0, lo}
  BY <1>1 DEF ShortestWait
<1>4. PICK most \in Nat : most = (constants(t).c * (100 - constants(t).ju)) \div 100
  <2>1. PICK c \in Nat, u \in Nat : c = constants(t).c /\ u = 100 - constants(t).ju
    BY ConstantsFacts
  <2>2. c * u \in Nat
    BY <2>1, Products
  <2>3. (c * u) \div 100 \in Nat
    BY <2>2, Quotients
  <2> QED
    BY <2>1, <2>3
<1>5. PICK extra \in Nat : extra = Growth(count) * most
  BY <1>4, GrowthNatural, Products
<1>6. LongestWait(count, t) = Least(lo + extra, hi)
  BY <1>1, <1>4, <1>5 DEF LongestWait
<1>7. Least(lo + extra, hi) \in Nat /\ Least(lo + extra, hi) <= hi
  BY <1>1, <1>5 DEF Least
<1>8. QED
  BY <1>1, <1>2, <1>6, <1>7

\* A retry waits the minimal interval at least, and the longest wait after as
\* many attempts at most; the policy lets none be immediate but one before the
\* first attempt, which there is not.
LEMMA TimeoutBounds ==
  ASSUME NEW count \in Nat \ {0}, NEW t \in BOOLEAN, NEW random \in Randoms
  PROVE  /\ nextRetryTimeout(count, t, random) \in Nat
         /\ constants(t).cMin <= nextRetryTimeout(count, t, random)
         /\ nextRetryTimeout(count, t, random) <= LongestWait(count, t)
<1>1. PICK lo \in Nat, hi \in Nat :
        lo = constants(t).cMin /\ hi = constants(t).cMax /\ lo <= hi
  BY ConstantsFacts
<1>2. PICK g \in Nat : g = Growth(count)
  BY GrowthNatural
<1>3. PICK jitter \in Nat, most \in Nat :
        /\ jitter = randomJitter(constants(t), random)
        /\ most = (constants(t).c * (100 - constants(t).ju)) \div 100
        /\ jitter <= most
  BY JitterBounds
<1>4. PICK extra \in Nat, utmost \in Nat :
        extra = g * jitter /\ utmost = g * most /\ extra <= utmost
  BY <1>3, Products
<1>5. nextRetryTimeout(count, t, random) = Least(lo + extra, hi)
  BY <1>1, <1>2, <1>3, <1>4 DEF nextRetryTimeout
<1>6. LongestWait(count, t) = Least(lo + utmost, hi)
  BY <1>1, <1>2, <1>3, <1>4 DEF LongestWait
<1>7. /\ Least(lo + extra, hi) \in Nat /\ lo <= Least(lo + extra, hi)
      /\ Least(lo + extra, hi) <= Least(lo + utmost, hi)
  BY <1>1, <1>4 DEF Least
<1>8. QED
  BY <1>1, <1>5, <1>6, <1>7

-----------------------------------------------------------------------------
(* The invariant.                                                          *)

Scheduled ==
  /\ failedAt < OperationTimeout
  /\ failedAt + constants(throttled).cMin <= timer
  /\ timer <= failedAt + LongestWait(retryCount, throttled)

RetryInv ==
  /\ StartedBeforeLimit
  /\ phase = "waiting" => Scheduled
  /\ phase # "done" => finals = 0

\* The first attempt starts at once.
LEMMA InitRetryInv == RetryInit => RetryInv
<1>1. SUFFICES ASSUME RetryInit
               PROVE  RetryInv
  OBVIOUS
<1>2. RetryTypeOK /\ clock = 0 /\ phase = "running" /\ throttled \in BOOLEAN /\ finals = 0
  <2>1. /\ clock = 0 /\ phase = "running" /\ retryCount = 1 /\ timer = 0
        /\ failedAt = 0 /\ finals = 0
    BY <1>1 DEF RetryInit
  <2>2. throttled = FALSE
    BY <1>1, Zenon DEF RetryInit
  <2>3. throttled \in BOOLEAN
    BY <2>2
  <2>4. QED
    BY <2>1, <2>3 DEF RetryTypeOK
<1>3. PICK hi \in Nat \ {0} : hi = constants(throttled).cMax
  BY <1>2, ConstantsFacts
<1>4. OperationTimeout \in Nat /\ RetryLateness \in Nat
  BY RetryAssumption
<1>5. clock < OperationTimeout + constants(throttled).cMax + RetryLateness
  BY <1>2, <1>3, <1>4
<1>6. QED
  BY <1>2, <1>5 DEF RetryInv, StartedBeforeLimit

\* The caller is called back once.
LEMMA FinalStep ==
  ASSUME RetryInv, phase = "running", NEW time \in Nat, finalCallback(time),
         throttled' \in BOOLEAN, failedAt' \in Nat
  PROVE  RetryInv'
<1>1. RetryTypeOK'
  BY DEF RetryInv, StartedBeforeLimit, RetryTypeOK, finalCallback
<1>2. phase' = "done"
  BY DEF finalCallback
<1>3. QED
  BY <1>1, <1>2 DEF RetryInv, StartedBeforeLimit

\* Every step keeps the invariant.
LEMMA NextRetryInv ==
  ASSUME RetryInv, [RetryNext]_retryVars
  PROVE  RetryInv'
<1>1. RetryTypeOK /\ Durations \subseteq Nat /\ OperationTimeout \in Nat /\ RetryLateness \in Nat
  BY RetryAssumption DEF RetryInv, StartedBeforeLimit
<1>2. CASE UNCHANGED retryVars
  <2>1. UNCHANGED <<clock, phase, retryCount, timer, throttled, failedAt, finals>>
    BY <1>2 DEF retryVars
  <2>2. /\ constants(throttled)' = constants(throttled)
        /\ LongestWait(retryCount, throttled)' = LongestWait(retryCount, throttled)
    BY <2>1 DEF constants, LongestWait
  <2>3. QED
    BY <2>1, <2>2 DEF RetryInv, StartedBeforeLimit, RetryTypeOK, Scheduled
<1>3. ASSUME NEW duration \in Durations, Succeeds(duration)
      PROVE  RetryInv'
  <2>1. clock + duration \in Nat
    BY <1>1 DEF RetryTypeOK
  <2>2. throttled' \in BOOLEAN /\ failedAt' \in Nat
    BY <1>1, <1>3 DEF Succeeds, RetryTypeOK
  <2>3. QED
    BY <1>3, <2>1, <2>2, FinalStep DEF Succeeds
<1>4. ASSUME NEW duration \in Durations, NEW error \in Errors, NEW random \in Randoms,
             Fails(duration, error, random)
      PROVE  RetryInv'
  <2>1. PICK time \in Nat : time = clock + duration
    BY <1>1 DEF RetryTypeOK
  <2>2. throttled' \in BOOLEAN /\ failedAt' = time /\ phase = "running"
    BY <1>4, <2>1 DEF Fails
  <2>3. CASE finalCallback(time)
    BY <2>2, <2>3, FinalStep
  <2>4. CASE /\ time < OperationTimeout /\ clock' = time /\ phase' = "waiting"
             /\ timer' = time + nextRetryTimeout(retryCount, throttled', random)
             /\ UNCHANGED <<retryCount, finals>>
    <3>1. PICK wait \in Nat :
            /\ wait = nextRetryTimeout(retryCount, throttled', random)
            /\ constants(throttled').cMin <= wait
            /\ wait <= LongestWait(retryCount, throttled')
      BY <1>1, <2>2, TimeoutBounds DEF RetryTypeOK
    <3>2. PICK lo \in Nat, hi \in Nat :
            lo = constants(throttled').cMin /\ hi = LongestWait(retryCount, throttled')
      BY <1>1, <2>2, ConstantsFacts, WaitFacts DEF RetryTypeOK
    <3>3. timer' = time + wait /\ timer' \in Nat
      BY <2>4, <3>1
    <3>4. RetryTypeOK'
      BY <1>1, <2>2, <2>4, <3>3 DEF RetryTypeOK
    <3>5. failedAt' + lo <= timer' /\ timer' <= failedAt' + hi
      BY <2>2, <3>1, <3>2, <3>3
    <3>6. Scheduled'
      <4>1. /\ constants(throttled)' = constants(throttled')
            /\ LongestWait(retryCount, throttled)' = LongestWait(retryCount, throttled')
        BY <2>4 DEF constants, LongestWait
      <4>2. QED
        BY <2>2, <2>4, <3>2, <3>5, <4>1 DEF Scheduled
    <3>7. finals' = 0
      BY <2>2, <2>4 DEF RetryInv
    <3>8. QED
      BY <2>4, <3>4, <3>6, <3>7 DEF RetryInv, StartedBeforeLimit
  <2>5. QED
    BY <1>4, <2>1, <2>3, <2>4 DEF Fails
<1>5. ASSUME NEW late \in {0, RetryLateness}, Retries(late)
      PROVE  RetryInv'
  <2>1. /\ Scheduled /\ finals = 0 /\ phase' = "running" /\ clock' = timer + late
        /\ UNCHANGED <<timer, throttled, failedAt, finals>> /\ retryCount' = retryCount + 1
    BY <1>5 DEF Retries, RetryInv
  <2>2. late \in Nat /\ late <= RetryLateness
    BY <1>1
  <2>3. RetryTypeOK'
    BY <1>1, <2>1, <2>2 DEF RetryTypeOK
  <2>4. PICK hi \in Nat : hi = constants(throttled).cMax
    BY <1>1, ConstantsFacts DEF RetryTypeOK
  <2>5. clock' < OperationTimeout + hi + RetryLateness
    <3>1. failedAt \in Nat /\ timer \in Nat /\ failedAt < OperationTimeout /\ timer <= failedAt + hi
      <4>1. PICK longest \in Nat : longest = LongestWait(retryCount, throttled) /\ longest <= hi
        BY <1>1, <2>4, WaitFacts DEF RetryTypeOK
      <4>2. QED
        BY <1>1, <2>1, <4>1 DEF RetryTypeOK, Scheduled
    <3>2. QED
      BY <1>1, <2>1, <2>2, <3>1
  <2>6. constants(throttled)' = constants(throttled)
    BY <2>1 DEF constants
  <2>7. QED
    BY <2>1, <2>3, <2>4, <2>5, <2>6 DEF RetryInv, StartedBeforeLimit
<1>6. QED
  BY <1>2, <1>3, <1>4, <1>5 DEF RetryNext

\* The invariant holds always.
LEMMA RetryInvInvariant == RetrySpec => []RetryInv
BY InitRetryInv, NextRetryInv, PTL DEF RetrySpec

-----------------------------------------------------------------------------

\* No attempt starts later than the longest backoff after the deadline, however
\* long attempts take and whatever the random numbers are.
THEOREM AttemptsEnd == RetrySpec => []StartedBeforeLimit
<1>1. RetryInv => StartedBeforeLimit
  BY DEF RetryInv
<1>2. QED
  BY <1>1, RetryInvInvariant, PTL

\* Whatever the random numbers, the attempts before and the mix of errors, an
\* attempt is repeated neither sooner nor later than the policy lets it be after
\* that many attempts and the error that the last one failed with.
THEOREM BackoffKept == RetrySpec => BackoffRespected
<1>1. ASSUME RetryInv, [RetryNext]_retryVars, phase = "waiting", phase' = "running"
      PROVE  clock' - failedAt \in ShortestWait(retryCount, throttled)
                                ..(LongestWait(retryCount, throttled) + RetryLateness)
  <2>1. RetryTypeOK /\ Scheduled /\ RetryLateness \in Nat
    BY <1>1, RetryAssumption DEF RetryInv, StartedBeforeLimit
  <2>2. PICK late \in {0, RetryLateness} : Retries(late)
    BY <1>1 DEF RetryNext, retryVars, Succeeds, Fails, finalCallback
  <2>3. clock' = timer + late /\ late \in Nat /\ late <= RetryLateness
    BY <2>1, <2>2 DEF Retries
  <2>4. PICK least \in Nat, lo \in Nat, hi \in Nat :
          /\ least = ShortestWait(retryCount, throttled)
          /\ lo = constants(throttled).cMin /\ least <= lo
          /\ hi = LongestWait(retryCount, throttled)
    BY <2>1, ConstantsFacts, WaitFacts DEF RetryTypeOK
  <2>5. /\ failedAt \in Nat /\ timer \in Nat
        /\ failedAt + lo <= timer /\ timer <= failedAt + hi
    BY <2>1, <2>4 DEF RetryTypeOK, Scheduled
  <2>6. clock' - failedAt \in least..(hi + RetryLateness)
    BY <2>1, <2>3, <2>4, <2>5
  <2>7. QED
    BY <2>4, <2>6
<1>2. RetryInv /\ [RetryNext]_retryVars =>
        [phase = "waiting" /\ phase' = "running"
           => clock' - failedAt \in ShortestWait(retryCount, throttled)
                                 ..(LongestWait(retryCount, throttled) + RetryLateness)]_retryVars
  BY <1>1
<1>3. QED
  BY <1>2, RetryInvInvariant, PTL DEF RetrySpec, BackoffRespected

-----------------------------------------------------------------------------
(* The registration's state machine.                                       *)
(*                                                                         *)
(* CallbackOwned counts the places where the callback of an operation is   *)
(* kept.  It is preserved because the items on the agenda, in the queue    *)
(* and in the ticks have the shapes the handlers expect (Shapes), and      *)
(* because _currentOperationCallback is set in the busy states and no      *)
(* other (BusyWithOne): a registration that begins overwrites no other's   *)
(* callback.                                                               *)

\* What may be deferred, left to do and given to process.nextTick.
Deferred == {Item(method, o) : method \in Methods, o \in Ops} \cup {Item("cancel", 0)}
Callbacks == {0} \cup Ops \cup {-o : o \in Ops}
Work == Deferred \cup {Item("owner", 0), Item("replay", 0)}
          \cup {Item("call", callback) : callback \in Callbacks}
Agendas == Seq(Work)
Ticking == {Item(name, o) : name \in {"call", "answer"}, o \in Ops}

Shapes ==
  /\ queue \in Seq(Deferred) /\ agenda \in Seq(Work) /\ ticks \in Seq(Ticking)

\* An operation is being carried out in the busy states, and in no other.
BusyWithOne == state \in Busy <=> current # 0

\* The work that will call the callback of o.
Owned(o) == {item \in Items : item.op = o \/ item = Item("call", -o)}

\* The ticks that will.
Due(o) == {Item("call", o)}

\* The variables that keep one callback.
InCurrent(o) == IF current = o THEN 1 ELSE 0
InClosing(o) == IF closing \in {o, -o} /\ state \in Closing THEN 1 ELSE 0

\* How often it was called.
Told(o) == answers[o]

Accounts(o) ==
  Count(queue, Owned(o)) + Count(agenda, Owned(o)) + Count(ticks, Due(o))
  + InCurrent(o) + InClosing(o) + Told(o)

PollingInv ==
  /\ PollingTypeOK /\ Shapes /\ BusyWithOne
  /\ \A o \in Ops : Accounts(o) = 1

-----------------------------------------------------------------------------
(* The items.                                                              *)

\* Which items own the callback of an operation, and where items may be.
LEMMA ItemFacts ==
  ASSUME ops \in Seq(Methods)
  PROVE  /\ Ops \subseteq Nat \ {0}
         /\ Deferred \subseteq Work /\ Work \subseteq Items
         /\ Ticking \subseteq Items
         /\ \A o \in Nat \ {0} :
              /\ Item("owner", 0) \notin Owned(o)
              /\ Item("replay", 0) \notin Owned(o)
              /\ \A c \in Int : Item("call", c) \in Owned(o) <=> c \in {o, -o}
              /\ \A c \in Int, m \in Methods : Item(m, c) \in Owned(o) <=> c = o
<1>1. Ops \subseteq Nat \ {0}
  <2>1. Ops = 1..Len(ops)
    BY LenProperties DEF Ops
  <2>2. QED
    BY <2>1
<1>2. Deferred \subseteq Work
  BY DEF Work
<1>3. Work \subseteq Items /\ Ticking \subseteq Items
  BY <1>1 DEF Work, Ticking, Deferred, Callbacks, Items, Item, Methods
<1>4. ASSUME NEW o \in Nat \ {0}
      PROVE  /\ Item("owner", 0) \notin Owned(o)
             /\ Item("replay", 0) \notin Owned(o)
             /\ \A c \in Int : Item("call", c) \in Owned(o) <=> c \in {o, -o}
             /\ \A c \in Int, m \in Methods : Item(m, c) \in Owned(o) <=> c = o
  BY DEF Owned, Items, Item, Methods
<1>5. QED
  BY <1>1, <1>2, <1>3, <1>4

\* What an item says of the callback it carries.
LEMMA WorkFacts ==
  ASSUME ops \in Seq(Methods), NEW item \in Work
  PROVE  /\ item = Item(item.do, item.op) /\ item.op \in Int
         /\ item.do \in Methods => item \in Deferred /\ item.op \in Ops \cup {0}
         /\ item.do \in {"register", "disconnect"} => item.op \in Ops
         /\ item.do = "call" => item.op \in Callbacks
         /\ item.do \in {"owner", "replay"} => item.op = 0
BY ItemFacts DEF Work, Deferred, Callbacks, Item, Methods

-----------------------------------------------------------------------------
(* The parts of a step.                                                    *)

\* Answer counts each callback called once more.
LEMMA AnswerFacts ==
  ASSUME answers \in [Ops -> Nat], NEW called, Answer(called)
  PROVE  /\ answers' \in [Ops -> Nat]
         /\ \A o \in Ops : Told(o)' = Told(o) + (IF o \in called THEN 1 ELSE 0)
BY DEF Answer, Told

\* A transition puts what entering the state does, and the replay, before the
\* rest; the replay owns no callback.
LEMMA GotoFacts ==
  ASSUME ops \in Seq(Methods), NEW s, NEW work \in Seq(Work),
         NEW rest \in Seq(Work), Goto(s, work, rest)
  PROVE  /\ state' = s /\ agenda' \in Seq(Work)
         /\ \A o \in Ops : Count(agenda', Owned(o))
                             = Count(work, Owned(o)) + Count(rest, Owned(o))
<1> DEFINE replay == Item("replay", 0)
<1>1. replay \in Work /\ <<replay>> \in Seq(Work)
  BY DEF Work
<1>2. work \o <<replay>> \in Seq(Work)
  BY <1>1, ConcatProperties
<1>3. agenda' = (work \o <<replay>>) \o rest /\ state' = s
  BY DEF Goto
<1>4. agenda' \in Seq(Work)
  BY <1>2, <1>3, ConcatProperties
<1>5. ASSUME NEW o \in Ops
      PROVE  Count(agenda', Owned(o))
               = Count(work, Owned(o)) + Count(rest, Owned(o))
  <2>1. Count(<<replay>>, Owned(o)) = 0
    BY CountOne, ItemFacts
  <2>2. /\ Count((work \o <<replay>>) \o rest, Owned(o))
             = Count(work \o <<replay>>, Owned(o)) + Count(rest, Owned(o))
        /\ Count(work \o <<replay>>, Owned(o))
             = Count(work, Owned(o)) + Count(<<replay>>, Owned(o))
    BY <1>1, <1>2, CountConcat
  <2>3. Count(work, Owned(o)) \in Nat /\ Count(rest, Owned(o)) \in Nat
    BY CountNat
  <2>4. QED
    BY <1>3, <2>1, <2>2, <2>3
<1>6. QED
  BY <1>3, <1>4, <1>5

\* A callback to be called on entering a state is one item.
LEMMA CallItem ==
  ASSUME ops \in Seq(Methods), NEW callback \in Callbacks
  PROVE  /\ <<Item("call", callback)>> \in Seq(Work)
         /\ \A o \in Ops : Count(<<Item("call", callback)>>, Owned(o))
                             = IF callback \in {o, -o} THEN 1 ELSE 0
<1>1. Item("call", callback) \in Work /\ callback \in Int
  BY ItemFacts DEF Work, Callbacks
<1>2. QED
  BY <1>1, CountOne, ItemFacts

\* The caller's turn owns no callback.
LEMMA OwnerFacts ==
  ASSUME ops \in Seq(Methods), NEW rest \in Seq(Work)
  PROVE  /\ Owner \o rest \in Seq(Work) /\ Owner \in Seq(Work)
         /\ \A o \in Ops : Count(Owner \o rest, Owned(o)) = Count(rest, Owned(o))
<1>1. Item("owner", 0) \in Work
  BY DEF Work
<1>2. Owner \in Seq(Work)
  BY <1>1 DEF Owner
<1>3. ASSUME NEW o \in Ops
      PROVE  Count(Owner, Owned(o)) = 0
  BY CountOne, CountEmpty, ItemFacts DEF Owner
<1>4. ASSUME NEW o \in Ops
      PROVE  /\ Count(Owner \o rest, Owned(o))
                  = Count(Owner, Owned(o)) + Count(rest, Owned(o))
             /\ Count(rest, Owned(o)) \in Nat
  BY <1>2, CountConcat, CountNat
<1>5. QED
  BY <1>2, <1>3, <1>4, ConcatProperties

\* A step that makes no call keeps IInv if it keeps the types and, of every
\* operation, the number of its places and answers.
LEMMA Balance ==
  ASSUME PollingInv, UNCHANGED ops, PollingTypeOK', BusyWithOne',
         queue' \in Seq(Deferred), agenda' \in Seq(Work), ticks' \in Seq(Ticking),
         \A o \in Ops : Accounts(o)' = Accounts(o)
  PROVE  PollingInv'
<1>1. /\ Ops' = Ops /\ Deferred' = Deferred /\ Work' = Work
      /\ Ticking' = Ticking
  BY DEF Ops, Deferred, Callbacks, Work, Ticking
<1>2. QED
  BY <1>1 DEF PollingInv, Shapes

\* The counts are naturals.
LEMMA Naturals ==
  ASSUME PollingInv, NEW o \in Ops
  PROVE  /\ Count(queue, Owned(o)) \in Nat /\ Count(agenda, Owned(o)) \in Nat
         /\ Count(ticks, Due(o)) \in Nat
         /\ InCurrent(o) \in Nat /\ InClosing(o) \in Nat
         /\ Told(o) \in Nat /\ o \in Nat \ {0}
<1>1. /\ ops \in Seq(Methods) /\ queue \in Seq(Deferred) /\ agenda \in Seq(Work)
      /\ ticks \in Seq(Ticking) /\ answers \in [Ops -> Nat]
  BY DEF PollingInv, PollingTypeOK, Shapes
<1>2. InCurrent(o) \in Nat /\ InClosing(o) \in Nat
  BY DEF InCurrent, InClosing
<1>3. QED
  BY <1>1, <1>2, CountNat, ItemFacts DEF Told

-----------------------------------------------------------------------------
(* The handlers, each as a part of a step that takes an item off the       *)
(* agenda and leaves the rest.                                             *)

\* The agenda is the rest and one item more, which owns a callback.
Leaves(callback, rest) ==
  \A o \in Ops : Count(agenda, Owned(o))
                   = Count(rest, Owned(o)) + (IF callback \in {o, -o} THEN 1 ELSE 0)

\* It is the rest, and op is current, or becomes it.
Becomes(op, rest) ==
  \A o \in Ops : Count(agenda, Owned(o)) + InCurrent(o)
                   = Count(rest, Owned(o)) + (IF op = o THEN 1 ELSE 0)

\* Entering a requesting state with an operation: nothing but the place of its
\* callback changes.
LEMMA RequestStep ==
  ASSUME PollingInv, UNCHANGED <<ops, transport>>, NEW s \in Requesting, NEW op \in Ops,
         NEW rest \in Agendas, Request(s, op, rest),
         Becomes(op, rest),
         state \notin Closing
  PROVE  PollingInv'
<1>0. Ops' = Ops /\ ops \in Seq(Methods) /\ <<>> \in Seq(Work)
  BY DEF PollingInv, PollingTypeOK, Ops
<1>1. /\ state' = s /\ agenda' \in Agendas
      /\ \A o \in Ops : Count(agenda', Owned(o))
                          = Count(<<>>, Owned(o)) + Count(rest, Owned(o))
  BY <1>0, GotoFacts DEF Request, Agendas
<1>2. PollingTypeOK'
  BY <1>0, <1>1, ItemFacts, SeqWiden, SMTT(60) DEF Agendas, PollingInv, PollingTypeOK, Request, Requesting, Busy
<1>3. BusyWithOne'
  BY <1>0, <1>1, ItemFacts DEF PollingInv, BusyWithOne, Request, Busy
<1>4. ASSUME NEW o \in Ops
      PROVE  Accounts(o)' = Accounts(o)
  <2>1. Count(<<>>, Owned(o)) = 0 /\ Count(rest, Owned(o)) \in Nat
    <3>1. Count(<<>>, Owned(o)) = 0
      BY CountEmpty
    <3>2. QED
      BY <3>1, CountNat DEF Agendas
  <2>2. Count(agenda', Owned(o)) = Count(rest, Owned(o))
    BY <1>1, <2>1
  <2>3. /\ InCurrent(o)' = (IF op = o THEN 1 ELSE 0)
        /\ InClosing(o)' = 0 /\ InClosing(o) = 0
    BY <1>1 DEF Requesting, Closing, InCurrent, InClosing, Request
  <2>4. /\ Count(queue, Owned(o)) \in Nat /\ Count(agenda, Owned(o)) \in Nat
        /\ Count(ticks, Due(o)) \in Nat /\ Told(o) \in Nat
        /\ InCurrent(o) \in Nat /\ InClosing(o) \in Nat
    BY Naturals
  <2>5. queue' = queue /\ ticks' = ticks /\ Told(o)' = Told(o)
    BY DEF Request, Told
  <2>6. /\ Count(agenda, Owned(o)) + InCurrent(o)
             = Count(agenda', Owned(o)) + InCurrent(o)'
        /\ Count(agenda', Owned(o)) \in Nat /\ InCurrent(o)' \in Nat
        /\ InClosing(o)' = InClosing(o)
    BY <2>1, <2>2, <2>3 DEF Becomes
  <2>7. QED
    BY <2>4, <2>5, <2>6 DEF Accounts
<1>5. QED
  BY <1>0, <1>1, <1>2, <1>3, <1>4, Balance DEF Agendas, Request, PollingInv, Shapes

\* The callback of an operation is called by the handler: its place is taken
\* off the agenda and its answer is counted.
LEMMA CallBackStep ==
  ASSUME PollingInv, UNCHANGED <<ops, transport>>, NEW op \in Ops \cup {0},
         NEW rest \in Agendas, CallBack(op, rest),
         Leaves(op, rest)
  PROVE  PollingInv'
<1>0. Ops' = Ops /\ ops \in Seq(Methods)
  BY DEF PollingInv, PollingTypeOK, Ops
<1>1. /\ agenda' \in Agendas
      /\ \A o \in Ops : Count(agenda', Owned(o)) = Count(rest, Owned(o))
  BY <1>0, OwnerFacts DEF CallBack, Agendas
<1>2. /\ answers' \in [Ops -> Nat]
      /\ \A o \in Ops : Told(o)' = Told(o) + (IF o \in {op} THEN 1 ELSE 0)
  BY AnswerFacts DEF PollingInv, PollingTypeOK, CallBack
<1>3. PollingTypeOK'
  BY <1>0, <1>1, <1>2, ItemFacts, SeqWiden
     DEF Agendas, PollingInv, PollingTypeOK, CallBack, SameOperation, SameTransport
<1>4. BusyWithOne'
  BY DEF PollingInv, BusyWithOne, CallBack, SameOperation
<1>5. ASSUME NEW o \in Ops
      PROVE  Accounts(o)' = Accounts(o)
  <2>1. Count(rest, Owned(o)) \in Nat
    BY CountNat DEF Agendas
  <2>2. /\ Count(queue, Owned(o)) \in Nat /\ Count(agenda, Owned(o)) \in Nat
        /\ Count(ticks, Due(o)) \in Nat /\ Told(o) \in Nat
        /\ InCurrent(o) \in Nat /\ InClosing(o) \in Nat
    BY Naturals
  <2>3. /\ queue' = queue /\ ticks' = ticks
        /\ InCurrent(o)' = InCurrent(o) /\ InClosing(o)' = InClosing(o)
    BY DEF CallBack, SameOperation, InCurrent, InClosing
  <2>4. /\ Count(agenda, Owned(o)) + Told(o)
             = Count(agenda', Owned(o)) + Told(o)'
        /\ Count(agenda', Owned(o)) \in Nat /\ Told(o)' \in Nat
    <3>1. op \in {o, -o} <=> o \in {op}
      BY <1>0, ItemFacts
    <3>2. QED
      BY <1>1, <1>2, <2>1, <2>2, <3>1 DEF Leaves
  <2>5. QED
    BY <2>2, <2>3, <2>4 DEF Accounts
<1>6. QED
  BY <1>0, <1>1, <1>3, <1>4, <1>5, Balance
     DEF Agendas, CallBack, SameOperation, PollingInv, Shapes

\* Entering a closing state: its callback is kept by that state, or, if the
\* transport calls back at once, it is about to be called.
LEMMA CloseFacts ==
  ASSUME ops \in Seq(Methods), NEW through \in Closing,
         NEW next \in {"idle", "disconnected"}, NEW callback \in Callbacks,
         NEW rest \in Agendas, Close(through, next, callback, rest)
  PROVE  /\ state' \in {through, next} /\ agenda' \in Agendas
         /\ closing' \in {closing, callback}
         /\ \A o \in Ops :
              Count(agenda', Owned(o))
                + (IF closing' \in {o, -o} /\ state' \in Closing THEN 1 ELSE 0)
              = Count(rest, Owned(o)) + (IF callback \in {o, -o} THEN 1 ELSE 0)
<1> DEFINE call == <<Item("call", callback)>>
<1>1. /\ call \in Seq(Work) /\ <<>> \in Seq(Work)
      /\ \A o \in Ops : /\ Count(call, Owned(o))
                              = IF callback \in {o, -o} THEN 1 ELSE 0
                        /\ Count(<<>>, Owned(o)) = 0
                        /\ Count(rest, Owned(o)) \in Nat
  <2>1. \A o \in Ops : Count(<<>>, Owned(o)) = 0
    BY CountEmpty
  <2>2. \A o \in Ops : Count(rest, Owned(o)) \in Nat
    BY CountNat DEF Agendas
  <2>3. QED
    BY <2>1, <2>2, CallItem
<1> HIDE DEF call
<1>2. CASE Goto(next, call, rest) /\ UNCHANGED closing
  <2>1. /\ state' = next /\ agenda' \in Agendas
        /\ \A o \in Ops : Count(agenda', Owned(o))
                            = Count(call, Owned(o)) + Count(rest, Owned(o))
    BY <1>1, <1>2, GotoFacts DEF Agendas
  <2>2. next \notin Closing
    BY DEF Closing
  <2>3. QED
    BY <1>1, <1>2, <2>1, <2>2
<1>3. CASE Goto(through, <<>>, rest) /\ closing' = callback
  <2>1. /\ state' = through /\ agenda' \in Agendas
        /\ \A o \in Ops : Count(agenda', Owned(o))
                            = Count(<<>>, Owned(o)) + Count(rest, Owned(o))
    BY <1>1, <1>3, GotoFacts DEF Agendas
  <2>2. QED
    BY <1>1, <1>3, <2>1
<1>4. QED
  BY <1>2, <1>3 DEF Close, call

\* The operation cancelled is told in a tick.
LEMMA CancelledFacts ==
  ASSUME ops \in Seq(Methods), current \in Ops
  PROVE  /\ Cancelled \in Seq(Ticking)
         /\ \A o \in Ops : Count(Cancelled, Due(o)) = InCurrent(o)
<1> DEFINE tellNow == <<Item("call", current)>>
           reply == IF transport = "mqtt" /\ current \in requests
                      THEN <<Item("answer", current)>> ELSE <<>>
<1>1. Item("call", current) \in Ticking /\ Item("answer", current) \in Ticking
  BY DEF Ticking
<1>2. tellNow \in Seq(Ticking) /\ reply \in Seq(Ticking)
  BY <1>1
<1>3. ASSUME NEW o \in Ops
      PROVE  Count(tellNow, Due(o)) = InCurrent(o) /\ Count(reply, Due(o)) = 0
  <2>1. /\ Item("call", current) \in Due(o) <=> current = o
        /\ Item("answer", current) \notin Due(o)
    BY DEF Due, Item
  <2>2. Count(tellNow, Due(o)) = InCurrent(o)
    BY <2>1, CountOne DEF InCurrent
  <2>3. Count(<<Item("answer", current)>>, Due(o)) = 0
    BY <2>1, CountOne
  <2>4. QED
    BY <2>2, <2>3, CountEmpty
<1>4. Cancelled = tellNow \o reply
  BY ItemFacts DEF Cancelled
<1> HIDE DEF tellNow, reply
<1>5. ASSUME NEW o \in Ops
      PROVE  Count(tellNow \o reply, Due(o)) = Count(tellNow, Due(o)) + Count(reply, Due(o))
  BY <1>2, CountConcat
<1>6. \A o \in Ops : InCurrent(o) + 0 = InCurrent(o)
  BY DEF InCurrent
<1>7. QED
  BY <1>2, <1>3, <1>4, <1>5, <1>6, ConcatProperties

\* Cancelling: the operation under way is told in a tick, the callback of the
\* cancellation is kept or on the agenda.
LEMMA CancellingStep ==
  ASSUME PollingInv, UNCHANGED <<ops, transport>>, NEW callback \in Callbacks,
         NEW rest \in Agendas, Cancelling(callback, rest), state \in Busy,
         Leaves(callback, rest)
  PROVE  PollingInv'
<1>0. /\ Ops' = Ops /\ ops \in Seq(Methods) /\ ticks \in Seq(Ticking)
      /\ current \in Ops
  BY DEF PollingInv, PollingTypeOK, Ops, Shapes, BusyWithOne
<1>1. /\ state' \in {"cancelling", "idle"} /\ agenda' \in Agendas
      /\ closing' \in {closing, callback}
      /\ \A o \in Ops :
           Count(agenda', Owned(o)) + InClosing(o)'
           = Count(rest, Owned(o)) + (IF callback \in {o, -o} THEN 1 ELSE 0)
  BY <1>0, CloseFacts DEF Cancelling, Closing, InClosing
<1>2. /\ ticks' \in Seq(Ticking)
      /\ \A o \in Ops : Count(ticks', Due(o)) = Count(ticks, Due(o)) + InCurrent(o)
  BY <1>0, CancelledFacts, CountConcat, ConcatProperties DEF Cancelling
<1>3. PollingTypeOK'
  BY <1>0, <1>1, <1>2, ItemFacts, SeqWiden
     DEF Agendas, Callbacks, PollingInv, PollingTypeOK, Cancelling, SameTransport, Closing
<1>4. BusyWithOne'
  BY <1>1 DEF BusyWithOne, Cancelling, Busy, Requesting
<1>5. ASSUME NEW o \in Ops
      PROVE  Accounts(o)' = Accounts(o)
  <2>1. Count(rest, Owned(o)) \in Nat
    BY CountNat DEF Agendas
  <2>2. /\ Count(queue, Owned(o)) \in Nat /\ Count(agenda, Owned(o)) \in Nat
        /\ Count(ticks, Due(o)) \in Nat /\ Told(o) \in Nat
        /\ InCurrent(o) \in Nat /\ InClosing(o) \in Nat
    BY Naturals
  <2>3. queue' = queue /\ Told(o)' = Told(o)
    BY DEF Cancelling, Told
  <2>4. InCurrent(o)' = 0 /\ InClosing(o) = 0
    BY <1>0, ItemFacts DEF Cancelling, InCurrent, InClosing, Busy, Requesting, Closing
  <2>5. Count(agenda', Owned(o)) \in Nat /\ InClosing(o)' \in Nat
    BY <1>1, CountNat DEF Agendas, InClosing
  <2>6. Count(agenda', Owned(o)) + InClosing(o)' = Count(agenda, Owned(o))
    BY <1>1 DEF Leaves
  <2>7. Count(ticks', Due(o)) = Count(ticks, Due(o)) + InCurrent(o)
    BY <1>2
  <2>8. QED
    BY <2>2, <2>3, <2>4, <2>5, <2>6, <2>7 DEF Accounts
<1>6. QED
  BY <1>0, <1>1, <1>2, <1>3, <1>4, <1>5, Balance
     DEF Agendas, Cancelling, PollingInv, Shapes

\* Disconnecting, from the idle state: the callback is kept or on the agenda.
LEMMA DisconnectingStep ==
  ASSUME PollingInv, UNCHANGED <<ops, transport>>, NEW callback \in Callbacks,
         NEW rest \in Agendas, Disconnecting(callback, rest), state = "idle",
         Leaves(callback, rest)
  PROVE  PollingInv'
<1>0. Ops' = Ops /\ ops \in Seq(Methods)
  BY DEF PollingInv, PollingTypeOK, Ops
<1>1. /\ state' \in {"disconnecting", "disconnected"} /\ agenda' \in Agendas
      /\ closing' \in {closing, callback}
      /\ \A o \in Ops :
           Count(agenda', Owned(o)) + InClosing(o)'
           = Count(rest, Owned(o)) + (IF callback \in {o, -o} THEN 1 ELSE 0)
  BY <1>0, CloseFacts DEF Disconnecting, Closing, InClosing
<1>2. PollingTypeOK'
  BY <1>0, <1>1, ItemFacts, SeqWiden
     DEF Agendas, Callbacks, PollingInv, PollingTypeOK, Disconnecting, Closing
<1>3. BusyWithOne'
  BY <1>1 DEF BusyWithOne, Disconnecting, Busy, Requesting, PollingInv
<1>4. ASSUME NEW o \in Ops
      PROVE  Accounts(o)' = Accounts(o)
  <2>1. /\ Count(queue, Owned(o)) \in Nat /\ Count(agenda, Owned(o)) \in Nat
        /\ Count(ticks, Due(o)) \in Nat /\ Told(o) \in Nat
        /\ InCurrent(o) \in Nat /\ InClosing(o) \in Nat
    BY Naturals
  <2>2. /\ queue' = queue /\ ticks' = ticks /\ Told(o)' = Told(o)
        /\ InCurrent(o)' = InCurrent(o) /\ InClosing(o) = 0
    BY DEF Disconnecting, Told, InCurrent, InClosing, Closing
  <2>3. Count(agenda', Owned(o)) \in Nat /\ InClosing(o)' \in Nat
    BY <1>1, CountNat DEF Agendas, InClosing
  <2>4. Count(agenda', Owned(o)) + InClosing(o)' = Count(agenda, Owned(o))
    BY <1>1 DEF Leaves
  <2>5. QED
    BY <2>1, <2>2, <2>3, <2>4 DEF Accounts
<1>5. QED
  BY <1>0, <1>1, <1>2, <1>3, <1>4, Balance
     DEF Agendas, Disconnecting, PollingInv, Shapes

\* An input is deferred: its item moves from the agenda to the queue.
LEMMA ClosingStep ==
  ASSUME PollingInv, UNCHANGED <<ops, transport>>, NEW input \in Deferred,
         NEW rest \in Agendas, HandleClosing(input, rest),
         Leaves(input.op, rest)
  PROVE  PollingInv'
<1>0. Ops' = Ops /\ ops \in Seq(Methods) /\ queue \in Seq(Deferred)
  BY DEF PollingInv, PollingTypeOK, Ops, Shapes
<1>1. /\ input \in Work /\ input = Item(input.do, input.op)
      /\ input.do \in Methods /\ input.op \in Int /\ input.op \in Ops \cup {0}
  BY <1>0, ItemFacts, WorkFacts DEF Deferred, Item, Methods
<1>2. /\ queue' \in Seq(Deferred) /\ agenda' = rest
      /\ \A o : Count(queue', Owned(o))
                  = Count(queue, Owned(o)) + (IF input \in Owned(o) THEN 1 ELSE 0)
  <2>1. queue' = Append(queue, input) /\ agenda' = rest
    BY DEF HandleClosing
  <2>2. /\ Append(queue, input) \in Seq(Deferred)
        /\ \A o : Count(Append(queue, input), Owned(o))
                    = Count(queue, Owned(o)) + (IF input \in Owned(o) THEN 1 ELSE 0)
    <3>1. Append(queue, input) \in Seq(Deferred)
      BY <1>0, AppendProperties
    <3>2. ASSUME NEW S
          PROVE  Count(Append(queue, input), S)
                   = Count(queue, S) + (IF input \in S THEN 1 ELSE 0)
      <4>1. Count(queue, S) \in Nat
        BY <1>0, CountNat
      <4>2. /\ input \in S => Count(Append(queue, input), S) = Count(queue, S) + 1
            /\ input \notin S => Count(Append(queue, input), S) = Count(queue, S)
        BY <1>0, CountAppend, Zenon
      <4>3. QED
        BY <4>1, <4>2
    <3>3. QED
      BY <3>1, <3>2, Zenon
  <2>3. QED
    BY <2>1, <2>2, Zenon
<1>3. PollingTypeOK'
  BY <1>0, <1>2, ItemFacts, SeqWiden
     DEF Agendas, PollingInv, PollingTypeOK, HandleClosing, SameOperation, SameTransport
<1>4. BusyWithOne'
  BY DEF BusyWithOne, HandleClosing, SameOperation, PollingInv
<1>5. ASSUME NEW o \in Ops
      PROVE  Accounts(o)' = Accounts(o)
  <2>1. /\ Count(queue, Owned(o)) \in Nat /\ Count(agenda, Owned(o)) \in Nat
        /\ Count(ticks, Due(o)) \in Nat /\ Told(o) \in Nat
        /\ InCurrent(o) \in Nat /\ InClosing(o) \in Nat
    BY Naturals
  <2>2. /\ ticks' = ticks /\ Told(o)' = Told(o)
        /\ InCurrent(o)' = InCurrent(o) /\ InClosing(o)' = InClosing(o)
    BY DEF HandleClosing, SameOperation, Told, InCurrent, InClosing
  <2>3. input.op \in {o, -o} <=> input \in Owned(o)
    BY <1>0, <1>1, ItemFacts
  <2>4. Count(queue', Owned(o)) \in Nat /\ Count(agenda', Owned(o)) \in Nat
    BY <1>2, CountNat DEF Agendas
  <2>5. Count(queue', Owned(o)) + Count(agenda', Owned(o))
          = Count(queue, Owned(o)) + Count(agenda, Owned(o))
    BY <1>2, <2>1, <2>3, <2>4 DEF Leaves
  <2>6. QED
    BY <2>1, <2>2, <2>4, <2>5 DEF Accounts
<1>6. QED
  BY <1>0, <1>2, <1>3, <1>4, <1>5, Balance
     DEF Agendas, HandleClosing, SameOperation, PollingInv, Shapes

\* Only the agenda changes, and owns what it owned.
LEMMA AgendaStep ==
  ASSUME PollingInv, UNCHANGED <<ops, transport, state, queue, answers>>,
         SameOperation, SameTransport, agenda' \in Agendas,
         \A o \in Ops : Count(agenda', Owned(o)) = Count(agenda, Owned(o))
  PROVE  PollingInv'
<1>0. Ops' = Ops /\ ops \in Seq(Methods)
  BY DEF PollingInv, PollingTypeOK, Ops
<1>1. PollingTypeOK'
  BY <1>0, ItemFacts, SeqWiden
     DEF Agendas, PollingInv, PollingTypeOK, SameOperation, SameTransport
<1>2. BusyWithOne'
  BY DEF BusyWithOne, SameOperation, PollingInv
<1>3. ASSUME NEW o \in Ops
      PROVE  Accounts(o)' = Accounts(o)
  BY DEF Accounts, Told, InCurrent, InClosing, SameOperation
<1>4. QED
  BY <1>1, <1>2, <1>3, Balance DEF Agendas, SameOperation, PollingInv, Shapes

\* A callback on the agenda is called; the one that goes on with a disconnect
\* becomes that disconnect.
LEMMA CallbackStep ==
  ASSUME PollingInv, UNCHANGED <<ops, transport>>, NEW callback \in Callbacks,
         NEW rest \in Agendas, Callback(callback, rest), Leaves(callback, rest)
  PROVE  PollingInv'
<1>0. ops \in Seq(Methods) /\ rest \in Seq(Work)
  BY DEF PollingInv, PollingTypeOK, Agendas
<1>1. CASE callback > 0 /\ CallBack(callback, rest)
  <2>1. callback \in Ops
    BY <1>0, <1>1, ItemFacts DEF Callbacks
  <2>2. QED
    BY <1>1, <2>1, CallBackStep
<1>2. CASE callback < 0 /\ agenda' = <<Item("disconnect", -callback)>> \o rest
           /\ SameOperation /\ SameTransport
           /\ UNCHANGED <<state, queue, ops, answers>>
  <2>1. -callback \in Ops /\ -callback \in Int
    BY <1>0, <1>2, ItemFacts DEF Callbacks
  <2> DEFINE goesOn == Item("disconnect", -callback)
  <2>2. goesOn \in Work
    BY <2>1 DEF Work, Deferred, Methods
  <2>3. \A o \in Ops : goesOn \in Owned(o) <=> callback \in {o, -o}
    <3>1. ASSUME NEW o \in Ops
          PROVE  goesOn \in Owned(o) <=> -callback = o
      BY <1>0, <2>1, ItemFacts DEF Methods
    <3>2. ASSUME NEW o \in Ops
          PROVE  -callback = o <=> callback \in {o, -o}
      <4>1. o \in Nat \ {0}
        BY Naturals
      <4>2. callback \in Int
        BY <1>0, ItemFacts DEF Callbacks
      <4>3. QED
        BY <1>2, <4>1, <4>2
    <3>3. QED
      BY <3>1, <3>2
  <2> HIDE DEF goesOn
  <2>4. /\ <<goesOn>> \o rest \in Seq(Work)
        /\ \A o : Count(<<goesOn>> \o rest, Owned(o))
                    = (IF goesOn \in Owned(o) THEN 1 ELSE 0) + Count(rest, Owned(o))
    BY <1>0, <2>2, CountExtended
  <2>5. ASSUME NEW o \in Ops
        PROVE  Count(<<goesOn>> \o rest, Owned(o)) = Count(agenda, Owned(o))
    <3>1. Count(rest, Owned(o)) \in Nat
      BY <1>0, CountNat
    <3>2. QED
      BY <2>3, <2>4, <3>1 DEF Leaves
  <2>6. QED
    BY <1>2, <2>4, <2>5, AgendaStep DEF goesOn, Agendas
<1>3. CASE callback = 0 /\ agenda' = <<>> \o rest
           /\ SameOperation /\ SameTransport
           /\ UNCHANGED <<state, queue, ops, answers>>
  <2>1. agenda' = rest
    BY <1>0, <1>3
  <2>2. ASSUME NEW o \in Ops
        PROVE  Count(rest, Owned(o)) = Count(agenda, Owned(o))
    <3>1. o \in Nat \ {0}
      BY Naturals
    <3>2. Count(rest, Owned(o)) \in Nat
      BY CountNat DEF Agendas
    <3>3. callback \notin {o, -o}
      BY <1>3, <3>1
    <3>4. QED
      BY <3>2, <3>3 DEF Leaves
  <2>3. QED
    BY <1>3, <2>1, <2>2, AgendaStep
<1>4. callback \in Int
  BY <1>0, ItemFacts DEF Callbacks
<1>5. CASE callback > 0
  BY <1>1, <1>4, <1>5 DEF Callback
<1>6. CASE callback < 0
  BY <1>2, <1>4, <1>6 DEF Callback
<1>7. CASE callback = 0
  BY <1>3, <1>7 DEF Callback
<1>8. QED
  BY <1>4, <1>5, <1>6, <1>7

\* The replay moves the queue to the agenda.
LEMMA ReplayStep ==
  ASSUME PollingInv, UNCHANGED <<ops, transport>>, NEW rest \in Agendas, Replay(rest),
         Leaves(0, rest)
  PROVE  PollingInv'
<1>0. /\ Ops' = Ops /\ ops \in Seq(Methods) /\ rest \in Seq(Work)
      /\ queue \in Seq(Work)
  BY ItemFacts, SeqWiden DEF PollingInv, PollingTypeOK, Ops, Shapes, Agendas
<1>1. /\ agenda' \in Seq(Work)
      /\ \A o : Count(agenda', Owned(o))
                  = Count(queue, Owned(o)) + Count(rest, Owned(o))
  BY <1>0, CountConcat, ConcatProperties DEF Replay
<1>2. queue' = <<>> /\ queue' \in Seq(Deferred) /\ \A o : Count(queue', Owned(o)) = 0
  BY CountEmpty DEF Replay
<1>3. PollingTypeOK'
  BY <1>0, <1>1, <1>2, ItemFacts, SeqWiden
     DEF PollingInv, PollingTypeOK, Replay, SameOperation, SameTransport
<1>4. BusyWithOne'
  BY DEF BusyWithOne, Replay, SameOperation, PollingInv
<1>5. agenda' \in Agendas
  BY <1>1 DEF Agendas
<1>6. ASSUME NEW o \in Ops
      PROVE  Accounts(o)' = Accounts(o)
  <2>1. /\ Count(queue, Owned(o)) \in Nat /\ Count(agenda, Owned(o)) \in Nat
        /\ Count(ticks, Due(o)) \in Nat /\ Told(o) \in Nat
        /\ InCurrent(o) \in Nat /\ InClosing(o) \in Nat
    BY Naturals
  <2>2. /\ ticks' = ticks /\ Told(o)' = Told(o)
        /\ InCurrent(o)' = InCurrent(o) /\ InClosing(o)' = InClosing(o)
    BY DEF Replay, SameOperation, Told, InCurrent, InClosing
  <2>3. Count(rest, Owned(o)) \in Nat /\ 0 \notin {o, -o}
    <3>1. o \in Nat \ {0}
      BY Naturals
    <3>2. Count(rest, Owned(o)) \in Nat
      BY CountNat DEF Agendas
    <3>3. QED
      BY <3>1, <3>2
  <2>4. /\ Count(agenda, Owned(o)) = Count(rest, Owned(o))
        /\ Count(queue', Owned(o)) = 0
        /\ Count(agenda', Owned(o)) = Count(queue, Owned(o)) + Count(rest, Owned(o))
    BY <1>1, <1>2, <2>3 DEF Leaves
  <2>5. QED
    BY <2>1, <2>2, <2>4 DEF Accounts
<1>7. QED
  BY <1>1, <1>2, <1>3, <1>4, <1>6, Balance DEF Replay, SameOperation, PollingInv, Shapes

-----------------------------------------------------------------------------
(* The steps.                                                              *)

\* The head of the agenda, taken off.
LEMMA HeadFacts ==
  ASSUME PollingInv, agenda # <<>>
  PROVE  /\ Head(agenda) \in Work /\ Tail(agenda) \in Agendas
         /\ Head(agenda).do \in Methods \cup {"call"}
              => Leaves(Head(agenda).op, Tail(agenda))
         /\ Head(agenda).do \in {"owner", "replay"} => Leaves(0, Tail(agenda))
<1> DEFINE item == Head(agenda)
           rest == Tail(agenda)
<1>1. agenda \in Seq(Work) /\ ops \in Seq(Methods)
  BY DEF PollingInv, Shapes, PollingTypeOK
<1>2. /\ item \in Work /\ rest \in Seq(Work)
      /\ \A o : Count(agenda, Owned(o))
                  = (IF item \in Owned(o) THEN 1 ELSE 0) + Count(rest, Owned(o))
  BY <1>1, CountHeadTail
<1> HIDE DEF item, rest
<1>3. /\ item = Item(item.do, item.op) /\ item.op \in Int
      /\ item.do \in Methods => item.op \in Ops \cup {0}
  BY <1>1, <1>2, WorkFacts
<1>4. ASSUME NEW o \in Ops
      PROVE  Count(rest, Owned(o)) \in Nat /\ o \in Nat \ {0}
  BY <1>2, CountNat, Naturals
<1>5. ASSUME item.do \in Methods \cup {"call"}
      PROVE  Leaves(item.op, rest)
  <2>1. ASSUME NEW o \in Ops
        PROVE  item \in Owned(o) <=> item.op \in {o, -o}
    <3>1. CASE item.do \in Methods
      BY <1>1, <1>3, <1>4, <3>1, ItemFacts
    <3>2. CASE item.do = "call"
      BY <1>1, <1>3, <1>4, <3>2, ItemFacts
    <3>3. QED
      BY <1>5, <3>1, <3>2
  <2>2. QED
    BY <1>2, <1>4, <2>1 DEF Leaves
<1>6. ASSUME item.do \in {"owner", "replay"}
      PROVE  Leaves(0, rest)
  <2>1. item = Item("owner", 0) \/ item = Item("replay", 0)
    BY <1>1, <1>2, <1>3, <1>6, WorkFacts
  <2>2. ASSUME NEW o \in Ops
        PROVE  item \notin Owned(o) /\ 0 \notin {o, -o}
    BY <1>1, <1>4, <2>1, ItemFacts
  <2>3. QED
    BY <1>2, <1>4, <2>2 DEF Leaves
<1>7. QED
  BY <1>2, <1>5, <1>6 DEF item, rest, Agendas

\* The head of the agenda runs.
LEMMA RunStep ==
  ASSUME PollingInv, Run, UNCHANGED transport
  PROVE  PollingInv'
<1> DEFINE item == Head(agenda)
           rest == Tail(agenda)
<1>1. /\ item \in Work /\ rest \in Agendas /\ ops \in Seq(Methods)
      /\ item.do \in Methods \cup {"call"} => Leaves(item.op, rest)
      /\ item.do \in {"owner", "replay"} => Leaves(0, rest)
  BY HeadFacts DEF Run, PollingInv, PollingTypeOK
<1>2. /\ item.do \in Methods => item \in Deferred /\ item.op \in Ops \cup {0}
      /\ item.do \in {"register", "disconnect"} => item.op \in Ops
      /\ item.do = "call" => item.op \in Callbacks
      /\ item.op \in Int
  BY <1>1, WorkFacts
<1>3. \/ item.do \in Methods /\ HandleAtRest(item, rest)
      \/ item.do \in Methods /\ HandleBusy(item, rest)
      \/ item.do \in Methods /\ HandleClosing(item, rest)
      \/ item.do = "call" /\ Callback(item.op, rest)
      \/ item.do = "replay" /\ Replay(rest)
      \/ /\ item.do = "owner" /\ agenda' = rest
         /\ SameOperation /\ SameTransport
         /\ UNCHANGED <<state, queue, ops, answers>>
  BY DEF Run
<1> HIDE DEF item, rest
<1>4. CASE item.do \in Methods /\ HandleAtRest(item, rest)
  <2>1. CASE item.do = "register"
             /\ Request("sendingRegistrationRequest", item.op, rest)
    <3>1. state \notin Closing /\ current = 0
      BY <1>4 DEF HandleAtRest, Closing, PollingInv, BusyWithOne, Busy, Requesting
    <3>2. Becomes(item.op, rest)
      <4>1. ASSUME NEW o \in Ops
            PROVE  /\ InCurrent(o) = 0 /\ Count(agenda, Owned(o)) \in Nat
                   /\ item.op \in {o, -o} <=> item.op = o
        <5>1. o \in Nat \ {0} /\ Count(agenda, Owned(o)) \in Nat
          BY Naturals
        <5>2. item.op \in Nat
          BY <1>1, <1>2, <2>1, ItemFacts
        <5>3. QED
          BY <3>1, <5>1, <5>2 DEF InCurrent
      <4>2. QED
        BY <1>1, <2>1, <4>1 DEF Becomes, Leaves, Methods
    <3>3. ops' = ops
      BY <2>1 DEF Request
    <3>4. QED
      BY <1>1, <1>2, <2>1, <3>1, <3>2, <3>3, RequestStep DEF Requesting
  <2>2. CASE CallBack(item.op, rest)
    BY <1>1, <1>2, <1>4, <2>2, CallBackStep DEF CallBack
  <2>3. CASE item.do = "disconnect" /\ state = "idle"
             /\ Disconnecting(item.op, rest)
    BY <1>1, <1>2, <1>4, <2>3, DisconnectingStep DEF Disconnecting, Callbacks
  <2>4. QED
    BY <1>4, <2>1, <2>2, <2>3 DEF HandleAtRest
<1>5. CASE item.do \in Methods /\ HandleBusy(item, rest)
  <2>1. CASE CallBack(item.op, rest)
    BY <1>1, <1>2, <1>5, <2>1, CallBackStep DEF CallBack
  <2>2. CASE Cancelling(item.op, rest)
    <3>1. item.op \in Callbacks /\ ops' = ops /\ state \in Busy
      BY <1>2, <1>5, <2>2 DEF Callbacks, Cancelling, HandleBusy
    <3>2. QED
      BY <1>1, <1>5, <2>2, <3>1, CancellingStep
  <2>3. CASE item.do = "disconnect" /\ Cancelling(-item.op, rest)
    <3>1. -item.op \in Callbacks /\ ops' = ops /\ state \in Busy
      BY <1>2, <1>5, <2>3 DEF Callbacks, Cancelling, HandleBusy
    <3>2. Leaves(-item.op, rest)
      <4>1. ASSUME NEW o \in Ops
            PROVE  item.op \in {o, -o} <=> -item.op \in {o, -o}
        <5>1. o \in Nat \ {0}
          BY Naturals
        <5>2. QED
          BY <1>2, <5>1
      <4>2. QED
        BY <1>1, <1>5, <4>1 DEF Leaves
    <3>3. QED
      BY <1>1, <2>3, <3>1, <3>2, CancellingStep
  <2>4. QED
    BY <1>5, <2>1, <2>2, <2>3 DEF HandleBusy
<1>6. CASE item.do \in Methods /\ HandleClosing(item, rest)
  BY <1>1, <1>2, <1>6, ClosingStep DEF HandleClosing
<1>7. CASE item.do = "call" /\ Callback(item.op, rest)
  BY <1>1, <1>2, <1>7, CallbackStep DEF Callback, CallBack
<1>8. CASE item.do = "replay" /\ Replay(rest)
  BY <1>1, <1>8, ReplayStep DEF Replay
<1>9. CASE /\ item.do = "owner" /\ agenda' = rest
           /\ SameOperation /\ SameTransport
           /\ UNCHANGED <<state, queue, ops, answers>>
  <2>1. ASSUME NEW o \in Ops
        PROVE  Count(rest, Owned(o)) = Count(agenda, Owned(o))
    <3>1. o \in Nat \ {0}
      BY Naturals
    <3>2. Count(rest, Owned(o)) \in Nat
      BY <1>1, CountNat DEF Agendas
    <3>3. 0 \notin {o, -o}
      BY <3>1
    <3>4. QED
      BY <1>1, <1>9, <3>2, <3>3 DEF Leaves
  <2>2. QED
    BY <1>1, <1>9, <2>1, AgendaStep
<1>10. QED
  BY <1>3, <1>4, <1>5, <1>6, <1>7, <1>8, <1>9

\* An empty agenda owns nothing.
LEMMA EmptyAgenda ==
  ASSUME agenda = <<>>, NEW o
  PROVE  Count(agenda, Owned(o)) = 0 /\ <<>> \in Agendas
BY CountEmpty DEF Agendas

\* A tick: the operation cancelled is told, or a cancelled request answered.
LEMMA TickStep ==
  ASSUME PollingInv, NextTick, UNCHANGED transport
  PROVE  PollingInv'
<1> DEFINE tick == Head(ticks)
<1>0. /\ Ops' = Ops /\ ops \in Seq(Methods) /\ ticks \in Seq(Ticking)
      /\ ticks # <<>> /\ ops' = ops /\ answers \in [Ops -> Nat]
  BY DEF PollingInv, PollingTypeOK, Ops, Shapes, NextTick
<1>1. /\ tick \in Ticking /\ ticks' \in Seq(Ticking)
      /\ \A S : Count(ticks, S) = (IF tick \in S THEN 1 ELSE 0) + Count(ticks', S)
  BY <1>0, CountHeadTail DEF NextTick
<1> HIDE DEF tick
<1>2. /\ tick.op \in Ops
      /\ tick.do = "call" => \A o \in Ops : tick \in Due(o) <=> tick.op = o
      /\ tick.do = "answer" => \A o \in Ops : tick \notin Due(o)
  BY <1>1 DEF Ticking, Item, Due
<1>3. \/ /\ tick.do = "call" /\ Answer({tick.op}) /\ agenda' = Owner
         /\ SameTransport
      \/ /\ tick.do = "answer" /\ StopTimer(tick.op)
         /\ UNCHANGED <<agenda, answers, requests, queryTimer>>
  BY DEF NextTick, tick
<1>4. /\ agenda' \in Seq(Work)
      /\ \A o \in Ops : Count(agenda', Owned(o)) = Count(agenda, Owned(o))
  <2>1. CASE agenda' = Owner
    <3>1. <<>> \in Seq(Work) /\ Owner \o <<>> = Owner
      BY OwnerFacts DEF Owner
    <3>2. Owner \in Seq(Work) /\ agenda = <<>>
      BY <1>0, <3>1, OwnerFacts DEF NextTick
    <3>3. \A o \in Ops : Count(Owner \o <<>>, Owned(o)) = Count(<<>>, Owned(o))
      BY <1>0, <3>1, OwnerFacts
    <3>4. QED
      BY <2>1, <3>1, <3>2, <3>3, Zenon
  <2>2. CASE agenda' = agenda
    BY <2>2 DEF PollingInv, Shapes
  <2>3. QED
    BY <1>3, <2>1, <2>2
<1>5. /\ answers' \in [Ops -> Nat]
      /\ \A o \in Ops : Told(o)' = Told(o) +
           (IF tick.do = "call" /\ o = tick.op THEN 1 ELSE 0)
  <2>1. CASE tick.do = "call" /\ Answer({tick.op})
    BY <1>0, <2>1, AnswerFacts
  <2>2. CASE tick.do = "answer" /\ UNCHANGED answers
    <3>1. \A o \in Ops : Told(o) + 0 = Told(o)
      BY <1>0 DEF Told
    <3>2. QED
      BY <1>0, <2>2, <3>1 DEF Told
  <2>3. QED
    BY <1>3, <2>1, <2>2
<1>6. PollingTypeOK'
  <2>1. UNCHANGED <<state, queue, current, waiting, closing, ops, transport>>
    BY DEF NextTick
  <2>2. agenda' \in Seq(Items) /\ ticks' \in Seq(Items)
    BY <1>0, <1>1, <1>4, ItemFacts, SeqWiden
  <2>3. /\ requests' = requests /\ queryTimer' = queryTimer
        /\ queryTimers' \subseteq queryTimers /\ robbed' \subseteq robbed \cup queryTimers
    BY <1>3 DEF StopTimer, SameTransport
  <2>4. QED
    BY <1>0, <1>5, <2>1, <2>2, <2>3 DEF PollingInv, PollingTypeOK
<1>7. BusyWithOne'
  BY DEF BusyWithOne, PollingInv, NextTick
<1>8. ASSUME NEW o \in Ops
      PROVE  Accounts(o)' = Accounts(o)
  <2>1. /\ Count(queue, Owned(o)) \in Nat /\ Count(agenda, Owned(o)) \in Nat
        /\ Count(ticks, Due(o)) \in Nat /\ Told(o) \in Nat
        /\ InCurrent(o) \in Nat /\ InClosing(o) \in Nat
    BY Naturals
  <2>2. /\ queue' = queue
        /\ InCurrent(o)' = InCurrent(o) /\ InClosing(o)' = InClosing(o)
    BY DEF NextTick, InCurrent, InClosing
  <2>3. Count(ticks', Due(o)) \in Nat
    BY <1>1, CountNat
  <2>4. /\ Count(ticks', Due(o)) + Told(o)' = Count(ticks, Due(o)) + Told(o)
        /\ Told(o)' \in Nat
    <3>1. CASE tick.do = "call" /\ tick.op = o
      BY <1>1, <1>2, <1>5, <2>1, <2>3, <3>1, SMTT(60)
    <3>2. CASE ~(tick.do = "call" /\ tick.op = o)
      <4>1. tick \notin Due(o)
        BY <1>2, <1>3, <3>2
      <4>2. QED
        BY <1>1, <1>5, <2>1, <2>3, <3>2, <4>1
    <3>3. QED
      BY <3>1, <3>2
  <2>5. Count(agenda', Owned(o)) = Count(agenda, Owned(o))
    BY <1>4
  <2>6. QED
    BY <2>1, <2>2, <2>3, <2>4, <2>5 DEF Accounts
<1>9. QED
  BY <1>0, <1>1, <1>4, <1>6, <1>7, <1>8, Balance DEF NextTick, PollingInv, Shapes

\* An event from outside makes a transition with an empty agenda.
LEMMA EventGoto ==
  ASSUME PollingInv, agenda = <<>>, NEW s, NEW work \in Seq(Work), Goto(s, work, <<>>)
  PROVE  /\ state' = s /\ agenda' \in Agendas
         /\ \A o \in Ops : Count(agenda', Owned(o)) = Count(work, Owned(o))
<1>1. ops \in Seq(Methods) /\ <<>> \in Seq(Work)
  BY DEF PollingInv, PollingTypeOK
<1>2. /\ state' = s /\ agenda' \in Seq(Work)
      /\ \A o \in Ops : Count(agenda', Owned(o))
                          = Count(work, Owned(o)) + Count(<<>>, Owned(o))
  BY <1>1, GotoFacts
<1>3. ASSUME NEW o \in Ops
      PROVE  Count(agenda', Owned(o)) = Count(work, Owned(o))
  <2>1. Count(<<>>, Owned(o)) = 0
    BY CountEmpty
  <2>2. Count(work, Owned(o)) \in Nat
    BY CountNat
  <2>3. QED
    BY <1>2, <2>1, <2>2
<1>4. QED
  BY <1>2, <1>3 DEF Agendas

\* The transport answers a request: the operation ends, or goes on waiting, or
\* the answer was to another.
LEMMA RespondsStep ==
  ASSUME PollingInv, NEW op \in requests,
         NEW outcome \in {"final", "assigning", "registering"},
         Responds(op, outcome), UNCHANGED transport
  PROVE  PollingInv'
<1>0. /\ Ops' = Ops /\ ops \in Seq(Methods) /\ op \in Ops
      /\ agenda = <<>> /\ <<>> \in Seq(Work)
  BY DEF PollingInv, PollingTypeOK, Ops, Responds, Idle
<1>1. UNCHANGED <<queue, closing, ticks, queryTimer, ops, answers>>
  BY DEF Responds
<1>2. requests' \subseteq Ops /\ queryTimers' \subseteq Ops /\ robbed' \subseteq Ops
  BY DEF Responds, StopTimer, PollingInv, PollingTypeOK
<1>3. ASSUME NEW o \in Ops, Count(agenda', Owned(o)) \in Nat,
             InCurrent(o)' \in Nat, InClosing(o)' = InClosing(o),
             Count(agenda', Owned(o)) + InCurrent(o)' = InCurrent(o)
      PROVE  Accounts(o)' = Accounts(o)
  <2>1. /\ Count(queue, Owned(o)) \in Nat /\ Count(agenda, Owned(o)) = 0
        /\ Count(ticks, Due(o)) \in Nat /\ Told(o) \in Nat
        /\ InCurrent(o) \in Nat /\ InClosing(o) \in Nat
    BY <1>0, Naturals, EmptyAgenda
  <2>2. queue' = queue /\ ticks' = ticks /\ Told(o)' = Told(o)
    BY <1>1 DEF Told
  <2>3. QED
    BY <1>3, <2>1, <2>2 DEF Accounts
<1>4. CASE op = current /\ outcome = "final"
  <2>1. op \in Callbacks /\ <<Item("call", op)>> \in Seq(Work)
    BY <1>0, CallItem DEF Callbacks
  <2>2. /\ state' = "idle" /\ agenda' \in Agendas /\ current' = 0
        /\ waiting' = waiting
        /\ \A o \in Ops : Count(agenda', Owned(o))
                            = Count(<<Item("call", op)>>, Owned(o))
    BY <1>0, <1>4, <2>1, EventGoto DEF Responds
  <2>3. state \in Busy /\ state \notin Closing
    BY <1>0, <1>4, ItemFacts DEF PollingInv, BusyWithOne, Closing, Busy, Requesting
  <2>4. PollingTypeOK'
    BY <1>0, <1>1, <1>2, <2>2, ItemFacts, SeqWiden DEF Agendas, PollingInv, PollingTypeOK
  <2>5. BusyWithOne'
    BY <2>2 DEF BusyWithOne, Busy, Requesting
  <2>6. ASSUME NEW o \in Ops
        PROVE  Accounts(o)' = Accounts(o)
    <3>1. o \in Nat \ {0} /\ op \in Nat
      BY <1>0, ItemFacts, Naturals
    <3>2. Count(agenda', Owned(o)) = IF op \in {o, -o} THEN 1 ELSE 0
      BY <1>0, <2>1, <2>2, CallItem
    <3>3. /\ Count(agenda', Owned(o)) = InCurrent(o) /\ InCurrent(o)' = 0
          /\ InCurrent(o) \in Nat
      BY <1>4, <2>2, <3>1, <3>2 DEF InCurrent
    <3>4. InClosing(o)' = InClosing(o)
      BY <2>2, <2>3 DEF InClosing, Closing
    <3>5. QED
      BY <1>3, <3>3, <3>4
  <2>7. QED
    BY <1>1, <2>2, <2>4, <2>5, <2>6, Balance DEF Agendas, PollingInv, Shapes
<1>5. CASE op = current /\ outcome \in {"assigning", "registering"}
  <2>1. /\ state' = "waitingToPoll" /\ agenda' \in Agendas
        /\ current' = current /\ waiting' \in BOOLEAN
        /\ \A o \in Ops : Count(agenda', Owned(o)) = Count(<<>>, Owned(o))
    BY <1>0, <1>5, EventGoto DEF Responds
  <2>2. state \in Busy /\ state \notin Closing
    BY <1>0, <1>5, ItemFacts DEF PollingInv, BusyWithOne, Closing, Busy, Requesting
  <2>3. PollingTypeOK'
    BY <1>0, <1>1, <1>2, <2>1, ItemFacts, SeqWiden
       DEF Agendas, PollingInv, PollingTypeOK, Busy
  <2>4. BusyWithOne'
    BY <2>1, <2>2 DEF BusyWithOne, Busy, PollingInv
  <2>5. ASSUME NEW o \in Ops
        PROVE  Accounts(o)' = Accounts(o)
    <3>1. Count(agenda', Owned(o)) = 0 /\ InCurrent(o)' = InCurrent(o)
      BY <2>1, CountEmpty DEF InCurrent
    <3>2. InClosing(o)' = InClosing(o)
      BY <2>1, <2>2 DEF InClosing, Closing
    <3>3. InCurrent(o) \in Nat
      BY Naturals
    <3>4. QED
      BY <1>3, <3>1, <3>2, <3>3
  <2>6. QED
    BY <1>1, <2>1, <2>3, <2>4, <2>5, Balance DEF Agendas, PollingInv, Shapes
<1>6. CASE op # current
  <2>1. UNCHANGED <<state, agenda, current, waiting>>
    BY <1>6 DEF Responds
  <2>2. PollingTypeOK'
    BY <1>0, <1>1, <1>2, <2>1 DEF PollingInv, PollingTypeOK
  <2>3. BusyWithOne'
    BY <2>1 DEF BusyWithOne, PollingInv
  <2>4. ASSUME NEW o \in Ops
        PROVE  Accounts(o)' = Accounts(o)
    BY <1>1, <2>1 DEF Accounts, Told, InCurrent, InClosing
  <2>5. QED
    BY <1>1, <2>1, <2>2, <2>3, <2>4, Balance DEF PollingInv, Shapes
<1>7. QED
  BY <1>4, <1>5, <1>6

\* The polling timer sends the operation that is waiting again.
LEMMA PollingTimerStep ==
  ASSUME PollingInv, PollingTimerFires, UNCHANGED transport
  PROVE  PollingInv'
<1>1. /\ current \in Ops /\ agenda = <<>> /\ <<>> \in Agendas
      /\ state \notin Closing /\ ops' = ops
  BY DEF PollingTimerFires, Request, PollingInv, PollingTypeOK, BusyWithOne, Busy, Closing,
         Idle, Agendas
<1>2. Becomes(current, <<>>)
  <2>1. ASSUME NEW o \in Ops
        PROVE  /\ Count(agenda, Owned(o)) = 0 /\ Count(<<>>, Owned(o)) = 0
               /\ InCurrent(o) = IF current = o THEN 1 ELSE 0
    BY <1>1, EmptyAgenda, CountEmpty DEF InCurrent
  <2>2. QED
    BY <2>1 DEF Becomes
<1>3. PICK s \in Requesting : Request(s, current, <<>>)
  BY DEF PollingTimerFires, Requesting
<1>4. QED
  BY <1>1, <1>2, <1>3, RequestStep

\* The query timer cancels its operation, if it is still under way.
LEMMA QueryTimerStep ==
  ASSUME PollingInv, NEW op \in queryTimers, QueryTimerFires(op), UNCHANGED transport
  PROVE  PollingInv'
<1>0. /\ Ops' = Ops /\ ops \in Seq(Methods) /\ agenda = <<>>
      /\ UNCHANGED <<state, queue, requests, queryTimer, robbed, ops, answers>>
      /\ UNCHANGED <<current, waiting, closing, ticks>>
      /\ queryTimers' \subseteq queryTimers
  BY DEF PollingInv, PollingTypeOK, Ops, QueryTimerFires, Idle, SameOperation
<1>1. /\ agenda' \in Seq(Work)
      /\ \A o \in Ops : Count(agenda', Owned(o)) = 0
  <2>1. Item("cancel", 0) \in Work /\ 0 \notin Ops
    BY <1>0, ItemFacts DEF Work, Deferred
  <2>2. \A o \in Ops : Count(<<Item("cancel", 0)>>, Owned(o)) = 0
    BY <1>0, <2>1, CountOne, ItemFacts DEF Methods
  <2>3. QED
    BY <2>1, <2>2, CountEmpty DEF QueryTimerFires
<1>2. PollingTypeOK'
  BY <1>0, <1>1, ItemFacts, SeqWiden DEF PollingInv, PollingTypeOK
<1>3. BusyWithOne'
  BY <1>0 DEF PollingInv, BusyWithOne
<1>4. ASSUME NEW o \in Ops
      PROVE  Accounts(o)' = Accounts(o)
  <2>1. Count(agenda', Owned(o)) = Count(agenda, Owned(o))
    BY <1>0, <1>1, EmptyAgenda
  <2>2. QED
    BY <1>0, <2>1 DEF Accounts, Told, InCurrent, InClosing
<1>5. QED
  BY <1>0, <1>1, <1>2, <1>3, <1>4, Balance DEF PollingInv, Shapes

\* The transport has cancelled or disconnected: the callback kept by the state
\* is about to be called.
LEMMA ClosedStep ==
  ASSUME PollingInv, UNCHANGED transport, agenda = <<>>, state \in Closing,
         NEW s \in {"idle", "disconnected"},
         Goto(s, <<Item("call", closing)>>, <<>>), closing' = 0,
         UNCHANGED <<queue, current, waiting, ticks, ops, answers>>, SameTransport
  PROVE  PollingInv'
<1>0. /\ Ops' = Ops /\ ops \in Seq(Methods) /\ closing \in Callbacks
      /\ current = 0
  BY DEF PollingInv, PollingTypeOK, Ops, Callbacks, BusyWithOne, Busy, Requesting, Closing
<1>1. /\ state' = s /\ agenda' \in Agendas
      /\ \A o \in Ops : Count(agenda', Owned(o))
                          = IF closing \in {o, -o} THEN 1 ELSE 0
  <2>1. /\ <<Item("call", closing)>> \in Seq(Work)
        /\ \A o \in Ops : Count(<<Item("call", closing)>>, Owned(o))
                            = IF closing \in {o, -o} THEN 1 ELSE 0
    BY <1>0, CallItem
  <2>2. /\ state' = s /\ agenda' \in Agendas
        /\ \A o \in Ops : Count(agenda', Owned(o))
                            = Count(<<Item("call", closing)>>, Owned(o))
    BY <2>1, EventGoto
  <2>3. QED
    BY <2>1, <2>2
<1>2. PollingTypeOK'
  BY <1>0, <1>1, ItemFacts, SeqWiden DEF Agendas, PollingInv, PollingTypeOK, SameTransport
<1>3. BusyWithOne'
  BY <1>0, <1>1 DEF BusyWithOne, Busy, Requesting
<1>4. ASSUME NEW o \in Ops
      PROVE  Accounts(o)' = Accounts(o)
  <2>1. /\ Count(queue, Owned(o)) \in Nat /\ Count(agenda, Owned(o)) = 0
        /\ Count(ticks, Due(o)) \in Nat /\ Told(o) \in Nat
        /\ InCurrent(o) \in Nat /\ InClosing(o) \in Nat
    BY Naturals, EmptyAgenda
  <2>2. /\ queue' = queue /\ ticks' = ticks /\ Told(o)' = Told(o)
        /\ InCurrent(o)' = InCurrent(o)
    BY DEF Told, InCurrent
  <2>3. Count(agenda', Owned(o)) = InClosing(o) /\ InClosing(o)' = 0
    BY <1>1 DEF InClosing, Closing
  <2>4. QED
    BY <2>1, <2>2, <2>3 DEF Accounts
<1>5. QED
  BY <1>1, <1>2, <1>3, <1>4, Balance DEF Agendas, PollingInv, Shapes

\* A call adds an operation, whose callback is the one of the item put on the
\* agenda; the callbacks of the others stay where they are.
LEMMA CallStep ==
  ASSUME PollingInv, NEW kind \in Methods, Call(kind), UNCHANGED transport
  PROVE  PollingInv'
<1>0. PICK n \in Nat : n = Len(ops) + 1
  BY LenProperties DEF PollingInv, PollingTypeOK
<1> DEFINE call == Item(kind, n)
<1>1. /\ ops \in Seq(Methods) /\ answers \in [Ops -> Nat]
      /\ Len(ops) \in Nat /\ Ops = 1..Len(ops)
  BY LenProperties DEF PollingInv, PollingTypeOK, Ops
<1>2. /\ ops' \in Seq(Methods) /\ Len(ops') = n /\ Ops' = 1..n
      /\ Ops \subseteq Ops' /\ n \in Ops' /\ n \notin Ops
      /\ \A o \in Ops' : o \in Ops \/ o = n
  <2>1. ops' = Append(ops, kind)
    BY DEF Call
  <2>2. ops' \in Seq(Methods) /\ Len(ops') = n
    BY <1>1, <1>0, <2>1, AppendProperties
  <2>3. Ops' = 1..n
    BY <2>2, LenProperties DEF Ops
  <2>4. QED
    BY <1>1, <1>0, <2>2, <2>3
<1>3. /\ answers' \in [Ops' -> Nat] /\ answers'[n] = 0
      /\ \A o \in Ops : answers'[o] = answers[o]
  <2>1. answers \in Seq(Nat) /\ Len(answers) = Len(ops)
    BY <1>1
  <2>2. answers' = Append(answers, 0)
    BY DEF Call
  <2>3. /\ answers' \in Seq(Nat) /\ Len(answers') = n /\ answers'[n] = 0
        /\ \A o \in 1..Len(answers) : answers'[o] = answers[o]
    BY <1>1, <1>0, <2>1, <2>2, AppendProperties
  <2>4. answers' \in [1..n -> Nat]
    BY <2>3, LenProperties, ElementOfSeq
  <2>5. QED
    BY <1>1, <1>2, <2>1, <2>3, <2>4
<1>4. /\ UNCHANGED <<state, queue, current, waiting, closing, ticks, requests,
                     queryTimers, queryTimer, robbed>>
      /\ agenda' = <<call>> \o agenda
  BY <1>0 DEF Call, SameOperation, SameTransport
<1>5. n \in Nat \ {0} /\ call \in Work' /\ Deferred \subseteq Deferred'
      /\ Work \subseteq Work' /\ Ticking \subseteq Ticking'
  BY <1>1, <1>2, <1>0 DEF Work, Deferred, Callbacks, Ticking
<1>6. Owned(n) \cap Deferred = {} /\ Owned(n) \cap Work = {} /\ Due(n) \cap Ticking = {}
  <2>1. \A o \in Ops : o # n /\ -o # n /\ o # -n /\ -o # -n /\ o \in Nat
    BY <1>1, <1>0, <1>5
  <2>2. n # 0 /\ -n # 0
    BY <1>5
  <2>3. Owned(n) \cap Work = {}
    BY <2>1, <2>2 DEF Owned, Work, Deferred, Callbacks, Item, Methods
  <2>4. Due(n) \cap Ticking = {}
    BY <2>1 DEF Due, Ticking, Item
  <2>5. QED
    BY <2>3, <2>4 DEF Work
<1>7. /\ agenda \in Seq(Work) /\ queue \in Seq(Deferred) /\ ticks \in Seq(Ticking)
      /\ agenda \in Seq(Work') /\ queue \in Seq(Deferred') /\ ticks \in Seq(Ticking')
  BY <1>5, SeqWiden DEF PollingInv, Shapes
<1> HIDE DEF call
<1>8. /\ agenda' \in Seq(Work')
      /\ \A S : Count(agenda', S) = (IF call \in S THEN 1 ELSE 0) + Count(agenda, S)
  BY <1>4, <1>5, <1>7, CountExtended
<1>9. \A o \in Nat \ {0} : call \in Owned(o) <=> n = o
  BY <1>1, <1>5, ItemFacts DEF call
<1>10. PollingTypeOK'
  <2>1. agenda' \in Seq(Items) /\ queue' \in Seq(Items) /\ ticks' \in Seq(Items)
    <3>1. Work' \subseteq Items /\ Deferred' \subseteq Items /\ Ticking' \subseteq Items
      BY <1>1, <1>2 DEF Work, Deferred, Callbacks, Ticking, Items, Item, Methods
    <3>2. QED
      BY <1>4, <1>7, <1>8, <3>1, SeqWiden
  <2>2. closing' \in {0} \cup Ops' \cup {-o : o \in Ops'}
    BY <1>2, <1>4 DEF PollingInv, PollingTypeOK
  <2>3. QED
    BY <1>2, <1>3, <1>4, <2>1, <2>2 DEF PollingInv, PollingTypeOK
<1>11. Shapes' /\ BusyWithOne'
  BY <1>4, <1>7, <1>8 DEF PollingInv, Shapes, BusyWithOne
<1>12. ASSUME NEW o \in Ops
       PROVE  Accounts(o)' = 1
  <2>1. o \in Nat \ {0} /\ o # n /\ Count(agenda, Owned(o)) \in Nat
    BY <1>2, Naturals
  <2>2. Count(agenda', Owned(o)) = Count(agenda, Owned(o))
    BY <1>8, <1>9, <2>1
  <2>3. Told(o)' = Told(o)
    BY <1>3 DEF Told
  <2>4. Accounts(o)' = Accounts(o)
    BY <1>4, <2>2, <2>3 DEF Accounts, InCurrent, InClosing
  <2>5. QED
    BY <2>4 DEF PollingInv
<1>13. Accounts(n)' = 1
  <2>1. /\ Count(queue, Owned(n)) = 0 /\ Count(agenda, Owned(n)) = 0
        /\ Count(ticks, Due(n)) = 0
    BY <1>6, <1>7, CountNone
  <2>2. Count(agenda', Owned(n)) = 1
    BY <1>5, <1>8, <1>9, <2>1
  <2>3. Told(n)' = 0
    BY <1>3 DEF Told
  <2>4. InCurrent(n)' = 0 /\ InClosing(n)' = 0
    <3>1. \A o \in Ops : o # n /\ -o # n /\ o # -n /\ -o # -n
      BY <1>1, <1>2, <1>0, <1>5
    <3>2. n # 0 /\ -n # 0
      BY <1>5
    <3>3. current # n /\ closing \notin {n, -n}
      BY <3>1, <3>2 DEF PollingInv, PollingTypeOK
    <3>4. QED
      BY <1>4, <3>3 DEF InCurrent, InClosing
  <2>5. Count(queue', Owned(n)) = 0 /\ Count(ticks', Due(n)) = 0
    BY <1>4, <2>1
  <2>6. QED
    BY <2>2, <2>3, <2>4, <2>5 DEF Accounts
<1>14. \A o \in Ops' : Accounts(o)' = 1
  BY <1>2, <1>12, <1>13
<1>15. QED
  BY <1>10, <1>11, <1>14 DEF PollingInv

-----------------------------------------------------------------------------
(* The theorem.                                                            *)

\* Every step preserves the inductive invariant.
LEMMA StepPreserves ==
  ASSUME PollingInv, [PollingNext]_pollingVars
  PROVE  PollingInv'
<1>1. CASE UNCHANGED pollingVars
  BY <1>1 DEF pollingVars, PollingInv, PollingTypeOK, Shapes, BusyWithOne, Accounts, InCurrent,
              InClosing, Told, Ops, Deferred, Work, Ticking, Callbacks
<1>2. ASSUME NEW kind \in Methods, Call(kind), UNCHANGED transport
      PROVE  PollingInv'
  BY <1>2, CallStep
<1>3. CASE Run /\ UNCHANGED transport
  BY <1>3, RunStep
<1>4. CASE NextTick /\ UNCHANGED transport
  BY <1>4, TickStep
<1>5. ASSUME NEW op \in requests,
             NEW outcome \in {"final", "assigning", "registering"},
             Responds(op, outcome), UNCHANGED transport
      PROVE  PollingInv'
  BY <1>5, RespondsStep
<1>6. CASE PollingTimerFires /\ UNCHANGED transport
  BY <1>6, PollingTimerStep
<1>7. ASSUME NEW op \in queryTimers, QueryTimerFires(op), UNCHANGED transport
      PROVE  PollingInv'
  BY <1>7, QueryTimerStep
<1>8. CASE TransportCancelled /\ UNCHANGED transport
  BY <1>8, ClosedStep DEF TransportCancelled, Idle, Closing
<1>9. CASE TransportDisconnected /\ UNCHANGED transport
  BY <1>9, ClosedStep DEF TransportDisconnected, Idle, Closing
<1>10. QED
  BY <1>1, <1>2, <1>3, <1>4, <1>5, <1>6, <1>7, <1>8, <1>9 DEF PollingNext, Step

\* The accounts are what CallbackOwned counts.
LEMMA AccountsAreHeld ==
  ASSUME PollingInv, NEW o \in Ops
  PROVE  Held(o) + answers[o] = 1
<1>1. /\ agenda \in Seq(Items) /\ queue \in Seq(Items) /\ ticks \in Seq(Items)
      /\ queue \in Seq(Deferred) /\ o \in Nat \ {0}
  BY Naturals DEF PollingInv, PollingTypeOK, Shapes
<1>2. \A i \in DOMAIN agenda : agenda[i] \in Items
  BY <1>1, LenProperties, ElementOfSeq
<1>3. {i \in DOMAIN agenda : agenda[i].op = o \/ agenda[i] = Item("call", -o)}
        = {i \in DOMAIN agenda : agenda[i] \in Owned(o)}
  BY <1>2 DEF Owned
<1>4. \A i \in DOMAIN queue : queue[i] \in Items /\ queue[i] # Item("call", -o)
  <2>1. \A i \in DOMAIN queue : queue[i] \in Items /\ queue[i] \in Deferred
    BY <1>1, LenProperties, ElementOfSeq
  <2>2. \A item \in Deferred : item.do \in Methods
    BY DEF Deferred, Item, Methods
  <2>3. Item("call", -o).do \notin Methods
    BY DEF Item, Methods
  <2>4. QED
    BY <2>1, <2>2, <2>3
<1>5. {i \in DOMAIN queue : queue[i].op = o} = {i \in DOMAIN queue : queue[i] \in Owned(o)}
  BY <1>4 DEF Owned
<1>6. {i \in DOMAIN ticks : ticks[i] = Item("call", o)}
        = {i \in DOMAIN ticks : ticks[i] \in Due(o)}
  BY DEF Due
<1>7. Held(o) = Count(queue, Owned(o)) + Count(agenda, Owned(o))
                  + Count(ticks, Due(o)) + InCurrent(o) + InClosing(o)
  BY <1>3, <1>5, <1>6, Zenon DEF Held, Count, InCurrent, InClosing
<1>8. QED
  BY <1>7 DEF PollingInv, Accounts, Told

\* The callback of every call of register, cancel and disconnect is in one
\* place of the state machine until it is called, and then in none: none is
\* called twice and none is dropped, whatever the transport answers and when.
THEOREM CallbacksAreOwned == PollingSpec => []CallbackOwned
<1>1. PollingInit => PollingInv
  <2> SUFFICES ASSUME PollingInit PROVE PollingInv
    OBVIOUS
  <2>1. Ops = {}
    BY DEF PollingInit, Ops
  <2>2. answers \in [Ops -> Nat] /\ ops \in Seq(Methods)
    BY <2>1 DEF PollingInit
  <2>3. PollingTypeOK
    <3>1. queue \in Seq(Items) /\ agenda \in Seq(Items) /\ ticks \in Seq(Items)
      BY DEF PollingInit
    <3>2. /\ transport \in Transports /\ state = "disconnected"
          /\ current = 0 /\ queryTimer = 0 /\ closing = 0 /\ waiting \in BOOLEAN
          /\ requests = {} /\ queryTimers = {} /\ robbed = {}
      BY DEF PollingInit
    <3>3. QED
      BY <2>2, <3>1, <3>2 DEF PollingTypeOK
  <2>4. Shapes /\ BusyWithOne
    BY DEF PollingInit, Shapes, BusyWithOne, Busy, Requesting
  <2>5. QED
    BY <2>1, <2>3, <2>4 DEF PollingInv
<1>2. PollingInv /\ [PollingNext]_pollingVars => PollingInv'
  BY StepPreserves
<1>3. PollingInv => CallbackOwned
  BY AccountsAreHeld DEF CallbackOwned, PollingInv
<1>4. QED
  BY <1>1, <1>2, <1>3, PTL DEF PollingSpec

-----------------------------------------------------------------------------
(* The client objects.                                                     *)
(*                                                                         *)
(* The inductive invariant (ClientInv) has three parts besides the types.  *)
(* ClientShapes says what is handed to the transport and what it answers.  *)
(* Enabling follows a feature the user listens to: it is enabled or is     *)
(* being enabled, and whatever disables it is followed by an enable in the *)
(* order of the transport.  The third follows the twin: the messages of    *)
(* the hub tell every change from the first one it sent while telling of   *)
(* changes (Chain); what the cache holds agrees with the next of them      *)
(* (Synced), or is empty until the document of a get arrives (Desired);    *)
(* and a reported property is missing only while its acknowledgement is on *)
(* its way (Reported).                                                     *)

\* What the transport is handed: the twin is never disabled.
Handed ==
  {op \in Operations :
     /\ op.call = "enable" => op.feature \in Features
     /\ op.call = "disable" => op.feature \in Features \ {"twin"}}

\* What waits: an operation that waits for its timer may be attempted again.
Waits ==
  {w \in [step : {"file", "failed", "timer"}, op : Handed] :
     /\ w.step = "file" => w.op.call = "setOptions"
     /\ w.step = "timer" => w.op.call \notin Once /\ w.op.tries < MaxTries}

\* What the hub sends.
Messages ==
  [type : {"get", "ack"}, op : Handed, doc : Twins, telling : BOOLEAN]
    \cup [type : {"patch"}, op : {NoOperation}, doc : Twins, telling : {TRUE}]

ClientShapes ==
  /\ wire \in Seq(Handed) /\ down \in Seq(Messages)
  /\ \A w \in DOMAIN delayed : w \in Waits

Enables(op, f) == op.call = "enable" /\ op.feature = f
Disables(op, f) == op.call = "disable" /\ op.feature = f

\* f is enabled or will be, and stays so whatever the transport was handed.
Remains(f, handed) ==
  \A i \in DOMAIN handed :
    Disables(handed[i], f) => \E j \in DOMAIN handed : i < j /\ Enables(handed[j], f)
Coming(f) ==
  \/ f \in enabled
  \/ \E i \in DOMAIN wire : Enables(wire[i], f)
  \/ \E w \in DOMAIN delayed : Enables(w.op, f)

Enabling ==
  listening =>
    /\ \A i \in DOMAIN wire : wire[i].call # "disconnect"
    /\ \A f \in registered \ told : Coming(f) /\ Remains(f, wire)

\* n comes after m, with every change of the desired property between them told.
Follows(m, n) ==
  m.telling => n.telling /\ (n.type = "patch" \/ n.doc.desired = m.doc.desired)
Chain ==
  /\ \A i \in DOMAIN down : i + 1 \in DOMAIN down => Follows(down[i], down[i + 1])
  /\ down # <<>> /\ down[Len(down)].telling =>
       "twin" \in enabled /\ hub.desired = down[Len(down)].doc.desired

\* The cached desired property is what the hub had before it sent the next
\* message, and all that changed later is among the messages.
Synced ==
  IF down = <<>>
  THEN "twin" \in enabled /\ cached.desired = hub.desired
  ELSE /\ down[1].telling
       /\ down[1].type = "patch" \/ down[1].doc.desired = cached.desired

\* A document has been asked for and has not arrived.
Getting ==
  \/ \E i \in DOMAIN wire : wire[i].call = "getTwin"
  \/ \E i \in DOMAIN down : down[i].type = "get"

Desired ==
  /\ fresh = "yes" => Synced
  /\ fresh = "no" /\ Getting => cached.desired = Absent \/ Synced

Acknowledged(i) == \E j \in DOMAIN down : i < j /\ down[j].type = "ack"
Reported ==
  /\ hub.reported = Absent =>
       /\ cached.reported = Absent
       /\ \A i \in DOMAIN down : down[i].type # "ack" /\ down[i].doc.reported = Absent
  /\ fresh = "yes" /\ cached.reported # hub.reported => Acknowledged(0)
  /\ \A i \in DOMAIN down :
       down[i].type = "get" /\ down[i].doc.reported # hub.reported => Acknowledged(i)

Twinned == Chain /\ Desired /\ Reported
ClientInv == ClientTypeOK /\ ClientShapes /\ Enabling /\ Twinned

-----------------------------------------------------------------------------
(* Sequences and bags.                                                     *)

\* The last element comes in.
LEMMA Pushed ==
  ASSUME NEW T, NEW s \in Seq(T), NEW x \in T
  PROVE  /\ Append(s, x) \in Seq(T) /\ Len(s) \in Nat /\ Len(Append(s, x)) = Len(s) + 1
         /\ DOMAIN s = 1..Len(s) /\ DOMAIN Append(s, x) = 1..(Len(s) + 1)
         /\ \A i \in DOMAIN s : i \in DOMAIN Append(s, x) /\ Append(s, x)[i] = s[i]
         /\ Append(s, x)[Len(s) + 1] = x
         /\ Append(s, x) # <<>>
OBVIOUS

\* The first element leaves.
LEMMA Popped ==
  ASSUME NEW T, NEW s \in Seq(T), s # <<>>
  PROVE  /\ Tail(s) \in Seq(T) /\ Len(s) \in Nat \ {0} /\ DOMAIN s = 1..Len(s)
         /\ 1 \in DOMAIN s /\ Head(s) = s[1] /\ Head(s) \in T
         /\ Len(Tail(s)) = Len(s) - 1 /\ DOMAIN Tail(s) = 1..(Len(s) - 1)
         /\ \A i \in DOMAIN Tail(s) : i + 1 \in DOMAIN s /\ Tail(s)[i] = s[i + 1]
OBVIOUS

\* An element that is not the first one is still there.
LEMMA Left ==
  ASSUME NEW T, NEW s \in Seq(T), s # <<>>, NEW i \in DOMAIN s, i # 1
  PROVE  i - 1 \in DOMAIN Tail(s) /\ Tail(s)[i - 1] = s[i]
OBVIOUS

\* What is in a bag after one came in.
LEMMA Added ==
  ASSUME NEW B, NEW x
  PROVE  DOMAIN BagAdd(B, x) = DOMAIN B \cup {x}
<1>1. CASE x \in DOMAIN B
  BY <1>1 DEF BagAdd
<1>2. CASE x \notin DOMAIN B
  BY <1>2 DEF BagAdd
<1>3. QED
  BY <1>1, <1>2

\* What is in it after one left.
LEMMA Removed ==
  ASSUME NEW B, NEW x
  PROVE  DOMAIN BagRemove(B, x) \subseteq DOMAIN B
         /\ DOMAIN B \ {x} \subseteq DOMAIN BagRemove(B, x)
<1>1. CASE x \notin DOMAIN B
  BY <1>1 DEF BagRemove
<1>2. CASE x \in DOMAIN B /\ B[x] = 1
  BY <1>2 DEF BagRemove
<1>3. CASE x \in DOMAIN B /\ B[x] # 1
  BY <1>3 DEF BagRemove
<1>4. QED
  BY <1>1, <1>2, <1>3

\* What waits when operations fail.
LEMMA AllFailed ==
  ASSUME NEW handed, NEW sent
  PROVE  DOMAIN AllFail(handed, sent) =
           DOMAIN delayed
             \cup [step : {"failed"},
                   op : {wire[i] : i \in handed} \cup {down[i].op : i \in sent}]
BY DEF AllFail, (+)

-----------------------------------------------------------------------------
(* Types.                                                                  *)

\* What ClientTypeOK says of all but the transport's sequences and what waits.
Scalars ==
  /\ client \in Clients /\ methods \in Sessions /\ policy \in {"backoff", "none"}
  /\ made \in {"no", "trust", "file", "options", "failed", "ready"}
  /\ registered \subseteq Features /\ told \subseteq Features
  /\ held \in BOOLEAN /\ listening \in BOOLEAN /\ up \in BOOLEAN /\ fresh \in {"no", "yes", "mixed"}
  /\ enabled \subseteq Features /\ (enabled # {} => up)
  /\ hub \in Twins /\ cached \in Twins
  /\ response \in {"none", "open", "complete"}
  /\ calls \in 0..MaxCalls /\ losses \in 0..MaxLosses /\ patches \in 0..MaxPatches

\* The kind of client does not change, and with it what depends on it.
LEMMA SameClient ==
  ASSUME client' = client
  PROVE  /\ Features' = Features /\ Operations' = Operations /\ Handed' = Handed
         /\ Waits' = Waits /\ Messages' = Messages
<1>1. Features' = Features
  BY DEF Features
<1>2. Operations' = Operations
  BY <1>1 DEF Operations
<1>3. Handed' = Handed
  BY <1>1, <1>2 DEF Handed
<1>4. Waits' = Waits /\ Messages' = Messages
  BY <1>3 DEF Waits, Messages
<1>5. QED
  BY <1>1, <1>2, <1>3, <1>4

\* The types follow from those of the parts.
LEMMA Typed ==
  ASSUME client' = client, Scalars', wire' \in Seq(Handed), down' \in Seq(Messages),
         \A w \in DOMAIN delayed' : w \in Waits
  PROVE  ClientTypeOK' /\ ClientShapes'
<1>1. wire' \in Seq(Operations)
  BY DEF Handed
<1>2. \A w \in DOMAIN delayed' : w.op \in Operations /\ w.step \in {"file", "failed", "timer"}
  BY DEF Waits, Handed
<1>3. \A i \in DOMAIN down' : down'[i].type \in {"get", "ack", "patch"}
  <2>1. \A i \in DOMAIN down' : down'[i] \in Messages
    OBVIOUS
  <2>2. \A m \in Messages : m.type \in {"get", "ack", "patch"}
    BY DEF Messages
  <2>3. QED
    BY <2>1, <2>2
<1>4. ClientTypeOK'
  BY <1>1, <1>2, <1>3, SameClient DEF ClientTypeOK, Scalars
<1>5. ClientShapes'
  BY SameClient DEF ClientShapes
<1>6. QED
  BY <1>4, <1>5

\* The operations the client makes.
LEMMA OperationFacts ==
  ASSUME Scalars, NEW call \in TransportCalls, NEW feature \in Features \cup {NoFeature},
         call \in {"enable", "disable"} => feature \in Features,
         call = "disable" => feature # "twin"
  PROVE  /\ Operation(call, feature) \in Handed
         /\ Operation(call, feature).call = call
         /\ Operation(call, feature).feature = feature
         /\ \A f : Enables(Operation(call, feature), f) <=> call = "enable" /\ f = feature
         /\ \A f : Disables(Operation(call, feature), f) <=> call = "disable" /\ f = feature
<1>1. 1 \in 1..MaxTries
  BY DeviceClientAssumption
<1>2. QED
  BY <1>1 DEF Operation, Handed, Operations, Scalars, Enables, Disables

\* The types of the parts follow from the types.
LEMMA ScalarFacts ==
  ASSUME ClientTypeOK, ClientShapes
  PROVE  /\ Scalars /\ wire \in Seq(Handed) /\ down \in Seq(Messages)
         /\ \A w \in DOMAIN delayed : w \in Waits
BY DEF ClientTypeOK, Scalars, ClientShapes

\* The forms of the calls that enable or disable a feature, or neither.
FeatureCalls == {"enable", "disable"}
Plainly(call) ==
  \E method : Simple(method, call)
Enabled(f) == f \in Features /\ \E method : Enable(method, f)
Disabled(f) == f \in Features \ {"twin"} /\ Disable(f)

\* The calls of the user come in nine forms.
LEMMA UserForms ==
  ASSUME Scalars, User
  PROVE  \/ \E call \in {"connect", "updateSharedAccessSignature", "send"} : Plainly(call)
         \/ setOptions \/ setRetryPolicy
         \/ \E f : Enabled(f)
         \/ \E f : Disabled(f)
         \/ close \/ getTwin \/ _updateReportedProperties \/ send
<1>1. CASE open \/ updateSharedAccessSignature \/ sendEvent \/ sendOutputEvent \/ settle
  BY <1>1 DEF open, updateSharedAccessSignature, sendEvent, sendOutputEvent, settle,
              Plainly
<1>2. CASE onDeviceMethod \/ NewC2dListener \/ NewInputListener \/ NewDesiredListener
  <2>1. Enabled("methods") \/ Enabled("c2d") \/ Enabled("inputs") \/ Enabled("twin")
    BY <1>2 DEF onDeviceMethod, NewC2dListener, NewInputListener, NewDesiredListener,
                Enabled, Features
  <2>2. QED
    BY <2>1
<1>3. CASE C2dListenerRemoved \/ InputListenerRemoved
  <2>1. Disabled("c2d") \/ Disabled("inputs")
    BY <1>3 DEF C2dListenerRemoved, InputListenerRemoved, Disabled, Features, Scalars
  <2>2. QED
    BY <2>1
<1>4. QED
  BY <1>1, <1>2, <1>3 DEF User

\* A call of the user leaves these as they are.
LEMMA CalledFacts ==
  ASSUME Scalars, NEW method, Called(method)
  PROVE  /\ UNCHANGED <<client, methods, made, held, up, enabled, down, hub, losses, patches>>
         /\ calls' \in 0..MaxCalls
<1>1. calls' \in 0..MaxCalls
  BY DeviceClientAssumption DEF Called, Scalars
<1>2. QED
  BY <1>1 DEF Called, transportState

\* A call of the user keeps the types.
LEMMA UserTypes ==
  ASSUME ClientTypeOK, ClientShapes, User
  PROVE  ClientTypeOK' /\ ClientShapes'
<1> USE ScalarFacts
<1>1. ASSUME NEW call \in {"connect", "updateSharedAccessSignature", "send"}, Plainly(call)
      PROVE  ClientTypeOK' /\ ClientShapes'
  <2>1. PICK method : Simple(method, call)
    BY <1>1 DEF Plainly
  <2>2. UNCHANGED <<client, methods, made, held, up, enabled, down, hub, losses, patches>>
        /\ calls' \in 0..MaxCalls
    BY <2>1, CalledFacts DEF Simple
  <2>3. Operation(call, NoFeature) \in Handed
    BY OperationFacts DEF TransportCalls
  <2>4. wire' \in Seq(Handed)
    BY <2>1, <2>3, Pushed DEF Simple, retry
  <2>5. Scalars'
    BY <2>1, <2>2, SameClient DEF Scalars, Simple
  <2>6. QED
    BY <2>1, <2>2, <2>4, <2>5, Typed DEF Simple, retry
<1>2. CASE setOptions
  <2>2. UNCHANGED <<client, methods, made, held, up, enabled, down, hub, losses, patches>>
        /\ calls' \in 0..MaxCalls
    BY <1>2, CalledFacts DEF setOptions
  <2>3. PICK op : op = Operation("setOptions", NoFeature)
    OBVIOUS
  <2>4. op \in Handed /\ op.call = "setOptions"
    BY <2>3, OperationFacts DEF TransportCalls
  <2>5. \/ wire' = Append(wire, op) /\ UNCHANGED delayed
        \/ delayed' = BagAdd(delayed, [step |-> "file", op |-> op]) /\ UNCHANGED wire
    BY <1>2, <2>3 DEF setOptions, retry
  <2>6. [step |-> "file", op |-> op] \in Waits
    BY <2>4 DEF Waits
  <2>7. wire' \in Seq(Handed) /\ \A w \in DOMAIN delayed' : w \in Waits
    <3>1. CASE wire' = Append(wire, op) /\ UNCHANGED delayed
      BY <2>4, <3>1, Pushed
    <3>2. CASE delayed' = BagAdd(delayed, [step |-> "file", op |-> op]) /\ UNCHANGED wire
      <4>1. DOMAIN delayed' = DOMAIN delayed \cup {[step |-> "file", op |-> op]}
        BY <3>2, Added
      <4>2. QED
        BY <2>6, <3>2, <4>1
    <3>3. QED
      BY <2>5, <3>1, <3>2
  <2>8. Scalars'
    BY <1>2, <2>2, SameClient DEF Scalars, setOptions
  <2>9. QED
    BY <2>2, <2>7, <2>8, Typed
<1>3. CASE setRetryPolicy
  <2>1. UNCHANGED <<client, methods, made, held, up, enabled, down, hub, losses, patches>>
        /\ calls' \in 0..MaxCalls
    BY <1>3, CalledFacts DEF setRetryPolicy
  <2>2. Scalars'
    BY <1>3, <2>1, SameClient DEF Scalars, setRetryPolicy
  <2>3. QED
    BY <1>3, <2>1, <2>2, Typed DEF setRetryPolicy
<1>4. ASSUME NEW f, Enabled(f) \/ Disabled(f)
      PROVE  ClientTypeOK' /\ ClientShapes'
  <2>1. PICK method : Called(method)
    BY <1>4 DEF Enabled, Enable, Disabled, Disable
  <2>2. UNCHANGED <<client, methods, made, held, up, enabled, down, hub, losses, patches>>
        /\ calls' \in 0..MaxCalls
    BY <2>1, CalledFacts
  <2>3. f \in Features /\ (Disabled(f) => f # "twin")
    BY <1>4 DEF Enabled, Disabled
  <2>4. PICK call \in FeatureCalls :
          /\ call = "disable" => f # "twin"
          /\ retry(Operation(call, f))
    BY <1>4, <2>3 DEF Enabled, Enable, Disabled, Disable, FeatureCalls
  <2>5. Operation(call, f) \in Handed
    BY <2>3, <2>4, OperationFacts DEF TransportCalls, FeatureCalls
  <2>6. wire' \in Seq(Handed)
    BY <2>4, <2>5, Pushed DEF retry
  <2>7. registered' \subseteq Features /\ told' \subseteq Features
        /\ UNCHANGED <<listening, policy, cached, fresh, response>>
    BY <1>4, <2>3 DEF Enabled, Enable, Disabled, Disable, Scalars
  <2>8. Scalars'
    BY <2>2, <2>7, SameClient DEF Scalars
  <2>9. QED
    BY <2>2, <2>4, <2>6, <2>8, Typed DEF retry
<1>5. CASE close \/ getTwin \/ _updateReportedProperties \/ send
  <2>1. PICK method : Called(method)
    BY <1>5 DEF close, getTwin, _updateReportedProperties, send
  <2>2. UNCHANGED <<client, methods, made, held, up, enabled, down, hub, losses, patches>>
        /\ calls' \in 0..MaxCalls
    BY <2>1, CalledFacts
  <2>3. PICK call \in {"disconnect", "getTwin", "update", "respond"} :
          retry(Operation(call, NoFeature))
    <3>1. \/ retry(Operation("disconnect", NoFeature)) \/ retry(Operation("getTwin", NoFeature))
          \/ retry(Operation("update", NoFeature)) \/ retry(Operation("respond", NoFeature))
      BY <1>5 DEF close, getTwin, _updateReportedProperties, send
    <3>2. QED
      BY <3>1
  <2>4. Operation(call, NoFeature) \in Handed
    BY OperationFacts DEF TransportCalls
  <2>5. wire' \in Seq(Handed)
    BY <2>3, <2>4, Pushed DEF retry
  <2>6. /\ UNCHANGED <<registered, policy, told>>
        /\ listening' \in BOOLEAN /\ response' \in {"none", "open", "complete"}
        /\ fresh' \in {"no", "yes", "mixed"} /\ cached' \in Twins
    <3>1. [desired |-> Absent, reported |-> Absent] \in Twins
      BY DEF Twins, Absent
    <3>2. UNCHANGED <<registered, policy, told>>
      BY <1>5 DEF close, getTwin, _updateReportedProperties, send
    <3>3. listening' \in BOOLEAN
      BY <1>5 DEF close, getTwin, _updateReportedProperties, send, Scalars
    <3>4. response' \in {"none", "open", "complete"}
      BY <1>5 DEF close, getTwin, _updateReportedProperties, send, Scalars
    <3>5. fresh' \in {"no", "yes", "mixed"} /\ cached' \in Twins
      BY <1>5, <3>1 DEF close, getTwin, _updateReportedProperties, send,
                        _clearCachedProperties, Scalars
    <3>6. QED
      BY <3>2, <3>3, <3>4, <3>5
  <2>7. Scalars'
    BY <2>2, <2>6, SameClient DEF Scalars
  <2>8. QED
    BY <2>2, <2>3, <2>5, <2>7, Typed DEF retry
<1>6. QED
  BY <1>1, <1>2, <1>3, <1>4, <1>5, UserForms

\* What the end of an operation changes.
LEMMA EndsFacts ==
  ASSUME Scalars, NEW op \in Handed, NEW how, Ends(op, how)
  PROVE  /\ told' \subseteq Features /\ told \subseteq told'
         /\ made' \in {"no", "trust", "file", "options", "failed", "ready"}
         /\ \A f : Enables(op, f) /\ how # "ok" => f \in told'
         /\ \A f : Disables(op, f) /\ how # "ok" => f \in told'
<1>1. told' = IF how # "ok" /\ op.call \in {"enable", "disable"}
              THEN told \cup {op.feature} ELSE told
  BY DEF Ends
<1>2. op.call \in {"enable", "disable"} => op.feature \in Features
  BY DEF Handed
<1>3. told' \subseteq Features /\ told \subseteq told'
  BY <1>1, <1>2 DEF Scalars
<1>4. made' \in {"no", "trust", "file", "options", "failed", "ready"}
  BY DEF Ends, Scalars
<1>5. ASSUME NEW f, Enables(op, f) \/ Disables(op, f), how # "ok"
      PROVE  f \in told'
  BY <1>1, <1>5 DEF Enables, Disables
<1>6. QED
  BY <1>3, <1>4, <1>5

\* An operation whose attempt failed waits for the next one, or its feature is
\* told.
LEMMA AnsweredFacts ==
  ASSUME Scalars, NEW op \in Handed, NEW how \in {"transient", "fatal"}, NEW others,
         \A w \in DOMAIN others : w \in Waits, Answered(op, how, others)
  PROVE  /\ told' \subseteq Features /\ told \subseteq told'
         /\ made' \in {"no", "trust", "file", "options", "failed", "ready"}
         /\ \A w \in DOMAIN delayed' : w \in Waits
         /\ DOMAIN others \subseteq DOMAIN delayed'
         /\ \A f : Enables(op, f) =>
              f \in told' \/ \E w \in DOMAIN delayed' : Enables(w.op, f)
         /\ \A f : Disables(op, f) => f \in told'
<1>1. CASE delayed' = others /\ Ends(op, how)
  BY <1>1, EndsFacts
<1>2. CASE /\ op.call \notin Once /\ op.tries < MaxTries
           /\ delayed' = BagAdd(others, [step |-> "timer", op |-> op])
           /\ UNCHANGED <<told, made>>
  <2>1. PICK x : x = [step |-> "timer", op |-> op]
    OBVIOUS
  <2>2. x \in Waits /\ x.op = op
    BY <1>2, <2>1 DEF Waits
  <2>3. DOMAIN delayed' = DOMAIN others \cup {x}
    BY <1>2, <2>1, Added
  <2>4. \A f : ~Disables(op, f)
    BY <1>2 DEF Disables, Once
  <2>5. \A f : Enables(op, f) => \E w \in DOMAIN delayed' : Enables(w.op, f)
    BY <2>2, <2>3
  <2>6. QED
    BY <1>2, <2>2, <2>3, <2>4, <2>5 DEF Scalars
<1>3. QED
  BY <1>1, <1>2 DEF Answered

\* The first operation that was handed to the transport.
LEMMA HeadOfWire ==
  ASSUME Scalars, wire \in Seq(Handed), wire # <<>>
  PROVE  /\ Head(wire) \in Handed /\ Head(wire).call \in TransportCalls
         /\ Head(wire) = wire[1] /\ Tail(wire) \in Seq(Handed)
         /\ Head(wire).call = "enable" => Head(wire).feature \in Features
         /\ Head(wire).call = "disable" => Head(wire).feature # "twin"
<1>1. Head(wire) \in Handed /\ Head(wire) = wire[1] /\ Tail(wire) \in Seq(Handed)
  BY Popped
<1>2. \A op \in Handed : /\ op.call \in TransportCalls
                         /\ op.call = "enable" => op.feature \in Features
                         /\ op.call = "disable" => op.feature # "twin"
  BY DEF Handed, Operations
<1>3. QED
  BY <1>1, <1>2

\* The first message of the hub.
LEMMA MessageFacts ==
  ASSUME NEW m \in Messages
  PROVE  /\ m.type \in {"get", "ack", "patch"} /\ m.doc \in Twins
         /\ m.telling \in BOOLEAN
         /\ m.type = "patch" => m.telling
         /\ m.type # "patch" => m.op \in Handed
BY DEF Messages

\* The places of a set of operations fail.
LEMMA FailedTypes ==
  ASSUME ClientShapes, NEW handed \in SUBSET DOMAIN wire, NEW sent \in SUBSET Answers
  PROVE  /\ \A w \in DOMAIN AllFail(handed, sent) : w \in Waits
         /\ DOMAIN delayed \subseteq DOMAIN AllFail(handed, sent)
<1>1. \A i \in handed : wire[i] \in Handed
  BY DEF ClientShapes
<1>2. \A i \in sent : down[i].op \in Handed
  <2>1. SUFFICES ASSUME NEW i \in sent PROVE down[i].op \in Handed
    OBVIOUS
  <2>2. down[i] \in Messages /\ down[i].type # "patch"
    BY DEF ClientShapes, Answers
  <2>3. QED
    BY <2>2, MessageFacts
<1>3. \A w \in [step : {"failed"},
                op : {wire[i] : i \in handed} \cup {down[i].op : i \in sent}] : w \in Waits
  BY <1>1, <1>2 DEF Waits
<1>4. \A w \in DOMAIN delayed : w \in Waits
  BY DEF ClientShapes
<1>5. QED
  BY <1>3, <1>4, AllFailed

\* What the first operation does to the connection, whatever it is.
LEMMA ExecutesFacts ==
  ASSUME ClientTypeOK, ClientShapes, Executes
  PROVE  /\ wire # <<>> /\ wire' = Tail(wire)
         /\ UNCHANGED <<client, methods, held, registered, listening, policy, cached,
                        response, calls, losses, patches>>
         /\ up' \in BOOLEAN /\ enabled' \subseteq Features /\ (enabled' # {} => up')
         /\ hub' \in Twins
         /\ told' = told /\ made' \in {"no", "trust", "file", "options", "failed", "ready"}
         /\ Head(wire).call # "update" => hub' = hub
         /\ Head(wire).call = "update" => hub' = [hub EXCEPT !.reported = 1]
         /\ Head(wire).call \in Requests =>
              /\ down' = Append(down,
                   [type |-> IF Head(wire).call = "update" THEN "ack" ELSE "get",
                    op |-> Head(wire), doc |-> hub, telling |-> "twin" \in enabled])
              /\ UNCHANGED <<delayed, fresh, enabled>>
         /\ Head(wire).call = "disconnect" =>
              /\ delayed' = delayed \/ delayed' = AllFail({}, Answers)
              /\ down' = <<>> /\ fresh' = "mixed"
         /\ Head(wire).call \notin Requests \cup {"disconnect"} =>
              /\ UNCHANGED <<delayed, down, fresh>>
              /\ "twin" \in enabled => "twin" \in enabled'
              /\ \A f : Enables(Head(wire), f) => f \in enabled'
              /\ \A f \in enabled : Disables(Head(wire), f) \/ f \in enabled'
<1> USE ScalarFacts
<1> DEFINE h == Head(wire)
<1>1. wire # <<>> /\ wire' = Tail(wire)
      /\ UNCHANGED <<client, methods, held, registered, listening, policy, cached,
                     response, calls, losses, patches>>
  BY DEF Executes, bounds
<1>2. PICK op : op = h /\ op \in Handed /\ op.call \in TransportCalls
              /\ (op.call = "enable" => op.feature \in Features)
              /\ (op.call = "disable" => op.feature # "twin")
  BY <1>1, HeadOfWire
<1>3. /\ up' = CASE Connects(op.call) -> TRUE [] op.call = "disconnect" -> FALSE [] OTHER -> up
      /\ enabled' = CASE op.call = "enable" -> enabled \cup {op.feature}
                      [] op.call = "disable" -> enabled \ {op.feature}
                      [] op.call = "disconnect" -> {}
                      [] OTHER -> enabled
      /\ hub' = IF op.call = "update" THEN [hub EXCEPT !.reported = 1] ELSE hub
  BY <1>2 DEF Executes
<1>4. \/ /\ op.call \in Requests
         /\ down' = Append(down,
              [type |-> IF op.call = "update" THEN "ack" ELSE "get", op |-> op,
               doc |-> hub, telling |-> "twin" \in enabled])
         /\ UNCHANGED <<delayed, told, made, fresh>>
      \/ /\ op.call = "disconnect"
         /\ delayed' \in {delayed, AllFail({}, Answers)}
         /\ down' = <<>> /\ fresh' = "mixed"
         /\ Ends(op, "ok")
      \/ /\ op.call \notin Requests \cup {"disconnect"}
         /\ Ends(op, "ok") /\ UNCHANGED <<delayed, down, fresh>>
  BY <1>2 DEF Executes
<1>5. Ends(op, "ok") => told' = told
  BY DEF Ends
<1>6. told' = told /\ made' \in {"no", "trust", "file", "options", "failed", "ready"}
  <2>1. CASE op.call \in Requests
    <3>1. told' = told /\ made' = made
      BY <1>4, <2>1 DEF Requests
    <3>2. QED
      BY <3>1 DEF Scalars
  <2>2. CASE op.call \notin Requests
    <3>1. Ends(op, "ok")
      BY <1>4, <2>2
    <3>2. QED
      BY <1>2, <1>5, <3>1, EndsFacts
  <2>3. QED
    BY <2>1, <2>2
<1>7. hub' \in Twins
  BY <1>3 DEF Scalars, Twins
<1>8. enabled' \subseteq Features
  BY <1>2, <1>3 DEF Scalars
<1>9. up' \in BOOLEAN
  BY <1>3 DEF Scalars
<1>10. enabled' # {} => up'
  <2>1. CASE op.call = "enable"
    BY <1>3, <2>1 DEF Connects
  <2>2. CASE op.call = "disconnect"
    BY <1>3, <2>2
  <2>3. CASE op.call \notin {"enable", "disconnect"}
    <3>1. enabled' \subseteq enabled
      BY <1>3, <2>3
    <3>2. up => up'
      BY <1>3, <2>3
    <3>3. QED
      BY <3>1, <3>2 DEF Scalars
  <2>4. QED
    BY <2>1, <2>2, <2>3
<1>11. op.call \in Requests =>
         /\ down' = Append(down,
              [type |-> IF op.call = "update" THEN "ack" ELSE "get",
               op |-> op, doc |-> hub, telling |-> "twin" \in enabled])
         /\ UNCHANGED <<delayed, fresh, enabled>>
  BY <1>3, <1>4 DEF Requests
<1>12. op.call = "disconnect" =>
         /\ delayed' = delayed \/ delayed' = AllFail({}, Answers)
         /\ down' = <<>> /\ fresh' = "mixed"
  BY <1>4 DEF Requests
<1>13. op.call \notin Requests \cup {"disconnect"} =>
         /\ UNCHANGED <<delayed, down, fresh>>
         /\ "twin" \in enabled => "twin" \in enabled'
         /\ \A f : Enables(op, f) => f \in enabled'
         /\ \A f \in enabled : Disables(op, f) \/ f \in enabled'
  BY <1>2, <1>3, <1>4 DEF Enables, Disables
<1>14. /\ op.call # "update" => hub' = hub
       /\ op.call = "update" => hub' = [hub EXCEPT !.reported = 1]
  BY <1>3
<1>15. QED
  BY <1>1, <1>2, <1>6, <1>7, <1>8, <1>9, <1>10, <1>11, <1>12, <1>13, <1>14

\* What the hub answers is of its types.
LEMMA AnswerType ==
  ASSUME Scalars, NEW op \in Handed, NEW type \in {"get", "ack"}
  PROVE  [type |-> type, op |-> op, doc |-> hub, telling |-> "twin" \in enabled] \in Messages
<1>1. ("twin" \in enabled) \in BOOLEAN
  OBVIOUS
<1>2. QED
  BY <1>1 DEF Messages, Scalars

\* The first operation keeps the types.
LEMMA ExecutesTypes ==
  ASSUME ClientTypeOK, ClientShapes, Executes
  PROVE  ClientTypeOK' /\ ClientShapes'
<1>1. Scalars /\ wire \in Seq(Handed) /\ down \in Seq(Messages)
      /\ \A w \in DOMAIN delayed : w \in Waits
  BY ScalarFacts
<1>2. wire # <<>> /\ wire' = Tail(wire)
      /\ UNCHANGED <<client, methods, held, registered, listening, policy, cached,
                     response, calls, losses, patches>>
      /\ up' \in BOOLEAN /\ enabled' \subseteq Features /\ (enabled' # {} => up')
      /\ hub' \in Twins
      /\ told' = told /\ made' \in {"no", "trust", "file", "options", "failed", "ready"}
  BY ExecutesFacts
<1>3. PICK op \in Handed : op = Head(wire)
  BY <1>1, <1>2, HeadOfWire
<1>4. wire' \in Seq(Handed)
  BY <1>1, <1>2, HeadOfWire
<1>5. \/ /\ UNCHANGED <<delayed, fresh>>
         /\ down' = down \/ \E m \in Messages : down' = Append(down, m)
      \/ /\ delayed' = delayed \/ delayed' = AllFail({}, Answers)
         /\ down' = <<>> /\ fresh' = "mixed"
  <2>1. CASE op.call \in Requests
    <3>1. /\ down' = Append(down,
               [type |-> IF op.call = "update" THEN "ack" ELSE "get",
                op |-> op, doc |-> hub, telling |-> "twin" \in enabled])
          /\ UNCHANGED <<delayed, fresh>>
      BY <1>3, <2>1, ExecutesFacts
    <3>2. PICK m \in Messages : down' = Append(down, m)
      BY <1>1, <3>1, AnswerType
    <3>3. QED
      BY <3>1, <3>2
  <2>2. CASE op.call = "disconnect"
    BY <1>3, <2>2, ExecutesFacts
  <2>3. CASE op.call \notin Requests \cup {"disconnect"}
    BY <1>3, <2>3, ExecutesFacts
  <2>4. QED
    BY <2>1, <2>2, <2>3
<1>6. down' \in Seq(Messages)
  <2>1. <<>> \in Seq(Messages)
    OBVIOUS
  <2>2. ASSUME NEW m \in Messages PROVE Append(down, m) \in Seq(Messages)
    BY <1>1, Pushed
  <2>3. QED
    BY <1>1, <1>5, <2>1, <2>2
<1>7. fresh' \in {"no", "yes", "mixed"}
  BY <1>1, <1>5 DEF Scalars
<1>8. \A w \in DOMAIN delayed' : w \in Waits
  <2>1. CASE delayed' = delayed
    BY <1>1, <2>1
  <2>2. CASE delayed' = AllFail({}, Answers)
    <3>1. {} \in SUBSET DOMAIN wire /\ Answers \in SUBSET Answers
      OBVIOUS
    <3>2. QED
      BY <2>2, <3>1, FailedTypes
  <2>3. QED
    BY <1>5, <2>1, <2>2
<1>9. Scalars'
  BY <1>1, <1>2, <1>7, SameClient DEF Scalars
<1>10. QED
  BY <1>2, <1>4, <1>6, <1>8, <1>9, Typed

\* What the arrival of a message changes, and of an error.
LEMMA ReceivesFacts ==
  ASSUME ClientTypeOK, ClientShapes, Receives
  PROVE  /\ down # <<>> /\ down' = Tail(down)
         /\ UNCHANGED <<client, methods, registered, listening, policy, wire, up, enabled,
                        hub, response, calls, losses, patches>>
         /\ held' \in BOOLEAN /\ told' \subseteq Features /\ told \subseteq told'
         /\ made' \in {"no", "trust", "file", "options", "failed", "ready"}
         /\ \A w \in DOMAIN delayed' : w \in Waits
         /\ DOMAIN delayed \subseteq DOMAIN delayed'
         /\ \/ /\ cached' = _mergePatch(cached, down[1])
               /\ down[1].type # "get" => fresh' = fresh
               /\ down[1].type = "get" /\ ~down[1].telling => fresh' = "mixed"
               /\ down[1].type = "get" /\ down[1].telling =>
                    fresh' = IF fresh = "no" THEN "yes" ELSE fresh
            \/ /\ cached' = cached /\ down[1].type # "patch"
               /\ fresh' = IF down[1].type = "ack" /\ fresh = "yes" THEN "mixed" ELSE fresh
<1>1. Scalars /\ down \in Seq(Messages) /\ \A w \in DOMAIN delayed : w \in Waits
  BY ScalarFacts
<1>2. down # <<>> /\ down' = Tail(down)
      /\ UNCHANGED <<client, methods, registered, listening, policy, wire, up, enabled,
                     hub, response, calls, losses, patches>>
  BY DEF Receives, transportState, bounds
<1>3. PICK m \in Messages : m = Head(down) /\ m = down[1]
  BY <1>1, <1>2, Popped
<1>4. m.type # "patch" => m.op \in Handed
  BY MessageFacts
<1>5. CASE Merges(m)
  <2>1. told' \subseteq Features /\ told \subseteq told'
        /\ made' \in {"no", "trust", "file", "options", "failed", "ready"}
    <3>1. CASE m.type = "patch"
      BY <1>1, <1>5, <3>1 DEF Scalars, Merges
    <3>2. CASE m.type # "patch"
      <4>1. Ends(m.op, "ok")
        BY <1>5, <3>2 DEF Merges
      <4>2. QED
        BY <1>1, <1>4, <3>2, <4>1, EndsFacts
    <3>3. QED
      BY <3>1, <3>2
  <2>2. held' \in BOOLEAN
    BY <1>5 DEF Merges
  <2>3. m.telling \in BOOLEAN
    BY MessageFacts
  <2>4. fresh' = IF m.type # "get" \/ (m.telling /\ fresh # "no") THEN fresh
                 ELSE IF m.telling THEN "yes" ELSE "mixed"
    BY <1>5 DEF Merges
  <2>5. /\ m.type # "get" => fresh' = fresh
        /\ m.type = "get" /\ ~m.telling => fresh' = "mixed"
        /\ m.type = "get" /\ m.telling =>
             fresh' = IF fresh = "no" THEN "yes" ELSE fresh
    BY <2>3, <2>4
  <2>6. cached' = _mergePatch(cached, m) /\ delayed' = delayed
    BY <1>5 DEF Merges
  <2>7. QED
    BY <1>1, <1>2, <1>3, <2>1, <2>2, <2>5, <2>6
<1>6. CASE Errs(m)
  <2>1. PICK how \in {"transient", "fatal"} : Answered(m.op, how, delayed)
    BY <1>6 DEF Errs
  <2>2. m.type # "patch" /\ UNCHANGED <<cached, held>>
        /\ fresh' = IF m.type = "ack" /\ fresh = "yes" THEN "mixed" ELSE fresh
    BY <1>6 DEF Errs
  <2>3. /\ told' \subseteq Features /\ told \subseteq told'
        /\ made' \in {"no", "trust", "file", "options", "failed", "ready"}
        /\ \A w \in DOMAIN delayed' : w \in Waits
        /\ DOMAIN delayed \subseteq DOMAIN delayed'
    BY <1>1, <1>4, <2>1, <2>2, AnsweredFacts
  <2>4. held' \in BOOLEAN
    BY <1>1, <2>2 DEF Scalars
  <2>5. QED
    BY <1>2, <1>3, <2>2, <2>3, <2>4
<1>7. QED
  BY <1>3, <1>5, <1>6 DEF Receives

\* A merge keeps the type of the twin.
LEMMA MergeFacts ==
  ASSUME NEW dest \in Twins, NEW m \in Messages
  PROVE  LET merged == _mergePatch(dest, m) IN
         /\ merged \in Twins
         /\ m.type = "patch" =>
              merged.desired = m.doc.desired /\ merged.reported = dest.reported
         /\ m.type = "ack" => merged.desired = dest.desired /\ merged.reported = 1
         /\ m.type = "get" =>
              /\ merged.desired = IF m.doc.desired = Absent THEN dest.desired
                                  ELSE m.doc.desired
              /\ merged.reported = IF m.doc.reported = Absent THEN dest.reported
                                   ELSE m.doc.reported
<1>1. PICK d : d = m.doc /\ d \in Twins
  BY MessageFacts
<1>2. m.type \in {"get", "ack", "patch"}
  BY MessageFacts
<1>3. CASE m.type = "patch"
  BY <1>1, <1>3 DEF _mergePatch, Twins
<1>4. CASE m.type = "ack"
  BY <1>1, <1>4 DEF _mergePatch, Twins
<1>5. CASE m.type = "get"
  BY <1>1, <1>5 DEF _mergePatch, Twins
<1>6. QED
  BY <1>2, <1>3, <1>4, <1>5

\* The elements of two sequences are those of their concatenation.
LEMMA Joined ==
  ASSUME NEW T, NEW s \in Seq(T), NEW t \in Seq(T)
  PROVE  /\ s \o t \in Seq(T)
         /\ \A i \in DOMAIN s : i \in DOMAIN (s \o t) /\ (s \o t)[i] = s[i]
         /\ \A i \in DOMAIN t : \E k \in DOMAIN (s \o t) : (s \o t)[k] = t[i]
<1>1. s \o t \in Seq(T)
  OBVIOUS
<1>2. \A i \in DOMAIN s : i \in DOMAIN (s \o t) /\ (s \o t)[i] = s[i]
  OBVIOUS
<1>3. ASSUME NEW i \in DOMAIN t
      PROVE  Len(s) + i \in DOMAIN (s \o t) /\ (s \o t)[Len(s) + i] = t[i]
  OBVIOUS
<1>4. QED
  BY <1>1, <1>2, <1>3

\* A feature that a sequence of operations enables.
Holds(s, f) == \E i \in DOMAIN s : Enables(s[i], f)

\* Two sequences together enable what one of them enables.
LEMMA HeldJoined ==
  ASSUME NEW T, NEW s \in Seq(T), NEW t \in Seq(T), NEW f
  PROVE  Holds(s, f) \/ Holds(t, f) => Holds(s \o t, f)
<1>1. CASE Holds(s, f)
  BY <1>1, Joined DEF Holds
<1>2. ASSUME Holds(t, f) PROVE Holds(s \o t, f)
  <2>1. PICK i \in DOMAIN t : Enables(t[i], f)
    BY <1>2 DEF Holds
  <2>2. PICK k \in DOMAIN (s \o t) : (s \o t)[k] = t[i]
    BY Joined
  <2>3. QED
    BY <2>1, <2>2 DEF Holds
<1>3. QED
  BY <1>1, <1>2

\* What the listeners of 'disconnect' start.
Starts == {op \in Handed : op.call = "enable"}

\* They enable the features they find registered.
LEMMA AgainFacts ==
  ASSUME Scalars, NEW how, NEW f
  PROVE  /\ Again(f, how) \in Seq(Starts)
         /\ f \in Handlers(how) => Holds(Again(f, how), f)
<1>1. CASE f \in Handlers(how)
  <2>1. f \in Features
    BY <1>1 DEF Handlers, Scalars
  <2>2. PICK op : op = Operation("enable", f)
    OBVIOUS
  <2>3. op \in Starts /\ Enables(op, f)
    BY <2>1, <2>2, OperationFacts DEF Starts, TransportCalls
  <2>4. Again(f, how) = <<op>>
    BY <1>1, <2>2 DEF Again
  <2>5. <<op>> \in Seq(Starts) /\ 1 \in DOMAIN <<op>> /\ <<op>>[1] = op
    BY <2>3
  <2>6. QED
    BY <2>3, <2>4, <2>5 DEF Holds
<1>2. CASE f \notin Handlers(how)
  BY <1>2 DEF Again
<1>3. QED
  BY <1>1, <1>2

\* What the loss of a connection leaves.
LEMMA LosesFacts ==
  ASSUME ClientTypeOK, ClientShapes, ConnectionLost
  PROVE  /\ UNCHANGED <<client, methods, made, held, registered, listening, policy, hub,
                        cached, response, calls, patches>>
         /\ losses' \in 0..MaxLosses /\ up' = FALSE /\ enabled' = {} /\ down' = <<>>
         /\ fresh' = "no" /\ told' \subseteq Features
         /\ \A w \in DOMAIN delayed' : w \in Waits
         /\ wire' \in Seq(Starts)
         /\ listening => \A f \in registered \ told' : Holds(wire', f)
<1>1. Scalars
  BY ScalarFacts
<1>2. PICK how \in {"transient", "fatal"}, forgets \in BOOLEAN : Loses(how, forgets)
  BY DEF ConnectionLost
<1>3. /\ UNCHANGED <<client, methods, made, held, registered, listening, policy, hub,
                     cached, response, calls, patches>>
      /\ losses < MaxLosses /\ losses' = losses + 1
      /\ up' = FALSE /\ enabled' = {} /\ down' = <<>> /\ fresh' = "no"
      /\ told' = IF listening /\ ~retriable(how, policy)
                 THEN told \cup registered ELSE told
  BY <1>2 DEF Loses, user
<1>4. losses' \in 0..MaxLosses /\ told' \subseteq Features
  BY <1>1, <1>3, DeviceClientAssumption DEF Scalars
<1>5. PICK handed \in SUBSET DOMAIN wire, sent \in SUBSET Answers :
        delayed' = AllFail(handed, sent)
  <2> DEFINE Fail(op) == ~(forgets /\ op.call \in Forgettable)
             handed == {i \in DOMAIN wire : Fail(wire[i])}
             sent == {i \in Answers : Fail(down[i].op)}
  <2>1. delayed' = AllFail(handed, sent)
    BY <1>2 DEF Loses
  <2>2. handed \in SUBSET DOMAIN wire /\ sent \in SUBSET Answers
    OBVIOUS
  <2>3. QED
    BY <2>1, <2>2
<1>6. \A w \in DOMAIN delayed' : w \in Waits
  BY <1>5, FailedTypes
<1> DEFINE first == Again("methods", how)
           second == Again("twin", how)
           both == first \o second
           device == IF client = "device" THEN Again("c2d", how) ELSE <<>>
           module == IF client = "module" THEN Again("inputs", how) ELSE <<>>
           three == both \o device
           four == three \o module
<1>7. wire' = four
  BY <1>2 DEF Loses, _disconnectHandler, _deviceDisconnectHandler, _moduleDisconnectHandler
<1>8. first \in Seq(Starts) /\ second \in Seq(Starts)
  BY <1>1, AgainFacts
<1>9. device \in Seq(Starts) /\ module \in Seq(Starts)
  BY <1>1, AgainFacts
<1>10. both \in Seq(Starts)
  BY <1>8
<1>11. three \in Seq(Starts)
  BY <1>9, <1>10
<1>12. four \in Seq(Starts)
  BY <1>9, <1>11
<1>13. ASSUME listening, NEW f \in registered \ told'
       PROVE  Holds(four, f)
  <2>1. f \in Handlers(how)
    BY <1>3, <1>13 DEF Handlers
  <2>2. f \in Features
    BY <1>1 DEF Scalars
  <2>3. Holds(Again(f, how), f)
    BY <1>1, <2>1, AgainFacts
  <2>4. CASE f \in {"methods", "twin"}
    <3>1. Holds(first, f) \/ Holds(second, f)
      BY <2>3, <2>4
    <3>2. Holds(both, f)
      BY <1>8, <3>1, HeldJoined
    <3>3. Holds(three, f)
      BY <1>9, <1>10, <3>2, HeldJoined
    <3>4. QED
      BY <1>9, <1>11, <3>3, HeldJoined
  <2>5. CASE f \notin {"methods", "twin"}
    <3>1. Holds(device, f) \/ Holds(module, f)
      BY <1>1, <2>2, <2>3, <2>5, DeviceClientAssumption DEF Features, Scalars
    <3>2. Holds(three, f) \/ Holds(module, f)
      BY <1>9, <1>10, <3>1, HeldJoined
    <3>3. QED
      BY <1>9, <1>11, <3>2, HeldJoined
  <2>6. QED
    BY <2>4, <2>5
<1>14. QED
  BY <1>3, <1>4, <1>6, <1>7, <1>12, <1>13

\* What the refusal of the first operation changes.
LEMMA RefusesFacts ==
  ASSUME ClientTypeOK, ClientShapes, Refuses
  PROVE  /\ wire # <<>> /\ wire' = Tail(wire)
         /\ UNCHANGED <<client, methods, held, registered, listening, policy, up, enabled,
                        down, hub, cached, fresh, response, calls, losses, patches>>
         /\ told' \subseteq Features /\ told \subseteq told'
         /\ made' \in {"no", "trust", "file", "options", "failed", "ready"}
         /\ \A w \in DOMAIN delayed' : w \in Waits
         /\ DOMAIN delayed \subseteq DOMAIN delayed'
         /\ \A f : Enables(Head(wire), f) =>
              f \in told' \/ \E w \in DOMAIN delayed' : Enables(w.op, f)
<1>1. Scalars /\ wire \in Seq(Handed) /\ \A w \in DOMAIN delayed : w \in Waits
  BY ScalarFacts
<1>2. wire # <<>> /\ wire' = Tail(wire)
      /\ UNCHANGED <<client, methods, held, registered, listening, policy, up, enabled,
                     down, hub, cached, fresh, response, calls, losses, patches>>
  BY DEF Refuses, transportState, twin, bounds
<1>3. Head(wire) \in Handed
  BY <1>1, <1>2, HeadOfWire
<1>4. PICK how \in {"transient", "fatal"} : Answered(Head(wire), how, delayed)
  BY DEF Refuses
<1>5. QED
  BY <1>1, <1>2, <1>3, <1>4, AnsweredFacts

\* What the end of an attempt that failed with its connection changes.
LEMMA FailsFacts ==
  ASSUME ClientTypeOK, ClientShapes, AttemptFails
  PROVE  /\ UNCHANGED <<client, methods, held, registered, listening, policy, wire, up,
                        enabled, down, hub, cached, fresh, response, calls, losses, patches>>
         /\ told' \subseteq Features /\ told \subseteq told'
         /\ made' \in {"no", "trust", "file", "options", "failed", "ready"}
         /\ \A w \in DOMAIN delayed' : w \in Waits
         /\ \A w \in DOMAIN delayed : \A f : Enables(w.op, f) =>
              f \in told' \/ \E v \in DOMAIN delayed' : Enables(v.op, f)
<1>1. Scalars /\ \A w \in DOMAIN delayed : w \in Waits
  BY ScalarFacts
<1>2. PICK w \in DOMAIN delayed :
        /\ Answered(w.op, "transient", BagRemove(delayed, w))
        /\ UNCHANGED <<client, methods, held, registered, listening, policy, wire,
                       transportState, down, twin, response, bounds>>
  BY DEF AttemptFails
<1>3. w.op \in Handed
  BY <1>1 DEF Waits
<1>4. PICK others : others = BagRemove(delayed, w)
  OBVIOUS
<1>5. DOMAIN others \subseteq DOMAIN delayed /\ DOMAIN delayed \ {w} \subseteq DOMAIN others
  BY <1>4, Removed
<1>6. \A v \in DOMAIN others : v \in Waits
  BY <1>1, <1>5
<1>7. /\ told' \subseteq Features /\ told \subseteq told'
      /\ made' \in {"no", "trust", "file", "options", "failed", "ready"}
      /\ \A v \in DOMAIN delayed' : v \in Waits
      /\ DOMAIN others \subseteq DOMAIN delayed'
      /\ \A f : Enables(w.op, f) =>
           f \in told' \/ \E v \in DOMAIN delayed' : Enables(v.op, f)
  BY <1>1, <1>2, <1>3, <1>4, <1>6, AnsweredFacts
<1>8. ASSUME NEW v \in DOMAIN delayed, NEW f, Enables(v.op, f)
      PROVE  f \in told' \/ \E x \in DOMAIN delayed' : Enables(x.op, f)
  <2>1. CASE v = w
    BY <1>7, <1>8, <2>1
  <2>2. CASE v # w
    BY <1>5, <1>7, <1>8, <2>2
  <2>3. QED
    BY <2>1, <2>2
<1>9. QED
  BY <1>2, <1>7, <1>8 DEF transportState, twin, bounds

\* What the next attempt changes: of the operation only its number.
LEMMA AttemptFacts ==
  ASSUME ClientTypeOK, ClientShapes, NEW w \in DOMAIN delayed, Attempt(w)
  PROVE  /\ UNCHANGED <<client, methods, made, held, registered, listening, policy, up,
                        enabled, down, hub, response, told, calls, losses, patches>>
         /\ \A v \in DOMAIN delayed' : v \in Waits
         /\ DOMAIN delayed \ {w} \subseteq DOMAIN delayed'
         /\ \E op \in Handed :
              /\ op.call = w.op.call /\ op.feature = w.op.feature /\ op.call \notin Once
              /\ wire' = Append(wire, op)
         /\ w.op.call = "getTwin" =>
              cached' = [desired |-> Absent, reported |-> Absent] /\ fresh' = "no"
         /\ w.op.call # "getTwin" => UNCHANGED <<cached, fresh>>
<1>1. Scalars /\ \A v \in DOMAIN delayed : v \in Waits
  BY ScalarFacts
<1>2. /\ w.step = "timer" /\ delayed' = BagRemove(delayed, w)
      /\ UNCHANGED <<client, methods, made, held, registered, listening, policy, up,
                     enabled, down, hub, response, told, calls, losses, patches>>
  BY DEF Attempt, user, transportState, bounds
<1>3. wire' = Append(wire, [w.op EXCEPT !.tries = @ + 1])
  BY DEF Attempt
<1>4. /\ w.op.call = "getTwin" =>
           cached' = [desired |-> Absent, reported |-> Absent] /\ fresh' = "no"
      /\ w.op.call # "getTwin" => UNCHANGED <<cached, fresh>>
  BY DEF Attempt, _clearCachedProperties
<1>5. w.op \in Handed /\ w.op.call \notin Once /\ w.op.tries < MaxTries
  BY <1>1, <1>2 DEF Waits
<1>6. PICK old : old = w.op
  OBVIOUS
<1>7. PICK op : op = [old EXCEPT !.tries = @ + 1]
  OBVIOUS
<1>8. op \in Handed /\ op.call = old.call /\ op.feature = old.feature
  <2>1. old \in Operations /\ old.tries < MaxTries
    BY <1>5, <1>6 DEF Handed
  <2>2. old.tries + 1 \in 1..MaxTries
    BY <2>1, DeviceClientAssumption DEF Operations
  <2>3. op \in Operations /\ op.call = old.call /\ op.feature = old.feature
    BY <1>7, <2>1, <2>2 DEF Operations
  <2>4. QED
    BY <1>5, <1>6, <2>3 DEF Handed
<1>9. DOMAIN delayed' \subseteq DOMAIN delayed /\ DOMAIN delayed \ {w} \subseteq DOMAIN delayed'
  BY <1>2, Removed
<1>10. \A v \in DOMAIN delayed' : v \in Waits
  BY <1>1, <1>9
<1>11. \E x \in Handed :
         /\ x.call = w.op.call /\ x.feature = w.op.feature /\ x.call \notin Once
         /\ wire' = Append(wire, x)
  BY <1>3, <1>5, <1>6, <1>7, <1>8
<1>12. QED
  BY <1>2, <1>4, <1>9, <1>10, <1>11

\* What the options take from a file, once it was read.
LEMMA FileReadFacts ==
  ASSUME ClientTypeOK, ClientShapes, FileRead
  PROVE  /\ UNCHANGED <<client, methods, made, held, registered, listening, policy, up,
                        enabled, down, hub, cached, fresh, response, told, calls, losses,
                        patches>>
         /\ \A v \in DOMAIN delayed' : v \in Waits
         /\ \A v \in DOMAIN delayed : v.op.call # "setOptions" => v \in DOMAIN delayed'
         /\ \E op \in Handed : op.call = "setOptions" /\ wire' = Append(wire, op)
<1>1. Scalars /\ \A v \in DOMAIN delayed : v \in Waits
  BY ScalarFacts
<1>2. PICK w \in DOMAIN delayed :
        /\ w.step = "file" /\ delayed' = BagRemove(delayed, w)
        /\ wire' = Append(wire, Operation(w.op.call, w.op.feature))
        /\ UNCHANGED <<user, transportState, down, twin, response, told, bounds>>
  BY DEF FileRead
<1>3. w.op \in Handed /\ w.op.call = "setOptions"
  BY <1>1, <1>2 DEF Waits
<1>4. w.op.feature \in Features \cup {NoFeature}
  BY <1>3 DEF Handed, Operations
<1>5. Operation("setOptions", w.op.feature) \in Handed
      /\ Operation("setOptions", w.op.feature).call = "setOptions"
  BY <1>1, <1>4, OperationFacts DEF TransportCalls
<1>6. DOMAIN delayed' \subseteq DOMAIN delayed /\ DOMAIN delayed \ {w} \subseteq DOMAIN delayed'
  BY <1>2, Removed
<1>7. \A v \in DOMAIN delayed' : v \in Waits
  BY <1>1, <1>6
<1>8. \A v \in DOMAIN delayed : v.op.call # "setOptions" => v \in DOMAIN delayed'
  BY <1>3, <1>6
<1>9. \E op \in Handed : op.call = "setOptions" /\ wire' = Append(wire, op)
  BY <1>2, <1>3, <1>5
<1>10. QED
  BY <1>2, <1>7, <1>8, <1>9 DEF user, transportState, twin, bounds

\* What the environment of a module has to do with the transport.
LEMMA EnvironmentFacts ==
  ASSUME ClientTypeOK, ClientShapes, fromEnvironment \/ _fromEnvironmentEdge \/ _fromEnvironmentNormal
  PROVE  /\ UNCHANGED <<client, methods, held, registered, listening, policy, delayed, up,
                        enabled, down, hub, cached, fresh, response, told, calls, losses,
                        patches>>
         /\ made' \in {"no", "trust", "file", "options", "failed", "ready"}
         /\ \/ wire' = wire
            \/ \E op \in Handed : op.call = "setOptions" /\ wire' = Append(wire, op)
<1>1. Scalars
  BY ScalarFacts
<1>2. Operation("setOptions", NoFeature) \in Handed
      /\ Operation("setOptions", NoFeature).call = "setOptions"
  BY <1>1, OperationFacts DEF TransportCalls
<1>3. CASE fromEnvironment \/ _fromEnvironmentEdge
  BY <1>3 DEF fromEnvironment, _fromEnvironmentEdge, transportState, twin, bounds
<1>4. CASE _fromEnvironmentNormal
  BY <1>2, <1>4 DEF _fromEnvironmentNormal, retry, transportState, twin, bounds
<1>5. QED
  BY <1>3, <1>4

\* What a direct method does.
LEMMA MethodFacts ==
  ASSUME ClientTypeOK, ClientShapes, MethodCalled
  PROVE  /\ UNCHANGED <<client, methods, made, held, registered, listening, policy, delayed,
                        up, enabled, down, hub, cached, fresh, told, calls, losses, patches>>
         /\ response' \in {"none", "open", "complete"}
         /\ \/ wire' = wire
            \/ \E op \in Handed : op.call = "respond" /\ wire' = Append(wire, op)
<1>1. Scalars
  BY ScalarFacts
<1>2. Operation("respond", NoFeature) \in Handed
      /\ Operation("respond", NoFeature).call = "respond"
  BY <1>1, OperationFacts DEF TransportCalls
<1>3. QED
  BY <1>2 DEF MethodCalled, retry, user, transportState, twin, bounds

\* What a change by the service does.
LEMMA PatchFacts ==
  ASSUME ClientTypeOK, ClientShapes, _onDesiredPropertiesUpdate
  PROVE  /\ UNCHANGED <<client, methods, made, held, registered, listening, policy, wire,
                        delayed, up, enabled, cached, fresh, response, told, calls, losses>>
         /\ patches' \in 0..MaxPatches
         /\ hub' \in Twins /\ hub'.reported = hub.reported
         /\ "twin" \notin enabled => down' = down
         /\ "twin" \in enabled => \E m \in Messages :
              /\ m.type = "patch" /\ m.telling /\ m.doc = hub'
              /\ down' = Append(down, m)
<1>1. Scalars
  BY ScalarFacts
<1>2. PICK v \in 0..2 : hub' = [hub EXCEPT !.desired = v]
  BY DEF _onDesiredPropertiesUpdate
<1>3. hub' \in Twins /\ hub'.reported = hub.reported
  BY <1>1, <1>2 DEF Scalars, Twins
<1>4. UNCHANGED <<client, methods, made, held, registered, listening, policy, wire,
                  delayed, up, enabled, cached, fresh, response, told, calls, losses>>
  BY DEF _onDesiredPropertiesUpdate, user, transportState
<1>5. patches' \in 0..MaxPatches
  BY <1>1, DeviceClientAssumption DEF _onDesiredPropertiesUpdate, Scalars
<1>6. PICK m : m = [type |-> "patch", op |-> NoOperation, doc |-> hub', telling |-> TRUE]
  OBVIOUS
<1>7. m \in Messages
  BY <1>3, <1>6 DEF Messages
<1>8. m.type = "patch" /\ m.telling /\ m.doc = hub'
  BY <1>6
<1>9. down' = IF "twin" \in enabled THEN Append(down, m) ELSE down
  BY <1>6 DEF _onDesiredPropertiesUpdate
<1>10. QED
  BY <1>3, <1>4, <1>5, <1>7, <1>8, <1>9

\* A step that hands an operation to the transport, or nothing.
LEMMA HandedType ==
  ASSUME wire \in Seq(Handed),
         wire' = wire \/ \E op \in Handed : wire' = Append(wire, op)
  PROVE  wire' \in Seq(Handed)
BY Pushed

\* Every step keeps the types.
LEMMA TypesStep ==
  ASSUME ClientTypeOK, ClientShapes, [ClientNext]_clientVars
  PROVE  ClientTypeOK' /\ ClientShapes'
<1>1. Scalars /\ wire \in Seq(Handed) /\ down \in Seq(Messages)
      /\ \A w \in DOMAIN delayed : w \in Waits
  BY ScalarFacts
<1>2. CASE User
  BY <1>2, UserTypes
<1>3. CASE Executes
  BY <1>3, ExecutesTypes
<1>4. CASE fromEnvironment \/ _fromEnvironmentEdge \/ _fromEnvironmentNormal
  <2>1. Scalars'
    BY <1>1, <1>4, EnvironmentFacts, SameClient DEF Scalars
  <2>2. wire' = wire \/ \E op \in Handed : wire' = Append(wire, op)
    BY <1>4, EnvironmentFacts
  <2>3. UNCHANGED <<client, delayed, down>>
    BY <1>4, EnvironmentFacts
  <2>4. QED
    BY <1>1, <2>1, <2>2, <2>3, HandedType, Typed
<1>5. CASE FileRead
  <2>1. Scalars'
    BY <1>1, <1>5, FileReadFacts, SameClient DEF Scalars
  <2>2. \E op \in Handed : wire' = Append(wire, op)
    BY <1>5, FileReadFacts
  <2>3. UNCHANGED <<client, down>> /\ \A w \in DOMAIN delayed' : w \in Waits
    BY <1>5, FileReadFacts
  <2>4. QED
    BY <1>1, <2>1, <2>2, <2>3, HandedType, Typed
<1>6. CASE Refuses
  <2>1. Scalars'
    BY <1>1, <1>6, RefusesFacts, SameClient DEF Scalars
  <2>2. wire # <<>> /\ wire' = Tail(wire) /\ UNCHANGED <<client, down>>
        /\ \A w \in DOMAIN delayed' : w \in Waits
    BY <1>6, RefusesFacts
  <2>3. wire' \in Seq(Handed)
    BY <1>1, <2>2, Popped
  <2>4. QED
    BY <1>1, <2>1, <2>2, <2>3, Typed
<1>7. CASE AttemptFails
  <2>1. Scalars'
    BY <1>1, <1>7, FailsFacts, SameClient DEF Scalars
  <2>2. UNCHANGED <<client, wire, down>> /\ \A w \in DOMAIN delayed' : w \in Waits
    BY <1>7, FailsFacts
  <2>3. QED
    BY <1>1, <2>1, <2>2, Typed
<1>8. CASE AttemptsAgain
  <2>1. PICK w \in DOMAIN delayed : Attempt(w)
    BY <1>8 DEF AttemptsAgain
  <2>2. /\ UNCHANGED <<client, methods, made, held, registered, listening, policy, up,
                       enabled, down, hub, response, told, calls, losses, patches>>
        /\ \A v \in DOMAIN delayed' : v \in Waits
        /\ \E op \in Handed : wire' = Append(wire, op)
    BY <2>1, AttemptFacts
  <2>3. [desired |-> Absent, reported |-> Absent] \in Twins
    BY DEF Twins, Absent
  <2>4. cached' \in Twins /\ fresh' \in {"no", "yes", "mixed"}
    BY <1>1, <2>1, <2>3, AttemptFacts DEF Scalars
  <2>5. Scalars'
    BY <1>1, <2>2, <2>4, SameClient DEF Scalars
  <2>6. QED
    BY <1>1, <2>2, <2>5, HandedType, Typed
<1>9. CASE Receives
  <2>1. /\ down # <<>> /\ down' = Tail(down)
        /\ UNCHANGED <<client, methods, registered, listening, policy, wire, up, enabled,
                       hub, response, calls, losses, patches>>
        /\ held' \in BOOLEAN /\ told' \subseteq Features
        /\ made' \in {"no", "trust", "file", "options", "failed", "ready"}
        /\ \A w \in DOMAIN delayed' : w \in Waits
    BY <1>9, ReceivesFacts
  <2>2. PICK m \in Messages : m = down[1]
    BY <1>1, <2>1, Popped
  <2>3. cached' = _mergePatch(cached, m) \/ cached' = cached
    BY <1>9, <2>2, ReceivesFacts
  <2>4. cached \in Twins /\ fresh \in {"no", "yes", "mixed"}
    BY <1>1 DEF Scalars
  <2>5. cached' \in Twins
    BY <2>3, <2>4, MergeFacts
  <2>6. fresh' \in {"no", "yes", "mixed"}
    <3>1. fresh' \in {fresh, "yes", "mixed"}
      BY <1>9, ReceivesFacts
    <3>2. QED
      BY <2>4, <3>1
  <2>7. Scalars'
    BY <1>1, <2>1, <2>5, <2>6, SameClient DEF Scalars
  <2>8. down' \in Seq(Messages)
    BY <1>1, <2>1, Popped
  <2>9. QED
    BY <1>1, <2>1, <2>7, <2>8, Typed
<1>10. CASE ConnectionLost
  <2>1. Scalars'
    BY <1>1, <1>10, LosesFacts, SameClient DEF Scalars
  <2>2. client' = client /\ down' = <<>> /\ wire' \in Seq(Starts)
        /\ \A w \in DOMAIN delayed' : w \in Waits
    BY <1>10, LosesFacts
  <2>3. wire' \in Seq(Handed) /\ down' \in Seq(Messages)
    BY <2>2 DEF Starts
  <2>4. QED
    BY <2>1, <2>2, <2>3, Typed
<1>11. CASE _onDesiredPropertiesUpdate
  <2>1. Scalars'
    BY <1>1, <1>11, PatchFacts, SameClient DEF Scalars
  <2>2. UNCHANGED <<client, wire, delayed>>
        /\ (down' = down \/ \E m \in Messages : down' = Append(down, m))
    BY <1>11, PatchFacts
  <2>3. \A m \in Messages : Append(down, m) \in Seq(Messages)
    BY <1>1, Pushed
  <2>4. down' \in Seq(Messages)
    BY <1>1, <2>2, <2>3
  <2>5. QED
    BY <1>1, <2>1, <2>2, <2>4, Typed
<1>12. CASE MethodCalled
  <2>1. Scalars'
    BY <1>1, <1>12, MethodFacts, SameClient DEF Scalars
  <2>2. wire' = wire \/ \E op \in Handed : wire' = Append(wire, op)
    BY <1>12, MethodFacts
  <2>3. UNCHANGED <<client, delayed, down>>
    BY <1>12, MethodFacts
  <2>4. QED
    BY <1>1, <2>1, <2>2, <2>3, HandedType, Typed
<1>13. CASE UNCHANGED clientVars
  <2>1. UNCHANGED <<client, wire, delayed, down>> /\ Scalars'
    BY <1>1, <1>13 DEF clientVars, user, transportState, twin, bounds, Scalars, Features
  <2>2. QED
    BY <1>1, <2>1, Typed
<1>14. QED
  BY <1>2, <1>3, <1>4, <1>5, <1>6, <1>7, <1>8, <1>9, <1>10, <1>11, <1>12, <1>13
     DEF ClientNext, System

-----------------------------------------------------------------------------
(* The features.                                                           *)

\* What was said of the operations handed stays true when another follows.
LEMMA RemainsAppended ==
  ASSUME NEW s \in Seq(Handed), NEW op \in Handed, NEW f, ~Disables(op, f),
         Remains(f, s) \/ Enables(op, f)
  PROVE  Remains(f, Append(s, op))
<1> DEFINE t == Append(s, op)
<1>1. /\ Len(s) \in Nat /\ DOMAIN s = 1..Len(s) /\ DOMAIN t = 1..(Len(s) + 1)
      /\ \A i \in DOMAIN s : i \in DOMAIN t /\ t[i] = s[i]
      /\ t[Len(s) + 1] = op
  BY Pushed
<1>2. SUFFICES ASSUME NEW i \in DOMAIN t, Disables(t[i], f)
               PROVE  \E j \in DOMAIN t : i < j /\ Enables(t[j], f)
  BY DEF Remains
<1>3. i # Len(s) + 1
  BY <1>1, <1>2
<1>4. i \in DOMAIN s /\ t[i] = s[i]
  BY <1>1, <1>3
<1>5. CASE Enables(op, f)
  <2>1. Len(s) + 1 \in DOMAIN t /\ i < Len(s) + 1
    BY <1>1, <1>3
  <2>2. QED
    BY <1>1, <1>5, <2>1
<1>6. CASE Remains(f, s)
  <2>1. PICK j \in DOMAIN s : i < j /\ Enables(s[j], f)
    BY <1>2, <1>4, <1>6 DEF Remains
  <2>2. QED
    BY <1>1, <2>1
<1>7. QED
  BY <1>5, <1>6

\* And when the first one is gone.
LEMMA RemainsPopped ==
  ASSUME NEW s \in Seq(Handed), s # <<>>, NEW f, Remains(f, s)
  PROVE  Remains(f, Tail(s))
<1> DEFINE t == Tail(s)
<1>1. /\ Len(s) \in Nat \ {0} /\ DOMAIN s = 1..Len(s) /\ DOMAIN t = 1..(Len(s) - 1)
      /\ \A i \in DOMAIN t : i + 1 \in DOMAIN s /\ t[i] = s[i + 1]
  BY Popped
<1>2. SUFFICES ASSUME NEW i \in DOMAIN t, Disables(t[i], f)
               PROVE  \E j \in DOMAIN t : i < j /\ Enables(t[j], f)
  BY DEF Remains
<1>3. i + 1 \in DOMAIN s /\ Disables(s[i + 1], f)
  BY <1>1, <1>2
<1>4. PICK j \in DOMAIN s : i + 1 < j /\ Enables(s[j], f)
  BY <1>3 DEF Remains
<1>5. j - 1 \in DOMAIN t /\ i < j - 1 /\ (j - 1) + 1 = j
  BY <1>1, <1>4
<1>6. t[j - 1] = s[j]
  BY <1>1, <1>5
<1>7. QED
  BY <1>4, <1>5, <1>6

\* What waits to enable a feature goes on, or has become op.
Passes(op) ==
  \A w \in DOMAIN delayed : \A f : Enables(w.op, f) =>
    Enables(op, f) \/ \E v \in DOMAIN delayed' : Enables(v.op, f)

\* An operation is handed to the transport.
LEMMA EnablingAppended ==
  ASSUME Enabling, wire \in Seq(Handed), NEW op \in Handed, wire' = Append(wire, op),
         op.call # "disconnect", listening' => listening, enabled \subseteq enabled',
         \A f \in registered' \ told' :
           ~Disables(op, f) /\ (f \in registered \ told \/ Enables(op, f)),
         Passes(op)
  PROVE  Enabling'
<1>1. /\ Len(wire) \in Nat /\ DOMAIN wire = 1..Len(wire)
      /\ DOMAIN wire' = 1..(Len(wire) + 1)
      /\ \A i \in DOMAIN wire : i \in DOMAIN wire' /\ wire'[i] = wire[i]
      /\ wire'[Len(wire) + 1] = op
  BY Pushed
<1>2. SUFFICES ASSUME listening'
               PROVE  /\ \A i \in DOMAIN wire' : wire'[i].call # "disconnect"
                      /\ \A f \in registered' \ told' : Coming(f)' /\ Remains(f, wire')
  BY DEF Enabling
<1>3. /\ \A i \in DOMAIN wire : wire[i].call # "disconnect"
      /\ \A f \in registered \ told : Coming(f) /\ Remains(f, wire)
  BY <1>2 DEF Enabling
<1>4. \A i \in DOMAIN wire' : wire'[i].call # "disconnect"
  <2>1. \A i \in DOMAIN wire' : i \in DOMAIN wire \/ i = Len(wire) + 1
    BY <1>1
  <2>2. QED
    BY <1>1, <1>3, <2>1
<1>5. ASSUME NEW f \in registered' \ told'
      PROVE  Coming(f)' /\ Remains(f, wire')
  <2>1. ~Disables(op, f) /\ (f \in registered \ told \/ Enables(op, f))
    BY <1>5
  <2>2. Remains(f, wire')
    <3>1. Remains(f, wire) \/ Enables(op, f)
      BY <1>3, <2>1
    <3>2. QED
      BY <2>1, <3>1, RemainsAppended
  <2>3. CASE Enables(op, f)
    <3>1. Len(wire) + 1 \in DOMAIN wire'
      BY <1>1
    <3>2. Coming(f)'
      BY <1>1, <2>3, <3>1 DEF Coming
    <3>3. QED
      BY <2>2, <3>2
  <2>4. CASE ~Enables(op, f)
    <3>1. Coming(f)
      BY <1>3, <2>1, <2>4
    <3>2. Coming(f)'
      BY <1>1, <2>4, <3>1 DEF Coming, Passes
    <3>3. QED
      BY <2>2, <3>2
  <2>5. QED
    BY <2>3, <2>4
<1>6. QED
  BY <1>4, <1>5

\* The first operation is gone: what it did not do for a feature is told or is
\* done later.
LEMMA EnablingPopped ==
  ASSUME Enabling, wire \in Seq(Handed), wire # <<>>, wire' = Tail(wire),
         listening' => listening, registered' \ told' \subseteq registered \ told,
         \A f \in registered' \ told' :
           /\ Enables(Head(wire), f) =>
                f \in enabled' \/ \E v \in DOMAIN delayed' : Enables(v.op, f)
           /\ f \in enabled => Disables(Head(wire), f) \/ f \in enabled',
         DOMAIN delayed \subseteq DOMAIN delayed'
  PROVE  Enabling'
<1>1. /\ Len(wire) \in Nat \ {0} /\ DOMAIN wire = 1..Len(wire)
      /\ 1 \in DOMAIN wire /\ Head(wire) = wire[1]
      /\ \A i \in DOMAIN wire' : i + 1 \in DOMAIN wire /\ wire'[i] = wire[i + 1]
  BY Popped
<1>2. \A i \in DOMAIN wire : i # 1 => i - 1 \in DOMAIN wire' /\ wire'[i - 1] = wire[i]
  BY Left
<1>3. SUFFICES ASSUME listening'
               PROVE  /\ \A i \in DOMAIN wire' : wire'[i].call # "disconnect"
                      /\ \A f \in registered' \ told' : Coming(f)' /\ Remains(f, wire')
  BY DEF Enabling
<1>4. /\ \A i \in DOMAIN wire : wire[i].call # "disconnect"
      /\ \A f \in registered \ told : Coming(f) /\ Remains(f, wire)
  BY <1>3 DEF Enabling
<1>5. \A i \in DOMAIN wire' : wire'[i].call # "disconnect"
  BY <1>1, <1>4
<1>6. ASSUME NEW f \in registered' \ told'
      PROVE  Coming(f)' /\ Remains(f, wire')
  <2>1. Coming(f) /\ Remains(f, wire)
    BY <1>4, <1>6
  <2>2. Remains(f, wire')
    BY <2>1, RemainsPopped
  <2>3. ASSUME NEW i \in DOMAIN wire, Enables(wire[i], f)
        PROVE  Coming(f)'
    <3>1. CASE i = 1
      BY <1>1, <1>6, <2>3, <3>1 DEF Coming
    <3>2. CASE i # 1
      BY <1>2, <2>3, <3>2 DEF Coming
    <3>3. QED
      BY <3>1, <3>2
  <2>4. ASSUME NEW w \in DOMAIN delayed, Enables(w.op, f)
        PROVE  Coming(f)'
    BY <2>4 DEF Coming
  <2>5. ASSUME f \in enabled
        PROVE  Coming(f)'
    <3>1. CASE f \in enabled'
      BY <3>1 DEF Coming
    <3>2. CASE Disables(wire[1], f)
      <4>1. PICK j \in DOMAIN wire : 1 < j /\ Enables(wire[j], f)
        BY <1>1, <2>1, <3>2 DEF Remains
      <4>2. QED
        BY <2>3, <4>1
    <3>3. QED
      BY <1>1, <1>6, <2>5, <3>1, <3>2
  <2>6. Coming(f)'
    BY <2>1, <2>3, <2>4, <2>5 DEF Coming
  <2>7. QED
    BY <2>2, <2>6
<1>7. QED
  BY <1>5, <1>6

\* Nothing is handed to the transport and nothing carried out.
LEMMA EnablingSame ==
  ASSUME Enabling, wire' = wire, listening' => listening, enabled \subseteq enabled',
         registered' \ told' \subseteq registered \ told,
         \A w \in DOMAIN delayed : \A f : Enables(w.op, f) =>
           f \in told' \/ \E v \in DOMAIN delayed' : Enables(v.op, f)
  PROVE  Enabling'
<1>1. SUFFICES ASSUME listening'
               PROVE  /\ \A i \in DOMAIN wire' : wire'[i].call # "disconnect"
                      /\ \A f \in registered' \ told' : Coming(f)' /\ Remains(f, wire')
  BY DEF Enabling
<1>2. /\ \A i \in DOMAIN wire : wire[i].call # "disconnect"
      /\ \A f \in registered \ told : Coming(f) /\ Remains(f, wire)
  BY <1>1 DEF Enabling
<1>3. ASSUME NEW f \in registered' \ told'
      PROVE  Coming(f)' /\ Remains(f, wire')
  <2>1. Coming(f) /\ Remains(f, wire)
    BY <1>2, <1>3
  <2>2. Coming(f)'
    BY <1>3, <2>1 DEF Coming
  <2>3. QED
    BY <2>1, <2>2
<1>4. QED
  BY <1>2, <1>3

\* A call of the user keeps what was said of the features.
LEMMA UserEnabling ==
  ASSUME ClientTypeOK, ClientShapes, Enabling, User
  PROVE  Enabling'
<1>1. Scalars /\ wire \in Seq(Handed)
  BY ScalarFacts
<1>2. ASSUME NEW call \in TransportCalls \ {"enable", "disable", "disconnect"},
             retry(Operation(call, NoFeature)),
             UNCHANGED <<registered, listening, told, enabled>>
      PROVE  Enabling'
  <2>1. PICK op : op = Operation(call, NoFeature)
    OBVIOUS
  <2>2. op \in Handed /\ op.call = call /\ \A f : ~Enables(op, f) /\ ~Disables(op, f)
    BY <1>1, <2>1, OperationFacts
  <2>3. wire' = Append(wire, op) /\ delayed' = delayed
    BY <1>2, <2>1 DEF retry
  <2>4. Passes(op)
    BY <2>3 DEF Passes
  <2>5. QED
    BY <1>1, <1>2, <2>2, <2>3, <2>4, EnablingAppended
<1>3. ASSUME NEW call \in {"connect", "updateSharedAccessSignature", "send"}, Plainly(call)
      PROVE  Enabling'
  <2>1. PICK method : Simple(method, call)
    BY <1>3 DEF Plainly
  <2>2. UNCHANGED <<registered, listening, told, enabled>>
        /\ retry(Operation(call, NoFeature))
    BY <1>1, <2>1, CalledFacts DEF Simple
  <2>3. call \in TransportCalls \ {"enable", "disable", "disconnect"}
    BY DEF TransportCalls
  <2>4. QED
    BY <1>2, <2>2, <2>3
<1>4. CASE setOptions
  <2>1. UNCHANGED <<registered, listening, told, enabled>>
    BY <1>1, <1>4, CalledFacts DEF setOptions
  <2>2. CASE retry(Operation("setOptions", NoFeature))
    BY <1>2, <2>1, <2>2 DEF TransportCalls
  <2>3. CASE /\ delayed' = BagAdd(delayed,
                  [step |-> "file", op |-> Operation("setOptions", NoFeature)])
             /\ UNCHANGED wire
    <3>1. DOMAIN delayed \subseteq DOMAIN delayed'
      BY <2>3, Added
    <3>2. QED
      BY <2>1, <2>3, <3>1, EnablingSame
  <2>4. QED
    BY <1>4, <2>2, <2>3 DEF setOptions
<1>5. CASE setRetryPolicy
  <2>1. UNCHANGED <<registered, listening, told, enabled, wire, delayed>>
    BY <1>1, <1>5, CalledFacts DEF setRetryPolicy
  <2>2. QED
    BY <2>1, EnablingSame
<1>6. ASSUME NEW f, Enabled(f)
      PROVE  Enabling'
  <2>1. PICK op : op = Operation("enable", f)
    OBVIOUS
  <2>2. op \in Handed /\ op.call = "enable"
        /\ \A g : (Enables(op, g) <=> g = f) /\ ~Disables(op, g)
    BY <1>1, <1>6, <2>1, OperationFacts DEF Enabled, TransportCalls
  <2>3. PICK method : Enable(method, f)
    BY <1>6 DEF Enabled
  <2>4. /\ wire' = Append(wire, op) /\ delayed' = delayed
        /\ listening' = listening
        /\ registered' = registered \cup {f} /\ told' = told \ {f}
    BY <2>1, <2>3 DEF Enable, retry
  <2>5. enabled' = enabled
    BY <1>1, <2>3, CalledFacts DEF Enable
  <2>6. \A g \in registered' \ told' :
          ~Disables(op, g) /\ (g \in registered \ told \/ Enables(op, g))
    BY <2>2, <2>4
  <2>7. Passes(op)
    BY <2>4 DEF Passes
  <2>8. QED
    BY <1>1, <2>2, <2>4, <2>5, <2>6, <2>7, EnablingAppended
<1>7. ASSUME NEW f, Disabled(f)
      PROVE  Enabling'
  <2>1. PICK op : op = Operation("disable", f)
    OBVIOUS
  <2>2. op \in Handed /\ op.call = "disable"
        /\ \A g : ~Enables(op, g) /\ (Disables(op, g) <=> g = f)
    BY <1>1, <1>7, <2>1, OperationFacts DEF Disabled, TransportCalls
  <2>3. /\ wire' = Append(wire, op) /\ delayed' = delayed
        /\ listening' = listening
        /\ registered' = registered \ {f} /\ told' = told \ {f}
    BY <1>7, <2>1 DEF Disabled, Disable, retry
  <2>4. enabled' = enabled
    BY <1>1, <1>7, CalledFacts DEF Disabled, Disable
  <2>5. \A g \in registered' \ told' :
          ~Disables(op, g) /\ (g \in registered \ told \/ Enables(op, g))
    BY <2>2, <2>3
  <2>6. Passes(op)
    BY <2>3 DEF Passes
  <2>7. QED
    BY <1>1, <2>2, <2>3, <2>4, <2>5, <2>6, EnablingAppended
<1>8. CASE close
  BY <1>8 DEF close, Enabling
<1>9. CASE getTwin \/ _updateReportedProperties \/ send
  <2>1. PICK method : Called(method)
    BY <1>9 DEF getTwin, _updateReportedProperties, send
  <2>2. enabled' = enabled
    BY <1>1, <2>1, CalledFacts
  <2>3. UNCHANGED <<registered, listening, told>>
    BY <1>9 DEF getTwin, _updateReportedProperties, send
  <2>4. \/ retry(Operation("getTwin", NoFeature)) \/ retry(Operation("update", NoFeature))
        \/ retry(Operation("respond", NoFeature))
    BY <1>9 DEF getTwin, _updateReportedProperties, send
  <2>5. {"getTwin", "update", "respond"} \subseteq
          TransportCalls \ {"enable", "disable", "disconnect"}
    BY DEF TransportCalls
  <2>6. QED
    BY <1>2, <2>2, <2>3, <2>4, <2>5
<1>10. QED
  BY <1>1, <1>3, <1>4, <1>5, <1>6, <1>7, <1>8, <1>9, UserForms

\* Every step keeps it.
LEMMA EnablingStep ==
  ASSUME ClientTypeOK, ClientShapes, Enabling, [ClientNext]_clientVars
  PROVE  Enabling'
<1>1. Scalars /\ wire \in Seq(Handed) /\ \A w \in DOMAIN delayed : w \in Waits
  BY ScalarFacts
<1>2. ASSUME NEW op \in Handed, wire' = Append(wire, op),
             op.call \notin {"enable", "disable", "disconnect"},
             \A w \in DOMAIN delayed : w.op.call = "enable" => w \in DOMAIN delayed',
             UNCHANGED <<registered, listening, told, enabled>>
      PROVE  Enabling'
  <2>1. \A f : ~Enables(op, f) /\ ~Disables(op, f)
    BY <1>2 DEF Enables, Disables
  <2>2. Passes(op)
    BY <1>2 DEF Passes, Enables
  <2>3. QED
    BY <1>1, <1>2, <2>1, <2>2, EnablingAppended
<1>3. CASE User
  BY <1>3, UserEnabling
<1>4. CASE fromEnvironment \/ _fromEnvironmentEdge \/ _fromEnvironmentNormal
  <2>1. UNCHANGED <<registered, listening, told, enabled, delayed>>
    BY <1>4, EnvironmentFacts
  <2>2. CASE wire' = wire
    BY <2>1, <2>2, EnablingSame
  <2>3. ASSUME NEW op \in Handed, op.call = "setOptions", wire' = Append(wire, op)
        PROVE  Enabling'
    BY <1>2, <2>1, <2>3
  <2>4. QED
    BY <1>4, <2>2, <2>3, EnvironmentFacts
<1>5. CASE FileRead
  <2>1. UNCHANGED <<registered, listening, told, enabled>>
        /\ \A v \in DOMAIN delayed : v.op.call # "setOptions" => v \in DOMAIN delayed'
    BY <1>5, FileReadFacts
  <2>2. PICK op \in Handed : op.call = "setOptions" /\ wire' = Append(wire, op)
    BY <1>5, FileReadFacts
  <2>3. QED
    BY <1>2, <2>1, <2>2
<1>6. CASE MethodCalled
  <2>1. UNCHANGED <<registered, listening, told, enabled, delayed>>
    BY <1>6, MethodFacts
  <2>2. CASE wire' = wire
    BY <2>1, <2>2, EnablingSame
  <2>3. ASSUME NEW op \in Handed, op.call = "respond", wire' = Append(wire, op)
        PROVE  Enabling'
    BY <1>2, <2>1, <2>3
  <2>4. QED
    BY <1>6, <2>2, <2>3, MethodFacts
<1>7. CASE Executes
  <2>1. PICK op \in Handed : op = Head(wire) /\ op = wire[1] /\ 1 \in DOMAIN wire
    BY <1>1, <1>7, Popped, ExecutesFacts
  <2>2. wire # <<>> /\ wire' = Tail(wire) /\ UNCHANGED <<registered, listening, told>>
    BY <1>7, ExecutesFacts
  <2>3. CASE op.call \in Requests
    <3>1. UNCHANGED <<delayed, enabled>>
      BY <1>7, <2>1, <2>3, ExecutesFacts
    <3>2. \A f : ~Enables(op, f)
      BY <2>3 DEF Enables, Requests
    <3>3. QED
      BY <1>1, <2>1, <2>2, <3>1, <3>2, EnablingPopped
  <2>4. CASE op.call = "disconnect"
    <3>1. ~listening
      BY <2>1, <2>4 DEF Enabling
    <3>2. QED
      BY <2>2, <3>1 DEF Enabling
  <2>5. CASE op.call \notin Requests \cup {"disconnect"}
    <3>1. /\ delayed' = delayed
          /\ \A f : Enables(op, f) => f \in enabled'
          /\ \A f \in enabled : Disables(op, f) \/ f \in enabled'
      BY <1>7, <2>1, <2>5, ExecutesFacts
    <3>2. QED
      BY <1>1, <2>1, <2>2, <3>1, EnablingPopped
  <2>6. QED
    BY <2>3, <2>4, <2>5
<1>8. CASE Refuses
  <2>1. /\ wire # <<>> /\ wire' = Tail(wire)
        /\ UNCHANGED <<registered, listening, enabled>>
        /\ told \subseteq told' /\ DOMAIN delayed \subseteq DOMAIN delayed'
        /\ \A f : Enables(Head(wire), f) =>
             f \in told' \/ \E w \in DOMAIN delayed' : Enables(w.op, f)
    BY <1>8, RefusesFacts
  <2>2. registered' \ told' \subseteq registered \ told
    BY <2>1
  <2>3. \A f \in registered' \ told' :
           /\ Enables(Head(wire), f) =>
                f \in enabled' \/ \E v \in DOMAIN delayed' : Enables(v.op, f)
           /\ f \in enabled => Disables(Head(wire), f) \/ f \in enabled'
    BY <2>1
  <2>4. QED
    BY <1>1, <2>1, <2>2, <2>3, EnablingPopped
<1>9. CASE AttemptFails
  <2>1. /\ UNCHANGED <<registered, listening, wire, enabled>> /\ told \subseteq told'
        /\ \A w \in DOMAIN delayed : \A f : Enables(w.op, f) =>
             f \in told' \/ \E v \in DOMAIN delayed' : Enables(v.op, f)
    BY <1>9, FailsFacts
  <2>2. registered' \ told' \subseteq registered \ told
    BY <2>1
  <2>3. QED
    BY <2>1, <2>2, EnablingSame
<1>10. CASE AttemptsAgain
  <2>1. PICK w \in DOMAIN delayed : Attempt(w)
    BY <1>10 DEF AttemptsAgain
  <2>2. /\ UNCHANGED <<registered, listening, enabled, told>>
        /\ DOMAIN delayed \ {w} \subseteq DOMAIN delayed'
    BY <2>1, AttemptFacts
  <2>3. PICK op \in Handed :
          /\ op.call = w.op.call /\ op.feature = w.op.feature /\ op.call \notin Once
          /\ wire' = Append(wire, op)
    BY <2>1, AttemptFacts
  <2>4. op.call # "disconnect" /\ \A f : ~Disables(op, f)
    BY <2>3 DEF Once, Disables
  <2>5. Passes(op)
    BY <2>2, <2>3 DEF Passes, Enables
  <2>6. QED
    BY <1>1, <2>2, <2>3, <2>4, <2>5, EnablingAppended
<1>11. CASE Receives
  <2>1. /\ UNCHANGED <<registered, listening, wire, enabled>> /\ told \subseteq told'
        /\ DOMAIN delayed \subseteq DOMAIN delayed'
    BY <1>11, ReceivesFacts
  <2>2. registered' \ told' \subseteq registered \ told
    BY <2>1
  <2>3. QED
    BY <2>1, <2>2, EnablingSame
<1>12. CASE ConnectionLost
  <2>1. /\ UNCHANGED <<registered, listening>> /\ wire' \in Seq(Starts)
        /\ listening => \A f \in registered \ told' : Holds(wire', f)
    BY <1>12, LosesFacts
  <2>2. \A i \in DOMAIN wire' : wire'[i].call = "enable"
    BY <2>1 DEF Starts
  <2>3. \A f : Remains(f, wire')
    BY <2>2 DEF Remains, Disables
  <2>4. listening' => \A f \in registered' \ told' : Coming(f)'
    BY <2>1 DEF Coming, Holds
  <2>5. QED
    BY <2>2, <2>3, <2>4 DEF Enabling
<1>13. CASE _onDesiredPropertiesUpdate
  <2>1. UNCHANGED <<registered, listening, wire, delayed, enabled, told>>
    BY <1>13, PatchFacts
  <2>2. QED
    BY <2>1, EnablingSame
<1>14. CASE UNCHANGED clientVars
  <2>1. UNCHANGED <<registered, listening, wire, delayed, enabled, told>>
    BY <1>14 DEF clientVars, user, transportState
  <2>2. QED
    BY <2>1, EnablingSame
<1>15. QED
  BY <1>3, <1>4, <1>5, <1>6, <1>7, <1>8, <1>9, <1>10, <1>11, <1>12, <1>13, <1>14
     DEF ClientNext, System

-----------------------------------------------------------------------------
(* The twin.                                                               *)

\* The hub says nothing, and the cache is as it was.
LEMMA TwinSame ==
  ASSUME Twinned, UNCHANGED <<down, hub, cached, fresh>>,
         "twin" \in enabled => "twin" \in enabled', Getting' => Getting
  PROVE  Twinned'
<1>1. Chain'
  BY DEF Twinned, Chain
<1>2. Synced => Synced'
  BY DEF Synced
<1>3. Desired'
  BY <1>2 DEF Twinned, Desired
<1>4. Reported'
  BY DEF Twinned, Reported, Acknowledged
<1>5. QED
  BY <1>1, <1>3, <1>4 DEF Twinned

\* The cache was cleared.
LEMMA TwinCleared ==
  ASSUME Twinned, UNCHANGED <<down, hub, enabled>>, fresh' = "no",
         cached' = [desired |-> Absent, reported |-> Absent]
  PROVE  Twinned'
<1>1. Chain'
  BY DEF Twinned, Chain
<1>2. Desired'
  BY DEF Desired
<1>3. Reported'
  BY DEF Twinned, Reported, Acknowledged
<1>4. QED
  BY <1>1, <1>2, <1>3 DEF Twinned

\* The connection has ended: no get is under way, or the cache is mixed.
LEMMA TwinEmptied ==
  ASSUME Twinned, down' = <<>>, UNCHANGED cached, hub'.reported = hub.reported,
         fresh' = "mixed" \/ (fresh' = "no" /\ ~Getting')
  PROVE  Twinned'
<1>1. Chain'
  BY DEF Chain
<1>2. Desired'
  BY DEF Desired
<1>3. Reported'
  BY DEF Twinned, Reported
<1>4. QED
  BY <1>1, <1>2, <1>3 DEF Twinned

\* The hub has sent a message more.
LEMMA TwinAppended ==
  ASSUME Twinned, down \in Seq(Messages), NEW m \in Messages, down' = Append(down, m),
         UNCHANGED <<cached, fresh, enabled>>, Getting' => Getting,
         m.telling => "twin" \in enabled /\ hub'.desired = m.doc.desired,
         "twin" \in enabled => m.telling /\ (m.type = "patch" \/ m.doc.desired = hub.desired),
         \/ m.type # "ack" /\ hub'.reported = hub.reported /\ m.doc.reported = hub.reported
         \/ m.type = "ack" /\ hub'.reported # Absent
  PROVE  Twinned'
<1> DEFINE n == Len(down)
<1>1. /\ n \in Nat /\ DOMAIN down = 1..n /\ DOMAIN down' = 1..(n + 1)
      /\ \A i \in DOMAIN down : i \in DOMAIN down' /\ down'[i] = down[i]
      /\ down'[n + 1] = m /\ Len(down') = n + 1 /\ down' # <<>>
  BY Pushed
<1>2. down # <<>> => n \in DOMAIN down /\ 1 \in DOMAIN down
  OBVIOUS
<1>3. down = <<>> => n = 0
  OBVIOUS
<1>4. Chain'
  <2>1. ASSUME NEW i \in DOMAIN down', i + 1 \in DOMAIN down'
        PROVE  Follows(down'[i], down'[i + 1])
    <3>1. CASE i + 1 \in DOMAIN down
      <4>1. i \in DOMAIN down
        BY <1>1, <2>1, <3>1
      <4>2. Follows(down[i], down[i + 1])
        BY <3>1, <4>1 DEF Twinned, Chain
      <4>3. QED
        BY <1>1, <3>1, <4>1, <4>2
    <3>2. CASE i + 1 \notin DOMAIN down
      <4>1. i = n /\ n \in DOMAIN down
        BY <1>1, <2>1, <3>2
      <4>2. PICK x : x = down[n]
        OBVIOUS
      <4>3. x.telling => "twin" \in enabled /\ hub.desired = x.doc.desired
        BY <4>1, <4>2 DEF Twinned, Chain
      <4>4. Follows(x, m)
        BY <4>3 DEF Follows
      <4>5. QED
        BY <1>1, <4>1, <4>2, <4>4
    <3>3. QED
      BY <3>1, <3>2
  <2>2. m.telling => "twin" \in enabled' /\ hub'.desired = m.doc.desired
    OBVIOUS
  <2>3. QED
    BY <1>1, <2>1, <2>2 DEF Chain
<1>5. Synced => Synced'
  <2>1. CASE down = <<>>
    <3>1. down'[1] = m
      BY <1>1, <1>3, <2>1
    <3>2. Synced => "twin" \in enabled /\ cached.desired = hub.desired
      BY <2>1 DEF Synced
    <3>3. Synced => m.telling /\ (m.type = "patch" \/ m.doc.desired = cached'.desired)
      BY <3>2
    <3>4. QED
      BY <1>1, <3>1, <3>3 DEF Synced
  <2>2. CASE down # <<>>
    <3>1. down'[1] = down[1]
      BY <1>1, <1>2, <2>2
    <3>2. QED
      BY <1>1, <2>2, <3>1 DEF Synced
  <2>3. QED
    BY <2>1, <2>2
<1>6. Desired'
  BY <1>5 DEF Twinned, Desired
<1>7. \A i : Acknowledged(i) => Acknowledged(i)'
  BY <1>1 DEF Acknowledged
<1>8. CASE m.type = "ack" /\ hub'.reported # Absent
  <2>1. \A i \in 0..n : Acknowledged(i)'
    <3>1. SUFFICES ASSUME NEW i \in 0..n PROVE Acknowledged(i)'
      OBVIOUS
    <3>2. n + 1 \in DOMAIN down' /\ i < n + 1 /\ down'[n + 1].type = "ack"
      BY <1>1, <1>8
    <3>3. QED
      BY <3>2 DEF Acknowledged
  <2>2. 0 \in 0..n
    BY <1>1
  <2>3. ASSUME NEW i \in DOMAIN down', down'[i].type = "get"
        PROVE  Acknowledged(i)'
    <3>1. i # n + 1
      BY <1>1, <1>8, <2>3
    <3>2. i \in 0..n
      BY <1>1, <3>1
    <3>3. QED
      BY <2>1, <3>2
  <2>4. Reported'
    BY <1>8, <2>1, <2>2, <2>3 DEF Reported
  <2>5. QED
    BY <1>4, <1>6, <2>4 DEF Twinned
<1>9. CASE m.type # "ack" /\ hub'.reported = hub.reported /\ m.doc.reported = hub.reported
  <2>1. ASSUME NEW i \in DOMAIN down'
        PROVE  /\ hub'.reported = Absent =>
                    down'[i].type # "ack" /\ down'[i].doc.reported = Absent
               /\ down'[i].type = "get" /\ down'[i].doc.reported # hub'.reported =>
                    Acknowledged(i)'
    <3>1. CASE i \in DOMAIN down
      BY <1>1, <1>7, <1>9, <3>1 DEF Twinned, Reported
    <3>2. CASE i \notin DOMAIN down
      <4>1. down'[i] = m
        BY <1>1, <3>2
      <4>2. QED
        BY <1>9, <4>1
    <3>3. QED
      BY <3>1, <3>2
  <2>2. fresh' = "yes" /\ cached'.reported # hub'.reported => Acknowledged(0)'
    BY <1>7, <1>9 DEF Twinned, Reported
  <2>3. hub'.reported = Absent => cached'.reported = Absent
    BY <1>9 DEF Twinned, Reported
  <2>4. Reported'
    BY <2>1, <2>2, <2>3 DEF Reported
  <2>5. QED
    BY <1>4, <1>6, <2>4 DEF Twinned
<1>10. QED
  BY <1>8, <1>9

\* The first message of the hub has arrived: what is said of the others.
LEMMA MessagePopped ==
  ASSUME Twinned, down \in Seq(Messages), down # <<>>, down' = Tail(down),
         UNCHANGED <<hub, enabled>>
  PROVE  /\ down[1] \in Messages /\ 1 \in DOMAIN down
         /\ Chain'
         /\ down[1].telling /\ cached'.desired = down[1].doc.desired => Synced'
         /\ \A i \in DOMAIN down' : i + 1 \in DOMAIN down /\ down'[i] = down[i + 1]
         /\ \A i \in DOMAIN down' : Acknowledged(i + 1) => Acknowledged(i)'
         /\ down[1].type # "ack" /\ Acknowledged(0) => Acknowledged(0)'
         /\ Acknowledged(1) => Acknowledged(0)'
<1> DEFINE n == Len(down)
<1>1. /\ n \in Nat \ {0} /\ DOMAIN down = 1..n /\ 1 \in DOMAIN down
      /\ DOMAIN down' = 1..(n - 1) /\ Len(down') = n - 1
      /\ \A i \in DOMAIN down' : i + 1 \in DOMAIN down /\ down'[i] = down[i + 1]
  BY Popped
<1>2. \A i \in DOMAIN down : i # 1 => i - 1 \in DOMAIN down' /\ down'[i - 1] = down[i]
  BY Left
<1>3. /\ \A i \in DOMAIN down : i + 1 \in DOMAIN down => Follows(down[i], down[i + 1])
      /\ down[n].telling => "twin" \in enabled /\ hub.desired = down[n].doc.desired
  BY DEF Twinned, Chain
<1>4. down' = <<>> => n = 1
  <2>1. Len(<<>>) = 0
    OBVIOUS
  <2>2. down' = <<>> => Len(down') = 0
    BY <2>1
  <2>3. QED
    BY <1>1, <2>2
<1>5. down' # <<>> => n - 1 \in DOMAIN down' /\ 1 \in DOMAIN down' /\ 2 \in DOMAIN down
                      /\ down'[n - 1] = down[n] /\ down'[1] = down[2]
  <2>1. SUFFICES ASSUME down' # <<>>
                 PROVE  n - 1 \in DOMAIN down' /\ 1 \in DOMAIN down' /\ 2 \in DOMAIN down
                        /\ down'[n - 1] = down[n] /\ down'[1] = down[2]
    OBVIOUS
  <2>2. down' \in Seq(Messages)
    BY Popped
  <2>3. Len(down') # 0
    BY <2>1, <2>2
  <2>4. n - 1 \in DOMAIN down' /\ 1 \in DOMAIN down' /\ (n - 1) + 1 = n /\ 1 + 1 = 2
    BY <1>1, <2>3
  <2>5. QED
    BY <1>1, <2>4
<1>6. Chain'
  <2>1. ASSUME NEW i \in DOMAIN down', i + 1 \in DOMAIN down'
        PROVE  Follows(down'[i], down'[i + 1])
    <3>1. i + 1 \in DOMAIN down /\ (i + 1) + 1 \in DOMAIN down
          /\ down'[i] = down[i + 1] /\ down'[i + 1] = down[(i + 1) + 1]
      BY <1>1, <2>1
    <3>2. QED
      BY <1>3, <3>1
  <2>2. down' # <<>> /\ down'[Len(down')].telling =>
          "twin" \in enabled' /\ hub'.desired = down'[Len(down')].doc.desired
    BY <1>1, <1>3, <1>5
  <2>3. QED
    BY <2>1, <2>2 DEF Chain
<1>7. ASSUME down[1].telling, cached'.desired = down[1].doc.desired
      PROVE  Synced'
  <2>1. CASE down' = <<>>
    BY <1>3, <1>4, <1>7, <2>1 DEF Synced
  <2>2. CASE down' # <<>>
    <3>1. Follows(down[1], down[2])
      <4>1. 1 + 1 = 2 /\ 1 \in DOMAIN down /\ 2 \in DOMAIN down
        BY <1>1, <1>5, <2>2
      <4>2. QED
        BY <1>3, <4>1
    <3>2. down[2].telling /\ (down[2].type = "patch" \/ down[2].doc.desired = down[1].doc.desired)
      BY <1>7, <3>1 DEF Follows
    <3>3. QED
      BY <1>5, <1>7, <2>2, <3>2 DEF Synced
  <2>3. QED
    BY <2>1, <2>2
<1>8. ASSUME NEW i \in Nat, Acknowledged(i + 1)
      PROVE  Acknowledged(i)'
  <2>1. PICK j \in DOMAIN down : i + 1 < j /\ down[j].type = "ack"
    BY <1>8 DEF Acknowledged
  <2>2. j # 1 /\ i < j - 1
    BY <1>1, <2>1
  <2>3. QED
    BY <1>2, <2>1, <2>2 DEF Acknowledged
<1>9. ASSUME down[1].type # "ack", Acknowledged(0)
      PROVE  Acknowledged(0)'
  <2>1. PICK j \in DOMAIN down : 0 < j /\ down[j].type = "ack"
    BY <1>9 DEF Acknowledged
  <2>2. j # 1 /\ 0 < j - 1
    BY <1>1, <1>9, <2>1
  <2>3. QED
    BY <1>2, <2>1, <2>2 DEF Acknowledged
<1>10. \A i \in DOMAIN down' : i \in Nat
  BY <1>1
<1>11. 0 \in Nat /\ 0 + 1 = 1
  OBVIOUS
<1>12. Acknowledged(1) => Acknowledged(0)'
  BY <1>8, <1>11
<1>13. down[1] \in Messages
  BY <1>1
<1>14. QED
  BY <1>1, <1>6, <1>7, <1>8, <1>9, <1>10, <1>12, <1>13

\* The twin has received a message, or an error.
LEMMA TwinReceived ==
  ASSUME ClientTypeOK, ClientShapes, Twinned, Receives
  PROVE  Twinned'
<1>1. Scalars /\ down \in Seq(Messages)
  BY ScalarFacts
<1>2. /\ down # <<>> /\ down' = Tail(down)
      /\ UNCHANGED <<wire, hub, enabled>>
      /\ \/ /\ cached' = _mergePatch(cached, down[1])
            /\ down[1].type # "get" => fresh' = fresh
            /\ down[1].type = "get" /\ ~down[1].telling => fresh' = "mixed"
            /\ down[1].type = "get" /\ down[1].telling =>
                 fresh' = IF fresh = "no" THEN "yes" ELSE fresh
         \/ /\ cached' = cached /\ down[1].type # "patch"
            /\ fresh' = IF down[1].type = "ack" /\ fresh = "yes" THEN "mixed" ELSE fresh
  BY ReceivesFacts
<1>3. /\ down[1] \in Messages /\ 1 \in DOMAIN down
      /\ Chain'
      /\ down[1].telling /\ cached'.desired = down[1].doc.desired => Synced'
      /\ \A i \in DOMAIN down' : i + 1 \in DOMAIN down /\ down'[i] = down[i + 1]
      /\ \A i \in DOMAIN down' : Acknowledged(i + 1) => Acknowledged(i)'
      /\ down[1].type # "ack" /\ Acknowledged(0) => Acknowledged(0)'
      /\ Acknowledged(1) => Acknowledged(0)'
  BY <1>1, <1>2, MessagePopped
<1>4. PICK m \in Messages : m = down[1]
  BY <1>3
<1>5. PICK t \in BOOLEAN : t <=> m.telling
  BY MessageFacts
<1>6. m.type \in {"get", "ack", "patch"} /\ (m.type = "patch" => t)
      /\ m.doc \in Twins
  BY <1>5, MessageFacts
<1>7. fresh \in {"no", "yes", "mixed"} /\ cached \in Twins /\ hub \in Twins
  BY <1>1 DEF Scalars
<1>8. Getting' => Getting
  BY <1>2, <1>3 DEF Getting
<1>9. m.type = "get" => Getting
  BY <1>3, <1>4 DEF Getting
<1>10. Synced => t /\ (m.type = "patch" \/ m.doc.desired = cached.desired)
  BY <1>2, <1>4, <1>5 DEF Synced
<1>11. t /\ cached'.desired = m.doc.desired => Synced'
  BY <1>3, <1>4, <1>5
<1>12. /\ fresh = "yes" => Synced
       /\ fresh = "no" /\ Getting => cached.desired = Absent \/ Synced
  BY DEF Twinned, Desired
<1>13. /\ hub.reported = Absent =>
            cached.reported = Absent /\ m.type # "ack" /\ m.doc.reported = Absent
       /\ fresh = "yes" /\ cached.reported # hub.reported => Acknowledged(0)
       /\ m.type = "get" /\ m.doc.reported # hub.reported => Acknowledged(1)
  BY <1>3, <1>4 DEF Twinned, Reported
<1>14. /\ hub'.reported = Absent =>
            \A i \in DOMAIN down' : down'[i].type # "ack" /\ down'[i].doc.reported = Absent
       /\ \A i \in DOMAIN down' :
            down'[i].type = "get" /\ down'[i].doc.reported # hub'.reported =>
              Acknowledged(i)'
  BY <1>2, <1>3 DEF Twinned, Reported
<1>15. SUFFICES /\ fresh' = "yes" => Synced'
                /\ fresh' = "no" /\ Getting' => cached'.desired = Absent \/ Synced'
                /\ hub.reported = Absent => cached'.reported = Absent
                /\ fresh' = "yes" /\ cached'.reported # hub.reported => Acknowledged(0)'
  BY <1>2, <1>3, <1>14 DEF Twinned, Desired, Reported
<1>16. CASE /\ cached' = _mergePatch(cached, m)
            /\ m.type # "get" => fresh' = fresh
            /\ m.type = "get" /\ ~t => fresh' = "mixed"
            /\ m.type = "get" /\ t => fresh' = IF fresh = "no" THEN "yes" ELSE fresh
  <2>1. CASE m.type = "patch"
    <3>1. cached'.desired = m.doc.desired /\ cached'.reported = cached.reported
          /\ fresh' = fresh
      BY <1>7, <1>16, <2>1, MergeFacts
    <3>2. Synced'
      BY <1>6, <1>11, <2>1, <3>1
    <3>3. m.type # "ack"
      BY <2>1
    <3>4. QED
      BY <1>3, <1>4, <1>13, <3>1, <3>2, <3>3
  <2>2. CASE m.type = "ack"
    <3>1. cached'.desired = cached.desired /\ cached'.reported = 1 /\ fresh' = fresh
      BY <1>7, <1>16, <2>2, MergeFacts
    <3>2. Synced => Synced'
      BY <1>10, <1>11, <2>2, <3>1
    <3>3. hub.reported = 1
      BY <1>7, <1>13, <2>2 DEF Twins, Absent
    <3>4. QED
      BY <1>8, <1>12, <3>1, <3>2, <3>3 DEF Absent
  <2>3. CASE m.type = "get" /\ ~t
    <3>1. fresh' = "mixed"
          /\ cached'.reported = IF m.doc.reported = Absent THEN cached.reported
                                ELSE m.doc.reported
      BY <1>7, <1>16, <2>3, MergeFacts
    <3>2. QED
      BY <1>13, <3>1
  <2>4. CASE m.type = "get" /\ t
    <3>1. /\ cached'.desired = IF m.doc.desired = Absent THEN cached.desired
                               ELSE m.doc.desired
          /\ cached'.reported = IF m.doc.reported = Absent THEN cached.reported
                                ELSE m.doc.reported
          /\ fresh' = IF fresh = "no" THEN "yes" ELSE fresh
      BY <1>7, <1>16, <2>4, MergeFacts
    <3>2. fresh \in {"no", "yes"} => Synced'
      <4>1. Synced => m.doc.desired = cached.desired
        BY <1>10, <2>4
      <4>2. fresh \in {"no", "yes"} => cached.desired = Absent \/ Synced
        BY <1>9, <1>12, <2>4
      <4>3. fresh \in {"no", "yes"} => cached'.desired = m.doc.desired
        BY <3>1, <4>1, <4>2
      <4>4. QED
        BY <1>11, <2>4, <4>3
    <3>3. cached'.reported # hub.reported => Acknowledged(0)'
      <4>1. CASE m.doc.reported # hub.reported
        BY <1>3, <1>13, <2>4, <4>1
      <4>2. CASE m.doc.reported = hub.reported
        BY <1>13, <3>1, <4>2
      <4>3. QED
        BY <4>1, <4>2
    <3>4. hub.reported = Absent => cached'.reported = Absent
      BY <1>13, <3>1
    <3>5. fresh' = "yes" => fresh \in {"no", "yes"}
      BY <1>7, <3>1
    <3>6. fresh' # "no"
      BY <3>1
    <3>7. QED
      BY <3>2, <3>3, <3>4, <3>5, <3>6
  <2>5. QED
    BY <1>6, <2>1, <2>2, <2>3, <2>4
<1>17. CASE /\ cached' = cached /\ m.type # "patch"
            /\ fresh' = IF m.type = "ack" /\ fresh = "yes" THEN "mixed" ELSE fresh
  <2>1. Synced => Synced'
    BY <1>10, <1>11, <1>17
  <2>2. fresh' = "yes" => fresh = "yes" /\ m.type = "get"
    BY <1>6, <1>17
  <2>3. fresh' = "no" => fresh = "no"
    BY <1>17
  <2>4. QED
    BY <1>3, <1>4, <1>8, <1>12, <1>13, <1>17, <2>1, <2>2, <2>3
<1>18. QED
  BY <1>2, <1>4, <1>5, <1>16, <1>17

\* A get is asked for when one is handed, and no other call asks for one.
LEMMA GettingAppended ==
  ASSUME wire \in Seq(Handed), NEW op \in Handed, wire' = Append(wire, op),
         op.call # "getTwin", UNCHANGED down
  PROVE  Getting' => Getting
<1>1. /\ DOMAIN wire' = 1..(Len(wire) + 1) /\ DOMAIN wire = 1..Len(wire) /\ Len(wire) \in Nat
      /\ \A i \in DOMAIN wire : wire'[i] = wire[i]
      /\ wire'[Len(wire) + 1] = op
  BY Pushed
<1>2. \A i \in DOMAIN wire' : i \in DOMAIN wire \/ i = Len(wire) + 1
  BY <1>1
<1>3. QED
  BY <1>1, <1>2 DEF Getting

\* One fewer is asked for at most when the first operation is gone.
LEMMA GettingPopped ==
  ASSUME wire \in Seq(Handed), wire # <<>>, wire' = Tail(wire), UNCHANGED down
  PROVE  Getting' => Getting
BY Popped DEF Getting

\* A call of the user keeps what was said of the twin.
LEMMA UserTwinned ==
  ASSUME ClientTypeOK, ClientShapes, Twinned, User
  PROVE  Twinned'
<1>1. Scalars /\ wire \in Seq(Handed)
  BY ScalarFacts
<1>2. ASSUME NEW op \in Handed, op.call # "getTwin", wire' = Append(wire, op),
             UNCHANGED <<down, hub, cached, fresh, enabled>>
      PROVE  Twinned'
  BY <1>1, <1>2, GettingAppended, TwinSame
<1>3. ASSUME NEW call \in TransportCalls \ {"enable", "disable", "getTwin"},
             retry(Operation(call, NoFeature)),
             UNCHANGED <<down, hub, cached, fresh, enabled>>
      PROVE  Twinned'
  <2>1. PICK op : op = Operation(call, NoFeature)
    OBVIOUS
  <2>2. op \in Handed /\ op.call = call
    BY <1>1, <2>1, OperationFacts
  <2>3. wire' = Append(wire, op)
    BY <1>3, <2>1 DEF retry
  <2>4. QED
    BY <1>2, <1>3, <2>2, <2>3
<1>4. ASSUME NEW call \in {"connect", "updateSharedAccessSignature", "send"}, Plainly(call)
      PROVE  Twinned'
  <2>1. PICK method : Simple(method, call)
    BY <1>4 DEF Plainly
  <2>2. UNCHANGED <<down, hub, cached, fresh, enabled>> /\ retry(Operation(call, NoFeature))
    BY <1>1, <2>1, CalledFacts DEF Simple
  <2>3. call \in TransportCalls \ {"enable", "disable", "getTwin"}
    BY DEF TransportCalls
  <2>4. QED
    BY <1>3, <2>2, <2>3
<1>5. CASE setOptions
  <2>1. UNCHANGED <<down, hub, cached, fresh, enabled>>
    BY <1>1, <1>5, CalledFacts DEF setOptions
  <2>2. CASE retry(Operation("setOptions", NoFeature))
    BY <1>3, <2>1, <2>2 DEF TransportCalls
  <2>3. CASE wire' = wire
    <3>1. Getting' => Getting
      BY <2>1, <2>3 DEF Getting
    <3>2. QED
      BY <2>1, <3>1, TwinSame
  <2>4. QED
    BY <1>5, <2>2, <2>3 DEF setOptions
<1>6. CASE setRetryPolicy
  <2>1. UNCHANGED <<down, hub, cached, fresh, enabled, wire>>
    BY <1>1, <1>6, CalledFacts DEF setRetryPolicy
  <2>2. Getting' => Getting
    BY <2>1 DEF Getting
  <2>3. QED
    BY <2>1, <2>2, TwinSame
<1>7. ASSUME NEW f, Enabled(f) \/ Disabled(f)
      PROVE  Twinned'
  <2>1. PICK method : Called(method)
    BY <1>7 DEF Enabled, Enable, Disabled, Disable
  <2>2. UNCHANGED <<down, hub, cached, fresh, enabled>>
    BY <1>1, <1>7, <2>1, CalledFacts DEF Enabled, Enable, Disabled, Disable
  <2>3. f \in Features /\ (Disabled(f) => f # "twin")
    BY <1>7 DEF Enabled, Disabled
  <2>4. PICK call \in FeatureCalls :
          /\ call = "disable" => f # "twin"
          /\ retry(Operation(call, f))
    BY <1>7, <2>3 DEF Enabled, Enable, Disabled, Disable, FeatureCalls
  <2>5. PICK op : op = Operation(call, f)
    OBVIOUS
  <2>6. op \in Handed /\ op.call = call /\ call # "getTwin"
    BY <1>1, <2>3, <2>4, <2>5, OperationFacts DEF TransportCalls, FeatureCalls
  <2>7. wire' = Append(wire, op)
    BY <2>4, <2>5 DEF retry
  <2>8. QED
    BY <1>2, <2>2, <2>6, <2>7
<1>8. CASE close \/ _updateReportedProperties \/ send
  <2>1. PICK method : Called(method)
    BY <1>8 DEF close, _updateReportedProperties, send
  <2>2. UNCHANGED <<down, hub, cached, fresh, enabled>>
    BY <1>1, <1>8, <2>1, CalledFacts DEF close, _updateReportedProperties, send
  <2>3. \/ retry(Operation("disconnect", NoFeature)) \/ retry(Operation("update", NoFeature))
        \/ retry(Operation("respond", NoFeature))
    BY <1>8 DEF close, _updateReportedProperties, send
  <2>4. {"disconnect", "update", "respond"} \subseteq
          TransportCalls \ {"enable", "disable", "getTwin"}
    BY DEF TransportCalls
  <2>5. QED
    BY <1>3, <2>2, <2>3, <2>4
<1>9. CASE getTwin
  <2>1. UNCHANGED <<down, hub, enabled>>
    BY <1>1, <1>9, CalledFacts DEF getTwin
  <2>2. fresh' = "no" /\ cached' = [desired |-> Absent, reported |-> Absent]
    BY <1>9 DEF getTwin, _clearCachedProperties
  <2>3. QED
    BY <2>1, <2>2, TwinCleared
<1>10. QED
  BY <1>1, <1>4, <1>5, <1>6, <1>7, <1>8, <1>9, UserForms

\* What the hub is asked keeps it.
LEMMA RequestTwinned ==
  ASSUME ClientTypeOK, ClientShapes, Twinned, Executes, Head(wire).call \in Requests
  PROVE  Twinned'
<1>1. Scalars /\ wire \in Seq(Handed) /\ down \in Seq(Messages)
  BY ScalarFacts
<1>2. PICK op \in Handed : op = Head(wire) /\ op = wire[1] /\ 1 \in DOMAIN wire
  BY <1>1, Popped, ExecutesFacts
<1>3. /\ wire # <<>> /\ wire' = Tail(wire) /\ UNCHANGED <<cached, fresh, enabled>>
      /\ op.call # "update" => hub' = hub
      /\ op.call = "update" => hub' = [hub EXCEPT !.reported = 1]
      /\ down' = Append(down,
           [type |-> IF op.call = "update" THEN "ack" ELSE "get",
            op |-> op, doc |-> hub, telling |-> "twin" \in enabled])
  BY <1>2, ExecutesFacts
<1>4. PICK type \in {"get", "ack"} : type = IF op.call = "update" THEN "ack" ELSE "get"
  OBVIOUS
<1>5. PICK m \in Messages :
        m = [type |-> type, op |-> op, doc |-> hub, telling |-> "twin" \in enabled]
  BY <1>1, AnswerType
<1>6. down' = Append(down, m) /\ m.type = type /\ m.doc = hub
      /\ m.telling = ("twin" \in enabled)
  BY <1>3, <1>4, <1>5
<1>7. m.telling <=> "twin" \in enabled
  BY <1>6
<1>8. hub'.desired = hub.desired
      /\ (type = "get" => hub'.reported = hub.reported)
      /\ (type = "ack" => hub'.reported = 1)
  <2>1. hub \in [desired : 0..2, reported : 0..1]
    BY <1>1 DEF Scalars, Twins
  <2>2. QED
    BY <1>3, <1>4, <2>1
<1>9. Getting' => Getting
  <2>1. /\ DOMAIN down' = 1..(Len(down) + 1) /\ DOMAIN down = 1..Len(down) /\ Len(down) \in Nat
        /\ \A i \in DOMAIN down : down'[i] = down[i]
        /\ down'[Len(down) + 1] = m
    BY <1>1, <1>6, Pushed
  <2>2. \A i \in DOMAIN down' : i \in DOMAIN down \/ i = Len(down) + 1
    BY <2>1
  <2>3. \A i \in DOMAIN wire' : i + 1 \in DOMAIN wire /\ wire'[i] = wire[i + 1]
    BY <1>1, <1>3, Popped
  <2>4. m.type = "get" => op.call = "getTwin"
    BY <1>2, <1>4, <1>6 DEF Requests
  <2>5. op.call = "getTwin" => Getting
    BY <1>2 DEF Getting
  <2>6. ASSUME NEW i \in DOMAIN down', down'[i].type = "get" PROVE Getting
    <3>1. CASE i \in DOMAIN down
      <4>1. down[i].type = "get"
        BY <2>1, <2>6, <3>1
      <4>2. QED
        BY <3>1, <4>1 DEF Getting
    <3>2. CASE i = Len(down) + 1
      <4>1. down'[i] = m
        BY <2>1, <3>2
      <4>2. m.type = "get"
        BY <2>6, <4>1, Zenon
      <4>3. QED
        BY <2>4, <2>5, <4>2
    <3>3. QED
      BY <2>2, <3>1, <3>2
  <2>7. ASSUME NEW i \in DOMAIN wire', wire'[i].call = "getTwin" PROVE Getting
    BY <2>3, <2>7 DEF Getting
  <2>8. QED
    BY <2>6, <2>7 DEF Getting
<1>10. \/ m.type # "ack" /\ hub'.reported = hub.reported /\ m.doc.reported = hub.reported
       \/ m.type = "ack" /\ hub'.reported # Absent
  BY <1>6, <1>8 DEF Absent
<1>11. m.telling => "twin" \in enabled /\ hub'.desired = m.doc.desired
  BY <1>6, <1>7, <1>8
<1>12. "twin" \in enabled => m.telling /\ (m.type = "patch" \/ m.doc.desired = hub.desired)
  BY <1>6, <1>7
<1>13. QED
  BY <1>1, <1>3, <1>6, <1>9, <1>10, <1>11, <1>12, TwinAppended

\* Every step keeps what was said of the twin.
LEMMA TwinStep ==
  ASSUME ClientTypeOK, ClientShapes, Twinned, [ClientNext]_clientVars
  PROVE  Twinned'
<1>1. Scalars /\ wire \in Seq(Handed) /\ down \in Seq(Messages)
      /\ \A w \in DOMAIN delayed : w \in Waits
  BY ScalarFacts
<1>2. ASSUME NEW op \in Handed, op.call # "getTwin", wire' = Append(wire, op),
             UNCHANGED <<down, hub, cached, fresh, enabled>>
      PROVE  Twinned'
  BY <1>1, <1>2, GettingAppended, TwinSame
<1>3. ASSUME wire' = wire, UNCHANGED <<down, hub, cached, fresh, enabled>>
      PROVE  Twinned'
  <2>1. Getting' => Getting
    BY <1>3 DEF Getting
  <2>2. QED
    BY <1>3, <2>1, TwinSame
<1>4. CASE User
  BY <1>4, UserTwinned
<1>5. CASE fromEnvironment \/ _fromEnvironmentEdge \/ _fromEnvironmentNormal
  <2>1. UNCHANGED <<down, hub, cached, fresh, enabled>>
        /\ (wire' = wire \/ \E op \in Handed : op.call = "setOptions" /\ wire' = Append(wire, op))
    BY <1>5, EnvironmentFacts
  <2>2. QED
    BY <1>2, <1>3, <2>1
<1>6. CASE FileRead
  <2>1. UNCHANGED <<down, hub, cached, fresh, enabled>>
        /\ \E op \in Handed : op.call = "setOptions" /\ wire' = Append(wire, op)
    BY <1>6, FileReadFacts
  <2>2. QED
    BY <1>2, <2>1
<1>7. CASE MethodCalled
  <2>1. UNCHANGED <<down, hub, cached, fresh, enabled>>
        /\ (wire' = wire \/ \E op \in Handed : op.call = "respond" /\ wire' = Append(wire, op))
    BY <1>7, MethodFacts
  <2>2. QED
    BY <1>2, <1>3, <2>1
<1>8. CASE Executes
  <2>1. PICK call : call = Head(wire).call
    OBVIOUS
  <2>2. CASE call \in Requests
    BY <1>8, <2>1, <2>2, RequestTwinned
  <2>3. CASE call = "disconnect"
    <3>1. down' = <<>> /\ fresh' = "mixed" /\ cached' = cached
      BY <1>8, <2>1, <2>3, ExecutesFacts
    <3>2. hub' = hub
      BY <1>8, <2>1, <2>3, ExecutesFacts
    <3>3. QED
      BY <3>1, <3>2, TwinEmptied
  <2>4. CASE call \notin Requests \cup {"disconnect"}
    <3>1. /\ UNCHANGED <<down, cached, fresh>> /\ wire # <<>> /\ wire' = Tail(wire)
          /\ "twin" \in enabled => "twin" \in enabled'
      BY <1>8, <2>1, <2>4, ExecutesFacts
    <3>2. call # "update"
      BY <2>4 DEF Requests
    <3>3. hub' = hub
      BY <1>8, <2>1, <3>2, ExecutesFacts
    <3>4. Getting' => Getting
      BY <1>1, <3>1, GettingPopped
    <3>5. QED
      BY <3>1, <3>3, <3>4, TwinSame
  <2>5. QED
    BY <2>2, <2>3, <2>4
<1>9. CASE Refuses
  <2>1. /\ UNCHANGED <<down, hub, cached, fresh, enabled>>
        /\ wire # <<>> /\ wire' = Tail(wire)
    BY <1>9, RefusesFacts
  <2>2. Getting' => Getting
    BY <1>1, <2>1, GettingPopped
  <2>3. QED
    BY <2>1, <2>2, TwinSame
<1>10. CASE AttemptFails
  <2>1. wire' = wire /\ UNCHANGED <<down, hub, cached, fresh, enabled>>
    BY <1>10, FailsFacts
  <2>2. QED
    BY <1>3, <2>1
<1>11. CASE AttemptsAgain
  <2>1. PICK w \in DOMAIN delayed : Attempt(w)
    BY <1>11 DEF AttemptsAgain
  <2>2. UNCHANGED <<down, hub, enabled>>
    BY <2>1, AttemptFacts
  <2>3. CASE w.op.call = "getTwin"
    <3>1. cached' = [desired |-> Absent, reported |-> Absent] /\ fresh' = "no"
      BY <2>1, <2>3, AttemptFacts
    <3>2. QED
      BY <2>2, <3>1, TwinCleared
  <2>4. CASE w.op.call # "getTwin"
    <3>1. UNCHANGED <<cached, fresh>>
      BY <2>1, <2>4, AttemptFacts
    <3>2. PICK op \in Handed : op.call = w.op.call /\ wire' = Append(wire, op)
      BY <2>1, AttemptFacts
    <3>3. QED
      BY <1>2, <2>2, <2>4, <3>1, <3>2
  <2>5. QED
    BY <2>3, <2>4
<1>12. CASE Receives
  BY <1>12, TwinReceived
<1>13. CASE ConnectionLost
  <2>1. down' = <<>> /\ fresh' = "no" /\ UNCHANGED <<hub, cached>> /\ wire' \in Seq(Starts)
    BY <1>13, LosesFacts
  <2>2. \A i \in DOMAIN wire' : wire'[i].call = "enable"
    BY <2>1 DEF Starts
  <2>3. DOMAIN down' = {}
    BY <2>1
  <2>4. ~Getting'
    BY <2>2, <2>3 DEF Getting
  <2>5. QED
    BY <2>1, <2>4, TwinEmptied
<1>14. CASE _onDesiredPropertiesUpdate
  <2>1. /\ UNCHANGED <<wire, cached, fresh, enabled>> /\ hub'.reported = hub.reported
        /\ "twin" \notin enabled => down' = down
        /\ "twin" \in enabled => \E m \in Messages :
             /\ m.type = "patch" /\ m.telling /\ m.doc = hub'
             /\ down' = Append(down, m)
    BY <1>14, PatchFacts
  <2>2. CASE "twin" \in enabled
    <3>1. PICK m \in Messages :
            /\ m.type = "patch" /\ m.telling /\ m.doc = hub'
            /\ down' = Append(down, m)
      BY <2>1, <2>2
    <3>2. /\ DOMAIN down' = 1..(Len(down) + 1) /\ DOMAIN down = 1..Len(down)
          /\ Len(down) \in Nat /\ \A i \in DOMAIN down : down'[i] = down[i]
          /\ down'[Len(down) + 1] = m
      BY <1>1, <3>1, Pushed
    <3>3. \A i \in DOMAIN down' : i \in DOMAIN down \/ i = Len(down) + 1
      BY <3>2
    <3>4. \A i \in DOMAIN down' : down'[i].type = "get" =>
            i \in DOMAIN down /\ down[i].type = "get"
      BY <3>1, <3>2, <3>3
    <3>5. Getting' => Getting
      BY <2>1, <3>4 DEF Getting
    <3>6. m.type # "ack" /\ m.doc.reported = hub.reported /\ hub'.desired = m.doc.desired
      BY <2>1, <3>1
    <3>7. QED
      BY <1>1, <2>1, <2>2, <3>1, <3>5, <3>6, TwinAppended
  <2>3. CASE "twin" \notin enabled
    <3>1. down' = down
      BY <2>1, <2>3
    <3>2. Chain'
      BY <2>1, <2>3, <3>1 DEF Twinned, Chain
    <3>3. Synced => Synced'
      BY <2>1, <2>3, <3>1 DEF Synced
    <3>4. Getting' => Getting
      BY <2>1, <3>1 DEF Getting
    <3>5. Desired'
      BY <2>1, <3>3, <3>4 DEF Twinned, Desired
    <3>6. Reported'
      BY <2>1, <3>1 DEF Twinned, Reported, Acknowledged
    <3>7. QED
      BY <3>2, <3>5, <3>6 DEF Twinned
  <2>4. QED
    BY <2>2, <2>3
<1>15. CASE UNCHANGED clientVars
  BY <1>3, <1>15 DEF clientVars, transportState, twin
<1>16. QED
  BY <1>4, <1>5, <1>6, <1>7, <1>8, <1>9, <1>10, <1>11, <1>12, <1>13, <1>14, <1>15
     DEF ClientNext, System

-----------------------------------------------------------------------------
(* The theorems.                                                           *)

\* The invariant holds at the start.
LEMMA Started ==
  ASSUME ClientInit
  PROVE  ClientInv
<1>1. registered = {} /\ told = {} /\ enabled = {} /\ wire = <<>> /\ down = <<>>
      /\ delayed = EmptyBag
  BY DEF ClientInit
<1>2. DOMAIN delayed = {}
  BY <1>1 DEF EmptyBag, SetToBag
<1>3. wire \in Seq(Operations) /\ wire \in Seq(Handed) /\ down \in Seq(Messages)
      /\ DOMAIN wire = {} /\ DOMAIN down = {}
  BY <1>1
<1>4. hub \in Twins /\ cached \in Twins
  BY DEF ClientInit, Twins, Absent
<1>5. calls \in 0..MaxCalls /\ losses \in 0..MaxLosses /\ patches \in 0..MaxPatches
  BY DeviceClientAssumption DEF ClientInit
<1>6. ClientTypeOK
  BY <1>1, <1>2, <1>3, <1>4, <1>5 DEF ClientInit, ClientTypeOK
<1>7. ClientShapes
  BY <1>2, <1>3 DEF ClientShapes
<1>8. Enabling
  BY <1>1, <1>3 DEF Enabling
<1>9. ~Getting
  BY <1>3 DEF Getting
<1>10. Twinned
  BY <1>1, <1>3, <1>9 DEF ClientInit, Twinned, Chain, Desired, Reported
<1>11. QED
  BY <1>6, <1>7, <1>8, <1>10 DEF ClientInv

\* Every step keeps it.
LEMMA Kept ==
  ASSUME ClientInv, [ClientNext]_clientVars
  PROVE  ClientInv'
BY TypesStep, EnablingStep, TwinStep DEF ClientInv

\* Every behaviour satisfies it.
THEOREM Invariant == ClientSpec => []ClientInv
BY Started, Kept, PTL DEF ClientSpec

\* When nothing is under way, a feature the user listens to is enabled on the
\* connection there is, unless the user was told that it could not be: the
\* disconnect handlers (internal_client.ts:88, device_client.ts:98,
\* module_client.ts:96) lose none, whatever is being enabled and disabled
\* when a connection goes.
THEOREM FeaturesKept == ClientSpec => []RegisteredIsEnabled
<1>1. ClientInv => RegisteredIsEnabled
  <2>1. SUFFICES ASSUME ClientInv PROVE RegisteredIsEnabled
    OBVIOUS
  <2>2. ClientTypeOK /\ Enabling
    BY <2>1 DEF ClientInv
  <2>3. ASSUME Quiet, listening, NEW f \in registered \ told
        PROVE  f \in enabled
    <3>1. DOMAIN wire = {} /\ DOMAIN delayed = {}
      BY <2>3 DEF Quiet, EmptyBag, SetToBag
    <3>2. Coming(f)
      BY <2>2, <2>3 DEF Enabling
    <3>3. QED
      BY <3>1, <3>2 DEF Coming
  <2>4. QED
    BY <2>2, <2>3 DEF RegisteredIsEnabled
<1>2. QED
  BY <1>1, Invariant, PTL

\* The properties of the Twin are those of the hub once its answer to a get,
\* read while it was telling of changes, and all it sent after have arrived
\* (twin.ts:90, 164, 207).
THEOREM TwinIsHub == ClientSpec => []CacheIsHub
<1>1. ClientInv => CacheIsHub
  <2>1. SUFFICES ASSUME ClientInv, fresh = "yes", down = <<>> PROVE cached = hub
    BY DEF CacheIsHub
  <2>2. cached \in Twins /\ hub \in Twins
    BY <2>1 DEF ClientInv, ClientTypeOK
  <2>3. cached.desired = hub.desired
    BY <2>1 DEF ClientInv, Twinned, Desired, Synced
  <2>4. ~Acknowledged(0)
    BY <2>1 DEF Acknowledged
  <2>5. cached.reported = hub.reported
    BY <2>1, <2>4 DEF ClientInv, Twinned, Reported
  <2>6. QED
    BY <2>2, <2>3, <2>5 DEF Twins
<1>2. QED
  BY <1>1, Invariant, PTL
=============================================================================
