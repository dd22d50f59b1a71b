------------------------------ MODULE OnTheWire ------------------------------
(***************************************************************************)
(* The container of published and not yet acknowledged messages of the     *)
(* MQTT transport: class OnTheWireMessageContainer of                      *)
(* common/transport/mqtt/src/mqtt_base.ts.                                 *)
(*                                                                         *)
(* Each published message waits here for its PUBACK under a growing key.   *)
(* A timer armed by the first message checks the container: it answers the *)
(* messages that waited too long with a TimeoutError and arms itself again *)
(* while messages are left.  A lost connection purges everything.          *)
(*                                                                         *)
(* The clock counts milliseconds.  The code compares whole seconds: the    *)
(* time of publishing rounded down with the time of the check rounded to   *)
(* the nearest second, so up to a second and a half is lost on the way.    *)
(***************************************************************************)
EXTENDS Integers

CONSTANTS
  TimerCheck,  \* seconds between two checks (timerCheckInMilliseconds)
  MinTimeout,  \* the smallest timeout setTimeoutInSeconds is called with
  MaxTimeout,  \* the largest one
  MaxLate,     \* how late, in milliseconds, the event loop may run a timer
  MaxKey,      \* bound: messages published
  MaxTime,     \* bound: seconds of the clock
  Millis       \* bound: milliseconds of a second at which something happens

\* A timeout of one second would let a message expire in the check that
\* published it again, through the difference between floor and round.
ASSUME ContainerAssumption ==
  /\ TimerCheck \in Nat \ {0}
  /\ MinTimeout \in Nat /\ MaxTimeout \in Nat
  /\ 2 <= MinTimeout /\ MinTimeout <= MaxTimeout
  /\ MaxLate \in Nat /\ MaxKey \in Nat /\ MaxTime \in Nat

ASSUME MillisAssumption == Millis \subseteq 0..999

VARIABLES
  now,               \* the clock, in milliseconds
  onTheWire,         \* key -> enqueuedTimeSecondsSinceEpoch
  identifier,        \* the last key given out by provideIdentifier
  timeoutInSeconds,
  timers,            \* armed timers of the event loop: timer -> when it is due
  timerCount,        \* timers created so far
  timeoutTimer,      \* the timer the container remembers, 0 before the first
  reason,            \* history: key -> how the message was answered
  callbackCalls,             \* history: key -> calls of the message's callback
  addedAt            \* history: key -> when it was added, in milliseconds

container == <<onTheWire, identifier>>
clocks == <<timers, timerCount, timeoutTimer>>
history == <<reason, callbackCalls, addedAt>>
vars == <<now, container, timeoutInSeconds, clocks, history>>

Keys == 1..identifier

\* Whole seconds of a time in milliseconds: Math.floor and Math.round.
Floor(t) == t \div 1000
Round(t) == (t + 500) \div 1000

TypeOK ==
  /\ now \in Nat
  /\ identifier \in Nat
  /\ DOMAIN onTheWire \subseteq Keys
  /\ onTheWire \in [DOMAIN onTheWire -> Nat]
  /\ timeoutInSeconds \in MinTimeout..MaxTimeout
  /\ timerCount \in Nat
  /\ DOMAIN timers \subseteq 1..timerCount
  /\ timers \in [DOMAIN timers -> Nat]
  /\ timeoutTimer \in 0..timerCount
  /\ reason \in [Keys -> {"pending", "complete", "purge", "timeout"}]
  /\ callbackCalls \in [Keys -> Nat]
  /\ addedAt \in [Keys -> Nat]

Init ==
  /\ now = 0
  /\ onTheWire = [k \in {} |-> 0]
  /\ identifier = 0
  /\ timeoutInSeconds \in MinTimeout..MaxTimeout
  /\ timers = [t \in {} |-> 0]
  /\ timerCount = 0
  /\ timeoutTimer = 0
  /\ reason = [k \in {} |-> "pending"]
  /\ callbackCalls = [k \in {} |-> 0]
  /\ addedAt = [k \in {} |-> 0]

-----------------------------------------------------------------------------
(* The event loop's timers.                                                *)

\* clearTimeout: a timer that has fired or was cleared is no longer armed.
Cleared(ts, t) == [u \in DOMAIN ts \ {t} |-> ts[u]]

\* setTimeout(this._timeout, timerCheckInMilliseconds) for the new timers new.
Armed(ts, new) ==
  [u \in DOMAIN ts \cup new |->
     IF u \in new THEN now + 1000 * TimerCheck ELSE ts[u]]

\* The container after the messages gone have left it and the keys
\* identifier + 1 .. identifier + n were given to new messages.
Rewired(gone, n) ==
  [k \in (DOMAIN onTheWire \ gone) \cup (identifier + 1 .. identifier + n) |->
     IF k > identifier THEN Floor(now) ELSE onTheWire[k]]

\* n new messages and, for the messages gone, a call of their callback.
Recorded(gone, why, n) ==
  LET keys == 1..(identifier + n) IN
  /\ identifier' = identifier + n
  /\ reason' = [k \in keys |->
                  IF k > identifier THEN "pending"
                  ELSE IF k \in gone THEN why ELSE reason[k]]
  /\ callbackCalls' = [k \in keys |->
                 IF k > identifier THEN 0
                 ELSE IF k \in gone THEN callbackCalls[k] + 1 ELSE callbackCalls[k]]
  /\ addedAt' = [k \in keys |-> IF k > identifier THEN now ELSE addedAt[k]]

-----------------------------------------------------------------------------
(* The operations.                                                         *)


\* Mutants of add: the key given out before the identifier is incremented,
\* and a timer that every message restarts.
addStaleKey ==
  /\ identifier < MaxKey
  /\ onTheWire' = Rewired({}, 1)
  /\ Recorded({}, "pending", 0)
  /\ UNCHANGED <<now, timeoutInSeconds, clocks>>

addRestartsTimer ==
  /\ identifier < MaxKey
  /\ onTheWire' = Rewired({}, 1)
  /\ Recorded({}, "pending", 1)
  /\ timerCount' = timerCount + 1
  /\ timeoutTimer' = timerCount + 1
  /\ timers' = Armed(Cleared(timers, timeoutTimer), {timerCount + 1})
  /\ UNCHANGED <<now, timeoutInSeconds>>

\* publish of MqttBase: a fresh key, a new entry, and a timer for the first one.
add ==
  /\ identifier < MaxKey
  /\ onTheWire' = Rewired({}, 1)
  /\ Recorded({}, "pending", 1)
  /\ IF DOMAIN onTheWire = {}
       THEN /\ timerCount' = timerCount + 1
            /\ timeoutTimer' = timerCount + 1
            /\ timers' = Armed(timers, {timerCount + 1})
       ELSE UNCHANGED clocks
  /\ UNCHANGED <<now, timeoutInSeconds>>

\* Mutants of complete: an answer that is not looked up, and a timer stopped
\* while messages are left.
completeUnchecked(k) ==
  /\ onTheWire' = Rewired({k}, 0)
  /\ Recorded({k}, "complete", 0)
  /\ timers' = IF DOMAIN onTheWire \subseteq {k}
                 THEN Cleared(timers, timeoutTimer) ELSE timers
  /\ UNCHANGED <<now, timeoutInSeconds, timerCount, timeoutTimer>>

completeStopsTimer(k) ==
  /\ k \in DOMAIN onTheWire
  /\ onTheWire' = Rewired({k}, 0)
  /\ Recorded({k}, "complete", 0)
  /\ timers' = Cleared(timers, timeoutTimer)
  /\ UNCHANGED <<now, timeoutInSeconds, timerCount, timeoutTimer>>

\* The PUBACK or the publish error of message k. An answer for a message
\* that is gone changes nothing.
complete(k) ==
  /\ k \in DOMAIN onTheWire
  /\ onTheWire' = Rewired({k}, 0)
  /\ Recorded({k}, "complete", 0)
  /\ timers' = IF DOMAIN onTheWire = {k}
                 THEN Cleared(timers, timeoutTimer) ELSE timers
  /\ UNCHANGED <<now, timeoutInSeconds, timerCount, timeoutTimer>>

\* The connection is lost: the map is replaced before the callbacks run, so
\* what they publish is an add after this step.
purge ==
  /\ onTheWire' = Rewired(DOMAIN onTheWire, 0)
  /\ Recorded(DOMAIN onTheWire, "purge", 0)
  /\ timers' = Cleared(timers, timeoutTimer)
  /\ UNCHANGED <<now, timeoutInSeconds, timerCount, timeoutTimer>>

setTimeoutInSeconds(seconds) ==
  /\ timeoutInSeconds' = seconds
  /\ UNCHANGED <<now, container, clocks, history>>

\* Mutant of HasExpired: a second too early.
HasExpiredEarly(k) == Round(now) - onTheWire[k] + 1 >= timeoutInSeconds

\* The loop stops at the first message, in the order of insertion, that has
\* not waited long enough.
HasExpired(k) == Round(now) - onTheWire[k] >= timeoutInSeconds
Expired ==
  {k \in DOMAIN onTheWire :
     \A j \in DOMAIN onTheWire : j <= k => HasExpired(j)}

\* A check run by the armed timer t.  The callbacks of the expired messages
\* may publish n new messages, inside the loop.  The first of them is alone in
\* the map, and arms a timer in add, exactly if nothing is kept and it is
\* published by the last callback (alone).  The end of the check arms a timer
\* whenever the map is not empty.
timeout(t, n, alone) ==
  LET kept == DOMAIN onTheWire \ Expired
      fired == Cleared(timers, t)
  IN
  /\ t \in DOMAIN timers
  /\ timers[t] <= now
  /\ identifier + n <= MaxKey
  /\ n > 0 => Expired # {}
  /\ alone => n > 0 /\ kept = {}
  /\ (n > 0 /\ kept = {} /\ ~alone) => \E i, j \in Expired : i # j
  /\ onTheWire' = Rewired(Expired, n)
  /\ Recorded(Expired, "timeout", n)
  /\ IF kept = {} /\ n = 0
       THEN /\ timers' = fired
            /\ UNCHANGED <<timerCount, timeoutTimer>>
       ELSE LET last == IF alone THEN timerCount + 2 ELSE timerCount + 1 IN
            /\ timers' = Armed(fired, (timerCount + 1)..last)
            /\ timerCount' = last
            /\ timeoutTimer' = last
  /\ UNCHANGED <<now, timeoutInSeconds>>

\* The instants at which something happens.
Instants == {1000 * second + milli : second \in 0..MaxTime, milli \in Millis}

\* Time passes, but no timer is run more than MaxLate milliseconds late.
Tick ==
  /\ \E later \in Instants :
       /\ now < later
       /\ \A t \in DOMAIN timers : later <= timers[t] + MaxLate
       /\ now' = later
  /\ UNCHANGED <<container, timeoutInSeconds, clocks, history>>

Next ==
  \/ add
  \/ \E k \in Keys : complete(k)
  \/ purge
  \/ \E seconds \in MinTimeout..MaxTimeout : setTimeoutInSeconds(seconds)
  \/ \E t \in DOMAIN timers, n \in 0..MaxKey, alone \in BOOLEAN :
       timeout(t, n, alone)
  \/ Tick

Spec == Init /\ [][Next]_vars

-----------------------------------------------------------------------------
(* Properties.                                                             *)

\* Every message is either waiting on the wire with its callback not called,
\* or gone with its callback called exactly once: complete, purge and the
\* check never answer a message twice and never drop one.
AnsweredOnce ==
  \A k \in Keys :
    IF k \in DOMAIN onTheWire
      THEN callbackCalls[k] = 0 /\ reason[k] = "pending"
      ELSE callbackCalls[k] = 1 /\ reason[k] # "pending"

\* While a message waits, the timer the container remembers is armed, so a
\* later complete or purge can stop it and a check will come.
TimerArmed == DOMAIN onTheWire # {} => timeoutTimer \in DOMAIN timers

\* No message waits longer than its timeout and one check period, however
\* messages come and go and however often the one timer is stopped, restarted
\* or duplicated.  The timer may be late, and the message may be kept by a
\* check that comes up to 499 ms after the last second it was to wait.
BoundedWait ==
  \A k \in DOMAIN onTheWire :
    now - addedAt[k] <= 1000 * (MaxTimeout + TimerCheck - 1) + 499 + MaxLate

\* Rounding costs less than a second and a half: a message published at the
\* end of a second counts from its start, and one checked in the second half
\* of a second counts to its end, so a message answered with a TimeoutError
\* has waited for all of its timeout but 1499 ms.
NeverEarly ==
  [][\A k \in Keys :
       reason[k] = "pending" /\ reason'[k] = "timeout"
         => now - addedAt[k] >= 1000 * timeoutInSeconds - 1499]_vars

=============================================================================
