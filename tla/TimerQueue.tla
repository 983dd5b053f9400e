----------------------------- MODULE TimerQueue -----------------------------
(***************************************************************************)
(* What httperf's timers promise: unless it is cancelled a timer is called *)
(* back once, not before its delay is over and at most a tick later.       *)
(***************************************************************************)
EXTENDS Integers, FiniteSetsExt

CONSTANTS Timers, Delays, Off
VARIABLES now,    \* the time timer_now() returns, in ticks
          clock,  \* the next tick to be processed
          due,    \* the time each scheduled timer is due at, or Off
          called  \* the timer whose callback runs, or Off

vars == <<now, clock, due, called>>

Pending == {t \in Timers : due[t] # Off}

Init == /\ now = 0 /\ clock = 1 /\ due = [t \in Timers |-> Off] /\ called = Off

\* A timer is never due at a tick already under way.
Schedule(t) ==
    /\ due[t] = Off /\ t # called
    /\ \E d \in Delays : due' = [due EXCEPT ![t] = Max({now + d, clock + 1})]
    /\ UNCHANGED <<now, clock, called>>

Cancel(t) ==
    /\ due[t] # Off
    /\ due' = [due EXCEPT ![t] = Off]
    /\ UNCHANGED <<now, clock, called>>

Fire(t) ==
    /\ called = Off /\ due[t] \in {clock - 1, clock} /\ clock <= now
    /\ due' = [due EXCEPT ![t] = Off] /\ called' = t
    /\ UNCHANGED <<now, clock>>

Return == called # Off /\ called' = Off /\ UNCHANGED <<now, clock, due>>

Advance ==
    /\ called = Off /\ clock <= now /\ \A t \in Pending : due[t] >= clock
    /\ clock' = clock + 1
    /\ UNCHANGED <<now, due, called>>

Pass == called = Off /\ now' > now /\ UNCHANGED <<clock, due, called>>

Next == Return \/ Advance \/ Pass
          \/ \E t \in Timers : Schedule(t) \/ Cancel(t) \/ Fire(t)

Spec == Init /\ [][Next]_vars
=============================================================================
