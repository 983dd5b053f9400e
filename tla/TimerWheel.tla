----------------------------- MODULE TimerWheel -----------------------------
(***************************************************************************)
(* httperf's timers (timer.c): a wheel of spokes, each a doubly linked     *)
(* list of timers whose delta is the number of turns of the wheel between  *)
(* a timer and the one before it.  Memory is modelled: a fired or          *)
(* cancelled timer goes to a free list through the same `next' field, and  *)
(* timer_tick() still walks a spoke while callbacks schedule and cancel.   *)
(*                                                                         *)
(* Time is in whole ticks of TIMER_INTERVAL; delays are already rounded.   *)
(***************************************************************************)
EXTENDS Integers, FiniteSets, FiniteSetsExt

CONSTANTS WheelSize,       \* WHEEL_SIZE
          NumTimers,       \* timers malloc() can give
          Delays,          \* delays that are scheduled outside a callback
          CallbackDelays,  \* ... and inside one
          FullTurns,       \* may a callback that is not the first of its tick
                           \* schedule a whole number of turns of the wheel?
          MaxLag,          \* ticks between two calls of timer_tick()
          MaxTime          \* last tick of a behaviour

ASSUME WheelAssumption ==
    /\ {WheelSize, NumTimers, MaxLag} \subseteq Nat \ {0}
    /\ MaxTime \in Nat /\ FullTurns \in BOOLEAN
    /\ Delays \cup CallbackDelays \subseteq Int

Timers == 1 .. NumTimers
Null   == 0
Spokes == 0 .. WheelSize - 1
Head(s) == -1 - s                    \* the Timer_Queue of spoke s, as a cell
Heads  == {Head(s) : s \in Spokes}
Cells  == Timers \cup Heads

VARIABLES
    tpc,       \* "idle", or in timer_tick(): "spoke", "scan" or "callback"
    now,       \* timer_now()
    nextTick,  \* next_tick
    curr,      \* the current spoke
    t,         \* timer_tick's t
    nxt, prv,  \* q.next and q.prev
    delta,     \* delta
    free,      \* timer_free_list
    fresh,     \* timers malloc() has not given yet
    due        \* the time a timer was asked for, until it is called back or
               \* cancelled; Null for the others (a history variable)

wheelVars == <<tpc, now, nextTick, curr, t, nxt, prv, delta, free, fresh, due>>

\* The timers the callers have a pointer to.
held == {x \in Timers : due[x] # Null}

WheelInit ==
    /\ tpc = "idle" /\ now = 0 /\ nextTick = 1 /\ curr = 0 /\ t = Null
    /\ nxt = [c \in Cells |-> Null] /\ prv = [c \in Cells |-> Null]
    /\ delta = [c \in Timers |-> 0]
    /\ free = Null /\ fresh = Timers /\ due = [c \in Timers |-> Null]

-----------------------------------------------------------------------------
(* timer_tick() *)

timer_tick ==
    /\ tpc = "idle"
    /\ now' \in now + 1 .. Min({now + MaxLag, MaxTime})
    /\ tpc' = "spoke"
    /\ UNCHANGED <<nextTick, curr, t, nxt, prv, delta, free, fresh, due>>

BeginSpoke ==
    /\ tpc = "spoke"
    /\ \/ now >= nextTick /\ t' = nxt[Head(curr)] /\ tpc' = "scan"
       \/ now < nextTick /\ tpc' = "idle" /\ UNCHANGED t
    /\ UNCHANGED <<now, nextTick, curr, nxt, prv, delta, free, fresh, due>>

Expired == t # Null /\ delta[t] = 0

\* t_curr = t, and its function is called; the callers' functions first
\* forget their pointer to it.
Call ==
    /\ tpc = "scan" /\ Expired
    /\ tpc' = "callback"
    /\ due' = [due EXCEPT ![t] = Null]
    /\ UNCHANGED <<now, nextTick, curr, t, nxt, prv, delta, free, fresh>>

\* The function returns: t_next is read now, then done().
CallReturns ==
    /\ tpc = "callback"
    /\ t' = nxt[t] /\ tpc' = "scan"
    /\ nxt' = [nxt EXCEPT ![t] = free] /\ prv' = [prv EXCEPT ![t] = Null]
    /\ free' = t
    /\ UNCHANGED <<now, nextTick, curr, delta, fresh, due>>

\* The next timer waits for another turn: it becomes the spoke's first.
EndSpoke ==
    /\ tpc = "scan" /\ ~Expired
    /\ nxt' = [nxt EXCEPT ![Head(curr)] = t]
    /\ IF t = Null THEN UNCHANGED <<prv, delta>>
       ELSE /\ prv' = [prv EXCEPT ![t] = Head(curr)]
            /\ delta' = [delta EXCEPT ![t] = @ - 1]
    /\ nextTick' = nextTick + 1
    /\ curr' = (curr + 1) % WheelSize
    /\ tpc' = "spoke" /\ t' = Null
    /\ UNCHANGED <<now, free, fresh, due>>

-----------------------------------------------------------------------------
(* timer_schedule() and timer_cancel() *)

\* Mutant: a delay counts from the tick being processed.
TicksFromTick(d) == Max({1, d})

\* A delay counts from now, which is ahead of the tick being processed when
\* timer_tick() has ticks to catch up with; it is at least one tick.
Ticks(d) == Max({1, IF now > nextTick THEN d + now - nextTick ELSE d})

\* Where a timer of `turns' turns goes in the list that starts at cell h:
\* the cell before it, and the turns that are left there.
Place(h, turns, next, turnsAt) ==
    LET walk[n \in 0 .. NumTimers] ==
          IF n = 0 THEN [p |-> h, d |-> turns]
          ELSE LET w == walk[n - 1]
                   q == next[w.p]
               IN  IF q # Null /\ w.d > turnsAt[q]
                   THEN [p |-> q, d |-> w.d - turnsAt[q]] ELSE w
    IN  walk[NumTimers]

\* The memory of a new timer, from the free list or from malloc().
Alloc(x) ==
    \/ free # Null /\ x = free /\ free' = nxt[x] /\ UNCHANGED fresh
    \/ /\ free = Null /\ fresh # {} /\ x = Min(fresh)
       /\ fresh' = fresh \ {x} /\ UNCHANGED free

timer_schedule(x, d) ==
    /\ Alloc(x)
    /\ LET ticks  == Ticks(d)
           zeroed == [nxt EXCEPT ![x] = Null]
           at     == Place(Head((curr + ticks) % WheelSize), ticks \div WheelSize,
                           zeroed, [delta EXCEPT ![x] = 0])
           linked == [zeroed EXCEPT ![x] = zeroed[at.p], ![at.p] = x]
           next   == linked[x]
       IN  /\ nxt' = linked
           /\ prv' = [c \in Cells |-> IF c = next THEN x
                                      ELSE IF c = x THEN at.p ELSE prv[c]]
           /\ delta' = [c \in Timers |->
                          (IF c = x THEN at.d ELSE delta[c])
                            - (IF c = next THEN at.d ELSE 0)]
    /\ due' = [due EXCEPT ![x] = Max({now + d, nextTick + 1})]
    /\ UNCHANGED <<tpc, now, nextTick, curr, t>>

\* Mutant: the turns of a cancelled timer are not given to the next one.
CancelDropsTurns(x) ==
    /\ x \in held
    /\ nxt' = [nxt EXCEPT ![prv[x]] = nxt[x], ![x] = free]
    /\ prv' = [c \in Cells |-> IF c = x THEN Null
                               ELSE IF c = nxt[x] THEN prv[x] ELSE prv[c]]
    /\ free' = x
    /\ due' = [due EXCEPT ![x] = Null]
    /\ UNCHANGED <<tpc, now, nextTick, curr, t, fresh, delta>>

\* Callers only cancel a timer they hold, so never the one being called back.
timer_cancel(x) ==
    /\ x \in held
    /\ nxt' = [nxt EXCEPT ![prv[x]] = nxt[x], ![x] = free]
    /\ prv' = [c \in Cells |-> IF c = x THEN Null
                               ELSE IF c = nxt[x] THEN prv[x] ELSE prv[c]]
    /\ delta' = [c \in Timers |-> IF c = nxt[x] THEN delta[c] + delta[x] ELSE delta[c]]
    /\ free' = x
    /\ due' = [due EXCEPT ![x] = Null]
    /\ UNCHANGED <<tpc, now, nextTick, curr, t, fresh>>

-----------------------------------------------------------------------------
\* Callers: the main program between two calls of timer_tick(), and callbacks.
Caller ==
    \/ /\ tpc = "idle"
       /\ \E x \in Timers, d \in Delays : timer_schedule(x, d)
    \/ /\ tpc = "callback"
       /\ \E x \in Timers, d \in CallbackDelays :
             /\ FullTurns \/ nxt[Head(curr)] = t \/ Ticks(d) % WheelSize # 0
             /\ timer_schedule(x, d)
    \/ /\ tpc \in {"idle", "callback"}
       /\ \E x \in Timers : timer_cancel(x)

WheelNext == timer_tick \/ BeginSpoke \/ Call \/ CallReturns \/ EndSpoke \/ Caller

WheelSpec == WheelInit /\ [][WheelNext]_wheelVars

-----------------------------------------------------------------------------
(* Properties *)

\* The cells of the list that starts at c; past its end, Null.
Chain(c) ==
    LET f[n \in 1 .. NumTimers + 1] ==
          IF n = 1 THEN c
          ELSE LET p == f[n - 1] IN IF p = Null THEN Null ELSE nxt[p]
    IN  {f[n] : n \in DOMAIN f} \ {Null}

\* What timer_tick() will still find in spoke s, from the timer it has got to
\* if it is walking s, else from the head: pairs of a timer and the tick at
\* which it will be called.
InSpoke(s) ==
    LET first == CASE s = curr /\ tpc = "scan"     -> t
                   [] s = curr /\ tpc = "callback" -> nxt[t]
                   [] OTHER                       -> nxt[Head(s)]
        step(x, tick) == <<x, IF x = Null THEN 0 ELSE tick + WheelSize * delta[x]>>
        f[n \in 1 .. NumTimers + 1] ==
            IF n = 1 THEN step(first, nextTick + ((s - curr) % WheelSize))
            ELSE LET p == f[n - 1]
                 IN  IF p[1] = Null THEN p ELSE step(nxt[p[1]], p[2])
    IN  {f[n] : n \in DOMAIN f} \ {<<Null, 0>>}

InWheel == UNION {InSpoke(s) : s \in Spokes}

\* The timer whose function is being called.
Active == IF tpc = "callback" THEN {t} ELSE {}

(***************************************************************************)
(* The lists are what the callers believe they are.  Together the spokes   *)
(* hold each timer a caller still has a pointer to, once, where it will be *)
(* called no earlier and at most a tick later than asked; its neighbours   *)
(* agree with it and it has a q.prev (timer_cancel asserts it).  Any other *)
(* timer_schedule() ever gave is on the free list or being called: none is *)
(* lost and none is in two lists.                                          *)
(***************************************************************************)
WheelIntact ==
    /\ {y[1] : y \in InWheel} = held /\ Cardinality(InWheel) = Cardinality(held)
    /\ \A y \in InWheel : y[2] \in due[y[1]] .. due[y[1]] + 1
    /\ \A x \in held : prv[x] # Null /\ (nxt[x] # Null => prv[nxt[x]] = x)
    /\ Chain(free) = Timers \ (held \cup fresh \cup Active)

(***************************************************************************)
(* The wheel implements TimerQueue: each timer is called at the tick its   *)
(* delay amounts to, once, whatever the callbacks and the main program     *)
(* schedule and cancel around it, and however late timer_tick() comes.     *)
(***************************************************************************)
TQ == INSTANCE TimerQueue WITH Delays <- Delays \cup CallbackDelays, Off <- Null,
                               clock <- nextTick,
                               called <- IF tpc = "callback" THEN t ELSE Null
ImplementsTimers == TQ!Spec

(***************************************************************************)
(* What --timeout promises (man page): a timer that a caller still holds   *)
(* is in the wheel.  It need not be: a callback that is not the first of   *)
(* its tick and schedules a whole number of turns links the new timer to   *)
(* one that is already on the free list.                                   *)
(***************************************************************************)
NoneForgotten == held \subseteq {y[1] : y \in InWheel}
=============================================================================
