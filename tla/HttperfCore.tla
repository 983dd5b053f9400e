---------------------------- MODULE HttperfCore ----------------------------
(***************************************************************************)
(* httperf's event loop (core.c) driving the request-oriented workload     *)
(* (conn_rate.c, rate.c, call_seq.c): connections that each carry NumCalls *)
(* calls in pipelined bursts, one select() for all of them, a watchdog     *)
(* timer per connection, and timer ticks in between.                       *)
(*                                                                         *)
(* Calls of a connection are alike and served in order, so its queues are  *)
(* their lengths.  Replies arrive whole and carry their length; --timeout  *)
(* is set; SSL and the --hog port map are left out.                        *)
(***************************************************************************)
EXTENDS Integers, FiniteSets, FiniteSetsExt

CONSTANTS NumConns,   \* param.num_conns
          NumSds,     \* descriptors the process may open
          NumCalls,   \* param.num_calls
          Bursts,     \* the values param.burst_len may have
          Cap,        \* requests a socket takes before writev() fails
          MaxFaults   \* bound on connections the server refuses or resets

ASSUME CoreAssumption ==
    /\ {NumConns, NumSds, NumCalls, Cap} \cup Bursts \subseteq Nat \ {0}
    /\ MaxFaults \in Nat

Conns == 1 .. NumConns
Sds   == 1 .. NumSds
None  == 0

VARIABLES
    conn,       \* the Conn objects, with call_seq's private data
    peer,       \* the other end of each, and the socket buffers (external)
    owner,      \* sd_to_conn
    rd, wr,     \* rdfds and wrfds
    pc,         \* where core_loop is
    back,       \* where it goes on after a connection was destroyed
    dying,      \* that connection
    R, W,       \* readable and writable, as select() left them
    n,          \* what is left of its return value
    pos,        \* sd
    generated,  \* num_conns_generated
    gone,       \* num_conns_destroyed
    sequential, \* no rate is given: a connection follows the end of another
    burst,      \* param.burst_len
    faults

loop == <<pc, back, dying, R, W, n, pos>>
mode == <<sequential, burst>>
gen  == <<generated, gone, mode>>
vars == <<conn, peer, owner, rd, wr, loop, gen, faults>>

NewConn == [state |-> "initial", sd |-> None, dog |-> FALSE, sendq |-> 0, recvq |-> 0,
            num_calls |-> 0, completed |-> 0, destroyed |-> 0]

Open(c)  == conn[c].state \in {"connecting", "connected"}
running  == gone < NumConns

Init ==
    /\ conn = [c \in Conns |-> NewConn]
    /\ peer = [c \in Conns |-> [est |-> "no", wire |-> 0, avail |-> 0]]
    /\ owner = [s \in Sds |-> None]
    /\ rd = {} /\ wr = {}
    /\ pc = "start" /\ back = "tick" /\ dying = None
    /\ R = {} /\ W = {} /\ n = 0 /\ pos = 1
    /\ generated = 0 /\ gone = 0 /\ faults = 0
    /\ sequential \in BOOLEAN /\ burst \in Bursts

-----------------------------------------------------------------------------
(* What the handlers do to one connection.  A value h is the connection's  *)
(* record c, its peer's p, and its bits in rdfds and wrfds.                *)

Handled(c) == [c |-> conn[c], p |-> peer[c],
               rd |-> conn[c].sd \in rd, wr |-> conn[c].sd \in wr]

\* set_active() once the bit is set: one watchdog, for the oldest call.
Watch(h) == [h EXCEPT !.c.dog = @ \/ h.c.sendq + h.c.recvq > 0]
SetWr(h) == Watch([h EXCEPT !.wr = TRUE])
SetRd(h) == Watch([h EXCEPT !.rd = TRUE])

\* Mutant: core_close() leaves the descriptor in wrfds.
CloseKeepsBit(h) ==
    IF h.c.state = "closing" THEN h
    ELSE [h EXCEPT !.c.state = "closing", !.c.sd = None, !.c.dog = FALSE,
                   !.c.sendq = 0, !.c.recvq = 0, !.rd = FALSE]

core_close(h) ==
    IF h.c.state = "closing" THEN h
    ELSE [h EXCEPT !.c.state = "closing", !.c.sd = None, !.c.dog = FALSE,
                   !.c.sendq = 0, !.c.recvq = 0, !.rd = FALSE, !.wr = FALSE]

\* core_send() for k calls: the first one into an empty queue activates it.
core_send(h, k) ==
    IF k = 0 THEN h ELSE SetWr([h EXCEPT !.c.sendq = @ + k])

issue_calls(h) ==
    LET k == IF h.c.num_calls >= NumCalls THEN 0
             ELSE Min({burst, NumCalls - h.c.num_calls})
    IN  core_send([h EXCEPT !.c.num_calls = @ + burst, !.c.completed = 0,
                            !.c.destroyed = 0], k)

\* Mutant: MIN (param.burst_len, param.num_calls) is param.burst_len.
DestroyedNoMin(h) ==
    LET g == [h EXCEPT !.c.destroyed = @ + 1] IN
    IF g.c.destroyed < burst THEN g
    ELSE IF g.c.completed = g.c.destroyed /\ g.c.num_calls < NumCalls
         THEN issue_calls(g) ELSE core_close(g)

call_destroyed(h) ==
    LET g == [h EXCEPT !.c.destroyed = @ + 1] IN
    IF g.c.destroyed < Min({burst, NumCalls}) THEN g
    ELSE IF g.c.completed = g.c.destroyed /\ g.c.num_calls < NumCalls
         THEN issue_calls(g) ELSE core_close(g)

recv_done(h) ==
    call_destroyed([h EXCEPT !.c.recvq = @ - 1, !.rd = h.c.recvq > 1,
                             !.c.completed = @ + 1])

\* Mutant: writability is no longer asked for once a request was written.
SendClearsWrite(h) ==
    IF h.p.est = "dead" THEN {core_close(h)}
    ELSE LET k == IF h.p.est = "no" THEN 0 ELSE Min({h.c.sendq, Cap - h.p.wire})
             g == [h EXCEPT !.c.sendq = @ - k, !.c.recvq = @ + k, !.p.wire = @ + k,
                            !.wr = k = 0]
         IN  {IF k > 0 THEN SetRd(g) ELSE g}

\* do_send(): writes as many requests as the socket takes; the next one fails
\* with EAGAIN, or is written in part.
do_send(h) ==
    IF h.p.est = "dead" THEN {core_close(h)}
    ELSE LET k == IF h.p.est = "no" THEN 0 ELSE Min({h.c.sendq, Cap - h.p.wire})
             g == [h EXCEPT !.c.sendq = @ - k, !.c.recvq = @ + k, !.p.wire = @ + k,
                            !.wr = h.c.sendq > k]
             s == IF k > 0 THEN SetRd(g) ELSE g
         IN  IF s.c.sendq > 0 /\ h.p.est = "yes" THEN {s, SetWr(s)} ELSE {s}

\* Mutant: what follows the first reply in the buffer is thrown away.
RecvFirstOnly(h) ==
    IF h.p.est = "dead" THEN {core_close(h)}
    ELSE IF h.p.avail = 0 THEN {h}
    ELSE {LET g == recv_done([h EXCEPT !.p.avail = @ - j])
          IN  IF g.c.recvq > 0 THEN SetRd(g) ELSE g : j \in 1 .. h.p.avail}

\* do_recv(): one read() and the replies in it.
do_recv(h) ==
    IF h.p.est = "dead" THEN {core_close(h)}
    ELSE IF h.p.avail = 0 THEN {h}                              \* EAGAIN
    ELSE {LET f[i \in 0 .. j] ==
                IF i = 0 THEN [h EXCEPT !.p.avail = @ - j]
                ELSE LET g == f[i - 1]
                     IN  IF g.c.state = "closing" THEN g ELSE recv_done(g)
          IN  IF f[j].c.recvq > 0 THEN SetRd(f[j]) ELSE f[j] : j \in 1 .. h.p.avail}

connected(h) == issue_calls([h EXCEPT !.c.state = "connected", !.wr = FALSE])

\* The body of core_loop for a descriptor that is ready to read or to write.
Dispatch(h0, readable, writable) ==
    LET h == [h0 EXCEPT !.c.dog = FALSE] IN
    IF h.c.state = "connecting" THEN {IF writable THEN connected(h) ELSE h}
    ELSE UNION {IF readable /\ g.c.recvq > 0 THEN do_recv(g) ELSE {g} :
                   g \in IF writable /\ h.c.sendq > 0 THEN do_send(h) ELSE {h}}

\* The new values after connection c, on descriptor s, has become h.
Becomes(c, s, h) ==
    /\ conn' = [conn EXCEPT ![c] = h.c]
    /\ peer' = [peer EXCEPT ![c] = h.p]
    /\ owner' = [owner EXCEPT ![s] = IF h.c.state = "closing" THEN None ELSE c]
    /\ rd' = IF h.rd THEN rd \cup {s} ELSE rd \ {s}
    /\ wr' = IF h.wr THEN wr \cup {s} ELSE wr \ {s}

\* The last reference to c went: object_destroy(), then on at `next'.
Dies(c, next) == pc' = "destroy" /\ dying' = c /\ back' = next
GoOn(next)    == pc' = next /\ UNCHANGED <<dying, back>>

-----------------------------------------------------------------------------
(* The generators *)

\* core_connect(): the lowest free descriptor; connect() succeeds at once, is
\* in progress, or fails.
core_connect(c, next) ==
    \/ /\ \E s \in Sds : owner[s] = None
       /\ LET s == Min({x \in Sds : owner[x] = None})
              h == [c |-> [NewConn EXCEPT !.sd = s], p |-> peer[c],
                    rd |-> FALSE, wr |-> FALSE]
          IN  \E g \in {connected([h EXCEPT !.p.est = "yes"]),
                        [h EXCEPT !.c.state = "connecting", !.wr = TRUE, !.c.dog = TRUE]} :
                 Becomes(c, s, g) /\ GoOn(next) /\ UNCHANGED faults
    \/ /\ \/ (\A s \in Sds : owner[s] # None) /\ UNCHANGED faults
          \/ faults < MaxFaults /\ faults' = faults + 1
       /\ conn' = [conn EXCEPT ![c].state = "closing"]
       /\ Dies(c, next)
       /\ UNCHANGED <<peer, owner, rd, wr>>

make_conn(next) ==
    /\ generated < NumConns
    /\ generated' = generated + 1
    /\ core_connect(generated + 1, next)
    /\ UNCHANGED <<gone, mode>>

\* conn_rate's start(): the first connection.
Start ==
    /\ pc = "start" /\ make_conn("tick")
    /\ UNCHANGED <<R, W, n, pos>>

\* The rate generator's timer, in one of core_loop's calls of timer_tick().
tick ==
    /\ pc \in {"tick", "between"} /\ ~sequential
    /\ make_conn(pc)
    /\ UNCHANGED <<R, W, n, pos>>

\* object_destroy(): conn_rate counts it; without a rate the next one starts.
Destroy ==
    /\ pc = "destroy"
    /\ gone' = gone + 1
    /\ IF sequential /\ generated < NumConns
       THEN generated' = generated + 1 /\ core_connect(generated + 1, back)
       ELSE /\ pc' = back /\ dying' = None
            /\ UNCHANGED <<conn, peer, owner, rd, wr, generated, back, faults>>
    /\ UNCHANGED <<R, W, n, pos, mode>>

-----------------------------------------------------------------------------
(* core_loop() *)

conn_timeout(c) ==
    /\ pc \in {"tick", "between"} /\ conn[c].dog
    /\ Becomes(c, conn[c].sd, core_close([Handled(c) EXCEPT !.c.dog = FALSE]))
    /\ Dies(c, pc)
    /\ UNCHANGED <<R, W, n, pos, gen, faults>>

\* timer_tick() returns.
TickDone ==
    /\ pc \in {"tick", "between"} /\ (pc = "tick" => running)
    /\ pc' = IF pc = "tick" THEN "select" ELSE "scan"
    /\ UNCHANGED <<conn, peer, owner, rd, wr, back, dying, R, W, n, pos, gen, faults>>

Select ==
    /\ pc = "select"
    /\ R' = {s \in rd : LET p == peer[owner[s]] IN p.est = "dead" \/ p.avail > 0}
    /\ W' = {s \in wr : LET p == peer[owner[s]]
                        IN  p.est = "dead" \/ (p.est = "yes" /\ p.wire < Cap)}
    /\ n' = Cardinality(R') + Cardinality(W')
    /\ pos' = 1 /\ pc' = IF n' = 0 THEN "tick" ELSE "scan"
    /\ UNCHANGED <<conn, peer, owner, rd, wr, back, dying, gen, faults>>

\* The next set bit of the mask.
Handle ==
    /\ pc = "scan" /\ \E s \in R \cup W : s >= pos
    /\ LET s == Min({x \in R \cup W : x >= pos})
           c == owner[s]
           readable == s \in R \cap rd
           writable == s \in W \cap wr
           next == IF n > 1 THEN "between" ELSE "scan"
       IN  /\ n' = n - 1 /\ pos' = s + 1
           /\ IF readable \/ writable
              THEN \E h \in Dispatch(Handled(c), readable, writable) :
                       /\ Becomes(c, s, h)
                       /\ IF h.c.state = "closing" THEN Dies(c, next) ELSE GoOn(next)
              ELSE UNCHANGED <<conn, peer, owner, rd, wr, pc, back, dying>>
    /\ UNCHANGED <<R, W, gen, faults>>

\* The mask is done: once more if select() counted more than was seen.
MaskDone ==
    /\ pc = "scan" /\ \A s \in R \cup W : s < pos
    /\ pos' = 1
    /\ pc' = IF n > 0 THEN "scan" ELSE "tick"
    /\ UNCHANGED <<conn, peer, owner, rd, wr, back, dying, R, W, n, gen, faults>>

-----------------------------------------------------------------------------
(* The server *)

PeerStep(c, p) ==
    /\ Open(c)
    /\ peer' = [peer EXCEPT ![c] = p]
    /\ UNCHANGED <<conn, owner, rd, wr, loop, gen>>

Accept(c) ==
    peer[c].est = "no" /\ PeerStep(c, [peer[c] EXCEPT !.est = "yes"]) /\ UNCHANGED faults
Reply(c) ==
    /\ peer[c].est = "yes" /\ peer[c].wire > 0
    /\ PeerStep(c, [peer[c] EXCEPT !.wire = @ - 1, !.avail = @ + 1])
    /\ UNCHANGED faults
Reset(c) ==
    /\ faults < MaxFaults /\ faults' = faults + 1
    /\ peer[c].est # "dead"
    /\ PeerStep(c, [est |-> "dead", wire |-> 0, avail |-> 0])

-----------------------------------------------------------------------------
LoopStep == Start \/ TickDone \/ Select \/ Handle \/ MaskDone \/ Destroy

Next == LoopStep \/ tick \/ \E c \in Conns : conn_timeout(c) \/ Accept(c) \/ Reply(c) \/ Reset(c)

\* core_loop polls; the rate timer expires and is called; the server accepts
\* and answers.  Nothing says a watchdog has to fire.
Fairness ==
    /\ WF_vars(LoopStep) /\ SF_vars(tick)
    /\ \A c \in Conns : WF_vars(Accept(c) \/ Reply(c))

Spec == Init /\ [][Next]_vars /\ Fairness
-----------------------------------------------------------------------------
(* Properties *)

(***************************************************************************)
(* Nothing refers to a connection that is gone: a descriptor in rdfds or   *)
(* wrfds has an owner, which is open and has that descriptor; an open      *)
(* connection is found under its own; and what conn_deinit asserts of a    *)
(* closed one holds.  core_loop takes sd_to_conn[sd] without a test.       *)
(***************************************************************************)
TablesAgree ==
    /\ \A s \in rd \cup wr : owner[s] # None
    /\ \A s \in Sds : owner[s] # None => Open(owner[s]) /\ conn[owner[s]].sd = s
    /\ \A c \in Conns : IF Open(c) THEN owner[conn[c].sd] = c
                        ELSE ~conn[c].dog /\ conn[c].sendq + conn[c].recvq = 0

(***************************************************************************)
(* No wake-up is lost: at select() the loop asks for readability exactly   *)
(* when a call waits for its reply, and for writability when one waits to  *)
(* be sent or the connection to be established.                            *)
(***************************************************************************)
Interest ==
    pc = "select" =>
        \A c \in {x \in Conns : Open(x)} :
            /\ conn[c].sd \in rd <=> conn[c].recvq > 0
            /\ conn[c].sd \in wr <=> (conn[c].sendq > 0 \/ conn[c].state = "connecting")

(***************************************************************************)
(* "If during any of those activities a request fails to make forward      *)
(* progress within the alloted time, httperf considers the request to have *)
(* died" (man page, --timeout): when core_loop waits in select(), a        *)
(* watchdog is armed for every connection on which something is to happen. *)
(* It is not: a descriptor that is readable and writable counts twice and  *)
(* is handled twice, and the second time core_loop cancels the watchdog    *)
(* and, with nothing left to read, does not arm it again.                  *)
(***************************************************************************)
Watched ==
    pc = "select" =>
        \A c \in {x \in Conns : Open(x)} :
            conn[c].state = "connecting" \/ conn[c].sendq + conn[c].recvq > 0 => conn[c].dog

(***************************************************************************)
(* Replies and calls match: on a connection that was not reset, the calls  *)
(* that wait for a reply are those the server has or has answered, so      *)
(* do_recv()'s assertion that a reply finds a call holds.                  *)
(***************************************************************************)
RepliesMatch ==
    \A c \in Conns : Open(c) /\ peer[c].est = "yes" =>
        conn[c].recvq = peer[c].wire + peer[c].avail

(***************************************************************************)
(* The test ends: when the server answers what it does not reset, all      *)
(* connections are destroyed and core_exit() stops the loop, in both modes *)
(* of the generator and when descriptors run out.  Left out are calls that *)
(* come in several bursts of which the last is short: see TestStops.       *)
(***************************************************************************)
ShortLast == burst < NumCalls /\ NumCalls % burst # 0

TestEnds == ~ShortLast => <>(~running)

(***************************************************************************)
(* "A test stops as soon as the N connections have either completed or     *)
(* failed", whatever the number of calls and the length of a burst.  It    *)
(* does not: after a short last burst call_destroyed() waits for as many   *)
(* calls as a whole burst has, and nothing closes the connection.          *)
(***************************************************************************)
TestStops == <>(~running)
=============================================================================
