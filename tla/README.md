# Formal models of openbenchmarks

openbenchmarks packages a collection of benchmark programs under one
autotools build. The programs are independent of each other: they share no
code and no state. Each has its own concurrency, its own protocol between
processes or hosts, and its own bookkeeping.

## 1. Inventory

| Component | Where | State it keeps | Operations | What is hard |
|---|---|---|---|---|
| iperf reporter | `src/iperf/src/Reporter.c` | list of report headers, one ring of packets per transfer, interval and total statistics, multi-stream slots | `InitReport`, `ReportPacket`, `CloseReport`, `GetReport`, `EndReport`, `reporter_spawn` and what it calls | lock-free ring, two condition variables, list edited by two threads, headers freed by another thread than the one that uses them |
| iperf threads | `compat/Thread.c`, `main.cpp`, `compat/signal.c`, `Launch.cpp` | `thread_sNum`, `nonterminating_num`, `sInterupted`, the `runNow`/`runNext` chains | `thread_start`, `thread_stop`, `thread_run_wrapper`, `thread_joinall`, `thread_setignore`, `Sig_Interupt`, `sig_exit` | when may `main` exit; threads that start threads; signal handler on any thread |
| iperf traffic | `Client.cpp`, `Server.cpp`, `Listener.cpp`, `List.cpp` | sockets, list of peers, UDP datagram IDs | accept, read, write, FIN and ACK-FIN exchange | loss, duplication, reordering, retries that race timeouts |
| iperf barrier | `Reporter.c`, `BarrierClient` | `MultiHeader.threads` | every parallel client joins | spurious wake-ups, a client that fails before it joins |
| httperf | `src/httperf/src` | timer wheel, connection, call and session objects with reference counts, send and receive queues, event chains | `timer_*`, `core_*`, `conn_*`, `call_*`, `event_signal` | callbacks that change the structure being walked; time-outs against late replies |
| lmbench | `src/lmbench/src` | the parent/child state of `benchmp`, result tables | `benchmp`, `benchmp_interval`, `settime` | four pipes, SIGCHLD and SIGTERM, a parent that must never hang on a dead child |
| bonnie++ | `src/bonnie` | semaphores, forked workers, pipes | `Semaphore`, `ForkIt`, seekers | lock-step of processes |
| tiobench | `src/tiobench` | thread descriptors, start flags | worker threads, timers | start barrier by polling |
| iozone3 | `src/iozone3/src/current` | shared child status array, async I/O queue, distributed messages | throughput mode, `libasync.c`, network master/client | busy-wait barriers over shared memory, cancellation |
| netperf | `src/netperf` | control connection, test requests, CPU statistics | request/response control protocol | a server that forks per connection, partial receives |
| nuttcp, netpipe, ttcp | `src/nuttcp`, `src/netpipe`, `src/ttcp` | control and data sockets | handshakes | lock-step protocols |
| postmark | `src/postmark` | file table with a free prefix | create, delete, read, append | index arithmetic on a sparse table |
| memtester | `src/memtester` | two buffers | tests over the buffers | pure computation |
| dhrystone, whetstone, nsieve | same names | arrays | pure computation | nothing concurrent |
| recipes, docs, lttng | same names | - | packaging, manuals, scripts | no program logic |

What makes each of them correct:

- reporter: a packet handed over is counted once and in order, a report is
  complete before it is printed, a header is freed after its last use, nobody
  waits for ever for the reporter, and the printed numbers say what arrived;
- threads: `main` leaves when, and only when, nothing is left to do;
- traffic: a test has one session, the server's count agrees with what
  arrived, both ends come to an end whatever the network loses;
- barrier: parallel clients start together or not at all;
- httperf: a timer fires once or is cancelled, an object lives as long as it
  is referenced, a time-out and a late reply exclude each other;
- lmbench: the parent gets a result from every child or kills them all;
- bonnie++, tiobench, iozone3: nobody runs ahead of the common start, nobody
  is left at it;
- netperf, nuttcp, netpipe, ttcp: the two ends of a control connection agree
  on which step of the test they are in;
- postmark: the table entry of a file is free exactly when the file is gone;
- the rest computes, and its result is its own test.

iperf comes first: it is the one program of the collection with threads that
share memory, a protocol over an unreliable network, signals and retries. Then
come the other programs whose own logic lets several actors meet: httperf's
event loop and its timers, lmbench's `benchmp` and iozone's throughput mode.
PROJECT.json lists the places in the code where these bite ("hazards"), each
with the properties that cover it.

## 2. How the parts of iperf interact

`main` starts a chain of threads: a listener (server) or clients, and one
reporter. The listener starts a server per client, and for a dual or
trade-off test a client that sends back. Every client and server is a
*transfer agent*: it creates a report header with `InitReport`, which puts it
in front of the list `ReportRoot`, hands a packet to `ReportPacket` for every
read or write, and ends with `CloseReport` and `EndReport`. The reporter walks
the list, empties each ring, prints, and frees what is finished. `main` waits
in `thread_joinall` until `thread_sNum` is 0; the reporter takes itself off
that count while it sleeps, the listener when it is released.

```
 main --start--> Listener --start--> Server --\           ThreadCount
   |                ^                          \
   +--start--> Client ==== datagrams ==========/          UdpSession, ClientBarrier
   |              \ ring (one per transfer) /             ReportRing < ReportQueue
   +--start--> Reporter: list of headers, statistics      ReportList, PacketStats
                  \__ ReportDoneCond __/                  ReportDone
```

The other programs have nothing to do with iperf or with each other. In
httperf one process runs `core_loop`: `timer_tick` calls the timers that have
expired, `select` says which connections can go on, `do_send` and `do_recv`
move them, and the load generator is told of every change by `event_signal`
and answers with calls into the core, often from inside the core. In lmbench
`benchmp` forks children and leads them through warm-up, measurement and report
over four pipes. In iozone's throughput mode a parent and its children poll
flags in shared memory.

```
 TimerWheel < TimerQueue      timer.c under core_loop
 HttperfCore                  core.c, conn.c, call.c + gen/rate.c, conn_rate.c, call_seq.c
 Benchmp                      lib_timing.c: benchmp, benchmp_parent, benchmp_child, benchmp_interval
 Throughput                   iozone.c: throughput_test, thread_{write,rwrite,read}_test
```

`HttperfCore` uses timers the way `TimerQueue` promises them: a timer that is
set may expire at any later pass of the loop, and is called once.

## 3. The modules

Every action names the function it comes from in its comment; PROJECT.json
"map" gives the lines. Operators called *mutant* in a comment are changed
copies of the definition that follows them. They are no part of any
specification: each shows that some property would notice that mistake.

### ReportQueue, ReportRing, ReportRingProofs

`ReportRing` has one agent, the reporter and their ring. The threads share
`agentindex`, `reporterindex` and the slots and use no lock, so every access to
one of these is a step. `index` is the agent's copy of `reporterindex`, which
is stale as soon as it is read; `apc` and `rpc` are the program counters. The
wait for room on `ReportDoneCond` appears as blocking, wake-up by the
reporter's broadcast at the end of each pass, and spurious wake-up.
`ReportQueue` is the promise: a FIFO queue of capacity `NUM_REPORT_STRUCTS`
with the life cycle open, closed, drained, ended, freed. `ImplementsQueue`
states the refinement with its mapping.

Assumption: accesses to the indices are atomic and sequentially consistent.
The code declares them plain `int`; on a machine or with a compiler that
reorders them nothing here applies.

### ReportList, MCReportList, ReportListProofs

The list of headers. Traffic threads follow a script (`Script`) of
`ReportSettings`, `InitReport`, `CloseReport`, `ReportServerUDP`, `EndReport`;
pushing is one step, as the code does it under the mutex of `ReportCond`. The
recursion of `reporter_process_report` is the variable `stack`. A transfer is
reduced to its life cycle, which is the one `ReportQueue` has. `sNum` and
`main` model when the process ends. `EndsLast`, which `MCReportList` assumes of
its scripts, says that a thread's last call is the `EndReport` of a transfer.

### ReportDone

Several agents wait on the same `ReportDoneCond`, and `ReportPacket` calls
`Condition_Wait` without holding its mutex. POSIX leaves that undefined. The
module says what glibc does with a mutex of the normal kind: the wait unlocks
the mutex whoever holds it, and returns with it locked for the caller
(`owner`). A ring is reduced to the number of its free slots (`room`).

### PacketStats, PacketStatsProofs

The counters of one transfer and the interval and final reports computed from
them. Packets arrive in any order, more than once or never. `log` is a history
of what was counted, and the properties compare what is printed with it. Time
is in whole units, and jitter and the rates are left out.

### ClientBarrier, ClientProofs

`BarrierClient` on the group's `MultiHeader`. A client may fail before it
reaches the barrier, and a wait may return by itself (`spurious` remembers
that one did). The names of its specification begin with `Barrier`, because
`ClientProofs` has the proofs of this module and of `UdpSession`.

### ThreadCount, MCThreadCount, ThreadCountProofs

`thread_sNum` and `nonterminating_num`, the accept loop, the start chains and
the signal handler, which can run on any thread. `cfg` is how the process was
started: `MCThreadCount` lists five. A critical section under
`thread_sNum_cond` is one step. The build is the POSIX one
(`HAVE_POSIX_THREAD`), in which `thread_rest` does nothing. Creation of a
thread succeeds; all sessions come from an admitted host.

### UdpSession, ClientProofs

Clients, listener and server threads of UDP tests. `lq` is the queue of the
listening socket, `sessions` the server threads with the queues of their
connected sockets. A datagram may be lost, delayed (`late`) or refused
(`refused`: a pending ECONNREFUSED); an AckFIN may be lost. The number in the
FIN is whatever `CloseReport` read of the reporter's count (section 6), so it
can be 0 and one too large. `arrived` is a
history. How the kernel delivers datagrams is external and modelled from how
`Accept` relies on it.

### TimerQueue, TimerWheel, HttperfProofs

`TimerWheel` has the memory of `timer.c`: spokes of doubly linked lists whose
entries hold the number of turns between them (`delta`), and a free list that
uses the same `next` field. `timer_tick` is taken apart into its steps, as
callbacks schedule and cancel between them. `TimerQueue` is the promise: a set
of timers with due times, each called once and at most a tick late.
`ImplementsTimers` is the refinement. The constant `FullTurns` says whether a
callback that is not the first of its tick may schedule a whole number of turns:
that is where the code fails (section 6), and without it the refinement holds.
`HttperfProofs` has the proofs for the timers and for `HttperfCore`.

### HttperfCore

One process that steps through `core_loop`. A connection is a record with its
descriptor, the lengths of its two queues and its watchdog; `rd` and `wr` are
the two `fd_set`s, `R` and `W` what `select` made of them, `pos` and `n` the
place in the scan. The functions that handle a connection
(`do_send`, `do_recv`, `core_close`, the hooks of `call_seq`) are operators from
a connection to a connection, since they run to completion; the destruction of a
connection, which may start another one, is a step of its own because the code
calls the generator from inside it. `sequential` is a run without a rate, in
which each connection follows the end of another. The server is external: it
accepts, answers, or resets.

### Benchmp, BenchmpProofs

A call of `benchmp` with `parallel > 1`: the nested baseline call with one child
(`round = 1`), then the call itself. The parent's steps are its system calls;
each child goes through the states of `benchmp_interval`. Pipes are sequences or
counts of bytes, and a result takes several writes to send. SIGCHLD, SIGTERM
and SIGALRM act as their handlers do, including the handler that a second call
inherits from the first. A child that `benchmp_child_sigterm` or the death of the
parent ends calls `cleanup` once more first (`"leaving"`). Faults: a child dies, a
`cleanup` does not come back wherever it is called (`hung`), a fork fails, SIGTERM
arrives, the parent is killed.

### Throughput, MCThroughput, ThroughputProofs

`flag`, `actual` and `stop` are the shared memory; a child's `i`,
`written_so_far` and `stopped` are fields of its record. A child reads
`stop_flag` in up to three places of its loop and each is a step. `file` is how
long the child's file is, which the next test depends on. The way out of a child is
several steps, as it can be killed between them: a writer tells the others to stop
(`TellStop`) before it stores its result (`Store`), the other tests after. Faults: a fork, an open
or a transfer fails, a child is killed, SIGINT or SIGTERM arrives. `before` and
`lost` are histories.

## 4. The runs

| Run | Bounds | Shows |
|---|---|---|
| `report_ring` | 4 slots, 9 packets, so that both indices wrap twice | packets are counted once and in order (`InOrder`); no slot is read while it is written (`NoSlotRace`); `GetReport` and the final report are complete (`ReportComplete`); a waiting agent gets on (`WaitEnds`); the ring refines the queue, its liveness included (`ImplementsQueue`); the invariant of the proof holds (`IndInv`) |
| `report_list` | 2 UDP clients, 5 headers | the list stays intact while it is pushed to during an unlocked walk (`ListIntact`, `WalkIsLive`); no transfer header is freed early (`DataHeaderKept`); `main` exits after the last report is printed (`NoReportLost`, `MainExits`) |
| `report_done_hang` (violated) | 2 agents, rings of 1 | `AllFinish` |
| `packet_stats` | 3 packets with 4 numbers, 2 lengths, times up to 5, intervals of 2, UDP and TCP | gaps less late packets is what is missing less what came twice (`LossIdentity`); an interval report says what arrived in the interval, and its losses are the gaps less the late packets if there are more gaps (`IntervalsExact`); the final one covers everything and says as lost what never came, unless all gaps were filled (`FinalExact`) |
| `client_barrier` | 4 clients | nobody starts early (`Synchronized`); the group's count is exact (`BarrierInv`); nobody is left behind unless a client failed (`NoneLeftBehind`) |
| `thread_count` | 2 sessions, 2 signals, 5 ways to start | `thread_sNum` is accurate (`CountAccurate`); `main` leaves after the last transfer (`MainExitsLast`), and it does leave (`ProcessExits`) |
| `udp_session` | 1 client, 3 datagrams, 2 delayed, 2 tries | the report a client prints is final (`RelayedIsFinal`); only an overtaken datagram starts a second session (`OneSession`); the server's count is even with what arrived (`Even`); both sides end (`FinEnds`) |
| `timer_wheel` | 3 spokes, 3 timers, delays up to 7 ticks (more than two turns), ticks up to 2 late | the lists are sound (`WheelIntact`); every timer is called once and in time (`ImplementsTimers`) |
| `timer_wheel_forgotten` (violated) | the same, whole turns allowed | `NoneForgotten` |
| `httperf_core` | 3 connections on 2 descriptors, 2 calls each, bursts of 1 and (cut short) 3, 1 fault | tables and `fd_set`s agree (`TablesAgree`); the loop asks `select` for what it waits for (`Interest`); replies find their calls (`RepliesMatch`); the test ends unless the last of several bursts is short (`TestEnds`) |
| `benchmp` | 3 children, results of 2 writes, 2 faults | the phases do not overlap (`Lockstep`); results are whole (`ResultsWhole`); no child is left (`NoneLeft`); `benchmp` ends, unless a `cleanup` hangs or the parallel call waits for a child that ignored its SIGTERM (`Ends`); orphans die (`OrphansDie`) |
| `throughput` | 3 children, 2 records, 3 tests, 1 fault | a result is what was transferred before the stop (`CapturesBefore`); someone does all the work, without stonewalling everyone (`SomeoneCompletes`); writers leave whole files (`NobodyFails`); everything ends but for two named cases (`AllEnds`) |

Type correctness is checked as a conjunct of another invariant (`IndInv`,
`BarrierInv`, `ListIntact`, `CountAccurate`, `Lockstep`, `CapturesBefore`) or on
its own (`udp_session`, where it bounds the retries).

Why the bounds are enough: the ring's behaviour depends on distances modulo its
size, and 4 slots have every relative position of the two indices, the copy
and both ends of the array, in every lap; the proofs remove the bound. Two
pushing agents and five headers give a push before, during and after each
unlink. Three packets are the least for a gap, a late packet and a duplicate
in one transfer. Two tries of the FIN and of the AckFIN make one retry of each
and the exhaustion of both; one client has all the behaviours the session
properties speak of. (With two clients,
`MaxData = 2`, `MaxTries = 1` and `MaxLate = 0`, `UdpSession.cfg` has 1.1 million
states and passes too; section 5 removes all four bounds.) Three timers in one spoke have a first, a middle and a
last, and three spokes let a late tick cross several. Three connections on two
descriptors make a descriptor change its owner and run out. Three children are
the least for one that is ahead, one behind and one that fails; two writes per
result are the least that could interleave; two records per child are the least
for a child that is stopped in the middle. One fault in `throughput` is a child killed
at any of its steps, those between its stop and its exit included, a failed call or a
signal; the proofs have any number.

`CHECK_DEADLOCK FALSE` is in every configuration: all of these systems are
meant to stop. Liveness properties say where they may.

**Fairness.** Weak fairness of each thread or process: the operating system runs
what can run, and none of the loops waits for a condition that comes and goes.
Nothing is assumed of the network, of spurious wake-ups (only, in
`ReportList`, that they do not go on for ever), of the user's signals, of
faults, or of anybody connecting. `ThreadCount` assumes that a transfer ends,
which its peer, the amount or the timer brings about, and that an armed timer
goes off. `HttperfCore` assumes that the server accepts and answers, and strong
fairness of the rate timer's tick, which is only enabled in one place of a loop
that comes by again and again; watchdogs need not fire. `TimerWheel` states
safety only.

## 5. What is proved

TLAPS checks these for every value of the constants that satisfies the named
`ASSUME`s. Each proof module has an inductive invariant, which was checked with
TLC before it was proved, and the properties of the runs follow from it.

- **ReportRingProofs** (`NUM_REPORT_STRUCTS >= 3`, any number of packets):
  `TypeCorrect`, `CountsInOrder`, `SlotsRaceFree`, `ReportsComplete`,
  `FreedOnlyAfterEnd`, and `RefinesQueue`, the safety part of the refinement.
  None of the properties is inductive, because each depends on how far the two
  indices are apart, which no single thread knows. `IndInv` says it:
  `RingDistance` ties the number of packets in flight to the two indices in
  either lap; `RingContents` says which packet each slot in between holds;
  `AgentInv` that the agent's copy of the reporter's index can only be behind
  it, so that a decision taken with it errs to the safe side; `ReporterInv`
  what the reporter's place says about the life of the report.
- **ClientProofs**, the barrier (any finite group of more than one client):
  `CountStaysExact` and `BarrierSynchronizes`. `BarrierInv` adds to `Synchronized`
  that `threads` is short by exactly the clients inside; from that the one that
  finds 1 knows that all others are in (`OthersInside`, by counting).
- **ClientProofs**, the UDP sessions (any finite set of clients on one listening
  socket, any number of datagrams, delays and tries): `ReportsAreFinal`,
  `SessionsAreOne`, `CountsAreEven`, `TriesAreBounded`. The history `arrived` is
  settled when a datagram gets into a queue, a session counts it later, and in
  between the queue may change its owner. So the invariant follows the datagrams:
  `Ahead` says that a queue, up to its first FIN, holds what the history has beyond
  what was counted; it is carried from the listening queue (behind FINs of other
  clients that `Accept` drops, `LeftTo`) to the session (`Accounted`). `Waiting`
  says why a client's datagrams are in the listening queue at all, and that none of
  them is behind its FIN unless it was delayed; hence the listener never meets a
  client that is still in its list, and a FIN that is sent again starts nothing.
  `Answers` says that what is on its way to a client is the report of a closed
  session. As in the run, sessions on a socket in which datagrams of several clients
  met (`Mixed`) are left out of `OneSession` and `Even`, but not of `RelayedIsFinal`.
- **PacketStatsProofs** (any numbers, lengths and times, any length of
  transfer): `TypeCorrect`, `LossExact`, `IntervalsAreExact`, `FinalIsExact`. For the
  losses the invariant is the balance of the counters: the highest number is the
  fresh packets plus the gaps, and the late ones are the numbered packets that are
  not fresh; `CountBalance` shows that one packet keeps it. Losses are stated against
the log, not against what `reporter_condprintstats` computes: gaps less late packets
where there are more gaps, what is missing in the final report where nothing came
twice and not all gaps were filled (section 6 has that case). For the reports it ties the
  counters to the log (`Tallies`): they are exact for all of it, and their copy `last`
  for what the interval reports cover, so that the difference of the two is exact for
  what lies between (`Between`). Every report ended before the packet in hand came,
  and whether a packet was late is settled when it is counted, so later packets change
  nothing of what a report says (`ExactKept`).
- **ReportListProofs** (any number of threads with scripts of any length;
  `ScriptAssumption`: a script names an operation once, and closes or ends only a
  transfer it has): `TheListIsIntact`, `TheWalkIsLive`, `DataHeadersAreKept`,
  `NoReportIsLost`. What the properties say of the pointers is too weak for an
  unlink in the middle of an unlocked walk, so the invariant has the list itself:
  `List` says that `ReportRoot` and `next` are a sequence of different headers, all
  that are allocated, and that the activations of `reporter_process_report` are a
  piece of it, from some header on (those in front were pushed since). `Rest`,
  `Progress` and `Freed` tie what a thread has still to do to the life of its headers,
  and `Counts` says what `thread_sNum` is. `NoReportIsLost` is proved from `EndsLast`,
  which clients and servers satisfy: they wait in `EndReport` before they end. With it,
  a sleeping reporter has seen everything but transfers whose threads are still
  counted (`Asleep`). It is not claimed of a listener, which only reports settings
  (section 6).
- **ThreadCountProofs** (any start chain of listener, reporter and clients, any
  finite set of sessions, any number of signals; `CountAssumption`: a thread is in a
  chain once): `CountIsAccurate`, `MainLeavesLast`. The count is changed by the one
  who starts a thread, by the thread that ends, by the reporter that rests, and by the
  signal that releases the listener; it stays accurate because nobody is started
  twice, which is what `Pending` (of the chain of `main`) and `Unstarted` (of the
  listener's) say, and because `nonterminating_num` is the listener's (`Nonterm`).
- **HttperfProofs**, event loop (any connections, descriptors, calls and bursts):
  `TablesAlwaysAgree`, `NoWakeupIsLost`, `RepliesAlwaysMatch`. A handler closes
  descriptors and opens others while `core_loop` goes through copies of the old
  `fd_set`s, so nothing is assumed of the copies: `Tables` relates descriptors and
  connections as they are now, and `Each` says that every open connection is as the
  handlers leave it (`Fit`), wherever the scan is. The lemmas show that `do_send`,
  `do_recv`, `core_close` and the hooks of the generators, which call each other, lead
  from fit to fit.
- **HttperfProofs**, timers (a wheel of any size, any number of timers, any delays,
  ticks however late; `~FullTurns`, the case in which the code fails left out):
  `WheelStaysIntact` and `WheelImplementsTimers`, the whole refinement, which is
  safety. What `WheelIntact` computes by walking the lists says nothing step by step,
  so `WheelInv` says where each timer is: there are functions that give each held
  timer a spoke, a place in its list and the turns until it is called, and each free
  one a place on the free list (TLC checked it for the functions read off the lists). `Linked` and `BackLinked` say that `q.next` and
  `q.prev` lead from place to place, and what the first of a spoke hangs on while its
  predecessors are called back (`First`, `Front`: the last of those, not the head of
  the spoke, whose `next` is stale until the spoke is done); `Turned` that the `delta`s
  are the differences of the turns, which never decrease along a list; `OnTime` that
  spoke and turns together are the tick asked for or the next. A callback removes or
  inserts a place in any list, the one being walked included, and moves those after it
  by one (`CancelInv`, `Inserted`). `WhereTo` shows that `timer_schedule`'s loop
  stops at the right place, `NextSpoke` and `SpokeAhead` do the arithmetic of turns and
  remainders, and `InvIntact` shows that the walks of `WheelIntact` find exactly the
  places.
- **BenchmpProofs** (any number of children, writes per result and faults):
  `PhasesDoNotOverlap`, `ResultsAreWhole`, `NobodyIsLeft`. The parent does not see
  its children, only bytes, so `Bytes` bounds the bytes it has read or can read by the
  children that are past the state the byte reports the end of: with as many bytes
  as children all are past it. `Phases` says what the bytes on their way to the
  children allow them, `Waited` which children the loops that fork, kill and wait
  have passed, and `Results` that the one child that was asked owns all that is in the
  response pipe (`Owner`), so that one `read` never takes the start of another
  result. That as many different results as children are one of each is the
  pigeonhole principle (`Covered`).
- **ThroughputProofs** (any number of children and records, any sequence of tests
  that begins with `write`, as `throughput_test` does): `ResultsBeforeStop`,
  `WorkIsDone`, `WholeFiles`. `Counting` relates what a child has counted to what
  it has transferred, and to what of that came before the stop, at each of its places;
  `Finishing` says that the stop comes from a child that did everything, and what it
has published at each step of its way out, on which it may be killed; `Files` how
  long a file is at least while its child is busy; and `Phase` keeps parent and
  children in step, as the polling of `flag` does.

`TypeCorrect` and `FreedOnlyAfterEnd` (a header is freed only after its agent's
last use) have no run of their own: `IndInv`, which implies both, has.

Four of the models compute with recursive functions: the walk along the list
(`Walk` in `ReportList`), the walks along spokes and free list (`InSpoke`, `Chain`,
`Place` in `TimerWheel`), the replies that one `do_recv` takes, and the sums of
bytes. An induction
principle with a predicate as its parameter is out of the provers' reach, so what
these functions compute is proved from the least counterexample: a set of numbers
that has a member has a least one (`WFMin` of the library), and the definition leads
from it to a smaller one. That the equation of such a function has a solution is
proved in the same way (`RepliesExist`). The sums of `PacketStats` (`MapThenSumSet`
of the community modules, a recursive function too) are handled like this, with the
smallest set in place of the least number: `SumsExist`, `SumSplit` (the order of the
elements does not matter) and `SumRest` (a sum over a part and the rest).

Only model-checked:

- liveness (`WaitEnds`, `NoneLeftBehind`, `MainExits`, `ProcessExits`, `FinEnds`,
  `Ends`, `OrphansDie`, `TestEnds`, `AllEnds`, the liveness of `ImplementsQueue`):
  neither fairness nor ENABLED is in the prover's reach;
- the two runs that are violated.

## 6. Where the code and what is said of it disagree

Shown by a run, with an entry under "findings":

- waiting on `ReportDoneCond` without its lock can leave an iperf agent blocked
  for ever (`AllFinish`, `Reporter.c:342`);
- an httperf callback that is not the first of its tick and schedules a whole
  number of turns of the wheel links the new timer to a freed one: it is never
  called (`NoneForgotten`, `timer.c:167`).

Stated in the modules and violated by what the code does. The runs have these cases
left out of their properties, by an exception that is named in the formula; each
counterexample appears when the formula is added to the configuration of the run, with
the constants given here:

- `LateNotLost` (`PacketStats.cfg` as it is): when late packets filled all the gaps of
  a transfer, iperf reports them as lost (`Reporter.c:791`), though
  `doc/index.html:536-539` says "they are excluded from the lost packet count".
  `IntervalsExact` and `FinalExact` speak of losses in all other cases;
- `StartTogether` (`ClientBarrier.cfg` as it is): the wait of iperf's barrier is not in a
  loop, so a wake-up without a broadcast lets a client start on its own
  (`Reporter.c:196`); the comment at 186 says the barrier synchronizes the clients.
  `Synchronized` excepts it;
- `WaitsForAll` (`ThreadCount.cfg` as it is): a UDP listener whose `recvfrom` fails is
  taken off the thread count again by the next signal, and `main` leaves while a
  transfer is on (`Listener.cpp:431`), though it "waits for all threads to complete"
  (`main.cpp:120`). `MainExitsLast` excepts it;
- `TestStops` (`NumConns = 1`, `NumSds = 1`, `NumCalls = 3`, `Bursts = {2}`,
  `MaxFaults = 0`): with `--num-calls` not a multiple of `--burst-length`, httperf's
  `call_destroyed` waits for a full burst and never closes the connection
  (`call_seq.c:114`), though "A test stops as soon as the N connections have either
  completed or failed" (`httperf.1:298-300`). `TestEnds` excepts it (`ShortLast`);
- `Watched` (`HttperfCore.cfg` as it is): a descriptor that is readable and writable is
  handled twice by `core_loop`; the second time its watchdog is cancelled and, when there
  is nothing left to read, not armed again (`core.c:1223`), and a server that stays
  silent is waited for without the limit that `--timeout` sets (`httperf.1:529-533`).
  `TestEnds` does not notice, as it assumes a server that answers;
- `ChildrenCleanUp` (`Parallel = 2`, `Chunks = 1`, `MaxFaults = 1`): `benchmp` never
  restores SIGTERM, so the parallel call, which follows the baseline call, finds
  `benchmp_sigterm` where it looks for the caller's handler and gives it to its
  children (`lib_timing.c:631`). SIGTERM then only sets a flag in them, and the error
  path, which is to "give the children a chance to clean up gracefully" (282), waits
  for them without end. `Ends` excepts it (`Deaf`).

### Observations

Behaviours of the models that a reader of the code may not expect. The properties
are stated with these cases left out, or do not speak of them.

iperf:

- `CloseReport` reads the count that goes into the number of a UDP FIN
  (`Reporter.c:381`) while the reporter may still be counting, so the number can
  be too small, or 0, which the server does not take for a FIN;
- the SIGALRM that ends the timed client of a dual test sets the process-wide
  interrupt flag and releases the listener: the server stops serving
  (`main.cpp:127`; `doc/index.html:100`);
- datagrams of other clients that are queued when the listening socket is
  connected to the first are read by the first one's server (`Listener.cpp:440`;
  the comment at 155-158 assumes otherwise);
- a client that fails to connect leaves the others of its group in the barrier
  for ever; `NoneLeftBehind` is stated with that exception;
- between the signal for a report and the moment the reporter is counted again
  `main` may exit, and a report whose thread does not wait for it (settings
  only) is lost; the scripts of `report_list` all wait for a transfer;
- a header with a connection report only is never freed, and the process does
  not end;
- the closing packet prints no interval report, so the interval reports stop
  with the last one before a packet arrived;
- a datagram that its FIN overtook starts a session that never ends, as does
  the loss of all FINs (`Server.cpp:112`);
- `Sig_Interupt` takes a mutex; a signal that interrupts a critical section of
  `Thread.c` on the same thread blocks it (`main.cpp:268`; not represented, the
  critical sections are single steps).

httperf:

- a connection that was refused, or whose bit in the scan belonged to the
  descriptor's former owner, counts as connected and finds out at its first
  write (`core.c:976-978` takes writability for an established connection).

lmbench:

- `benchmp_child_sigterm` ignores further SIGTERMs and calls `cleanup` before it
  exits, also in a child that hangs in `cleanup` (`lib_timing.c:559-571`). A
  `cleanup` that never comes back keeps `benchmp` waiting in either call; `Ends` has
  this and the deaf children as its exceptions.

iozone:

- a writer that has finished sets `stop_flag` well before it stores its result and
  exits (`iozone.c:12415`, 12456, 12534): killed in between, it has stopped the others
  and no result shows the whole work. `SomeoneCompletes` is stated accordingly;
- the parent polls the flag of a child that died before it was ready for ever
  (`iozone.c:3728`), for example one whose file was unlinked after an error in an
  earlier test;
- `Kill()` does nothing with `-x` (`iozone.c:11733`), so a failed fork leaves the
  children that were started polling; `AllEnds` names both cases;
- a record that is finished but not yet counted when `stop_flag` is set is left
  out, so a result may be one record short of what was transferred before;
- the minimum over the children's results starts again whenever it is 0
  (`iozone.c:3799`), so a child that transferred nothing does not show in
  "Min xfer" unless it is the last.

## 7. What is not modelled

Of iperf: formatting, option parsing and the portability layer; floating point;
the single-threaded UDP server, multicast and the Windows service; the bytes of
TCP streams and socket options; multi-stream reports. Of httperf: the HTTP parser,
replies that come in parts or end with the connection, session workloads, URI generators, statistics, SSL and the `--hog` port map. Of
lmbench: the benchmarks themselves and the statistics of their results. Of iozone:
the `-O` option (`OPS_flag`), with which a result is the number of operations and a
record that is finished after the stop is counted (`iozone.c:12237-12240`,
12386-12393, 12450-12453, 13670, 14257), threads, mmap, async I/O, record locking, remote clients, and the throughput tests
other than write, rewrite and read, which repeat their pattern.

The repository has close to 200000 lines of C, most of them third-party programs
that were imported whole, several in more than one version (netperf twice, with
`nettest_*.c` for a dozen transports), and most of those lines are measurement
loops around one system call, option parsing and output. The models cover the
parts in which several actors meet; they are a small share of the lines.
netperf, nuttcp and NetPIPE step through a lock-step request and response over one
connection, bonnie++ and tiobench start workers at a common flag and postmark keeps
a table: candidates (section 8). dhrystone, whetstone, nsieve, ttcp and memtester
compute or copy and keep no state that could go wrong between two actors; recipes
and docs are packaging.

## 8. Plan

Done: the modules of section 3. First iperf (ring and queue, list, barrier,
condition variable, statistics, threads, UDP sessions), then lmbench's `benchmp`,
httperf's timers and event loop, and iozone's throughput mode. Proved: every
invariant that a passing run checks, and both refinements as far as they are safety.

1. `MultiReport`: `reporter_handle_multiple_reports`, five slots keyed by start
   time, a sum printed once per interval when all members have reported.
2. bonnie++'s semaphores, tiobench's start, postmark's file table, netperf's
   control protocol.
