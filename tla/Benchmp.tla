------------------------------ MODULE Benchmp ------------------------------
(***************************************************************************)
(* lmbench's parallel timing harness: benchmp() of lib_timing.c forks      *)
(* `parallel' children that warm up, measure and report in lockstep with   *)
(* their parent over four pipes.  A parallel run is preceded by a baseline *)
(* run of one child, so a call of benchmp() is two rounds: one child, then *)
(* Parallel children.                                                      *)
(*                                                                         *)
(* Abstracted: the number of intervals a child measures (it stops after    *)
(* some), iteration counts, and the time it measured (none or some).       *)
(***************************************************************************)
EXTENDS Naturals, Sequences, FiniteSets, FiniteSetsExt, SequencesExt

CONSTANTS Parallel,   \* the caller's `parallel'
          Chunks,     \* writes it takes to send one result_t
          MaxFaults   \* bound on crashes, hangs, SIGTERMs and failed forks

ASSUME BenchmpAssumption == /\ Parallel \in Nat /\ Parallel > 1
                            /\ Chunks \in Nat \ {0}
                            /\ MaxFaults \in Nat

VARIABLES
    round,      \* 1: the nested baseline call, 2: the call itself
    ppc,        \* where the parent is
    i,          \* the parent's loop counter
    cleanup,    \* did the caller pass a cleanup function
    sigterm,    \* benchmp_sigterm_received in the parent
    sigchld,    \* benchmp_sigchld_received
    armed,      \* SIGCHLD is handled by benchmp_sigchld, not SIG_DFL
    child,      \* state of each child
    heard,      \* benchmp_sigterm_received in each child
    hung,       \* the children in a call of cleanup() that does not come back
    sent,       \* chunks of its results a child has written
    response,   \* the response pipe: a sequence of <<child, kind>>
    start,      \* bytes in start_signal
    result,     \* bytes in result_signal
    exit,       \* bytes in exit_signal
    part,       \* chunks of the result the parent is reading
    merged,     \* results the parent has merged
    time,       \* gettime(): 0, or 1 for some measured time
    alarmed,    \* benchmp_sigalrm has run for the child being reaped
    faults      \* faults so far

pipes  == <<response, start, result, exit>>
flags  == <<sigterm, sigchld, armed>>
pvars  == <<round, ppc, i, part, merged, time, alarmed>>
cvars  == <<child, heard, hung, sent>>
vars   == <<pvars, cvars, pipes, flags, cleanup, faults>>

ChildId == 0 .. Parallel - 1
Par     == IF round = 1 THEN 1 ELSE Parallel
Here    == 0 .. Par - 1                       \* the children of this round

Live(k)   == child[k] \notin {"none", "dead"}
AnyLive   == \E k \in ChildId : Live(k)
\* The parent's pipe ends are gone: it left benchmp_parent, or it is dead.
Closed    == ppc \in {"reap", "killed"}

\* signal(SIGTERM, benchmp_sigterm) is never undone, so only the first call
\* remembers SIG_DFL; the second remembers benchmp_sigterm itself.
benchmp_sigterm_handler == IF round = 1 THEN "SIG_DFL" ELSE "benchmp_sigterm"

Init ==
    /\ round = 1 /\ ppc = "enter" /\ i = 0
    /\ cleanup \in BOOLEAN
    /\ sigterm = FALSE /\ sigchld = FALSE /\ armed = FALSE
    /\ child = [k \in ChildId |-> "none"]
    /\ heard = [k \in ChildId |-> FALSE] /\ hung = {}
    /\ sent = [k \in ChildId |-> 0]
    /\ response = <<>> /\ start = 0 /\ result = 0 /\ exit = 0
    /\ part = <<>> /\ merged = <<>>
    /\ time = 0 /\ alarmed = FALSE /\ faults = 0

-----------------------------------------------------------------------------
(* Signals *)

\* A child ends: SIGCHLD runs benchmp_sigchld once, which uninstalls itself.
benchmp_sigchld(k) ==
    /\ child' = [child EXCEPT ![k] = "dead"] /\ hung' = hung \ {k}
    /\ sigchld' = (sigchld \/ armed)
    /\ armed' = FALSE
    /\ UNCHANGED sigterm

\* Does SIGTERM end the child?  Once initialize() is over it has the handler
\* that benchmp() remembered or, if that is SIG_DFL, benchmp_child_sigterm,
\* which ignores every further SIGTERM.
Catches(k) == /\ Live(k) /\ child[k] \notin {"init", "leaving"}
              /\ benchmp_sigterm_handler = "SIG_DFL"

\* kill(pids[k], SIGTERM).  In initialize() the child still has the inherited
\* benchmp_sigterm, which only sets its flag.  benchmp_child_sigterm calls
\* cleanup(), also in a child that hangs in it: it may come back this time.
Kill(k) ==
    \/ /\ child[k] = "init"
       /\ heard' = [heard EXCEPT ![k] = TRUE]
       /\ UNCHANGED <<child, hung>>
    \/ /\ Catches(k)
       /\ child' = [child EXCEPT ![k] = "leaving"]
       /\ hung' \in {hung, hung \ {k}}
       /\ UNCHANGED heard
    \/ /\ child[k] # "init" /\ ~Catches(k)
       /\ UNCHANGED <<child, heard, hung>>

-----------------------------------------------------------------------------
(* The parent *)

\* benchmp() before the fork loop.
Enter ==
    /\ ppc = "enter"
    /\ sigchld' = FALSE /\ sigterm' = FALSE /\ armed' = TRUE
    /\ ppc' = "check" /\ i' = 0
    /\ child' = [k \in ChildId |-> "none"]
    /\ heard' = [k \in ChildId |-> FALSE] /\ hung' = {}
    /\ sent' = [k \in ChildId |-> 0]
    /\ response' = <<>> /\ start' = 0 /\ result' = 0 /\ exit' = 0
    /\ part' = <<>> /\ merged' = <<>>
    /\ UNCHANGED <<round, time, alarmed, cleanup, faults>>

\* The fork loop: the flag is looked at before each fork.
CheckFork ==
    /\ ppc = "check"
    /\ \/ i = Par /\ ppc' = "ready" /\ i' = 0 /\ UNCHANGED armed
       \/ i < Par /\ ~sigterm /\ ppc' = "fork" /\ UNCHANGED <<i, armed>>
       \/ i < Par /\ sigterm /\ ppc' = "abort" /\ armed' = FALSE /\ UNCHANGED i
    /\ UNCHANGED <<round, part, merged, time, alarmed, cvars, pipes,
                   sigterm, sigchld, cleanup, faults>>

Fork ==
    /\ ppc = "fork"
    /\ child' = [child EXCEPT ![i] = "init"]
    /\ heard' = [heard EXCEPT ![i] = sigterm]
    /\ i' = i + 1 /\ ppc' = "check"
    /\ UNCHANGED <<round, part, merged, time, alarmed, hung, sent, pipes, flags,
                   cleanup, faults>>

ForkFails ==
    /\ ppc = "fork" /\ faults < MaxFaults
    /\ faults' = faults + 1
    /\ ppc' = "abort" /\ armed' = FALSE
    /\ UNCHANGED <<round, i, part, merged, time, alarmed, cvars, pipes,
                   sigterm, sigchld, cleanup>>

\* benchmp()'s error_exit: kill and wait for the children forked so far,
\* the last one first.
Abort ==
    /\ ppc = "abort"
    /\ \/ i > 0 /\ Kill(i - 1) /\ ppc' = "abortwait" /\ UNCHANGED i
       \/ i = 0 /\ ppc' = "end" /\ UNCHANGED <<i, child, heard, hung>>
    /\ UNCHANGED <<round, part, merged, time, alarmed, sent, pipes, flags, cleanup, faults>>

\* Mutant: does not wait for the child it killed.
AbortWaitNot ==
    /\ ppc = "abortwait"
    /\ i' = i - 1 /\ ppc' = "abort"
    /\ UNCHANGED <<round, part, merged, time, alarmed, cvars, pipes, flags,
                   cleanup, faults>>

AbortWait ==
    /\ ppc = "abortwait" /\ child[i - 1] = "dead"
    /\ i' = i - 1 /\ ppc' = "abort"
    /\ UNCHANGED <<round, part, merged, time, alarmed, cvars, pipes, flags,
                   cleanup, faults>>

\* Mutant: goes on when one child is still missing.
CollectOneShort ==
    /\ ppc \in {"ready", "done"} /\ ~sigchld /\ ~sigterm
    /\ \/ /\ i < Par /\ response # <<>>
          /\ i' = i + 1 /\ response' = Tail(response) /\ UNCHANGED ppc
       \/ /\ i + 1 >= Par
          /\ ppc' = IF ppc = "ready" THEN "start" ELSE "ask"
          /\ i' = 0
          /\ UNCHANGED response
    /\ UNCHANGED <<round, part, merged, time, alarmed, cvars, start, result,
                   exit, flags, cleanup, faults>>

\* One turn of the loops that collect the 'ready' and the 'done' bytes.
Collect ==
    /\ ppc \in {"ready", "done"} /\ ~sigchld /\ ~sigterm
    /\ \/ /\ i < Par /\ response # <<>>
          /\ LET n == Min({Len(response), Par - i}) IN
                 /\ i' = i + n
                 /\ response' = SubSeq(response, n + 1, Len(response))
          /\ UNCHANGED ppc
       \/ /\ i = Par
          /\ ppc' = IF ppc = "ready" THEN "start" ELSE "ask"
          /\ i' = 0
          /\ UNCHANGED response
    /\ UNCHANGED <<round, part, merged, time, alarmed, cvars, start, result,
                   exit, flags, cleanup, faults>>

\* A write to a pipe that no child can read any more: SIGPIPE ends the parent.
Sigpipe ==
    /\ ppc \in {"start", "ask", "exit"} /\ ~AnyLive
    /\ ppc' = "killed"
    /\ UNCHANGED <<round, i, part, merged, time, alarmed, cvars, pipes, flags,
                   cleanup, faults>>

\* After the warm-up delay, whatever the flags say by now.
SendStart ==
    /\ ppc = "start" /\ AnyLive
    /\ start' = start + Par
    /\ ppc' = "done" /\ i' = 0
    /\ UNCHANGED <<round, part, merged, time, alarmed, cvars, response, result,
                   exit, flags, cleanup, faults>>

\* Mutant: tells all the children at once.
AskAll ==
    /\ ppc = "ask" /\ AnyLive /\ i < Par
    /\ result' = IF i = 0 THEN Par ELSE result
    /\ part' = <<>> /\ ppc' = "collect"
    /\ UNCHANGED <<round, i, merged, time, alarmed, cvars, response, start,
                   exit, flags, cleanup, faults>>

\* Tell one child to report its results.
AskResult ==
    /\ ppc = "ask" /\ AnyLive /\ i < Par
    /\ result' = result + 1
    /\ part' = <<>> /\ ppc' = "collect"
    /\ UNCHANGED <<round, i, merged, time, alarmed, cvars, response, start,
                   exit, flags, cleanup, faults>>

\* One read of a result, and insertsort() into merged_results at its end.
ReadResult ==
    /\ ppc = "collect" /\ ~sigchld /\ ~sigterm
    /\ response # <<>>
    /\ LET n   == Min({Len(response), Chunks - Len(part)})
           got == part \o SubSeq(response, 1, n)
       IN  /\ response' = SubSeq(response, n + 1, Len(response))
           /\ IF Len(got) = Chunks
              THEN /\ merged' = Append(merged, got)
                   /\ i' = i + 1 /\ ppc' = "ask" /\ part' = <<>>
              ELSE part' = got /\ UNCHANGED <<merged, i, ppc>>
    /\ UNCHANGED <<round, time, alarmed, cvars, start, result, exit, flags,
                   cleanup, faults>>

\* All results are in: children may die from here on.
AllowDeath ==
    /\ ppc = "ask" /\ i = Par
    /\ ppc' = "exit" /\ armed' = FALSE
    /\ UNCHANGED <<round, i, part, merged, time, alarmed, cvars, pipes, sigterm,
                   sigchld, cleanup, faults>>

\* The 'exit' bytes, set_results(), and the end of benchmp_parent.
SendExit ==
    /\ ppc = "exit" /\ AnyLive
    /\ exit' = exit + Par
    /\ time' \in {0, 1}
    /\ ppc' = "reap" /\ i' = Par /\ alarmed' = FALSE
    /\ UNCHANGED <<round, part, merged, cvars, response, start, result, flags,
                   cleanup, faults>>

\* A flag is seen in one of benchmp_parent's loops: error_exit.
GiveUp ==
    /\ ppc \in {"ready", "done", "collect"} /\ (sigchld \/ sigterm)
    /\ ppc' = "perr" /\ i' = 0 /\ armed' = FALSE
    /\ UNCHANGED <<round, part, merged, time, alarmed, cvars, pipes, sigterm,
                   sigchld, cleanup, faults>>

\* benchmp_parent's error_exit: kill and wait for each child, the first first.
KillNext ==
    /\ ppc = "perr"
    /\ \/ i < Par /\ Kill(i) /\ ppc' = "perrwait" /\ UNCHANGED <<i, alarmed>>
       \/ /\ i = Par /\ ppc' = "reap" /\ alarmed' = FALSE
          /\ UNCHANGED <<i, child, heard, hung>>
    /\ UNCHANGED <<round, part, merged, time, sent, pipes, flags, cleanup, faults>>

WaitNext ==
    /\ ppc = "perrwait" /\ child[i] = "dead"
    /\ i' = i + 1 /\ ppc' = "perr"
    /\ UNCHANGED <<round, part, merged, time, alarmed, cvars, pipes, flags,
                   cleanup, faults>>

\* cleanup_exit: wait for the children, the last one first.
Reap ==
    /\ ppc = "reap"
    /\ \/ /\ i > 0 /\ child[i - 1] = "dead"
          /\ i' = i - 1 /\ alarmed' = FALSE /\ UNCHANGED ppc
       \/ i = 0 /\ ppc' = "end" /\ UNCHANGED <<i, alarmed>>
    /\ UNCHANGED <<round, part, merged, time, cvars, pipes, flags, cleanup, faults>>

\* The alarm goes off: SIGTERM for the child that is waited for.
benchmp_sigalrm ==
    /\ ppc = "reap" /\ i > 0 /\ child[i - 1] # "dead" /\ ~alarmed
    /\ Kill(i - 1)
    /\ alarmed' = TRUE
    /\ UNCHANGED <<round, ppc, i, part, merged, time, sent, pipes, flags, cleanup, faults>>

\* benchmp() returns: from the baseline to the parallel call if it measured
\* anything, from the parallel call to the benchmark.
Return ==
    /\ ppc = "end"
    /\ IF round = 1 /\ time > 0
       THEN round' = 2 /\ ppc' = "enter" /\ time' = 0
       ELSE ppc' = "returned" /\ UNCHANGED <<round, time>>
    /\ UNCHANGED <<i, part, merged, alarmed, cvars, pipes, flags, cleanup, faults>>

-----------------------------------------------------------------------------
(* The children *)

Exit(k) == benchmp_sigchld(k) /\ UNCHANGED <<heard, pipes>>

\* A write to the response pipe: SIGPIPE if the parent's end is closed.
Write(k, kind, next) ==
    \/ Closed /\ Exit(k)
    \/ /\ ~Closed
       /\ response' = Append(response, <<k, kind>>)
       /\ child' = [child EXCEPT ![k] = next]
       /\ UNCHANGED <<heard, hung, start, result, exit, flags>>

\* Mutant: the flag is not looked at after the handlers are set.
ChildInitUnchecked(k) ==
    /\ child[k] = "init"
    /\ Write(k, "ready", "warmup")
    /\ UNCHANGED sent

\* It ends by benchmp_child_sigterm or because its parent is gone, after a
\* last cleanup().
Leaves(k) ==
    /\ child' = [child EXCEPT ![k] = "leaving"]
    /\ UNCHANGED <<heard, hung, pipes, flags>>

\* initialize(), the handlers, the flag, and the first benchmp_interval().
ChildInit(k) ==
    /\ child[k] = "init"
    /\ \/ heard[k] /\ Leaves(k)
       \/ ~heard[k] /\ Write(k, "ready", "warmup")
    /\ UNCHANGED sent

\* benchmp_interval() in warmup: the start signal, or end of file.
TakeStart(k) ==
    /\ child[k] = "warmup" /\ (start > 0 \/ Closed)
    /\ start' = IF start > 0 THEN start - 1 ELSE 0
    /\ child' = [child EXCEPT ![k] = "timing"]
    /\ UNCHANGED <<heard, hung, sent, response, result, exit, flags>>

\* The last measured interval: send 'done'.
Measure(k) ==
    /\ child[k] = "timing"
    /\ Write(k, "done", "cooldown")
    /\ UNCHANGED sent

\* cooldown: select() says a result signal is there ...
SeeResult(k) ==
    /\ child[k] = "cooldown" /\ (result > 0 \/ Closed)
    /\ child' = [child EXCEPT ![k] = "asked"]
    /\ UNCHANGED <<heard, hung, sent, pipes, flags>>

\* Mutant: the child still holds a write end, so it never sees end of file.
TakeResultNoEof(k) ==
    /\ child[k] = "asked" /\ result > 0
    /\ result' = result - 1
    /\ child' = [child EXCEPT ![k] = "sending"]
    /\ UNCHANGED <<heard, hung, sent, response, start, exit, flags>>

\* ... and read() blocks until this child gets one.
TakeResult(k) ==
    /\ child[k] = "asked" /\ (result > 0 \/ Closed)
    /\ result' = IF result > 0 THEN result - 1 ELSE 0
    /\ child' = [child EXCEPT ![k] = "sending"]
    /\ UNCHANGED <<heard, hung, sent, response, start, exit, flags>>

SendChunk(k) ==
    /\ child[k] = "sending"
    /\ sent' = [sent EXCEPT ![k] = @ + 1]
    /\ Write(k, "result", IF sent[k] + 1 = Chunks THEN "final" ELSE "sending")

\* cleanup() is done; read the exit signal, or end of file, and exit.
TakeExit(k) ==
    /\ child[k] = "final" /\ (exit > 0 \/ Closed)
    /\ exit' = IF exit > 0 THEN exit - 1 ELSE 0
    /\ benchmp_sigchld(k)
    /\ UNCHANGED <<heard, sent, response, start, result>>

\* The parent died and init adopted this child.
Adopted(k) ==
    /\ child[k] \in {"warmup", "timing", "cooldown"}
    /\ ppc = "killed" /\ cleanup
    /\ Leaves(k) /\ UNCHANGED sent

\* exit() after the last cleanup().
Gone(k) ==
    /\ child[k] = "leaving"
    /\ Exit(k) /\ UNCHANGED sent

-----------------------------------------------------------------------------
(* Faults *)

Crash(k) == /\ Live(k) /\ Exit(k) /\ UNCHANGED <<sent, ppc>>

\* The benchmark's cleanup() does not come back, wherever it is called: after
\* an interval, after the results are sent, or when the child is leaving.
CleanupHangs(k) ==
    /\ cleanup /\ k \notin hung
    /\ child[k] \in {"warmup", "timing", "cooldown", "final", "leaving"}
    /\ hung' = hung \cup {k}
    /\ UNCHANGED <<child, heard, sent, pipes, flags, ppc>>

\* SIGTERM for the parent while benchmp_sigterm is installed.
benchmp_sigterm ==
    /\ ppc \notin {"returned", "killed"} /\ (ppc # "enter" \/ round = 2)
    /\ sigterm' = TRUE
    /\ UNCHANGED <<sigchld, armed, cvars, pipes, ppc>>

ParentKilled ==
    /\ ppc \notin {"returned", "killed"}
    /\ ppc' = "killed"
    /\ UNCHANGED <<flags, cvars, pipes>>

Fault ==
    /\ faults < MaxFaults /\ faults' = faults + 1
    /\ \/ \E k \in ChildId : Crash(k) \/ CleanupHangs(k)
       \/ benchmp_sigterm \/ ParentKilled
    /\ UNCHANGED <<round, i, part, merged, time, alarmed, cleanup>>

-----------------------------------------------------------------------------
ParentStep ==
    \/ Enter \/ CheckFork \/ Fork \/ Abort \/ AbortWait \/ Collect \/ Sigpipe
    \/ SendStart \/ AskResult \/ ReadResult \/ AllowDeath \/ SendExit \/ GiveUp
    \/ KillNext \/ WaitNext \/ Reap \/ benchmp_sigalrm \/ Return

ChildStep(k) ==
    /\ k \notin hung
    /\ \/ ChildInit(k) \/ TakeStart(k) \/ Measure(k) \/ SeeResult(k)
       \/ TakeResult(k) \/ SendChunk(k) \/ TakeExit(k) \/ Adopted(k) \/ Gone(k)
    /\ UNCHANGED <<pvars, cleanup, faults>>

Next == ParentStep \/ ForkFails \/ Fault \/ \E k \in ChildId : ChildStep(k)

\* Parent and children are processes the kernel schedules.
Fairness == WF_vars(ParentStep) /\ \A k \in ChildId : WF_vars(ChildStep(k))

Spec == Init /\ [][Next]_vars /\ Fairness

-----------------------------------------------------------------------------
(* Properties *)

TypeOK ==
    /\ round \in 1 .. 2 /\ i \in 0 .. Parallel /\ time \in {0, 1}
    /\ ppc \in {"enter", "check", "fork", "abort", "abortwait", "ready", "start",
                "done", "ask", "collect", "exit", "perr", "perrwait", "reap",
                "end", "returned", "killed"}
    /\ {cleanup, sigterm, sigchld, armed, alarmed} \subseteq BOOLEAN
    /\ child \in [ChildId -> {"none", "init", "warmup", "timing", "cooldown",
                              "asked", "sending", "final", "leaving", "dead"}]
    /\ heard \in [ChildId -> BOOLEAN] /\ hung \subseteq ChildId /\ sent \in [ChildId -> 0 .. Chunks]
    /\ {start, result, exit} \subseteq 0 .. Parallel
    /\ Len(part) < Chunks /\ Len(merged) <= Parallel
    /\ faults \in 0 .. MaxFaults

Measuring(k) == child[k] = "timing"
Reporting(k) == child[k] \in {"asked", "sending", "final"}

(***************************************************************************)
(* The state is well typed and the phases do not overlap while the parent  *)
(* lives: when a child measures every living child of the round has        *)
(* finished initialize(), and when one reports, all have stopped their     *)
(* measurement loops (the comment in benchmp_interval's cooldown case).    *)
(* The benchmark would otherwise measure a load other than `parallel'.     *)
(***************************************************************************)
Lockstep ==
    /\ TypeOK
    /\ ppc # "killed" =>
         /\ (\E k \in Here : Measuring(k)) => \A k \in Here : child[k] # "init"
         /\ (\E k \in Here : Reporting(k)) => \A k \in Here : ~Measuring(k)

(***************************************************************************)
(* The results that are merged are whole: all chunks of one result come    *)
(* from one child though the children share the response pipe, no child is *)
(* merged twice, and results are only kept (a measured time is set) when   *)
(* every child of the round was merged.                                    *)
(***************************************************************************)
ResultsWhole ==
    /\ \A m \in DOMAIN merged : \A n \in 1 .. Chunks : merged[m][n] = merged[m][1]
    /\ \A m, n \in DOMAIN merged : m # n => merged[m][1] # merged[n][1]
    /\ \A m \in DOMAIN merged : merged[m][1][2] = "result"
    /\ time > 0 => {merged[m][1][1] : m \in DOMAIN merged} = Here

(***************************************************************************)
(* benchmp() leaves no child behind: when it returns, on success or on     *)
(* any of its error paths, and before the parallel call forks, every child *)
(* it forked is dead and has been waited for.                              *)
(***************************************************************************)
NoneLeft == ppc \in {"end", "enter", "returned"} => ~AnyLive

(***************************************************************************)
(* benchmp() ends, whatever faults happen, and never hangs in the protocol *)
(* itself, but for two cases. A cleanup() that does not come back keeps    *)
(* its child alive, and the parent waits for it: SIGTERM only makes it     *)
(* call cleanup() again. And the parallel call may wait for a child that   *)
(* is deaf to the SIGTERM it was sent: it kept the parent's                *)
(* benchmp_sigterm, which only sets a flag that nobody looks at after      *)
(* initialize().                                                           *)
(***************************************************************************)
Deaf ==
    /\ round = 2
    /\ \/ ppc = "abortwait" /\ child[i - 1] = "warmup"
       \/ ppc = "perrwait" /\ child[i] \in {"warmup", "cooldown", "asked", "final"}

Ends == <>[](ppc \in {"returned", "killed"} \/ hung # {} \/ Deaf)

(***************************************************************************)
(* When the parent is gone its children find out, through getppid() or end *)
(* of file on whichever pipe they use next, and exit.                      *)
(***************************************************************************)
OrphansDie ==
    (ppc = "killed") ~> (\A k \in ChildId : child[k] \in {"none", "dead"} \/ k \in hung)

(***************************************************************************)
(* "Give the children a chance to clean up gracefully": on its error path  *)
(* benchmp() sends its children SIGTERM, and they end.  It does not hold   *)
(* of the parallel call: a child past initialize() is deaf.                *)
(***************************************************************************)
ChildrenCleanUp == (ppc = "abort") ~> ~AnyLive
=============================================================================
