----------------------------- MODULE Throughput -----------------------------
(***************************************************************************)
(* iozone's throughput mode with processes (throughput_test and the        *)
(* thread_*_test functions of iozone.c): for each test the parent forks    *)
(* the children, waits until all are ready, lets them go, and waits for    *)
(* them to end.  All of it goes through shared memory that is polled: a    *)
(* flag and the results per child, and one stop_flag.  With stonewalling,  *)
(* the first child to finish sets stop_flag and the others stop counting.  *)
(*                                                                         *)
(* Times are left out: a child's result is its number of records.  Threads *)
(* instead of processes, mmap, async I/O and remote clients are left out,  *)
(* and so is -O, where the results are operations instead of bytes and a   *)
(* record that is finished after the stop is counted.                      *)
(***************************************************************************)
EXTENDS Integers, Sequences

CONSTANTS NumChild,   \* num_child
          NumRecs,    \* numrecs64
          Tests,      \* the tests that are run, in order: the write test is the
                      \* first, and makes the files
          MaxFaults   \* bound on failed system calls, crashes and signals

ASSUME ThroughputAssumption ==
    /\ {NumChild, NumRecs} \subseteq Nat \ {0} /\ MaxFaults \in Nat
    /\ Tests \in Seq({"write", "rewrite", "read"})
    /\ Tests # <<>> /\ Tests[1] = "write"

Children == 1 .. NumChild
Missing  == -1

VARIABLES
    ppc,     \* where the parent is
    test,    \* the test it runs
    i,       \* its loop variable
    xflag,   \* no stonewalling (-x)
    flag,    \* child_stat->flag
    actual,  \* child_stat->actual
    stop,    \* *stop_flag
    child,   \* the processes and their local variables
    file,    \* the length of each child's file in records
    lost,    \* history: the children that failed in this test
    faults

parent == <<ppc, test, i, xflag>>
vars   == <<parent, flag, actual, stop, child, file, lost, faults>>

\* recs is the child's i; before (history) the records it transferred before
\* stop_flag was set.
Forked == [pc |-> "open", recs |-> 0, so_far |-> 0, stopped |-> FALSE, before |-> 0]

ChildState ==
    [pc : {"open", "poll", "top", "io", "count", "finish", "half", "hold", "leave", "exit", "none"},
     recs : 0 .. NumRecs, so_far : 0 .. NumRecs, stopped : BOOLEAN, before : 0 .. NumRecs]

TypeOK ==
    /\ ppc \in {"fork", "ready", "go", "wait", "report", "done", "failed", "killed"}
    /\ test \in DOMAIN Tests /\ i \in Children
    /\ xflag \in BOOLEAN /\ stop \in BOOLEAN
    /\ flag \in [Children -> {"HOLD", "READY", "BEGIN"}]
    /\ actual \in [Children -> 0 .. NumRecs]
    /\ child \in [Children -> ChildState]
    /\ file \in [Children -> Missing .. NumRecs]
    /\ lost \subseteq Children /\ faults \in 0 .. MaxFaults

Init ==
    /\ ppc = "fork" /\ test = 1 /\ i = 1 /\ xflag \in BOOLEAN
    /\ flag = [c \in Children |-> "HOLD"] /\ actual = [c \in Children |-> 0]
    /\ stop = FALSE
    /\ child = [c \in Children |-> [Forked EXCEPT !.pc = "none"]]
    /\ file = [c \in Children |-> Missing]
    /\ lost = {} /\ faults = 0

Writer == Tests[test] = "write"
Alive(c) == child[c].pc \notin {"exit", "none"}
Fault == faults < MaxFaults /\ faults' = faults + 1

-----------------------------------------------------------------------------
(* The parent: throughput_test *)

\* The end of a pass of a loop over the children; `next' comes after it.
Loop(next) ==
    IF i < NumChild THEN i' = i + 1 /\ UNCHANGED ppc ELSE i' = 1 /\ ppc' = next

Fork ==
    /\ ppc = "fork" /\ Loop("ready")
    /\ child' = [child EXCEPT ![i] = Forked]
    /\ UNCHANGED <<test, xflag, flag, actual, stop, file, lost, faults>>

\* The writers are killed with kill(), the others with Kill(), which does
\* nothing without stonewalling.
ForkFails ==
    /\ ppc = "fork" /\ Fault
    /\ ppc' = "failed"
    /\ child' = IF Writer \/ ~xflag
                  THEN [c \in Children |-> [child[c] EXCEPT !.pc = "none"]] ELSE child
    /\ UNCHANGED <<test, i, xflag, flag, actual, stop, file, lost>>

AwaitReady ==
    /\ ppc = "ready" /\ flag[i] # "HOLD" /\ Loop("go")
    /\ UNCHANGED <<test, xflag, flag, actual, stop, child, file, lost, faults>>

Begin ==
    /\ ppc = "go" /\ Loop("wait")
    /\ flag' = [flag EXCEPT ![i] = "BEGIN"]
    /\ UNCHANGED <<test, xflag, actual, stop, child, file, lost, faults>>

\* wait(0): any child that has ended.
Wait ==
    /\ ppc = "wait" /\ Loop("report")
    /\ \E c \in Children : /\ child[c].pc = "exit"
                           /\ child' = [child EXCEPT ![c].pc = "none"]
    /\ UNCHANGED <<test, xflag, flag, actual, stop, file, lost, faults>>

\* Mutant: stop_flag is not reset for the next test.
ReportStopKept ==
    /\ ppc = "report"
    /\ flag' = [c \in Children |-> "HOLD"] /\ lost' = {}
    /\ IF test < Len(Tests) THEN test' = test + 1 /\ ppc' = "fork"
                            ELSE ppc' = "done" /\ UNCHANGED test
    /\ UNCHANGED <<i, xflag, actual, stop, child, file, faults>>

\* Mutant: the flags are left as the children left them.
ReportFlagsKept ==
    /\ ppc = "report"
    /\ stop' = FALSE /\ lost' = {}
    /\ IF test < Len(Tests) THEN test' = test + 1 /\ ppc' = "fork"
                            ELSE ppc' = "done" /\ UNCHANGED test
    /\ UNCHANGED <<i, xflag, flag, actual, child, file, faults>>

\* The results are printed, flags and stop_flag reset for the next test.
Report ==
    /\ ppc = "report"
    /\ flag' = [c \in Children |-> "HOLD"] /\ stop' = FALSE /\ lost' = {}
    /\ IF test < Len(Tests) THEN test' = test + 1 /\ ppc' = "fork"
                            ELSE ppc' = "done" /\ UNCHANGED test
    /\ UNCHANGED <<i, xflag, actual, child, file, faults>>

\* SIGINT or SIGTERM: the files are deleted and the children killed.
signal_handler ==
    /\ ppc \in {"fork", "ready", "go", "wait", "report"} /\ Fault
    /\ ppc' = "killed"
    /\ child' = [c \in Children |-> [child[c] EXCEPT !.pc = "none"]]
    /\ file' = [c \in Children |-> Missing]
    /\ UNCHANGED <<test, i, xflag, flag, actual, stop, lost>>

-----------------------------------------------------------------------------
(* A child: thread_write_test, thread_rwrite_test and thread_read_test *)

Ends(c) == child' = [child EXCEPT ![c].pc = "exit"]
Fails(c) == Ends(c) /\ lost' = lost \cup {c}

\* The file is opened (the writer creates it), the results are cleared.
Open(c) ==
    /\ child[c].pc = "open" /\ (Writer \/ file[c] # Missing)
    /\ child' = [child EXCEPT ![c].pc = "poll"]
    /\ flag' = [flag EXCEPT ![c] = "READY"]
    /\ actual' = [actual EXCEPT ![c] = 0]
    /\ file' = IF file[c] = Missing THEN [file EXCEPT ![c] = 0] ELSE file
    /\ UNCHANGED <<parent, stop, lost, faults>>

\* It cannot be opened: exit() before the parent has seen READY.
OpenFails(c) ==
    /\ child[c].pc = "open"
    /\ IF Writer \/ file[c] # Missing THEN Fault ELSE UNCHANGED faults
    /\ Fails(c)
    /\ UNCHANGED <<parent, flag, actual, stop, file>>

AwaitBegin(c) ==
    /\ child[c].pc = "poll" /\ flag[c] = "BEGIN"
    /\ child' = [child EXCEPT ![c].pc = "top"]
    /\ UNCHANGED <<parent, flag, actual, stop, file, lost, faults>>

\* The loop is left.
Finish(c) ==
    /\ child' = [child EXCEPT ![c].pc = "finish"]
    /\ UNCHANGED <<flag, actual, stop>>

\* A writer that is told to stop stores its results and goes on.
Stopped(c, next) ==
    /\ actual' = [actual EXCEPT ![c] = child[c].so_far]
    /\ child' = [child EXCEPT ![c].stopped = TRUE, ![c].pc = next]
    /\ UNCHANGED <<flag, stop>>

\* Mutant: a writer stops when it is told to, as the others do.
TopStops(c) ==
    /\ child[c].pc = "top"
    /\ IF child[c].recs = NumRecs \/ stop THEN Finish(c)
       ELSE /\ child' = [child EXCEPT ![c].pc = "io"]
            /\ UNCHANGED <<flag, actual, stop>>
    /\ UNCHANGED <<parent, file, lost, faults>>

\* All but the writers leave the loop when they are told to stop.
Break == stop /\ ~Writer

\* The head of the loop, up to the transfer.
Top(c) ==
    /\ child[c].pc = "top"
    /\ CASE child[c].recs = NumRecs                    -> Finish(c)
         [] child[c].recs < NumRecs /\ Break           -> Finish(c)
         [] child[c].recs < NumRecs /\ stop /\ Writer /\ ~child[c].stopped -> Stopped(c, "io")
         [] OTHER -> /\ child' = [child EXCEPT ![c].pc = "io"]
                     /\ UNCHANGED <<flag, actual, stop>>
    /\ UNCHANGED <<parent, file, lost, faults>>

\* write() or read() of a record.
Transfer(c) ==
    /\ child[c].pc = "io"
    /\ LET r == child[c].recs + 1 IN
         /\ Tests[test] = "read" => r <= file[c]
         /\ file' = IF r > file[c] THEN [file EXCEPT ![c] = r] ELSE file
    /\ child' = [child EXCEPT ![c].pc = "count", ![c].before = IF stop THEN @ ELSE @ + 1]
    /\ UNCHANGED <<parent, flag, actual, stop, lost, faults>>

\* It fails, or the file is too short.  A child that has been told to stop
\* takes it for that, once; any other deletes the file and exits.
TransferFails(c) ==
    /\ child[c].pc = "io"
    /\ IF Tests[test] = "read" /\ child[c].recs >= file[c] THEN UNCHANGED faults ELSE Fault
    /\ \/ Break /\ Finish(c) /\ UNCHANGED <<file, lost>>
       \/ stop /\ Writer /\ ~child[c].stopped /\ Stopped(c, "io") /\ UNCHANGED <<file, lost>>
       \/ /\ ~stop \/ (Writer /\ child[c].stopped)
          /\ Fails(c)
          /\ flag' = [flag EXCEPT ![c] = "HOLD"]
          /\ file' = [file EXCEPT ![c] = Missing]
          /\ UNCHANGED <<actual, stop>>
    /\ UNCHANGED parent

\* Mutant: a record that was finished after the stop is counted.
CountLate(c) ==
    /\ child[c].pc = "count"
    /\ child' = [child EXCEPT ![c].pc = "top", ![c].recs = @ + 1, ![c].so_far = @ + 1]
    /\ UNCHANGED <<parent, flag, actual, stop, file, lost, faults>>

Count(c) ==
    /\ child[c].pc = "count"
    /\ child' = [child EXCEPT ![c].pc = "top", ![c].recs = @ + 1,
                              ![c].so_far = IF stop THEN @ ELSE @ + 1]
    /\ UNCHANGED <<parent, flag, actual, stop, file, lost, faults>>

\* The others are told to stop: first by a writer, second by the other tests.
TellStop(c) ==
    /\ child[c].pc = IF Writer THEN "finish" ELSE "half"
    /\ stop' = (stop \/ ~xflag)
    /\ child' = [child EXCEPT ![c].pc = IF Writer THEN "half" ELSE "hold"]
    /\ UNCHANGED <<parent, flag, actual, file, lost, faults>>

\* The results are stored, unless they were when the writer was stopped.
Store(c) ==
    /\ child[c].pc = IF Writer THEN "half" ELSE "finish"
    /\ actual' = IF child[c].stopped THEN actual
                                     ELSE [actual EXCEPT ![c] = child[c].so_far]
    /\ child' = [child EXCEPT ![c].pc = IF Writer THEN "hold" ELSE "half"]
    /\ UNCHANGED <<parent, flag, stop, file, lost, faults>>

\* "Tell parent I'm done."
Hold(c) ==
    /\ child[c].pc = "hold"
    /\ flag' = [flag EXCEPT ![c] = "HOLD"]
    /\ child' = [child EXCEPT ![c].pc = "leave"]
    /\ UNCHANGED <<parent, actual, stop, file, lost, faults>>

\* fsync(), close() and exit(0).
Leave(c) ==
    /\ child[c].pc = "leave" /\ Ends(c)
    /\ UNCHANGED <<parent, flag, actual, stop, file, lost, faults>>

\* A child is killed, be it on its way out.
Crash(c) ==
    /\ Alive(c) /\ Fault /\ Fails(c)
    /\ UNCHANGED <<parent, flag, actual, stop, file>>

-----------------------------------------------------------------------------
Parent == Fork \/ AwaitReady \/ Begin \/ Wait \/ Report
Child(c) == \/ Open(c) \/ OpenFails(c) \/ AwaitBegin(c) \/ Top(c) \/ Transfer(c)
            \/ TransferFails(c) \/ Count(c) \/ TellStop(c) \/ Store(c) \/ Hold(c) \/ Leave(c)

Next == Parent \/ ForkFails \/ signal_handler \/ \E c \in Children : Child(c) \/ Crash(c)

\* Parent and children poll with short sleeps; nobody is kept from running.
Safety == Init /\ [][Next]_vars
Spec == /\ Safety
        /\ WF_vars(Parent) /\ \A c \in Children : WF_vars(Child(c))

-----------------------------------------------------------------------------
(* Properties *)

\* The state is well typed, and "the code will capture bytes transfered before
\* told to stop": the result of a child that ended well is what it transferred
\* before stop_flag was set, but for a record it was about to count then.
CapturesBefore ==
    /\ TypeOK
    /\ \A c \in Children \ lost : child[c].pc = "exit" =>
          actual[c] \in {child[c].before - 1, child[c].before}

\* Some child of every test does all its work, however the children are
\* scheduled and unless all of them fail, and its result is there unless it
\* was killed after it had told the others to stop; without stonewalling every
\* child that does not fail does all its work.
SomeoneCompletes ==
    ppc = "report" /\ lost # Children =>
        /\ \E c \in Children : child[c].so_far = NumRecs /\ (c \in lost \/ actual[c] = NumRecs)
        /\ xflag => \A c \in Children \ lost : actual[c] = NumRecs

\* "Writer must finish even though told to stop.  Otherwise the readers will
\* fail": unless something else fails, no child of any test does.
NobodyFails == faults = 0 => lost = {}

\* Everything ends, but for two cases: the parent polls the flag of a child
\* that died before it was ready, and without stonewalling children are left
\* when a fork fails.
Over   == ppc \in {"done", "failed", "killed"} /\ \A c \in Children : ~Alive(c)
Hung   == ppc = "ready" /\ flag[i] = "HOLD" /\ child[i].pc = "exit"
Orphan == ppc = "failed" /\ xflag

AllEnds == <>(Over \/ Hung \/ Orphan)
=============================================================================
