----------------------------- MODULE ReportList -----------------------------
(***************************************************************************)
(* The list of report headers that traffic threads push and the reporter   *)
(* thread walks and prunes (ReportRoot in src/iperf/src/Reporter.c), with  *)
(* the part of src/iperf/compat/Thread.c that decides when main may leave  *)
(* thread_joinall: thread_sNum, thread_setignore and thread_unsetignore.   *)
(*                                                                         *)
(* Pushing, unlinking the root and going to sleep happen under the mutex   *)
(* of ReportCond and are one step each.  The walk itself takes no lock.    *)
(* The packets of a transfer are abstracted to the life cycle that         *)
(* ReportQueue describes.                                                  *)
(***************************************************************************)
EXTENDS Integers, Sequences, SequencesExt

CONSTANTS
    Agents,   \* traffic threads
    Script,   \* what each of them does with reports, in order
    Null

\* "settings": ReportSettings; "data": InitReport with a transfer report;
\* "connection": InitReport with a connection report only; "close":
\* CloseReport; "relay": ReportServerUDP; "end": EndReport.
Pushes == {"settings", "data", "connection", "relay"}
Ops == Pushes \cup {"close", "end"}

\* A header is known by the agent that made it and the operation, which the
\* agent does once.
Headers == {h \in Agents \X Pushes : h[2] \in Range(Script[h[1]])}

ASSUME ScriptAssumption ==
    /\ IsFiniteSet(Agents) /\ Script \in [Agents -> Seq(Ops)] /\ Null \notin Headers
    /\ \A a \in Agents :
          /\ \A j, k \in DOMAIN Script[a] : Script[a][j] = Script[a][k] => j = k
          /\ \A op \in {"close", "end"} \cap Range(Script[a]) : "data" \in Range(Script[a])

\* A client thread waits in EndReport before it ends: whatever it reports,
\* ending its transfer report comes last.
EndsLast == \A a \in Agents : Script[a] # <<>> => Script[a][Len(Script[a])] = "end"

VARIABLES
    root,     \* ReportRoot
    next,     \* ReportHeader.next
    mem,      \* "none" before malloc, "live", "freed"
    life,     \* of a data header: open, closed, drained, ended
    printed,  \* headers whose report has been printed in full
    todo,     \* operations left to each agent
    rpc,      \* where the reporter is
    stack,    \* activations of reporter_process_report
    need_free,\* result of the last one to return
    sNum,     \* thread_sNum
    main      \* "start", "join", "exited"

vars == <<root, next, mem, life, printed, todo, rpc, stack, need_free, sNum, main>>
listVars == <<root, next, mem>>
walkVars == <<stack, need_free>>

\* Types of the list and of the threads' state; thread_sNum stays in range.
TypeOK ==
    /\ root \in Headers \cup {Null}
    /\ next \in [Headers -> Headers \cup {Null}]
    /\ mem \in [Headers -> {"none", "live", "freed"}]
    /\ life \in [Headers -> {"open", "closed", "drained", "ended"}]
    /\ printed \subseteq Headers
    /\ todo \in [Agents -> Seq(Ops) \cup {<<"exited">>}]
    /\ rpc \in {"unborn", "top", "waiting", "woken", "again", "descend", "process",
                "return", "unlink", "signal"}
    /\ stack \in Seq(Headers)
    /\ need_free \in BOOLEAN
    /\ sNum \in Nat
    /\ main \in {"start", "join", "exited"}

\* main has started the traffic threads and is about to start the reporter
\* (thread_start runs the runNow chain first).
Init ==
    /\ root = Null
    /\ next = [h \in Headers |-> Null]
    /\ mem = [h \in Headers |-> "none"]
    /\ life = [h \in Headers |-> "open"]
    /\ printed = {}
    /\ todo = Script
    /\ rpc = "unborn"
    /\ stack = <<>>
    /\ need_free = FALSE
    /\ sNum = Cardinality(Agents)
    /\ main = "start"

Running == main # "exited"

-----------------------------------------------------------------------------
(* main *)

StartReporter ==
    /\ main = "start"
    /\ rpc' = "top"
    /\ sNum' = sNum + 1
    /\ main' = "join"
    /\ UNCHANGED <<listVars, life, printed, todo, walkVars>>

\* thread_joinall returns and the process ends.
Exit ==
    /\ main = "join"
    /\ sNum = 0
    /\ main' = "exited"
    /\ UNCHANGED <<listVars, life, printed, todo, rpc, walkVars, sNum>>

-----------------------------------------------------------------------------
(* A traffic thread *)

NextOp(a) == Head(todo[a])
Doing(a, op) == Running /\ todo[a] # <<>> /\ NextOp(a) = op
OpDone(a) == todo' = [todo EXCEPT ![a] = Tail(@)]

\* The end of InitReport, ReportSettings and ReportServerUDP: link the new
\* header in front and signal ReportCond.
Push(a, op) ==
    /\ Doing(a, op)
    /\ next' = [next EXCEPT ![<<a, op>>] = root]
    /\ root' = <<a, op>>
    /\ mem' = [mem EXCEPT ![<<a, op>>] = "live"]
    /\ rpc' = IF rpc = "waiting" THEN "woken" ELSE rpc
    /\ OpDone(a)
    /\ UNCHANGED <<life, printed, walkVars, sNum, main>>

CloseReport(a) ==
    /\ Doing(a, "close")
    /\ life' = [life EXCEPT ![<<a, "data">>] = "closed"]
    /\ OpDone(a)
    /\ UNCHANGED <<listVars, printed, rpc, walkVars, sNum, main>>

EndReport(a) ==
    /\ Doing(a, "end")
    /\ life[<<a, "data">>] = "drained"
    /\ life' = [life EXCEPT ![<<a, "data">>] = "ended"]
    /\ OpDone(a)
    /\ UNCHANGED <<listVars, printed, rpc, walkVars, sNum, main>>

\* thread_run_wrapper after the traffic: thread_sNum-- and signal.
ThreadExit(a) ==
    /\ Running
    /\ todo[a] = <<>>
    /\ todo' = [todo EXCEPT ![a] = <<"exited">>]
    /\ sNum' = sNum - 1
    /\ UNCHANGED <<listVars, life, printed, rpc, walkVars, main>>

Agent(a) ==
    \/ \E op \in Pushes : Push(a, op)
    \/ CloseReport(a)
    \/ EndReport(a)
    \/ ThreadExit(a)

-----------------------------------------------------------------------------
(* The reporter thread *)

\* Top of the loop of reporter_spawn: with no reports, stop being counted and
\* wait.
Top ==
    /\ Running
    /\ rpc = "top"
    /\ \/ /\ root = Null
          /\ rpc' = "waiting"
          /\ sNum' = sNum - 1
       \/ /\ root # Null
          /\ rpc' = "again"
          /\ UNCHANGED sNum
    /\ UNCHANGED <<listVars, life, printed, todo, walkVars, main>>

\* The wait may return although no report was pushed.
SpuriousWakeup ==
    /\ Running
    /\ rpc = "waiting"
    /\ rpc' = "woken"
    /\ UNCHANGED <<listVars, life, printed, todo, walkVars, sNum, main>>

\* Mutant: the reporter is not counted again after its sleep.
WakeUncounted ==
    /\ Running
    /\ rpc = "woken"
    /\ rpc' = "again"
    /\ UNCHANGED <<listVars, life, printed, todo, walkVars, sNum, main>>

\* Condition_Wait returns with the mutex; thread_unsetignore.
Wake ==
    /\ Running
    /\ rpc = "woken"
    /\ rpc' = "again"
    /\ sNum' = sNum + 1
    /\ UNCHANGED <<listVars, life, printed, todo, walkVars, main>>

\* again: temp = ReportRoot, read without the mutex.
Again ==
    /\ Running
    /\ rpc = "again"
    /\ \/ /\ root = Null
          /\ rpc' = "top"
          /\ UNCHANGED stack
       \/ /\ root # Null
          /\ stack' = <<root>>
          /\ rpc' = "descend"
    /\ UNCHANGED <<listVars, life, printed, todo, need_free, sNum, main>>

\* "Recursively process reports": the tail of the list first.
Descend ==
    /\ Running
    /\ rpc = "descend"
    /\ LET n == next[Last(stack)]
       IN  \/ /\ n # Null
              /\ stack' = Append(stack, n)
              /\ UNCHANGED rpc
           \/ /\ n = Null
              /\ rpc' = "process"
              /\ UNCHANGED stack
    /\ UNCHANGED <<listVars, life, printed, todo, need_free, sNum, main>>

\* Mutant: a transfer report is given up as soon as it is finished.
NeedFreeDrained(h) ==
    \/ h[2] \in {"settings", "relay"}
    \/ h[2] = "data" /\ life[h] \in {"closed", "drained", "ended"}

\* Mutant: relay reports are printed in every pass and never dropped.
NeedFreeNoRelay(h) ==
    h[2] = "settings" \/ (h[2] = "data" /\ life[h] = "ended")

\* What reporter_process_report returns for a header: settings and relay
\* reports are printed and dropped, a transfer report is dropped when the
\* agent has ended it, and a header with nothing but a connection report is
\* never dropped.
NeedFree(h) ==
    h[2] \in {"settings", "relay"} \/ (h[2] = "data" /\ life[h] = "ended")

\* The body of reporter_process_report for the innermost activation.
Process ==
    /\ Running
    /\ rpc = "process"
    /\ LET h == Last(stack)
       IN  /\ need_free' = NeedFree(h)
           /\ life' = IF life[h] = "closed" THEN [life EXCEPT ![h] = "drained"] ELSE life
           /\ printed' = IF h[2] # "data" \/ life[h] = "closed"
                           THEN printed \cup {h} ELSE printed
    /\ rpc' = "return"
    /\ UNCHANGED <<listVars, todo, stack, sNum, main>>

\* Mutant: the successor is freed but stays in the list.
ReturnNotUnlinked ==
    /\ Running
    /\ rpc = "return"
    /\ LET callers == Front(stack)
       IN  \/ /\ callers # <<>>
              /\ stack' = callers
              /\ rpc' = "process"
              /\ mem' = IF need_free THEN [mem EXCEPT ![Last(stack)] = "freed"] ELSE mem
           \/ /\ callers = <<>>
              /\ rpc' = IF need_free THEN "unlink" ELSE "signal"
              /\ UNCHANGED <<stack, mem>>
    /\ UNCHANGED <<root, next, life, printed, todo, need_free, sNum, main>>

\* Return to the caller, which unlinks and frees its successor, without the
\* mutex, and processes its own report; or to reporter_spawn.
Return ==
    /\ Running
    /\ rpc = "return"
    /\ LET h == Last(stack)
           callers == Front(stack)
       IN  \/ /\ callers # <<>>
              /\ stack' = callers
              /\ rpc' = "process"
              /\ IF need_free
                   THEN /\ next' = [next EXCEPT ![Last(callers)] = next[h]]
                        /\ mem' = [mem EXCEPT ![h] = "freed"]
                   ELSE UNCHANGED <<next, mem>>
           \/ /\ callers = <<>>
              /\ rpc' = IF need_free THEN "unlink" ELSE "signal"
              /\ UNCHANGED <<stack, next, mem>>
    /\ UNCHANGED <<root, life, printed, todo, need_free, sNum, main>>

\* Mutant: reports pushed during the walk are forgotten.
UnlinkAsRoot ==
    /\ Running
    /\ rpc = "unlink"
    /\ LET temp == stack[1]
       IN  /\ root' = next[temp]
           /\ mem' = [mem EXCEPT ![temp] = "freed"]
           /\ rpc' = IF root' # Null THEN "again" ELSE "signal"
    /\ stack' = <<>>
    /\ UNCHANGED <<next, life, printed, todo, need_free, sNum, main>>

\* Under the mutex: take the first report of the walk out of the list, which
\* may have grown in front of it, and free it.
Unlink ==
    /\ Running
    /\ rpc = "unlink"
    /\ LET temp == stack[1]
       IN  /\ \/ /\ temp = root
                 /\ root' = next[temp]
                 /\ UNCHANGED next
              \/ /\ temp # root
                 /\ \E itr \in Headers :
                      /\ mem[itr] = "live"
                      /\ next[itr] = temp
                      /\ next' = [next EXCEPT ![itr] = next[temp]]
                 /\ UNCHANGED root
           /\ mem' = [mem EXCEPT ![temp] = "freed"]
           /\ rpc' = IF root' # Null THEN "again" ELSE "signal"
    /\ stack' = <<>>
    /\ UNCHANGED <<life, printed, todo, need_free, sNum, main>>

\* Signal ReportDoneCond and sleep for 10 ms.
Signal ==
    /\ Running
    /\ rpc = "signal"
    /\ rpc' = "top"
    /\ stack' = <<>>
    /\ UNCHANGED <<listVars, life, printed, todo, need_free, sNum, main>>

Reporter ==
    \/ Top \/ Wake \/ Again \/ Descend \/ Process \/ Return \/ Unlink \/ Signal

-----------------------------------------------------------------------------
Next == StartReporter \/ Exit \/ (\E a \in Agents : Agent(a)) \/ Reporter
          \/ SpuriousWakeup

\* Every thread keeps running.  Wake-ups without a signal are not relied on,
\* and they do not go on for ever.
Safety == Init /\ [][Next]_vars
Spec == /\ Safety
        /\ WF_vars(StartReporter) /\ WF_vars(Exit) /\ WF_vars(Reporter)
        /\ <>[][~SpuriousWakeup]_vars
        /\ \A a \in Agents : WF_vars(Agent(a))

-----------------------------------------------------------------------------
(* Correctness. *)

Live == {h \in Headers : mem[h] = "live"}

\* The n-th header from a given one on.
Walk(from) ==
    LET nth[n \in 0 .. Cardinality(Headers)] ==
          IF n = 0 THEN from
          ELSE IF nth[n - 1] = Null THEN Null ELSE next[nth[n - 1]]
    IN  {nth[n] : n \in DOMAIN nth}

\* The state is well typed, the headers in use are exactly those the list
\* leads to, and the list ends: no push is lost, whether it comes during the
\* unlocked walk, before or after the root is unlinked, and nothing freed is
\* ever reached again.
ListIntact == TypeOK /\ Walk(root) = Live \cup {Null}

\* The reporter only ever walks headers that are not freed.
WalkIsLive == \A i \in 1 .. Len(stack) : stack[i] \in Live

\* An agent's transfer report is not freed before the agent ended it.
DataHeaderKept ==
    \A h \in Headers : h[2] = "data" /\ mem[h] = "freed" => life[h] = "ended"

\* "Stop main thread from exiting until done with all reports"
\* (Reporter.c:552): when main exits, every report that was pushed has been
\* printed.
NoReportLost ==
    main = "exited" => \A h \in Headers : mem[h] # "none" => h \in printed

\* main "waits for all threads to complete" (main.cpp:120) and then exits.
MainExits == <>(main = "exited")

=============================================================================
