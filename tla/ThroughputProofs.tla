-------------------------- MODULE ThroughputProofs --------------------------
(***************************************************************************)
(* What iozone's throughput mode reports, for any number of children,      *)
(* records and tests and any number of failures: the results are what was  *)
(* transferred before the stop, somebody always does all the work, and     *)
(* writers leave whole files.                                              *)
(***************************************************************************)
EXTENDS Throughput, FiniteSetTheorems, TLAPS

\* A child has left its loop, has stored its results, has told the others.
Leaving(c) == child[c].pc \in {"finish", "half", "hold", "leave"}
Stored(c)  == child[c].pc \in {"hold", "leave"} \/ (~Writer /\ child[c].pc = "half")
Told(c)    == child[c].pc \in {"hold", "leave"} \/ (Writer /\ child[c].pc = "half")

Busy(c) == child[c].pc \in {"top", "io", "count"} \/ Leaving(c)

Reaped == {c \in Children : child[c].pc = "none"}

\* The parent and its children are in the same phase.  In the loop over
\* wait(0) exactly i - 1 children have been reaped.
Phase ==
    /\ ppc = "fork" => \A c \in Children : c >= i => child[c].pc = "none" /\ c \notin lost
    /\ ppc = "fork" => \A c \in Children : c < i => child[c].pc \in {"open", "poll", "exit"}
    /\ ppc = "ready" => \A c \in Children : child[c].pc \in {"open", "poll", "exit"}
    /\ ppc = "go" => Reaped = {}
    /\ ppc = "wait" => Cardinality(Reaped) = i - 1
    /\ ppc = "report" => Reaped = Children /\ i = 1
    /\ ppc \in {"fork", "ready", "failed"} =>
          /\ ~stop
          /\ \A c \in Children : ~Busy(c) /\ flag[c] # "BEGIN"
          /\ \A c \in Children \ lost : child[c].pc # "exit"
    /\ \A c \in lost : ~Alive(c)

\* A child that has not begun has counted nothing.
Fresh ==
    \A c \in Children : child[c].pc \in {"open", "poll"} =>
        /\ child[c].recs = 0 /\ child[c].so_far = 0 /\ child[c].before = 0
        /\ ~child[c].stopped

\* What a busy child has counted, against what it has transferred.
Counted(c) ==
    LET k == child[c]
        late == IF k.pc = "count" THEN 1 ELSE 0 IN
    /\ k.pc \in {"io", "count"} => k.recs < NumRecs
    /\ k.so_far <= k.recs /\ k.before <= k.recs + late
    /\ ~stop => k.so_far = k.recs /\ k.before = k.recs + late
    /\ stop => k.so_far \in {k.before - 1, k.before}
    /\ k.stopped => stop /\ actual[c] = k.so_far
    /\ Leaving(c) => k.recs = NumRecs \/ Break
    /\ Stored(c) => actual[c] = k.so_far
    /\ Told(c) => stop \/ xflag

Counting == \A c \in Children : Busy(c) => Counted(c)

\* A child that has ended well in this test has told the others to stop, or
\* done everything where there is no stonewalling.  If somebody was told to
\* stop, then by a child that had done everything: it may still be on its way
\* out, it may have been killed there, or it has published all of it.
Ended(c) == c \notin lost /\ child[c].pc \in {"exit", "none"}
Full(c)  == child[c].so_far = NumRecs /\ (Ended(c) => actual[c] = NumRecs)
Finishing ==
    /\ xflag => ~stop
    /\ ppc \in {"go", "wait", "report"} =>
          /\ \A c \in Children : Ended(c) =>
                (IF xflag THEN child[c].so_far = NumRecs /\ actual[c] = NumRecs ELSE stop)
          /\ stop => \E c \in Children : Full(c)

\* The files, as long as nothing has failed.
Files ==
    faults = 0 =>
        /\ ppc \notin {"failed", "killed"}
        /\ lost = {}
        /\ \A c \in Children :
              /\ test > 1 => file[c] = NumRecs
              /\ child[c].pc = "poll" => file[c] >= 0
              /\ Busy(c) => file[c] >= child[c].recs + (IF child[c].pc = "count" THEN 1 ELSE 0)
              /\ Leaving(c) => file[c] = NumRecs
              /\ ppc \in {"go", "wait", "report"} /\ child[c].pc \in {"exit", "none"}
                    => file[c] = NumRecs

IInv == TypeOK /\ CapturesBefore /\ Phase /\ Fresh /\ Counting /\ Finishing /\ Files

-----------------------------------------------------------------------------
\* The children, and those waited for, can be counted.
LEMMA ChildrenFinite ==
    /\ IsFiniteSet(Children) /\ Cardinality(Children) = NumChild
    /\ IsFiniteSet(Reaped) /\ Reaped \subseteq Children
  <1>1. IsFiniteSet(Children) /\ Cardinality(Children) = NumChild
    BY ThroughputAssumption, FS_Interval DEF Children
  <1> QED BY <1>1, FS_Subset DEF Reaped

\* The constants, in the form the provers use.
LEMMA Constants ==
    /\ NumChild \in Nat /\ NumChild >= 1 /\ NumRecs \in Nat /\ NumRecs >= 1
    /\ MaxFaults \in Nat
  BY ThroughputAssumption

\* What the tests may be.
LEMMA TestTypes == /\ \A t \in DOMAIN Tests : Tests[t] \in {"write", "rewrite", "read"}
                   /\ DOMAIN Tests = 1 .. Len(Tests) /\ Len(Tests) \in Nat /\ Len(Tests) >= 1
  BY ThroughputAssumption

\* A child starts well typed.
LEMMA ForkedType == Forked \in ChildState /\ [Forked EXCEPT !.pc = "none"] \in ChildState
  <1>1. 0 \in 0 .. NumRecs
    BY Constants
  <1> QED BY <1>1 DEF Forked, ChildState

\* No child runs before the first test.
LEMMA InitInv == Init => IInv
<1> SUFFICES ASSUME Init PROVE IInv
  OBVIOUS
<1> USE Constants, TestTypes
<1>1. TypeOK
  <2>1. child \in [Children -> ChildState]
    BY ForkedType DEF Init
  <2>2. 1 \in DOMAIN Tests /\ 1 \in Children
    BY DEF Children
  <2>3. file \in [Children -> Missing .. NumRecs] /\ actual \in [Children -> 0 .. NumRecs]
    BY DEF Init, Missing
  <2>4. 0 \in 0 .. MaxFaults
    OBVIOUS
  <2>5. flag \in [Children -> {"HOLD", "READY", "BEGIN"}] /\ lost \subseteq Children
    BY DEF Init
  <2> QED BY <2>1, <2>2, <2>3, <2>4, <2>5 DEF Init, TypeOK
<1>2. \A c \in Children : child[c].pc = "none"
  BY DEF Init, Forked
<1>3. CapturesBefore /\ Fresh /\ Counting
  BY <1>1, <1>2 DEF CapturesBefore, Fresh, Counting, Counted, Busy, Leaving, Stored, Told, Writer, Break
<1>4. Phase
  <2>1. ppc = "fork" /\ i = 1 /\ ~stop /\ lost = {} /\ \A c \in Children : flag[c] = "HOLD"
    BY DEF Init
  <2> QED BY <1>2, <2>1 DEF Phase, Busy, Leaving, Children
<1>5. Finishing /\ Files
  BY <1>1, <1>2 DEF Init, Finishing, Files, Busy, Leaving
<1> QED BY <1>1, <1>3, <1>4, <1>5 DEF IInv

\* A child is forked with fresh flags.
LEMMA ForkInv ==
    ASSUME IInv, Fork
    PROVE  IInv'
<1> USE Constants, TestTypes DEF IInv, Children
<1>1. child' = [child EXCEPT ![i] = Forked] /\ i \in Children /\ ppc = "fork"
  BY DEF Fork, TypeOK
<1>2. TypeOK'
  BY ForkedType DEF Fork, Loop, TypeOK
<1>3. CapturesBefore'
  BY <1>2 DEF Forked, Fork, Loop, TypeOK, CapturesBefore
<1>4. Phase'
  <2>1. \A c \in lost' : ~Alive(c)'
    BY <1>1 DEF Fork, Phase, TypeOK, Alive
  <2> QED BY <2>1 DEF Forked, Fork, Loop, TypeOK, Phase, Busy, Leaving
<1>5. Fresh' /\ Counting'
  BY DEF Forked, Fork, Loop, TypeOK, Fresh, Counting, Counted, Busy, Leaving, Stored, Told, Writer, Break
<1>6. Finishing'
  BY DEF Forked, Fork, Loop, TypeOK, Finishing, Phase, Ended
<1>7. Files'
  BY DEF Forked, Fork, Loop, TypeOK, Files, Busy, Leaving
<1> QED BY <1>2, <1>3, <1>4, <1>5, <1>6, <1>7

\* fork() fails: the test is over, and the children so far are mostly killed.
LEMMA ForkFailsInv ==
    ASSUME IInv, ForkFails
    PROVE  IInv'
<1> USE Constants, TestTypes DEF IInv, Children
<1>1. /\ child' \in [Children -> ChildState]
      /\ \A c \in Children : child'[c].pc \in {child[c].pc, "none"}
      /\ \A c \in Children : child'[c] = [child[c] EXCEPT !.pc = child'[c].pc]
  BY DEF ForkFails, TypeOK, ChildState
<1>2. TypeOK' /\ faults' # 0
  BY <1>1 DEF ForkFails, Fault, TypeOK
<1>3. CapturesBefore'
  BY <1>1, <1>2 DEF ForkFails, TypeOK, CapturesBefore, Phase
<1>4. Phase'
  <2>1. \A c \in lost' : ~Alive(c)'
    BY <1>1 DEF ForkFails, TypeOK, Phase, Alive
  <2> QED BY <1>1, <2>1 DEF ForkFails, TypeOK, Phase, Busy, Leaving
<1>5. Fresh' /\ Counting'
  BY <1>1 DEF ForkFails, TypeOK, Phase, Fresh, Counting, Counted, Busy, Leaving, Stored, Told, Writer, Break, ChildState
<1>6. Finishing' /\ Files'
  BY <1>1, <1>2 DEF ForkFails, TypeOK, Finishing, Files
<1> QED BY <1>2, <1>3, <1>4, <1>5, <1>6

\* The parent waits until all children are ready.
LEMMA AwaitReadyInv ==
    ASSUME IInv, AwaitReady
    PROVE  IInv'
<1> USE Constants, TestTypes DEF IInv, Children
<1>1. TypeOK' /\ UNCHANGED Reaped
  BY DEF AwaitReady, Loop, TypeOK, Reaped
<1>2. CapturesBefore'
  BY <1>1 DEF AwaitReady, Loop, TypeOK, CapturesBefore
<1>3. Phase'
  BY <1>1 DEF AwaitReady, Loop, TypeOK, Phase, Busy, Leaving, Reaped, Alive
<1>4. Fresh' /\ Counting'
  BY DEF AwaitReady, Fresh, Counting, Counted, Busy, Leaving, Stored, Told, Writer, Break
<1>5. Finishing'
  BY DEF AwaitReady, Loop, Finishing, Ended, Full, Phase
<1>6. Files'
  BY DEF AwaitReady, Loop, Files, Phase, Busy, Leaving
<1> QED BY <1>1, <1>2, <1>3, <1>4, <1>5, <1>6

\* And lets them begin.
LEMMA BeginInv ==
    ASSUME IInv, Begin
    PROVE  IInv'
<1> USE Constants, TestTypes DEF IInv, Children
<1>1. TypeOK' /\ UNCHANGED Reaped
  <2>1. i' \in Children /\ ppc' \in {"go", "wait"}
    BY DEF Begin, Loop, TypeOK
  <2>2. flag' \in [Children -> {"HOLD", "READY", "BEGIN"}]
    BY DEF Begin, TypeOK
  <2>3. UNCHANGED Reaped
    BY DEF Begin, Reaped
  <2> QED BY <2>1, <2>2, <2>3 DEF Begin, TypeOK
<1>2. CapturesBefore'
  BY <1>1 DEF Begin, Loop, TypeOK, CapturesBefore
<1>3. Phase'
  <2>1. Cardinality({}) = 0
    BY FS_EmptySet
  <2>2. ppc' = "go" \/ (ppc' = "wait" /\ i' = 1)
    BY DEF Begin, Loop
  <2>3. Reaped' = {}
    BY <1>1 DEF Begin, Phase
  <2>4. \A c \in lost' : ~Alive(c)'
    BY DEF Begin, Phase, Alive
  <2> QED BY <2>1, <2>2, <2>3, <2>4 DEF Phase
<1>4. Fresh' /\ Counting'
  BY DEF Begin, Fresh, Counting, Counted, Busy, Leaving, Stored, Told, Writer, Break
<1>5. Finishing' /\ Files'
  BY DEF Begin, Loop, Finishing, Ended, Full, Files, Busy, Leaving
<1> QED BY <1>1, <1>2, <1>3, <1>4, <1>5

\* It waits for one child after the other.
LEMMA WaitInv ==
    ASSUME IInv, Wait
    PROVE  IInv'
<1> USE Constants, TestTypes DEF IInv
<1>1. PICK c \in Children : child[c].pc = "exit" /\ child' = [child EXCEPT ![c].pc = "none"]
  BY DEF Wait
<1>2. /\ ppc = "wait" /\ Loop("report")
      /\ UNCHANGED <<test, xflag, flag, actual, stop, file, lost, faults>>
  BY DEF Wait
<1>3. /\ child' \in [Children -> ChildState] /\ child'[c].pc = "none"
      /\ \A d \in Children : d # c => child'[d] = child[d]
  BY <1>1 DEF TypeOK, ChildState
<1>4. ppc' = "wait" \/ ppc' = "report"
  BY <1>2 DEF Loop
<1>5. TypeOK'
  <2>1. i' \in Children
    BY <1>2 DEF Loop, TypeOK, Children
  <2> QED BY <1>2, <1>3, <1>4, <2>1 DEF TypeOK
<1>6. CapturesBefore'
  BY <1>2, <1>3, <1>5 DEF CapturesBefore
<1>7. Phase'
  <2>1. Reaped' = Reaped \cup {c} /\ c \notin Reaped
    BY <1>1, <1>3 DEF Reaped
  <2>2. Cardinality(Reaped') = i
    <3>1. Cardinality(Reaped \cup {c}) = Cardinality(Reaped) + 1
      BY <2>1, ChildrenFinite, FS_AddElement
    <3>2. Cardinality(Reaped) = i - 1 /\ i \in Nat
      BY <1>2 DEF Phase, TypeOK, Children
    <3> QED BY <2>1, <3>1, <3>2
  <2>3. i = NumChild => Reaped' = Children
    <3>1. Reaped' \in SUBSET Children
      BY <2>1, ChildrenFinite
    <3> QED BY <2>2, <3>1, ChildrenFinite, FS_Subset
  <2>4. (ppc' = "wait" /\ i' = i + 1) \/ (ppc' = "report" /\ i' = 1 /\ i = NumChild)
    BY <1>2 DEF Loop, TypeOK, Children
  <2>5. i \in Nat
    BY DEF TypeOK, Children
  <2>6. \A d \in lost' : ~Alive(d)'
    BY <1>2, <1>3 DEF Phase, Alive, TypeOK
  <2> QED BY <2>2, <2>3, <2>4, <2>5, <2>6 DEF Phase
<1>8. Fresh' /\ Counting'
  BY <1>2, <1>3 DEF Fresh, Counting, Counted, Busy, Leaving, Stored, Told, Writer, Break
<1>9. Finishing'
  BY <1>1, <1>2, <1>3, <1>4 DEF Finishing, Ended, Full
<1>10. Files'
  BY <1>1, <1>2, <1>3, <1>4 DEF Files, Busy, Leaving
<1> QED BY <1>5, <1>6, <1>7, <1>8, <1>9, <1>10

\* It prints the results and goes on to the next test.
LEMMA ReportInv ==
    ASSUME IInv, Report
    PROVE  IInv'
<1> USE Constants, TestTypes DEF IInv
<1>1. \A c \in Children : child[c].pc = "none" /\ child' = child
  BY DEF Report, Phase, Reaped
<1>2. TypeOK'
  <2>1. test' \in DOMAIN Tests /\ ppc' \in {"fork", "done"}
    BY DEF Report, TypeOK
  <2>2. stop' \in BOOLEAN /\ lost' \subseteq Children
    BY DEF Report
  <2> QED BY <2>1, <2>2 DEF Report, TypeOK
<1>3. CapturesBefore' /\ Fresh' /\ Counting'
  BY <1>1, <1>2 DEF CapturesBefore, Fresh, Counting, Counted, Busy, Leaving, Stored, Told, Writer, Break
<1>4. Phase'
  BY <1>1 DEF Report, Phase, Busy, Leaving, Children, TypeOK
<1>5. Finishing' /\ Files'
  BY <1>1 DEF Report, Finishing, Files, Busy, Leaving
<1> QED BY <1>2, <1>3, <1>4, <1>5

\* signal_handler kills the children.
LEMMA SignalInv ==
    ASSUME IInv, signal_handler
    PROVE  IInv'
<1> USE Constants, TestTypes DEF IInv
<1>1. \A c \in Children : child'[c] = [child[c] EXCEPT !.pc = "none"]
  BY DEF signal_handler
<1>2. TypeOK' /\ faults' # 0
  <2>1. child' \in [Children -> ChildState]
    BY <1>1 DEF signal_handler, TypeOK, ChildState
  <2>2. file' \in [Children -> Missing .. NumRecs]
    BY DEF signal_handler, Missing
  <2>3. faults' \in 0 .. MaxFaults /\ faults' # 0
    BY DEF signal_handler, Fault, TypeOK
  <2> QED BY <2>1, <2>2, <2>3 DEF signal_handler, TypeOK
<1>3. \A c \in Children : child'[c].pc = "none"
  BY <1>1 DEF TypeOK, ChildState
<1>4. CapturesBefore' /\ Phase' /\ Fresh' /\ Counting'
  BY <1>2, <1>3 DEF signal_handler, CapturesBefore, Phase, Fresh, Counting, Busy, Leaving,
     TypeOK, Alive
<1>5. Finishing' /\ Files'
  BY <1>2 DEF signal_handler, Finishing, Files
<1> QED BY <1>2, <1>4, <1>5

-----------------------------------------------------------------------------
(* The steps of the children *)

\* A step of child c, of which the others and the parent see nothing but the
\* flags.
Moves(c) ==
    /\ Alive(c) /\ UNCHANGED parent
    /\ child' \in [Children -> ChildState] /\ child'[c].pc # "none"
    /\ \A d \in Children \ {c} : /\ child'[d] = child[d] /\ flag'[d] = flag[d]
                                 /\ actual'[d] = actual[d] /\ file'[d] = file[d]
    /\ lost \subseteq lost' /\ lost' \subseteq lost \cup {c}
    /\ c \in lost' => child'[c].pc = "exit"
    /\ stop \in BOOLEAN /\ stop' \in BOOLEAN /\ (stop => stop')

\* A busy child, or one that is told to begin, has a parent beyond "ready".
LEMMA BegunPhase ==
    ASSUME IInv, NEW c \in Children, Busy(c) \/ flag[c] = "BEGIN"
    PROVE  ppc \notin {"fork", "ready", "failed"}
  BY DEF IInv, Phase

\* A step of one child does not disturb the phase of the test.
LEMMA MovesPhase ==
    ASSUME IInv, NEW c \in Children, Moves(c),
           \/ ppc \notin {"fork", "ready", "failed"}
           \/ /\ stop' = stop /\ flag'[c] # "BEGIN"
              /\ child'[c].pc \in {"poll", "exit"} /\ (child'[c].pc = "exit" => c \in lost')
    PROVE  Phase'
<1> USE DEF IInv
<1>1. Reaped' = Reaped
  BY DEF Moves, Alive, Reaped
<1>2. ppc' = ppc /\ i' = i
  BY DEF Moves, parent
<1>3. \A d \in lost' : ~Alive(d)'
  BY DEF Moves, Phase, Alive, TypeOK
<1>4. ppc = "report" => c \in Reaped
  BY DEF Phase
<1>5. ppc # "report"
  BY <1>4 DEF Moves, Alive, Reaped
<1>6. CASE ppc \notin {"fork", "ready", "failed"}
  BY <1>1, <1>2, <1>3, <1>5, <1>6 DEF Phase
<1>7. CASE /\ stop' = stop /\ flag'[c] # "BEGIN"
           /\ child'[c].pc \in {"poll", "exit"} /\ (child'[c].pc = "exit" => c \in lost')
  <2>1. ppc = "fork" => c < i
    BY DEF Phase, Moves, Alive, TypeOK, Children
  <2>2. ppc = "fork" => \A d \in Children : d >= i => child'[d].pc = "none" /\ d \notin lost'
    BY <2>1 DEF Phase, Moves, TypeOK, Children
  <2>3. ppc = "fork" => \A d \in Children : d < i => child'[d].pc \in {"open", "poll", "exit"}
    BY <1>7 DEF Phase, Moves
  <2>4. ppc = "ready" => \A d \in Children : child'[d].pc \in {"open", "poll", "exit"}
    BY <1>7 DEF Phase, Moves
  <2>5. ppc \in {"fork", "ready", "failed"} =>
          /\ ~stop'
          /\ \A d \in Children : ~Busy(d)' /\ flag'[d] # "BEGIN"
          /\ \A d \in Children \ lost' : child'[d].pc # "exit"
    BY <1>7 DEF Phase, Moves, Busy, Leaving
  <2> QED BY <1>1, <1>2, <1>3, <1>5, <2>2, <2>3, <2>4, <2>5 DEF Phase
<1> QED BY <1>6, <1>7

\* A child that ends has done everything, or was told to stop; one that tells
\* the others to stop has done everything.
LEMMA MovesFinishing ==
    ASSUME IInv, NEW c \in Children, Moves(c), xflag => ~stop',
           ppc \in {"go", "wait"} /\ Ended(c)' =>
             (IF xflag THEN child'[c].so_far = NumRecs /\ actual'[c] = NumRecs ELSE stop'),
           ppc \in {"go", "wait"} /\ stop' => stop \/ Full(c)',
           Full(c) => Full(c)'
    PROVE  Finishing'
<1> USE DEF IInv
<1>1. ppc' = ppc /\ xflag' = xflag
  BY DEF Moves, parent
<1>2. ppc # "report"
  BY DEF Moves, Alive, Phase, Reaped
<1>3. \A d \in Children \ {c} : /\ Ended(d)' <=> Ended(d)
                               /\ child'[d] = child[d] /\ actual'[d] = actual[d]
  BY DEF Moves, Ended
<1>4. \A d \in Children : Full(d) => Full(d)'
  BY <1>3 DEF Full
<1>5. xflag \in BOOLEAN
  BY DEF TypeOK
<1>6. ASSUME ppc \in {"go", "wait"}, NEW d \in Children, Ended(d)'
      PROVE  IF xflag THEN child'[d].so_far = NumRecs /\ actual'[d] = NumRecs ELSE stop'
  <2>1. CASE d = c
    BY <1>6, <2>1
  <2>2. CASE d # c
    <3>1. Ended(d) /\ child'[d] = child[d] /\ actual'[d] = actual[d]
      BY <1>3, <1>6, <2>2
    <3>2. IF xflag THEN child[d].so_far = NumRecs /\ actual[d] = NumRecs ELSE stop
      BY <1>6, <3>1 DEF Finishing
    <3> QED BY <1>5, <3>1, <3>2 DEF Moves
  <2> QED BY <2>1, <2>2
<1>7. ASSUME ppc \in {"go", "wait"}, stop' PROVE \E d \in Children : Full(d)'
  BY <1>4, <1>7 DEF Finishing
<1> QED BY <1>1, <1>2, <1>6, <1>7 DEF Finishing

\* A child opens its file, which holds what earlier tests have left.
LEMMA OpenInv ==
    ASSUME IInv, NEW c \in Children, Open(c)
    PROVE  IInv'
<1> USE Constants, TestTypes DEF IInv
<1>1. /\ child' = [child EXCEPT ![c].pc = "poll"] /\ child[c].pc = "open"
      /\ UNCHANGED <<ppc, test, i, xflag, stop, lost, faults>>
      /\ flag' = [flag EXCEPT ![c] = "READY"] /\ actual' = [actual EXCEPT ![c] = 0]
      /\ file' = [file EXCEPT ![c] = IF file[c] = Missing THEN 0 ELSE file[c]]
  BY DEF Open, parent, TypeOK
<1>2. /\ child' \in [Children -> ChildState] /\ child'[c] = [child[c] EXCEPT !.pc = "poll"]
      /\ \A d \in Children : d # c => child'[d] = child[d]
  BY <1>1 DEF TypeOK, ChildState
<1>3. child'[c].pc = "poll" /\ ~Busy(c)'
  BY <1>2 DEF TypeOK, ChildState, Busy, Leaving
<1>4. TypeOK'
  <2>1. file' \in [Children -> Missing .. NumRecs] /\ actual' \in [Children -> 0 .. NumRecs]
    BY <1>1 DEF TypeOK, Missing
  <2> QED BY <1>1, <1>2, <2>1 DEF TypeOK
<1>5. c \notin lost
  BY <1>1 DEF Phase, Alive
<1>6. Moves(c)
  BY <1>1, <1>2, <1>3, <1>5 DEF Moves, Alive, parent, TypeOK
<1>7. Phase'
  <2>1. flag'[c] # "BEGIN"
    BY <1>1 DEF TypeOK
  <2> QED BY <1>1, <1>3, <1>6, <2>1, MovesPhase
<1>8. CapturesBefore'
  BY <1>1, <1>2, <1>3, <1>4 DEF CapturesBefore, TypeOK
<1>9. Fresh' /\ Counting'
  <2>1. /\ child'[c].recs = child[c].recs /\ child'[c].so_far = child[c].so_far
        /\ child'[c].before = child[c].before /\ child'[c].stopped = child[c].stopped
    BY <1>2 DEF TypeOK, ChildState
  <2>2. Fresh'
    BY <1>1, <1>2, <1>3, <2>1 DEF Fresh
  <2>3. child[c].recs \in 0 .. NumRecs /\ child[c].so_far \in 0 .. NumRecs
    BY DEF TypeOK, ChildState
  <2>4. Counting'
    BY <1>1, <1>2, <1>3, <2>1, <2>3 DEF Fresh, Counting, Counted, Busy, Leaving, Stored, Told, Writer, Break, TypeOK
  <2> QED BY <2>2, <2>4
<1>10. Finishing'
  BY <1>1, <1>3, <1>6, MovesFinishing DEF Finishing, Ended, Full
<1>11. Files'
  BY <1>1, <1>2, <1>3 DEF Files, Busy, Leaving, TypeOK, Missing
<1> QED BY <1>4, <1>7, <1>8, <1>9, <1>10, <1>11

\* While nothing has failed, whoever opens a file finds or makes it, and
\* whoever reads finds all records.
LEMMA NothingShort ==
    ASSUME IInv, faults = 0, NEW c \in Children
    PROVE  /\ Writer \/ file[c] # Missing
           /\ Tests[test] = "read" /\ Busy(c) /\ child[c].pc = "io" => child[c].recs < file[c]
<1>1. test = 1 \/ test > 1
  BY TestTypes DEF IInv, TypeOK
<1>2. test = 1 => Writer /\ Tests[test] # "read"
  BY ThroughputAssumption DEF Writer
<1>3. test > 1 => file[c] = NumRecs
  BY DEF IInv, Files
<1>4. Busy(c) /\ child[c].pc = "io" => child[c].recs < NumRecs
  BY DEF IInv, Counting, Counted
<1> QED BY <1>1, <1>2, <1>3, <1>4, Constants DEF Missing

\* A child fails: OpenFails, TransferFails and Crash.
LEMMA FailsInv ==
    ASSUME IInv, NEW c \in Children, Alive(c), Fails(c), faults' \in 1 .. MaxFaults,
           UNCHANGED <<parent, actual, stop>>,
           flag' = flag \/ flag' = [flag EXCEPT ![c] = "HOLD"],
           file' = file \/ file' = [file EXCEPT ![c] = Missing]
    PROVE  IInv'
<1> USE Constants, TestTypes DEF IInv
<1>1. /\ child' = [child EXCEPT ![c].pc = "exit"] /\ lost' = lost \cup {c}
      /\ UNCHANGED <<ppc, test, i, xflag, stop, actual>>
  BY DEF Fails, Ends, parent
<1>2. /\ child' \in [Children -> ChildState] /\ child'[c].pc = "exit"
      /\ \A d \in Children : d # c => child'[d] = child[d]
  <2>1. child \in [Children -> ChildState]
    BY DEF TypeOK
  <2>2. [child[c] EXCEPT !.pc = "exit"] \in ChildState
    BY <2>1 DEF ChildState
  <2>3. child'[c] = [child[c] EXCEPT !.pc = "exit"] /\ child'[c].pc = "exit"
    BY <1>1, <2>1 DEF ChildState
  <2> QED BY <1>1, <2>1, <2>2, <2>3
<1>3. /\ file' \in [Children -> Missing .. NumRecs]
      /\ flag' \in [Children -> {"HOLD", "READY", "BEGIN"}]
      /\ \A d \in Children \ {c} : file'[d] = file[d] /\ flag'[d] = flag[d]
      /\ flag'[c] \in {flag[c], "HOLD"}
  <2>1. file \in [Children -> Missing .. NumRecs] /\ Missing \in Missing .. NumRecs
    BY DEF TypeOK, Missing
  <2>2. flag \in [Children -> {"HOLD", "READY", "BEGIN"}]
    BY DEF TypeOK
  <2>3. /\ file' \in [Children -> Missing .. NumRecs]
        /\ \A d \in Children \ {c} : file'[d] = file[d]
    BY <2>1
  <2>4. /\ flag' \in [Children -> {"HOLD", "READY", "BEGIN"}]
        /\ \A d \in Children \ {c} : flag'[d] = flag[d]
        /\ flag'[c] \in {flag[c], "HOLD"}
    BY <2>2
  <2> QED BY <2>3, <2>4
<1>4. TypeOK'
  BY <1>1, <1>2, <1>3 DEF TypeOK
<1>5. Moves(c)
  BY <1>1, <1>2, <1>3 DEF Moves, parent, TypeOK
<1>6. Phase'
  <2>1. ppc \in {"fork", "ready", "failed"} => flag'[c] # "BEGIN"
    BY <1>3 DEF Phase
  <2> QED BY <1>1, <1>2, <1>5, <2>1, MovesPhase
<1>7. CapturesBefore'
  BY <1>1, <1>2, <1>4 DEF CapturesBefore
<1>8. Fresh' /\ Counting'
  BY <1>1, <1>2 DEF Fresh, Counting, Counted, Busy, Leaving, Stored, Told, Writer, Break
<1>9. Finishing'
  BY <1>1, <1>5, MovesFinishing DEF Finishing, Ended, Full
<1>10. Files'
  BY DEF Files
<1> QED BY <1>4, <1>6, <1>7, <1>8, <1>9, <1>10

\* A child that cannot open its file is lost.
LEMMA OpenFailsInv ==
    ASSUME IInv, NEW c \in Children, OpenFails(c)
    PROVE  IInv'
<1>1. faults' \in 1 .. MaxFaults
  BY NothingShort, Constants DEF OpenFails, Fault, IInv, TypeOK
<1> QED BY <1>1, FailsInv DEF OpenFails, Alive

\* So is one that crashes.
LEMMA CrashInv ==
    ASSUME IInv, NEW c \in Children, Crash(c)
    PROVE  IInv'
<1>1. faults' \in 1 .. MaxFaults
  BY Constants DEF Crash, Fault, IInv, TypeOK
<1> QED BY <1>1, FailsInv DEF Crash

\* A child waits for the parent.
LEMMA AwaitBeginInv ==
    ASSUME IInv, NEW c \in Children, AwaitBegin(c)
    PROVE  IInv'
<1> USE Constants, TestTypes DEF IInv
<1>1. /\ child' = [child EXCEPT ![c].pc = "top"] /\ child[c].pc = "poll" /\ flag[c] = "BEGIN"
      /\ UNCHANGED <<ppc, test, i, xflag, flag, actual, stop, file, lost, faults>>
  BY DEF AwaitBegin, parent
<1>2. /\ child' \in [Children -> ChildState] /\ child'[c] = [child[c] EXCEPT !.pc = "top"]
      /\ \A d \in Children : d # c => child'[d] = child[d]
  BY <1>1 DEF TypeOK, ChildState
<1>3. child'[c].pc = "top"
  BY <1>2 DEF TypeOK, ChildState
<1>4. TypeOK'
  BY <1>1, <1>2 DEF TypeOK
<1>5. c \notin lost
  BY <1>1 DEF Phase, Alive
<1>6. Moves(c)
  BY <1>1, <1>2, <1>3, <1>5 DEF Moves, Alive, parent, TypeOK
<1>7. Phase'
  BY <1>1, <1>6, MovesPhase, BegunPhase
<1>8. CapturesBefore'
  BY <1>1, <1>2, <1>3, <1>4 DEF CapturesBefore
<1>9. Fresh' /\ Counting'
  <2>1. /\ child'[c].recs = child[c].recs /\ child'[c].so_far = child[c].so_far
        /\ child'[c].before = child[c].before /\ child'[c].stopped = child[c].stopped
    BY <1>2 DEF TypeOK, ChildState
  <2>2. Fresh'
    BY <1>1, <1>2, <1>3, <2>1 DEF Fresh
  <2>3. /\ child'[c].recs = 0 /\ child'[c].so_far = 0 /\ child'[c].before = 0
        /\ ~child'[c].stopped
    BY <1>1, <2>1 DEF Fresh
  <2>4. Counting'
    BY <1>1, <1>2, <1>3, <2>3 DEF Counting, Counted, Busy, Leaving, Stored, Told, Writer, Break
  <2> QED BY <2>2, <2>4
<1>10. Finishing'
  BY <1>1, <1>3, <1>6, MovesFinishing DEF Finishing, Ended, Full
<1>11. Files'
  <2>1. child'[c].recs = 0
    BY <1>1, <1>2 DEF Fresh, TypeOK, ChildState
  <2> QED BY <1>1, <1>2, <1>3, <2>1 DEF Files, Busy, Leaving, TypeOK
<1> QED BY <1>4, <1>7, <1>8, <1>9, <1>10, <1>11

\* A step of a child that leaves its loop or is on its way out.
LEMMA OutInv ==
    ASSUME IInv, NEW c \in Children, NEW p \in {"finish", "half", "hold", "leave"},
           Busy(c), child[c].pc # "count", child[c].recs = NumRecs \/ Break,
           child' = [child EXCEPT ![c].pc = p],
           UNCHANGED <<parent, file, lost>>,
           faults' \in 0 .. MaxFaults, faults' = 0 => faults = 0,
           flag' = flag \/ flag' = [flag EXCEPT ![c] = "HOLD"],
           stop' \in BOOLEAN, stop => stop', xflag => stop' = stop,
           actual' = actual \/ actual' = [actual EXCEPT ![c] = child[c].so_far],
           Stored(c)' => actual'[c] = child[c].so_far,
           Told(c)' => stop' \/ xflag
    PROVE  IInv'
<1> USE Constants, TestTypes DEF IInv
<1>1. /\ child \in [Children -> ChildState] /\ actual \in [Children -> 0 .. NumRecs]
      /\ stop \in BOOLEAN /\ xflag \in BOOLEAN
      /\ flag \in [Children -> {"HOLD", "READY", "BEGIN"}]
      /\ UNCHANGED <<ppc, test, i, xflag, file, lost>>
  BY DEF TypeOK, parent
<1>2. /\ child'[c] = [child[c] EXCEPT !.pc = p]
      /\ \A d \in Children : d # c => child'[d] = child[d]
      /\ child' \in [Children -> ChildState]
  <2>1. child[c] \in ChildState
    BY <1>1
  <2>2. [child[c] EXCEPT !.pc = p] \in ChildState
    BY <2>1 DEF ChildState
  <2>3. child' = [child EXCEPT ![c] = [child[c] EXCEPT !.pc = p]]
    BY <1>1
  <2> QED BY <1>1, <2>2, <2>3
<1>3. /\ child'[c].pc = p /\ child'[c].before = child[c].before
      /\ child'[c].recs = child[c].recs /\ child'[c].so_far = child[c].so_far
      /\ child'[c].stopped = child[c].stopped
      /\ child[c].recs \in 0 .. NumRecs /\ child[c].so_far \in 0 .. NumRecs
      /\ child[c].before \in 0 .. NumRecs
  BY <1>1, <1>2 DEF ChildState
<1>4. /\ actual' \in [Children -> 0 .. NumRecs]
      /\ \A d \in Children : d # c => actual'[d] = actual[d]
      /\ actual'[c] \in {actual[c], child[c].so_far}
  BY <1>1, <1>3
<1>5. /\ flag' \in [Children -> {"HOLD", "READY", "BEGIN"}]
      /\ \A d \in Children : d # c => flag'[d] = flag[d]
  BY <1>1
<1>6. TypeOK'
  BY <1>1, <1>2, <1>4, <1>5 DEF TypeOK
<1>7. Alive(c) /\ c \notin lost /\ ppc \notin {"fork", "ready", "failed"}
  BY BegunPhase DEF Busy, Leaving, Alive, Phase
<1>8. Moves(c)
  BY <1>1, <1>2, <1>3, <1>4, <1>5, <1>7 DEF Moves, parent
<1>9. Phase'
  BY <1>7, <1>8, MovesPhase
<1>10. CapturesBefore'
  BY <1>1, <1>2, <1>3, <1>4, <1>6 DEF CapturesBefore
<1>11. Fresh'
  BY <1>1, <1>2, <1>3 DEF Fresh
<1>12. Counted(c)
  BY DEF Counting
<1>13. ~stop => child[c].so_far = NumRecs
  BY <1>1, <1>12 DEF Counted, Break
<1>14. Counting'
  <2>1. Counted(c)'
    <3>1. /\ child[c].so_far <= child[c].recs /\ child[c].before <= child[c].recs
          /\ ~stop => child[c].so_far = child[c].recs /\ child[c].before = child[c].recs
          /\ stop => child[c].so_far \in {child[c].before - 1, child[c].before}
          /\ child[c].stopped => stop /\ actual[c] = child[c].so_far
      BY <1>3, <1>12 DEF Counted
    <3>2. child[c].so_far \in {child[c].before - 1, child[c].before}
      BY <1>1, <1>3, <3>1
    <3>3. /\ Writer' = Writer
          /\ child[c].recs = NumRecs \/ Break'
      BY <1>1 DEF Writer, Break
    <3>4. child'[c].stopped => stop' /\ actual'[c] = child'[c].so_far
      BY <1>3, <1>4, <3>1
    <3>5. child'[c].pc \notin {"top", "io", "count"}
      BY <1>3
    <3> QED BY <1>1, <1>3, <3>1, <3>2, <3>3, <3>4, <3>5 DEF Counted
  <2>2. ASSUME NEW d \in Children, d # c, Busy(d)' PROVE Counted(d)'
    <3>1. Busy(d) /\ child'[d] = child[d] /\ actual'[d] = actual[d] /\ Writer' = Writer
      BY <1>1, <1>2, <1>4, <2>2 DEF Busy, Leaving, Writer
    <3>2. Counted(d)
      BY <3>1 DEF Counting
    <3>3. /\ child[d].recs \in 0 .. NumRecs /\ child[d].so_far \in 0 .. NumRecs
          /\ child[d].before \in 0 .. NumRecs
      BY <1>1 DEF ChildState
    <3>4. CASE stop' = stop
      BY <1>1, <3>1, <3>2, <3>4 DEF Counted, Leaving, Stored, Told, Break
    <3>5. CASE ~stop /\ stop'
      BY <1>1, <3>1, <3>2, <3>3, <3>5 DEF Counted, Leaving, Stored, Told, Break
    <3> QED BY <1>1, <3>4, <3>5
  <2> QED BY <2>1, <2>2 DEF Counting
<1>15. Finishing'
  <2>1. ~Ended(c)'
    BY <1>3 DEF Ended
  <2>2. Full(c) => Full(c)'
    BY <1>3, <2>1 DEF Full
  <2>3. stop' => stop \/ Full(c)'
    BY <1>3, <1>13, <2>1 DEF Full
  <2>4. xflag => ~stop'
    BY DEF Finishing
  <2> QED BY <1>8, <2>1, <2>2, <2>3, <2>4, MovesFinishing
<1>16. Files'
  <2>1. faults = 0 /\ ~Writer => file[c] = NumRecs
    BY ThroughputAssumption DEF Writer, Files, TypeOK
  <2>2. faults = 0 => file[c] = NumRecs
    BY <2>1 DEF Files, TypeOK, Missing, Break
  <2>3. /\ \A d \in Children : Leaving(d)' => Leaving(d) \/ d = c
        /\ \A d \in Children : Busy(d)' => Busy(d)
    BY <1>2 DEF Leaving, Busy
  <2>4. \A d \in Children : child'[d].pc \in {"poll", "exit", "none", "count"} =>
                               child'[d].pc = child[d].pc
    BY <1>2, <1>3
  <2>5. \A d \in Children : child'[d].recs = child[d].recs
    BY <1>2, <1>3
  <2> QED BY <1>1, <1>3, <2>2, <2>3, <2>4, <2>5 DEF Files
<1> QED BY <1>6, <1>9, <1>10, <1>11, <1>14, <1>15, <1>16

\* Top and TransferFails: a child leaves its loop.
LEMMA FinishInv ==
    ASSUME IInv, NEW c \in Children, child[c].pc \in {"top", "io"}, Finish(c),
           child[c].recs = NumRecs \/ Break,
           UNCHANGED <<parent, file, lost>>, faults' \in 0 .. MaxFaults,
           faults' = 0 => faults = 0
    PROVE  IInv'
<1>1. Busy(c) /\ child[c].pc # "count" /\ stop \in BOOLEAN
  BY DEF Busy, IInv, TypeOK
<1>2. child'[c].pc = "finish"
  BY DEF Finish, IInv, TypeOK, ChildState
<1>3. ~Stored(c)' /\ ~Told(c)'
  BY <1>2 DEF Stored, Told
<1> QED BY <1>1, <1>3, OutInv DEF Finish

\* It tells the others to stop.
LEMMA TellStopInv ==
    ASSUME IInv, NEW c \in Children, TellStop(c)
    PROVE  IInv'
<1> DEFINE p == IF Writer THEN "half" ELSE "hold"
<1>1. /\ child' = [child EXCEPT ![c].pc = p] /\ stop' = (stop \/ ~xflag)
      /\ UNCHANGED <<parent, flag, actual, file, lost, faults>>
      /\ Leaving(c) /\ Busy(c) /\ child[c].pc # "count" /\ p \in {"half", "hold"}
  BY DEF TellStop, Leaving, Busy
<1>2. Counted(c) /\ (~Writer => Stored(c))
  BY <1>1 DEF TellStop, Stored, IInv, Counting
<1>3. child'[c].pc = p /\ Writer' = Writer /\ xflag \in BOOLEAN /\ stop \in BOOLEAN
  BY <1>1 DEF IInv, TypeOK, ChildState, Writer, parent
<1>4. Stored(c)' => actual'[c] = child[c].so_far
  BY <1>1, <1>2, <1>3 DEF Stored, Counted
<1>5. faults \in 0 .. MaxFaults
  BY DEF IInv, TypeOK
<1>6. child[c].recs = NumRecs \/ Break
  BY <1>1, <1>2 DEF Counted
<1>7. stop' \in BOOLEAN /\ (stop => stop') /\ (xflag => stop' = stop) /\ (stop' \/ xflag)
  BY <1>1, <1>3
<1> QED BY <1>1, <1>4, <1>5, <1>6, <1>7, OutInv

\* It stores its results.
LEMMA StoreInv ==
    ASSUME IInv, NEW c \in Children, Store(c)
    PROVE  IInv'
<1> DEFINE p == IF Writer THEN "hold" ELSE "half"
<1>1. /\ child' = [child EXCEPT ![c].pc = p]
      /\ actual' = actual \/ actual' = [actual EXCEPT ![c] = child[c].so_far]
      /\ child[c].stopped \/ actual' = [actual EXCEPT ![c] = child[c].so_far]
      /\ UNCHANGED <<parent, flag, stop, file, lost, faults>>
      /\ Leaving(c) /\ Busy(c) /\ child[c].pc # "count" /\ p \in {"half", "hold"}
  BY DEF Store, Leaving, Busy
<1>2. Counted(c) /\ (Writer => Told(c))
  BY <1>1 DEF Store, Told, IInv, Counting
<1>3. child'[c].pc = p /\ Writer' = Writer
  BY <1>1 DEF IInv, TypeOK, ChildState, Writer, parent
<1>4. actual'[c] = child[c].so_far
  BY <1>1, <1>2 DEF Counted, IInv, TypeOK
<1>5. faults \in 0 .. MaxFaults /\ stop \in BOOLEAN
  BY DEF IInv, TypeOK
<1>6. Told(c)' => stop \/ xflag
  BY <1>2, <1>3 DEF Told, Counted
<1>7. child[c].recs = NumRecs \/ Break
  BY <1>1, <1>2 DEF Counted
<1> QED BY <1>1, <1>4, <1>5, <1>6, <1>7, OutInv

\* It tells the parent.
LEMMA HoldInv ==
    ASSUME IInv, NEW c \in Children, Hold(c)
    PROVE  IInv'
<1>1. Leaving(c) /\ Busy(c) /\ Stored(c) /\ Told(c) /\ child[c].pc # "count"
  BY DEF Hold, Leaving, Busy, Stored, Told
<1>2. Counted(c) /\ faults \in 0 .. MaxFaults /\ stop \in BOOLEAN
  BY <1>1 DEF IInv, Counting, TypeOK
<1>3. actual[c] = child[c].so_far /\ (stop \/ xflag) /\ (child[c].recs = NumRecs \/ Break)
  BY <1>1, <1>2 DEF Counted
<1> QED BY <1>1, <1>2, <1>3, OutInv DEF Hold

\* It is gone.
LEMMA LeaveInv ==
    ASSUME IInv, NEW c \in Children, Leave(c)
    PROVE  IInv'
<1> USE Constants, TestTypes DEF IInv
<1>1. /\ child' = [child EXCEPT ![c].pc = "exit"] /\ child[c].pc = "leave"
      /\ UNCHANGED <<ppc, test, i, xflag, flag, actual, stop, file, lost, faults>>
  BY DEF Leave, Ends, parent
<1>2. /\ child \in [Children -> ChildState] /\ stop \in BOOLEAN /\ xflag \in BOOLEAN
  BY DEF TypeOK
<1>3. /\ child'[c] = [child[c] EXCEPT !.pc = "exit"]
      /\ \A d \in Children : d # c => child'[d] = child[d]
      /\ child' \in [Children -> ChildState]
  BY <1>1, <1>2 DEF ChildState
<1>4. /\ child'[c].pc = "exit" /\ child'[c].before = child[c].before
      /\ child'[c].so_far = child[c].so_far
      /\ child[c].recs \in 0 .. NumRecs /\ child[c].so_far \in 0 .. NumRecs
      /\ child[c].before \in 0 .. NumRecs
  BY <1>2, <1>3 DEF ChildState
<1>5. TypeOK'
  BY <1>1, <1>3 DEF TypeOK
<1>6. /\ Leaving(c) /\ Busy(c) /\ Stored(c) /\ Told(c) /\ Alive(c) /\ c \notin lost
      /\ ppc \notin {"fork", "ready", "failed"}
  BY <1>1, BegunPhase DEF Leaving, Busy, Stored, Told, Alive, Phase
<1>7. Moves(c)
  BY <1>1, <1>2, <1>3, <1>4, <1>6 DEF Moves, parent
<1>8. Phase'
  BY <1>6, <1>7, MovesPhase
<1>9. Counted(c)
  BY <1>6 DEF Counting
<1>10. /\ actual[c] = child[c].so_far /\ (stop \/ xflag)
       /\ child[c].so_far \in {child[c].before - 1, child[c].before}
       /\ ~stop => child[c].so_far = NumRecs
  <2>1. actual[c] = child[c].so_far /\ (stop \/ xflag) /\ (child[c].recs = NumRecs \/ Break)
    BY <1>6, <1>9 DEF Counted
  <2>2. ~stop => child[c].so_far = child[c].recs /\ child[c].before = child[c].recs
    BY <1>1, <1>4, <1>9 DEF Counted
  <2>3. stop => child[c].so_far \in {child[c].before - 1, child[c].before}
    BY <1>9 DEF Counted
  <2> QED BY <1>2, <1>4, <2>1, <2>2, <2>3 DEF Break
<1>11. CapturesBefore'
  BY <1>1, <1>2, <1>3, <1>4, <1>5, <1>10 DEF CapturesBefore
<1>12. Fresh'
  BY <1>1, <1>3, <1>4 DEF Fresh
<1>13. Counting'
  <2>1. ASSUME NEW d \in Children, Busy(d)' PROVE Counted(d)'
    <3>1. d # c /\ child'[d] = child[d] /\ Busy(d)
      BY <1>3, <1>4, <2>1 DEF Busy, Leaving
    <3>2. Counted(d)
      BY <3>1 DEF Counting
    <3> QED BY <1>1, <3>1, <3>2 DEF Counted, Leaving, Stored, Told, Writer, Break
  <2> QED BY <2>1 DEF Counting
<1>14. Finishing'
  <2>1. xflag => ~stop
    BY DEF Finishing
  <2>2. actual'[c] = actual[c] /\ stop' = stop
    BY <1>1
  <2>3. Full(c) => Full(c)'
    BY <1>4, <1>10, <2>2 DEF Full
  <2>4. IF xflag THEN child'[c].so_far = NumRecs /\ actual'[c] = NumRecs ELSE stop'
    BY <1>2, <1>4, <1>10, <2>1, <2>2
  <2> QED BY <1>7, <2>1, <2>2, <2>3, <2>4, MovesFinishing
<1>15. Files'
  BY <1>1, <1>3, <1>4, <1>6 DEF Files, Busy, Leaving
<1> QED BY <1>5, <1>8, <1>11, <1>12, <1>13, <1>14, <1>15

\* Top and TransferFails: a writer is told to stop and goes on.
LEMMA StoppedInv ==
    ASSUME IInv, NEW c \in Children, child[c].pc \in {"top", "io"}, Stopped(c, "io"),
           stop, child[c].recs < NumRecs,
           UNCHANGED <<parent, file, lost>>, faults' \in 0 .. MaxFaults,
           faults' = 0 => faults = 0
    PROVE  IInv'
<1> USE Constants, TestTypes DEF IInv
<1>1. /\ child' = [child EXCEPT ![c].stopped = TRUE, ![c].pc = "io"]
      /\ actual' = [actual EXCEPT ![c] = child[c].so_far]
      /\ UNCHANGED <<ppc, test, i, xflag, flag, stop, file, lost>>
  BY DEF Stopped, parent
<1>2. /\ child \in [Children -> ChildState] /\ actual \in [Children -> 0 .. NumRecs]
  BY DEF TypeOK
<1>3. /\ child'[c] = [child[c] EXCEPT !.stopped = TRUE, !.pc = "io"]
      /\ \A d \in Children : d # c => child'[d] = child[d]
      /\ child' \in [Children -> ChildState]
  <2>1. child[c] \in ChildState
    BY <1>2
  <2>2. [child[c] EXCEPT !.stopped = TRUE, !.pc = "io"] \in ChildState
    BY <2>1 DEF ChildState
  <2>3. child' = [child EXCEPT ![c] = [child[c] EXCEPT !.stopped = TRUE, !.pc = "io"]]
    BY <1>1, <1>2
  <2> QED BY <1>2, <2>2, <2>3
<1>4. /\ child'[c].pc = "io" /\ child'[c].before = child[c].before
      /\ child'[c].recs = child[c].recs /\ child'[c].so_far = child[c].so_far
      /\ child[c].so_far \in 0 .. NumRecs /\ child[c].recs \in 0 .. NumRecs
  BY <1>2, <1>3 DEF ChildState
<1>5. TypeOK'
  BY <1>1, <1>2, <1>3, <1>4 DEF TypeOK
<1>6. Busy(c) /\ Alive(c) /\ c \notin lost /\ ppc \notin {"fork", "ready", "failed"}
  BY BegunPhase DEF Busy, Leaving, Alive, Phase
<1>7. Moves(c)
  BY <1>1, <1>2, <1>3, <1>4, <1>6 DEF Moves, parent, TypeOK
<1>8. Phase'
  BY <1>6, <1>7, MovesPhase
<1>9. CapturesBefore'
  BY <1>1, <1>2, <1>3, <1>4, <1>5 DEF CapturesBefore
<1>10. Fresh'
  BY <1>1, <1>3, <1>4 DEF Fresh
<1>11. Counting'
  <2>1. actual'[c] = child[c].so_far /\ \A d \in Children : d # c => actual'[d] = actual[d]
    BY <1>1, <1>2
  <2>2. Counted(c)'
    <3>1. Counted(c)
      BY <1>6 DEF Counting
    <3>2. ~Leaving(c)' /\ ~Stored(c)' /\ ~Told(c)'
      BY <1>4 DEF Leaving, Stored, Told
    <3>3. child'[c].stopped
      BY <1>2, <1>3 DEF ChildState
    <3>4. child[c].before \in 0 .. NumRecs /\ child[c].before <= child[c].recs
      BY <1>2, <1>4, <3>1 DEF Counted, ChildState
    <3> QED BY <1>1, <1>4, <2>1, <3>1, <3>2, <3>3, <3>4 DEF Counted
  <2>3. ASSUME NEW d \in Children, d # c, Busy(d)' PROVE Counted(d)'
    BY <1>1, <1>3, <2>1, <2>3 DEF Counting, Counted, Busy, Leaving, Stored, Told, Writer, Break
  <2> QED BY <2>2, <2>3 DEF Counting
<1>12. Finishing'
  BY <1>1, <1>4, <1>7, MovesFinishing DEF Finishing, Ended, Full
<1>13. Files'
  BY <1>1, <1>3, <1>4, <1>6 DEF Files, Busy, Leaving
<1> QED BY <1>5, <1>8, <1>9, <1>10, <1>11, <1>12, <1>13

\* It looks at stop_flag before each record.
LEMMA TopInv ==
    ASSUME IInv, NEW c \in Children, Top(c)
    PROVE  IInv'
<1> USE Constants, TestTypes DEF IInv
<1>1. /\ child[c].pc = "top" /\ UNCHANGED <<parent, file, lost, faults>>
      /\ child \in [Children -> ChildState] /\ faults \in 0 .. MaxFaults
  BY DEF Top, TypeOK
<1>2. child[c].recs \in 0 .. NumRecs
  BY <1>1 DEF ChildState
<1>3. CASE child[c].recs = NumRecs
  <2>1. Finish(c)
    BY <1>3 DEF Top
  <2> QED BY <1>1, <1>3, <2>1, FinishInv
<1>4. CASE child[c].recs < NumRecs /\ Break
  <2>1. Finish(c)
    BY <1>1, <1>2, <1>4 DEF Top, Break
  <2> QED BY <1>1, <1>4, <2>1, FinishInv
<1>5. CASE child[c].recs < NumRecs /\ stop /\ Writer /\ ~child[c].stopped
  <2>1. Stopped(c, "io")
    BY <1>1, <1>5 DEF Top
  <2> QED BY <1>1, <1>5, <2>1, StoppedInv
<1>6. CASE child[c].recs < NumRecs /\ (~stop \/ (Writer /\ child[c].stopped))
  <2>1. child' = [child EXCEPT ![c].pc = "io"] /\ UNCHANGED <<flag, actual, stop>>
    BY <1>1, <1>2, <1>6 DEF Top, Break
  <2>2. UNCHANGED <<ppc, test, i, xflag, flag, actual, stop, file, lost, faults>>
    BY <1>1, <2>1 DEF parent
  <2>3. /\ child' \in [Children -> ChildState] /\ child'[c] = [child[c] EXCEPT !.pc = "io"]
        /\ \A d \in Children : d # c => child'[d] = child[d]
    BY <1>1, <2>1 DEF ChildState
  <2>4. /\ child'[c].pc = "io" /\ child'[c].before = child[c].before
        /\ child'[c].recs = child[c].recs /\ child'[c].so_far = child[c].so_far
        /\ child'[c].stopped = child[c].stopped
    BY <1>1, <2>3 DEF ChildState
  <2>5. TypeOK'
    BY <2>2, <2>3 DEF TypeOK
  <2>6. Busy(c) /\ Alive(c) /\ c \notin lost /\ ppc \notin {"fork", "ready", "failed"}
    BY <1>1, BegunPhase DEF Busy, Leaving, Alive, Phase
  <2>7. Moves(c)
    BY <2>2, <2>3, <2>4, <2>6 DEF Moves, parent, TypeOK
  <2>8. Phase'
    BY <2>6, <2>7, MovesPhase
  <2>9. CapturesBefore' /\ Fresh'
    BY <2>2, <2>3, <2>4, <2>5 DEF CapturesBefore, Fresh
  <2>10. Counting'
    <3>1. Counted(c)
      BY <2>6 DEF Counting
    <3>2. Counted(c)'
      BY <1>1, <1>2, <1>6, <2>2, <2>4, <2>6, <3>1 DEF Counted, Busy, Leaving, Stored, Told, Writer, Break
    <3>3. \A d \in Children \ {c} : Busy(d)' => Counted(d)'
      BY <2>2, <2>3 DEF Counting, Counted, Busy, Leaving, Stored, Told, Writer, Break
    <3> QED BY <3>2, <3>3 DEF Counting
  <2>11. Finishing'
    BY <2>2, <2>4, <2>7, MovesFinishing DEF Finishing, Ended, Full
  <2>12. Files'
    BY <1>1, <2>2, <2>3, <2>4, <2>6 DEF Files, Busy, Leaving
  <2> QED BY <2>5, <2>8, <2>9, <2>10, <2>11, <2>12
<1> QED BY <1>2, <1>3, <1>4, <1>5, <1>6 DEF Break

\* It transfers a record.
LEMMA TransferInv ==
    ASSUME IInv, NEW c \in Children, Transfer(c)
    PROVE  IInv'
<1> USE Constants, TestTypes DEF IInv
<1>1. /\ child[c].pc = "io"
      /\ child' = [child EXCEPT ![c].pc = "count",
                                ![c].before = IF stop THEN child[c].before ELSE child[c].before + 1]
      /\ file' = [file EXCEPT ![c] = IF child[c].recs + 1 > file[c] THEN child[c].recs + 1
                                                                   ELSE file[c]]
      /\ UNCHANGED <<ppc, test, i, xflag, flag, actual, stop, lost, faults>>
  BY DEF Transfer, parent, TypeOK
<1>2. child \in [Children -> ChildState] /\ file \in [Children -> Missing .. NumRecs]
  BY DEF TypeOK
<1>3. /\ child[c].recs \in 0 .. NumRecs /\ child[c].before \in 0 .. NumRecs
      /\ child[c].so_far \in 0 .. NumRecs /\ file[c] \in Missing .. NumRecs
  BY <1>2 DEF ChildState
<1>4. Busy(c) /\ Alive(c) /\ c \notin lost /\ ppc \notin {"fork", "ready", "failed"}
  BY <1>1, BegunPhase DEF Busy, Leaving, Alive, Phase
<1>5. child[c].recs < NumRecs /\ child[c].before <= child[c].recs
  BY <1>1, <1>3, <1>4 DEF Counting, Counted
<1>6. (IF stop THEN child[c].before ELSE child[c].before + 1) \in 0 .. NumRecs
  BY <1>3, <1>5
<1>7. /\ child'[c] = [child[c] EXCEPT !.pc = "count",
                          !.before = IF stop THEN child[c].before ELSE child[c].before + 1]
      /\ \A d \in Children : d # c => child'[d] = child[d]
  BY <1>1, <1>2
<1>8. child' \in [Children -> ChildState]
  <2>1. child'[c] \in ChildState
    BY <1>2, <1>6, <1>7 DEF ChildState
  <2> QED BY <1>1, <1>2, <2>1
<1>9. /\ child'[c].pc = "count" /\ child'[c].recs = child[c].recs
      /\ child'[c].so_far = child[c].so_far /\ child'[c].stopped = child[c].stopped
      /\ child'[c].before = IF stop THEN child[c].before ELSE child[c].before + 1
  BY <1>2, <1>7 DEF ChildState
<1>10. /\ file' \in [Children -> Missing .. NumRecs] /\ file'[c] >= child[c].recs + 1
       /\ file'[c] >= file[c] /\ (file[c] = NumRecs => file'[c] = NumRecs)
       /\ \A d \in Children : d # c => file'[d] = file[d]
  BY <1>1, <1>2, <1>3, <1>5 DEF Missing
<1>11. TypeOK'
  BY <1>1, <1>8, <1>10 DEF TypeOK
<1>12. Moves(c)
  BY <1>1, <1>4, <1>7, <1>8, <1>9, <1>10 DEF Moves, parent, TypeOK
<1>13. Phase'
  BY <1>4, <1>12, MovesPhase
<1>14. CapturesBefore' /\ Fresh'
  BY <1>1, <1>7, <1>9, <1>11 DEF CapturesBefore, Fresh
<1>15. Counting'
  <2>1. Counted(c)
    BY <1>4 DEF Counting
  <2>2. Counted(c)'
    BY <1>1, <1>3, <1>4, <1>9, <2>1 DEF Counted, Busy, Leaving, Stored, Told, Writer, Break
  <2>3. \A d \in Children \ {c} : Busy(d)' => Counted(d)'
    <3>1. /\ actual' = actual /\ stop' = stop /\ test' = test /\ xflag' = xflag
          /\ \A d \in Children \ {c} : child'[d] = child[d]
      BY <1>1, <1>7
    <3> QED BY <3>1 DEF Counting, Counted, Busy, Leaving, Stored, Told, Writer, Break
  <2> QED BY <2>2, <2>3 DEF Counting
<1>16. Finishing'
  BY <1>1, <1>9, <1>12, MovesFinishing DEF Finishing, Ended, Full
<1>17. Files'
  BY <1>1, <1>3, <1>4, <1>7, <1>9, <1>10 DEF Files, Busy, Leaving
<1> QED BY <1>11, <1>13, <1>14, <1>15, <1>16, <1>17

\* The transfer of a record fails.
LEMMA TransferFailsInv ==
    ASSUME IInv, NEW c \in Children, TransferFails(c)
    PROVE  IInv'
<1> USE Constants DEF IInv
<1>1. child[c].pc = "io" /\ UNCHANGED parent
  BY DEF TransferFails
<1>2. Busy(c) /\ Alive(c) /\ child[c].recs < NumRecs
  BY <1>1 DEF Busy, Leaving, Alive, Counting, Counted
<1>3. child[c].recs \in 0 .. NumRecs /\ file[c] \in Missing .. NumRecs /\ faults \in 0 .. MaxFaults
  BY DEF TypeOK, ChildState
<1>4. faults' \in 1 .. MaxFaults \/ (faults' = faults /\ faults # 0)
  BY <1>1, <1>2, <1>3, NothingShort DEF TransferFails, Fault, Missing
<1>5. faults' \in 1 .. MaxFaults
  BY <1>3, <1>4
<1>6. CASE Break /\ Finish(c) /\ UNCHANGED <<file, lost>>
  BY <1>1, <1>5, <1>6, FinishInv
<1>7. CASE stop /\ Writer /\ ~child[c].stopped /\ Stopped(c, "io") /\ UNCHANGED <<file, lost>>
  BY <1>1, <1>2, <1>5, <1>7, StoppedInv
<1>8. CASE Fails(c) /\ flag' = [flag EXCEPT ![c] = "HOLD"] /\ file' = [file EXCEPT ![c] = Missing]
           /\ UNCHANGED <<actual, stop>>
  BY <1>1, <1>2, <1>5, <1>8, FailsInv
<1> QED BY <1>6, <1>7, <1>8 DEF TransferFails

\* It counts the record unless it was told to stop.
LEMMA CountInv ==
    ASSUME IInv, NEW c \in Children, Count(c)
    PROVE  IInv'
<1> USE Constants, TestTypes DEF IInv
<1>1. /\ child[c].pc = "count"
      /\ child' = [child EXCEPT ![c].pc = "top", ![c].recs = child[c].recs + 1,
                                ![c].so_far = IF stop THEN child[c].so_far ELSE child[c].so_far + 1]
      /\ UNCHANGED <<ppc, test, i, xflag, flag, actual, stop, file, lost, faults>>
  BY DEF Count, parent, TypeOK
<1>2. child \in [Children -> ChildState]
  BY DEF TypeOK
<1>3. /\ child[c].recs \in 0 .. NumRecs /\ child[c].before \in 0 .. NumRecs
      /\ child[c].so_far \in 0 .. NumRecs
  BY <1>2 DEF ChildState
<1>4. Busy(c) /\ Alive(c) /\ c \notin lost /\ ppc \notin {"fork", "ready", "failed"}
  BY <1>1, BegunPhase DEF Busy, Leaving, Alive, Phase
<1>5. child[c].recs < NumRecs /\ child[c].so_far <= child[c].recs
  BY <1>1, <1>3, <1>4 DEF Counting, Counted
<1>6. /\ child[c].recs + 1 \in 0 .. NumRecs
      /\ (IF stop THEN child[c].so_far ELSE child[c].so_far + 1) \in 0 .. NumRecs
  BY <1>3, <1>5
<1>7. /\ child'[c] = [child[c] EXCEPT !.pc = "top", !.recs = child[c].recs + 1,
                          !.so_far = IF stop THEN child[c].so_far ELSE child[c].so_far + 1]
      /\ \A d \in Children : d # c => child'[d] = child[d]
  BY <1>1, <1>2
<1>8. child' \in [Children -> ChildState]
  BY <1>1, <1>2, <1>6 DEF ChildState
<1>9. /\ child'[c].pc = "top" /\ child'[c].recs = child[c].recs + 1
      /\ child'[c].before = child[c].before /\ child'[c].stopped = child[c].stopped
      /\ child'[c].so_far = IF stop THEN child[c].so_far ELSE child[c].so_far + 1
  BY <1>2, <1>7 DEF ChildState
<1>10. TypeOK'
  BY <1>1, <1>8 DEF TypeOK
<1>11. Moves(c)
  BY <1>1, <1>4, <1>7, <1>8, <1>9 DEF Moves, parent, TypeOK
<1>12. Phase'
  BY <1>4, <1>11, MovesPhase
<1>13. CapturesBefore' /\ Fresh'
  BY <1>1, <1>7, <1>9, <1>10 DEF CapturesBefore, Fresh
<1>14. Counting'
  <2>1. Counted(c)
    BY <1>4 DEF Counting
  <2>2. Counted(c)'
    BY <1>1, <1>3, <1>4, <1>9, <2>1 DEF Counted, Busy, Leaving, Stored, Told, Writer, Break
  <2>3. \A d \in Children \ {c} : Busy(d)' => Counted(d)'
    <3>1. /\ actual' = actual /\ stop' = stop /\ test' = test /\ xflag' = xflag
          /\ \A d \in Children \ {c} : child'[d] = child[d]
      BY <1>1, <1>7
    <3> QED BY <3>1 DEF Counting, Counted, Busy, Leaving, Stored, Told, Writer, Break
  <2> QED BY <2>2, <2>3 DEF Counting
<1>15. Finishing'
  <2>1. ~Full(c) /\ ~Ended(c)'
    BY <1>3, <1>5, <1>9 DEF Full, Ended
  <2> QED BY <1>1, <1>11, <2>1, MovesFinishing DEF Finishing
<1>16. Files'
  <2>1. faults = 0 => file[c] >= child'[c].recs
    BY <1>1, <1>4, <1>9 DEF Files, Busy, Leaving
  <2>2. child'[c].pc = "top" /\ child'[c].recs \in Int
    BY <1>3, <1>9
  <2>3. /\ \A d \in Children \ {c} : child'[d] = child[d]
        /\ UNCHANGED <<ppc, test, file, lost, faults>>
    BY <1>1, <1>7
  <2> QED BY <2>1, <2>2, <2>3 DEF Files, Busy, Leaving
<1> QED BY <1>10, <1>12, <1>13, <1>14, <1>15, <1>16

-----------------------------------------------------------------------------
\* Every step keeps the invariant.
LEMMA NextInv == IInv /\ [Next]_vars => IInv'
<1> SUFFICES ASSUME IInv, [Next]_vars PROVE IInv'
  OBVIOUS
<1>1. CASE Fork
  BY <1>1, ForkInv
<1>2. CASE ForkFails
  BY <1>2, ForkFailsInv
<1>3. CASE AwaitReady
  BY <1>3, AwaitReadyInv
<1>4. CASE Begin
  BY <1>4, BeginInv
<1>5. CASE Wait
  BY <1>5, WaitInv
<1>6. CASE Report
  BY <1>6, ReportInv
<1>7. CASE signal_handler
  BY <1>7, SignalInv
<1>8. ASSUME NEW c \in Children, Child(c) PROVE IInv'
  BY <1>8, OpenInv, OpenFailsInv, AwaitBeginInv, TopInv, TransferInv, TransferFailsInv,
     CountInv, TellStopInv, StoreInv, HoldInv, LeaveInv DEF Child
<1>9. ASSUME NEW c \in Children, Crash(c) PROVE IInv'
  BY <1>9, CrashInv
<1>10. CASE UNCHANGED vars
  BY <1>10 DEF vars, parent, IInv, TypeOK, CapturesBefore, Phase, Fresh, Counting, Counted,
     Finishing, Files, Busy, Leaving, Stored, Told, Writer, Break, Alive, Ended, Full, Reaped
<1> QED BY <1>1, <1>2, <1>3, <1>4, <1>5, <1>6, <1>7, <1>8, <1>9, <1>10 DEF Next, Parent

\* The parent's and the children's phases, counts and files are as IInv says
\* in every state of throughput_test, whatever fails.
THEOREM Invariance == Safety => []IInv
  BY InitInv, NextInv, PTL DEF Safety

\* The result that a child of throughput_test leaves in child_stat->actual is
\* what it transferred before stop_flag was set, but for the record it was
\* about to count: for any number of children, records, tests and faults.
THEOREM ResultsBeforeStop == Spec => []CapturesBefore
<1>1. IInv => CapturesBefore
  BY DEF IInv
<1> QED BY <1>1, Invariance, PTL DEF Spec

\* When the parent prints the results of a test, some child has done all its
\* work unless all failed, and has published it unless it was killed on its way
\* out; without stonewalling each child that did not fail has.
THEOREM WorkIsDone == Spec => []SomeoneCompletes
<1>1. IInv => SomeoneCompletes
  <2> SUFFICES ASSUME IInv, ppc = "report", lost # Children
               PROVE  /\ \E c \in Children :
                            child[c].so_far = NumRecs /\ (c \in lost \/ actual[c] = NumRecs)
                      /\ xflag => \A c \in Children \ lost : actual[c] = NumRecs
    BY DEF SomeoneCompletes
  <2>1. \A c \in Children \ lost : Ended(c)
    BY DEF IInv, Phase, Reaped, Ended
  <2>2. PICK c \in Children : c \notin lost
    BY DEF IInv, TypeOK
  <2>3. xflag => \A d \in Children \ lost : child[d].so_far = NumRecs /\ actual[d] = NumRecs
    BY <2>1 DEF IInv, Finishing
  <2>4. ~xflag => stop
    BY <2>1, <2>2 DEF IInv, Finishing
  <2>5. ~xflag => \E d \in Children : Full(d)
    BY <2>4 DEF IInv, Finishing
  <2> QED BY <2>1, <2>2, <2>3, <2>5 DEF Full
<1> QED BY <1>1, Invariance, PTL DEF Spec

\* A writer that goes on when it is told to stop leaves a whole file, so that
\* no child of a later test fails unless a system call does.
THEOREM WholeFiles == Spec => []NobodyFails
<1>1. IInv => NobodyFails
  BY DEF IInv, Files, NobodyFails
<1> QED BY <1>1, Invariance, PTL DEF Spec
=============================================================================
