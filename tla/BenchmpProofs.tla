--------------------------- MODULE BenchmpProofs ---------------------------
(***************************************************************************)
(* Proofs about Benchmp, for any number of children, any number of writes  *)
(* per result and any number of faults: the phases of the children do not  *)
(* overlap, the results that are merged are whole, and no child is left    *)
(* behind.                                                                 *)
(*                                                                         *)
(* What a child may do depends on the bytes in the pipes, and what the     *)
(* parent may do on how many children sent theirs, so the invariant ties   *)
(* the pipes to the places of the children for each place of the parent.   *)
(***************************************************************************)
EXTENDS Benchmp, FiniteSetTheorems, FunctionTheorems, TLAPS

Msg    == ChildId \X {"ready", "done", "result"}
States == {"none", "init", "warmup", "timing", "cooldown", "asked", "sending",
           "final", "leaving", "dead"}

\* The parent's places up to the 'start' bytes, and up to the first 'result'.
Forking   == {"check", "fork", "abort", "abortwait"}
Waiting   == Forking \cup {"ready", "start"}
Unasked   == Waiting \cup {"done"}
Asking    == {"ask", "collect", "exit", "reap"}

\* The state is well typed, and so is what is in the response pipe.
Typed ==
    /\ TypeOK
    /\ response \in Seq(Msg) /\ part \in Seq(Msg) /\ merged \in Seq(Seq(Msg))

\* The parts of that: the parent, the flags, the children, the pipes.
ParentTyped ==
    /\ round \in 1 .. 2 /\ i \in 0 .. Parallel /\ time \in {0, 1}
    /\ ppc \in {"enter", "check", "fork", "abort", "abortwait", "ready", "start",
                "done", "ask", "collect", "exit", "perr", "perrwait", "reap",
                "end", "returned", "killed"}
    /\ faults \in 0 .. MaxFaults

FlagsTyped ==
    /\ cleanup \in BOOLEAN /\ sigterm \in BOOLEAN /\ sigchld \in BOOLEAN
    /\ armed \in BOOLEAN /\ alarmed \in BOOLEAN

ChildrenTyped ==
    /\ child \in [ChildId -> States]
    /\ heard \in [ChildId -> BOOLEAN] /\ hung \subseteq ChildId
    /\ sent \in [ChildId -> 0 .. Chunks]

PipesTyped ==
    /\ {start, result, exit} \subseteq 0 .. Parallel
    /\ Len(part) < Chunks /\ Len(merged) <= Parallel
    /\ response \in Seq(Msg) /\ part \in Seq(Msg) /\ merged \in Seq(Seq(Msg))

\* Which children the parent has forked, and which it has waited for.
Waited ==
    /\ i <= Par
    /\ ppc \in {"fork", "perrwait", "collect"} => i < Par
    /\ ppc = "abortwait" => i > 0
    /\ \A k \in ChildId \ Here : child[k] = "none"
    /\ ppc \in {"check", "fork"} => \A k \in ChildId : k >= i => child[k] = "none"
    /\ ppc \in {"abort", "abortwait", "reap"} => \A k \in ChildId : k >= i => ~Live(k)
    /\ ppc \in {"perr", "perrwait"} => \A k \in ChildId : k < i => ~Live(k)
    /\ ppc \in {"end", "enter", "returned"} => \A k \in ChildId : ~Live(k)

\* The children of the round that are in none of the states S.
Past(S) == {k \in Here : child[k] \notin S}

\* A byte the parent has or will read was sent by a child that is past the
\* state it reports the end of.
Bytes ==
    /\ ppc \in {"check", "fork"} =>
         Len(response) <= Cardinality(Past({"none", "init"}))
    /\ ppc = "ready" => i + Len(response) <= Cardinality(Past({"none", "init"}))
    /\ ppc = "start" => response = <<>>
    /\ ppc = "done" => i + Len(response) <= Cardinality(Past({"warmup", "timing"}))

\* A child that measures or has measured, and one that is not done measuring.
Begun(k)  == child[k] \in {"timing", "cooldown", "asked", "sending", "final"}
Undone(k) == child[k] \in {"init", "warmup", "timing"}

\* What the parent's place and the bytes in the pipes say about the children.
Phases ==
    /\ ppc \in Waiting => start = 0 /\ \A k \in ChildId : ~Begun(k)
    /\ ppc \in Unasked => result = 0 /\ \A k \in ChildId : ~Reporting(k)
    /\ ppc \in {"start", "done"} => \A k \in ChildId : child[k] # "init"
    /\ ppc \in Asking => \A k \in ChildId : ~Undone(k)
    /\ ppc \in {"perr", "perrwait"} =>
         /\ start > 0 \/ (\E k \in ChildId : Begun(k))
              => \A k \in ChildId : child[k] # "init"
         /\ result > 0 \/ (\E k \in ChildId : Reporting(k))
              => \A k \in ChildId : ~Undone(k)
    /\ ppc \notin {"reap", "end", "enter", "returned", "killed"} => exit = 0

\* How much of its results a child has written.
Sent ==
    \A k \in ChildId :
        /\ child[k] \notin {"sending", "final", "leaving", "dead"} => sent[k] = 0
        /\ child[k] = "sending" => sent[k] < Chunks

\* The m-th result that was merged is whole and of a child of this round.
Whole(m) ==
    /\ Len(merged[m]) = Chunks
    /\ \E k \in Here : \A n \in 1 .. Chunks : merged[m][n] = <<k, "result">>

From(m) == merged[m][1][1]

\* The one child that was asked owns all that is in the response pipe.
Owner(k) ==
    /\ child[k] \in {"sending", "final", "leaving", "dead"}
    /\ \A j \in ChildId : child[j] = "sending" => j = k
    /\ \A m \in DOMAIN merged : From(m) # k
    /\ \A n \in DOMAIN part : part[n] = <<k, "result">>
    /\ \A n \in DOMAIN response : response[n] = <<k, "result">>
    /\ sent[k] = Len(part) + Len(response)

Quiet == response = <<>> /\ \A k \in ChildId : child[k] # "sending"

Results ==
    /\ \A m \in DOMAIN merged : Whole(m)
    /\ \A m, n \in DOMAIN merged : m # n => From(m) # From(n)
    /\ ppc \in Unasked => merged = <<>>
    /\ ppc \in {"ask", "collect"} =>
         \A m \in DOMAIN merged : child[From(m)] \in {"final", "leaving", "dead"}
    /\ ppc \in {"ask", "collect", "exit"} => Len(merged) = i
    /\ ppc = "exit" => i = Par
    /\ ppc = "ask" => result = 0 /\ Quiet
    /\ ppc = "collect" => \/ result = 1 /\ Quiet /\ part = <<>>
                          \/ result = 0 /\ \E k \in Here : Owner(k)
    /\ ppc \notin {"reap", "end", "returned", "killed"} => time = 0
    /\ time > 0 => \A k \in Here : \E m \in DOMAIN merged : From(m) = k

IInv == Typed /\ Waited /\ Bytes /\ Phases /\ Sent /\ Results

-----------------------------------------------------------------------------
(* What the operators of the model give *)

\* The smaller of two numbers.
LEMMA MinOfTwo ==
    ASSUME NEW a \in Nat, NEW b \in Nat
    PROVE  /\ Min({a, b}) \in Nat /\ Min({a, b}) <= a /\ Min({a, b}) <= b
           /\ Min({a, b}) = a \/ Min({a, b}) = b
  <1>1. CASE a <= b
    <2>1. \E x \in {a, b} : \A y \in {a, b} : x <= y
      BY <1>1
    <2> QED  BY <2>1 DEF Min
  <1>2. CASE b <= a
    <2>1. \E x \in {a, b} : \A y \in {a, b} : x <= y
      BY <1>2
    <2> QED  BY <2>1 DEF Min
  <1> QED  BY <1>1, <1>2

\* There are one or Parallel children in a round.
LEMMA ParFacts ==
    ASSUME TypeOK
    PROVE  /\ Par \in Nat /\ Par >= 1 /\ Par <= Parallel
           /\ Here \subseteq ChildId /\ ChildId \subseteq Nat
           /\ IsFiniteSet(Here) /\ Cardinality(Here) = Par
  <1>1. Par \in Nat /\ Par >= 1 /\ Par <= Parallel
    BY BenchmpAssumption DEF TypeOK, Par
  <1>2. Here \subseteq ChildId /\ ChildId \subseteq Nat
    BY <1>1, BenchmpAssumption DEF Here, ChildId
  <1>3. IsFiniteSet(Here) /\ Cardinality(Here) = Par
    BY <1>1, FS_Interval DEF Here
  <1> QED  BY <1>1, <1>2, <1>3

\* SIGTERM for a child: nothing it notices now, or it begins to leave.
LEMMA KillEffect ==
    ASSUME TypeOK, NEW k \in ChildId, Kill(k)
    PROVE  /\ child' = child \/ (Live(k) /\ child' = [child EXCEPT ![k] = "leaving"])
           /\ heard' \in [ChildId -> BOOLEAN] /\ hung' \subseteq ChildId
  BY DEF TypeOK, Kill, Catches

\* The bytes one turn of the collecting loops takes from the pipe.
LEMMA CollectTurn ==
    ASSUME TypeOK, response \in Seq(Msg), Collect, i < Par
    PROVE  /\ \E n \in Nat : /\ n <= Len(response) /\ n <= Par - i /\ i' = i + n
                             /\ response' = SubSeq(response, n + 1, Len(response))
           /\ ppc' = ppc
  <1> DEFINE n == Min({Len(response), Par - i})
  <1>1. Len(response) \in Nat /\ Par - i \in Nat /\ i # Par
    BY ParFacts DEF TypeOK
  <1>2. n \in Nat /\ n <= Len(response) /\ n <= Par - i
    BY <1>1, MinOfTwo
  <1>3. i' = i + n /\ response' = SubSeq(response, n + 1, Len(response)) /\ ppc' = ppc
    BY <1>1, Zenon DEF Collect
  <1> HIDE DEF n
  <1> QED  BY <1>2, <1>3

-----------------------------------------------------------------------------
(* Types *)

\* The parts make up the whole.
LEMMA TypedParts ==
    /\ Typed <=> ParentTyped /\ FlagsTyped /\ ChildrenTyped /\ PipesTyped
    /\ Typed' <=> ParentTyped' /\ FlagsTyped' /\ ChildrenTyped' /\ PipesTyped'
  BY DEF Typed, TypeOK, ParentTyped, FlagsTyped, ChildrenTyped, PipesTyped, States

\* The initial state is well typed.
LEMMA TypedInit ==
    ASSUME Init
    PROVE  Typed
  <1>1. ParentTyped
    BY BenchmpAssumption DEF Init, ParentTyped
  <1>4. FlagsTyped
    BY DEF Init, FlagsTyped
  <1>2. ChildrenTyped
    BY BenchmpAssumption DEF Init, ChildrenTyped, States
  <1>3. PipesTyped
    BY BenchmpAssumption DEF Init, PipesTyped
  <1> QED  BY <1>1, <1>2, <1>3, <1>4, TypedParts

\* A step of the parent keeps the types.
LEMMA TypedParent ==
    ASSUME IInv, ParentStep \/ ForkFails
    PROVE  Typed'
  <1> USE BenchmpAssumption
  <1>a. ParentTyped /\ FlagsTyped /\ ChildrenTyped /\ PipesTyped /\ TypeOK
    BY TypedParts DEF IInv, Typed
  <1>b. /\ Par \in Nat /\ Par >= 1 /\ Par <= Parallel
        /\ Here \subseteq ChildId /\ ChildId \subseteq Nat
    BY <1>a, ParFacts
  <1>c. Waited /\ Phases /\ Results
    BY DEF IInv
  <1>1. CASE Enter
    <2>1. ParentTyped'
      BY <1>a, <1>1 DEF Enter, ParentTyped
    <2>4. FlagsTyped'
      BY <1>a, <1>1 DEF Enter, FlagsTyped, flags
    <2>2. ChildrenTyped'
      BY <1>1, BenchmpAssumption DEF Enter, ChildrenTyped, States
    <2>3. PipesTyped'
      BY <1>1, BenchmpAssumption DEF Enter, PipesTyped
    <2> QED  BY <2>1, <2>2, <2>3, <2>4, TypedParts
  <1>2. CASE CheckFork
    <2>1. ParentTyped'
      BY <1>a, <1>2 DEF CheckFork, ParentTyped
    <2>4. FlagsTyped'
      BY <1>a, <1>2 DEF CheckFork, FlagsTyped, flags
    <2>2. ChildrenTyped'
      BY <1>a, <1>2 DEF CheckFork, ChildrenTyped, cvars
    <2>3. PipesTyped'
      BY <1>a, <1>2 DEF CheckFork, PipesTyped, pipes
    <2> QED  BY <2>1, <2>2, <2>3, <2>4, TypedParts
  <1>3. CASE Fork
    <2>1. ParentTyped'
      BY <1>a, <1>b, <1>c, <1>3 DEF Fork, ParentTyped, Waited
    <2>4. FlagsTyped'
      BY <1>a, <1>3 DEF Fork, FlagsTyped, flags
    <2>2. ChildrenTyped'
      BY <1>a, <1>3 DEF Fork, ChildrenTyped, FlagsTyped, States
    <2>3. PipesTyped'
      BY <1>a, <1>3 DEF Fork, PipesTyped, pipes
    <2> QED  BY <2>1, <2>2, <2>3, <2>4, TypedParts
  <1>4. CASE Abort
    <2>0. CASE i > 0 /\ Kill(i - 1)
      <3>1. i - 1 \in ChildId
        BY <1>a, <1>b, <1>c, <2>0, <1>4 DEF Abort, ParentTyped, ChildId, Waited
      <3>2. /\ child' = child \/ child' = [child EXCEPT ![i - 1] = "leaving"]
            /\ heard' \in [ChildId -> BOOLEAN] /\ hung' \subseteq ChildId
        BY <1>a, <2>0, <3>1, KillEffect
      <3>3. ParentTyped'
        BY <1>a, <1>b, <1>4 DEF Abort, ParentTyped
      <3>6. FlagsTyped'
        BY <1>a, <1>4 DEF Abort, FlagsTyped, flags
      <3>4. ChildrenTyped'
        BY <1>a, <1>4, <3>1, <3>2 DEF Abort, ChildrenTyped, States
      <3>5. PipesTyped'
        BY <1>a, <1>4 DEF Abort, PipesTyped, pipes
      <3> QED  BY <3>3, <3>4, <3>5, <3>6, TypedParts
    <2>1. CASE UNCHANGED <<child, heard, hung>>
      <3>3. ParentTyped'
        BY <1>a, <1>b, <1>4 DEF Abort, ParentTyped
      <3>6. FlagsTyped'
        BY <1>a, <1>4 DEF Abort, FlagsTyped, flags
      <3>4. ChildrenTyped'
        BY <1>a, <1>4, <2>1 DEF Abort, ChildrenTyped
      <3>5. PipesTyped'
        BY <1>a, <1>4 DEF Abort, PipesTyped, pipes
      <3> QED  BY <3>3, <3>4, <3>5, <3>6, TypedParts
    <2> QED  BY <1>4, <2>0, <2>1 DEF Abort
  <1>5. CASE AbortWait
    <2>1. ParentTyped'
      BY <1>a, <1>b, <1>c, <1>5 DEF AbortWait, ParentTyped, Waited
    <2>4. FlagsTyped'
      BY <1>a, <1>5 DEF AbortWait, FlagsTyped, flags
    <2>2. ChildrenTyped'
      BY <1>a, <1>5 DEF AbortWait, ChildrenTyped, cvars
    <2>3. PipesTyped'
      BY <1>a, <1>5 DEF AbortWait, PipesTyped, pipes
    <2> QED  BY <2>1, <2>2, <2>3, <2>4, TypedParts
  <1>6. CASE Collect
    <2>0. ASSUME i < Par PROVE i' \in 0 .. Parallel /\ response' \in Seq(Msg)
      <3>1. PICK n \in Nat : /\ n <= Len(response) /\ n <= Par - i /\ i' = i + n
                             /\ response' = SubSeq(response, n + 1, Len(response))
        BY <1>a, <1>6, <2>0, CollectTurn DEF PipesTyped
      <3>2. i' \in 0 .. Parallel
        BY <1>a, <1>b, <3>1 DEF ParentTyped
      <3>3. response' \in Seq(Msg)
        BY <1>a, <3>1 DEF PipesTyped
      <3> QED  BY <3>2, <3>3
    <2>5. i' \in 0 .. Parallel /\ response' \in Seq(Msg)
      BY <1>a, <1>b, <1>c, <1>6, <2>0 DEF Collect, PipesTyped, Waited
    <2>1. ParentTyped'
      BY <1>a, <1>6, <2>5 DEF Collect, ParentTyped
    <2>4. FlagsTyped'
      BY <1>a, <1>6 DEF Collect, FlagsTyped, flags
    <2>2. ChildrenTyped'
      BY <1>a, <1>6 DEF Collect, ChildrenTyped, cvars
    <2>3. PipesTyped'
      BY <1>a, <1>6, <2>5 DEF Collect, PipesTyped
    <2> QED  BY <2>1, <2>2, <2>3, <2>4, TypedParts
  <1>7. CASE Sigpipe
    <2>1. ParentTyped'
      BY <1>a, <1>7 DEF Sigpipe, ParentTyped
    <2>4. FlagsTyped'
      BY <1>a, <1>7 DEF Sigpipe, FlagsTyped, flags
    <2>2. ChildrenTyped'
      BY <1>a, <1>7 DEF Sigpipe, ChildrenTyped, cvars
    <2>3. PipesTyped'
      BY <1>a, <1>7 DEF Sigpipe, PipesTyped, pipes
    <2> QED  BY <2>1, <2>2, <2>3, <2>4, TypedParts
  <1>8. CASE SendStart
    <2>1. ParentTyped'
      BY <1>a, <1>8 DEF SendStart, ParentTyped
    <2>4. FlagsTyped'
      BY <1>a, <1>8 DEF SendStart, FlagsTyped, flags
    <2>2. ChildrenTyped'
      BY <1>a, <1>8 DEF SendStart, ChildrenTyped, cvars
    <2>3. PipesTyped'
      BY <1>a, <1>b, <1>c, <1>8 DEF SendStart, PipesTyped, Phases, Waiting
    <2> QED  BY <2>1, <2>2, <2>3, <2>4, TypedParts
  <1>9. CASE AskResult
    <2>1. ParentTyped'
      BY <1>a, <1>9 DEF AskResult, ParentTyped
    <2>4. FlagsTyped'
      BY <1>a, <1>9 DEF AskResult, FlagsTyped, flags
    <2>2. ChildrenTyped'
      BY <1>a, <1>9 DEF AskResult, ChildrenTyped, cvars
    <2>3. PipesTyped'
      BY <1>a, <1>c, <1>9 DEF AskResult, PipesTyped, Results
    <2> QED  BY <2>1, <2>2, <2>3, <2>4, TypedParts
  <1>10. CASE ReadResult
    <2>1. ParentTyped'
      BY <1>a, <1>b, <1>c, <1>10 DEF ReadResult, ParentTyped, Waited
    <2>4. FlagsTyped'
      BY <1>a, <1>10 DEF ReadResult, FlagsTyped, flags
    <2>2. ChildrenTyped'
      BY <1>a, <1>10 DEF ReadResult, ChildrenTyped, cvars
    <2>3. PipesTyped'
      <3> DEFINE n == Min({Len(response), Chunks - Len(part)})
                 got == part \o SubSeq(response, 1, n)
      <3>1. Len(response) \in Nat /\ Len(part) \in Nat /\ Chunks - Len(part) \in Nat
        BY <1>a DEF PipesTyped
      <3>2. n \in Nat /\ n <= Len(response) /\ n <= Chunks - Len(part)
        BY <3>1, MinOfTwo
      <3>3. /\ response' = SubSeq(response, n + 1, Len(response))
            /\ \/ Len(got) = Chunks /\ merged' = Append(merged, got) /\ part' = <<>>
               \/ Len(got) # Chunks /\ merged' = merged /\ part' = got
            /\ UNCHANGED <<start, result, exit>>
        BY <1>10 DEF ReadResult
      <3>4. Len(merged) < Parallel
        BY <1>a, <1>b, <1>c, <1>10 DEF ReadResult, Results, Waited, ParentTyped
      <3> HIDE DEF n
      <3>5. SubSeq(response, 1, n) \in Seq(Msg) /\ Len(SubSeq(response, 1, n)) = n
        BY <1>a, <3>1, <3>2 DEF PipesTyped
      <3>6. got \in Seq(Msg) /\ Len(got) = Len(part) + n
        BY <1>a, <3>5 DEF PipesTyped
      <3>7. response' \in Seq(Msg)
        BY <1>a, <3>1, <3>2, <3>3 DEF PipesTyped
      <3> HIDE DEF got
      <3>8. CASE Len(got) = Chunks
        <4>1. merged \in Seq(Seq(Msg)) /\ merged' = Append(merged, got) /\ part' = <<>>
          BY <1>a, <3>3, <3>8 DEF PipesTyped
        <4>2. merged' \in Seq(Seq(Msg)) /\ Len(merged') = Len(merged) + 1
          BY <3>6, <4>1
        <4>3. part' \in Seq(Msg) /\ Len(part') = 0 /\ Len(merged) \in Nat
          BY <4>1
        <4> QED  BY <1>a, <3>3, <3>4, <3>7, <4>2, <4>3 DEF PipesTyped
      <3>9. CASE Len(got) # Chunks
        BY <1>a, <3>1, <3>2, <3>3, <3>6, <3>7, <3>9 DEF PipesTyped
      <3> QED  BY <3>8, <3>9
    <2> QED  BY <2>1, <2>2, <2>3, <2>4, TypedParts
  <1>11. CASE AllowDeath
    <2>1. ParentTyped'
      BY <1>a, <1>11 DEF AllowDeath, ParentTyped
    <2>4. FlagsTyped'
      BY <1>a, <1>11 DEF AllowDeath, FlagsTyped, flags
    <2>2. ChildrenTyped'
      BY <1>a, <1>11 DEF AllowDeath, ChildrenTyped, cvars
    <2>3. PipesTyped'
      BY <1>a, <1>11 DEF AllowDeath, PipesTyped, pipes
    <2> QED  BY <2>1, <2>2, <2>3, <2>4, TypedParts
  <1>12. CASE SendExit
    <2>1. ParentTyped'
      BY <1>a, <1>b, <1>c, <1>12 DEF SendExit, ParentTyped, Waited
    <2>4. FlagsTyped'
      BY <1>a, <1>12 DEF SendExit, FlagsTyped, flags
    <2>2. ChildrenTyped'
      BY <1>a, <1>12 DEF SendExit, ChildrenTyped, cvars
    <2>3. PipesTyped'
      BY <1>a, <1>b, <1>c, <1>12 DEF SendExit, PipesTyped, Phases
    <2> QED  BY <2>1, <2>2, <2>3, <2>4, TypedParts
  <1>13. CASE GiveUp
    <2>1. ParentTyped'
      BY <1>a, <1>13 DEF GiveUp, ParentTyped
    <2>4. FlagsTyped'
      BY <1>a, <1>13 DEF GiveUp, FlagsTyped, flags
    <2>2. ChildrenTyped'
      BY <1>a, <1>13 DEF GiveUp, ChildrenTyped, cvars
    <2>3. PipesTyped'
      BY <1>a, <1>13 DEF GiveUp, PipesTyped, pipes
    <2> QED  BY <2>1, <2>2, <2>3, <2>4, TypedParts
  <1>14. CASE KillNext
    <2>0. CASE i < Par /\ Kill(i)
      <3>1. i \in ChildId
        BY <1>a, <1>b, <1>c, <2>0, <1>14 DEF KillNext, ParentTyped, ChildId, Waited
      <3>2. /\ child' = child \/ child' = [child EXCEPT ![i] = "leaving"]
            /\ heard' \in [ChildId -> BOOLEAN] /\ hung' \subseteq ChildId
        BY <1>a, <2>0, <3>1, KillEffect
      <3>3. ParentTyped'
        BY <1>a, <1>b, <1>14 DEF KillNext, ParentTyped
      <3>6. FlagsTyped'
        BY <1>a, <1>14 DEF KillNext, FlagsTyped, flags
      <3>4. ChildrenTyped'
        BY <1>a, <1>14, <3>1, <3>2 DEF KillNext, ChildrenTyped, States
      <3>5. PipesTyped'
        BY <1>a, <1>14 DEF KillNext, PipesTyped, pipes
      <3> QED  BY <3>3, <3>4, <3>5, <3>6, TypedParts
    <2>1. CASE UNCHANGED <<child, heard, hung>>
      <3>3. ParentTyped'
        BY <1>a, <1>b, <1>14 DEF KillNext, ParentTyped
      <3>6. FlagsTyped'
        BY <1>a, <1>14 DEF KillNext, FlagsTyped, flags
      <3>4. ChildrenTyped'
        BY <1>a, <1>14, <2>1 DEF KillNext, ChildrenTyped
      <3>5. PipesTyped'
        BY <1>a, <1>14 DEF KillNext, PipesTyped, pipes
      <3> QED  BY <3>3, <3>4, <3>5, <3>6, TypedParts
    <2> QED  BY <1>14, <2>0, <2>1 DEF KillNext
  <1>15. CASE WaitNext
    <2>1. ParentTyped'
      BY <1>a, <1>b, <1>c, <1>15 DEF WaitNext, ParentTyped, Waited
    <2>4. FlagsTyped'
      BY <1>a, <1>15 DEF WaitNext, FlagsTyped, flags
    <2>2. ChildrenTyped'
      BY <1>a, <1>15 DEF WaitNext, ChildrenTyped, cvars
    <2>3. PipesTyped'
      BY <1>a, <1>15 DEF WaitNext, PipesTyped, pipes
    <2> QED  BY <2>1, <2>2, <2>3, <2>4, TypedParts
  <1>16. CASE Reap
    <2>1. ParentTyped'
      BY <1>a, <1>b, <1>c, <1>16 DEF Reap, ParentTyped, Waited
    <2>4. FlagsTyped'
      BY <1>a, <1>16 DEF Reap, FlagsTyped, flags
    <2>2. ChildrenTyped'
      BY <1>a, <1>16 DEF Reap, ChildrenTyped, cvars
    <2>3. PipesTyped'
      BY <1>a, <1>16 DEF Reap, PipesTyped, pipes
    <2> QED  BY <2>1, <2>2, <2>3, <2>4, TypedParts
  <1>17. CASE benchmp_sigalrm
    <2>0. CASE Kill(i - 1)
      <3>1. i - 1 \in ChildId
        BY <1>a, <1>b, <1>c, <2>0, <1>17 DEF benchmp_sigalrm, ParentTyped, ChildId, Waited
      <3>2. /\ child' = child \/ child' = [child EXCEPT ![i - 1] = "leaving"]
            /\ heard' \in [ChildId -> BOOLEAN] /\ hung' \subseteq ChildId
        BY <1>a, <2>0, <3>1, KillEffect
      <3>3. ParentTyped'
        BY <1>a, <1>b, <1>17 DEF benchmp_sigalrm, ParentTyped
      <3>6. FlagsTyped'
        BY <1>a, <1>17 DEF benchmp_sigalrm, FlagsTyped, flags
      <3>4. ChildrenTyped'
        BY <1>a, <1>17, <3>1, <3>2 DEF benchmp_sigalrm, ChildrenTyped, States
      <3>5. PipesTyped'
        BY <1>a, <1>17 DEF benchmp_sigalrm, PipesTyped, pipes
      <3> QED  BY <3>3, <3>4, <3>5, <3>6, TypedParts
    <2>1. CASE UNCHANGED <<child, heard, hung>>
      <3>3. ParentTyped'
        BY <1>a, <1>b, <1>17 DEF benchmp_sigalrm, ParentTyped
      <3>6. FlagsTyped'
        BY <1>a, <1>17 DEF benchmp_sigalrm, FlagsTyped, flags
      <3>4. ChildrenTyped'
        BY <1>a, <1>17, <2>1 DEF benchmp_sigalrm, ChildrenTyped
      <3>5. PipesTyped'
        BY <1>a, <1>17 DEF benchmp_sigalrm, PipesTyped, pipes
      <3> QED  BY <3>3, <3>4, <3>5, <3>6, TypedParts
    <2> QED  BY <1>17, <2>0, <2>1 DEF benchmp_sigalrm
  <1>18. CASE Return
    <2>1. ParentTyped'
      BY <1>a, <1>18 DEF Return, ParentTyped
    <2>4. FlagsTyped'
      BY <1>a, <1>18 DEF Return, FlagsTyped, flags
    <2>2. ChildrenTyped'
      BY <1>a, <1>18 DEF Return, ChildrenTyped, cvars
    <2>3. PipesTyped'
      BY <1>a, <1>18 DEF Return, PipesTyped, pipes
    <2> QED  BY <2>1, <2>2, <2>3, <2>4, TypedParts
  <1>19. CASE ForkFails
    <2>1. ParentTyped'
      BY <1>a, <1>19 DEF ForkFails, ParentTyped
    <2>4. FlagsTyped'
      BY <1>a, <1>19 DEF ForkFails, FlagsTyped, flags
    <2>2. ChildrenTyped'
      BY <1>a, <1>19 DEF ForkFails, ChildrenTyped, cvars
    <2>3. PipesTyped'
      BY <1>a, <1>19 DEF ForkFails, PipesTyped, pipes
    <2> QED  BY <2>1, <2>2, <2>3, <2>4, TypedParts
  <1> QED
    BY <1>1, <1>2, <1>3, <1>4, <1>5, <1>6, <1>7, <1>8, <1>9, <1>10, <1>11, <1>12, <1>13,
       <1>14, <1>15, <1>16, <1>17, <1>18, <1>19 DEF ParentStep

\* A step of a child keeps the types.
LEMMA TypedChild ==
    ASSUME IInv, NEW k \in ChildId, ChildStep(k)
    PROVE  Typed'
  <1> USE BenchmpAssumption
  <1>a. ParentTyped /\ FlagsTyped /\ ChildrenTyped /\ PipesTyped /\ Sent
    BY TypedParts DEF IInv, Typed
  <1>b. UNCHANGED <<pvars, cleanup, faults>>
    BY DEF ChildStep
  <1>c. \A kind \in {"ready", "done", "result"} : <<k, kind>> \in Msg
    BY DEF Msg
  <1>d. ASSUME NEW kind \in {"ready", "done", "result"}, NEW next \in States, Write(k, kind, next)
        PROVE  /\ {sigterm', sigchld', armed'} \subseteq BOOLEAN
               /\ child' \in [ChildId -> States] /\ heard' = heard /\ hung' \subseteq ChildId
               /\ response' \in Seq(Msg) /\ UNCHANGED <<start, result, exit>>
    <2>1. CASE Exit(k)
      BY <1>a, <2>1 DEF Exit, benchmp_sigchld, FlagsTyped, ChildrenTyped, PipesTyped, pipes, States
    <2>2. CASE ~Exit(k)
      <3>1. /\ response' = Append(response, <<k, kind>>) /\ child' = [child EXCEPT ![k] = next]
            /\ UNCHANGED <<heard, hung, start, result, exit, flags>>
        BY <1>d, <2>2 DEF Write
      <3>2. response' \in Seq(Msg)
        <4> DEFINE m == <<k, kind>>
        <4>1. m \in Msg
          BY <1>c
        <4>2. response' = Append(response, m) /\ response \in Seq(Msg)
          BY <1>a, <3>1 DEF PipesTyped
        <4> HIDE DEF m
        <4> QED  BY <4>1, <4>2
      <3> QED  BY <1>a, <3>1, <3>2 DEF FlagsTyped, ChildrenTyped, flags
    <2> QED  BY <2>1, <2>2
  <1>1. CASE ChildInit(k)
    <2>0. /\ {sigterm', sigchld', armed'} \subseteq BOOLEAN
          /\ child' \in [ChildId -> States] /\ heard' = heard /\ hung' \subseteq ChildId
          /\ response' \in Seq(Msg) /\ UNCHANGED <<start, result, exit>>
      BY <1>a, <1>d, <1>1
         DEF ChildInit, States, Leaves, FlagsTyped, ChildrenTyped, PipesTyped, pipes, flags
    <2>1. ParentTyped'
      BY <1>a, <1>b DEF ParentTyped, pvars
    <2>4. FlagsTyped'
      BY <1>a, <1>b, <2>0 DEF FlagsTyped, pvars
    <2>2. ChildrenTyped'
      BY <1>a, <1>1, <2>0 DEF ChildInit, ChildrenTyped, Sent
    <2>3. PipesTyped'
      BY <1>a, <1>b, <2>0 DEF PipesTyped, pvars
    <2> QED  BY <2>1, <2>2, <2>3, <2>4, TypedParts
  <1>2. CASE TakeStart(k)
    <2>1. ParentTyped'
      BY <1>a, <1>b DEF ParentTyped, pvars
    <2>4. FlagsTyped'
      BY <1>a, <1>b, <1>2 DEF TakeStart, Exit, benchmp_sigchld, FlagsTyped, pvars, flags
    <2>2. ChildrenTyped'
      BY <1>a, <1>2 DEF TakeStart, Exit, benchmp_sigchld, ChildrenTyped, States
    <2>3. PipesTyped'
      BY <1>a, <1>b, <1>2 DEF TakeStart, Exit, PipesTyped, pvars, pipes
    <2> QED  BY <2>1, <2>2, <2>3, <2>4, TypedParts
  <1>3. CASE Measure(k)
    <2>0. /\ {sigterm', sigchld', armed'} \subseteq BOOLEAN
          /\ child' \in [ChildId -> States] /\ heard' = heard /\ hung' \subseteq ChildId
          /\ response' \in Seq(Msg) /\ UNCHANGED <<start, result, exit>>
      BY <1>a, <1>d, <1>3 DEF Measure, States
    <2>1. ParentTyped'
      BY <1>a, <1>b DEF ParentTyped, pvars
    <2>4. FlagsTyped'
      BY <1>a, <1>b, <2>0 DEF FlagsTyped, pvars
    <2>2. ChildrenTyped'
      BY <1>a, <1>3, <2>0 DEF Measure, ChildrenTyped, Sent
    <2>3. PipesTyped'
      BY <1>a, <1>b, <2>0 DEF PipesTyped, pvars
    <2> QED  BY <2>1, <2>2, <2>3, <2>4, TypedParts
  <1>4. CASE SeeResult(k)
    <2>1. ParentTyped'
      BY <1>a, <1>b DEF ParentTyped, pvars
    <2>4. FlagsTyped'
      BY <1>a, <1>b, <1>4 DEF SeeResult, Exit, benchmp_sigchld, FlagsTyped, pvars, flags
    <2>2. ChildrenTyped'
      BY <1>a, <1>4 DEF SeeResult, Exit, benchmp_sigchld, ChildrenTyped, States
    <2>3. PipesTyped'
      BY <1>a, <1>b, <1>4 DEF SeeResult, Exit, PipesTyped, pvars, pipes
    <2> QED  BY <2>1, <2>2, <2>3, <2>4, TypedParts
  <1>5. CASE TakeResult(k)
    <2>1. ParentTyped'
      BY <1>a, <1>b DEF ParentTyped, pvars
    <2>4. FlagsTyped'
      BY <1>a, <1>b, <1>5 DEF TakeResult, Exit, benchmp_sigchld, FlagsTyped, pvars, flags
    <2>2. ChildrenTyped'
      BY <1>a, <1>5 DEF TakeResult, Exit, benchmp_sigchld, ChildrenTyped, States
    <2>3. PipesTyped'
      BY <1>a, <1>b, <1>5 DEF TakeResult, Exit, PipesTyped, pvars, pipes
    <2> QED  BY <2>1, <2>2, <2>3, <2>4, TypedParts
  <1>6. CASE SendChunk(k)
    <2>0. /\ {sigterm', sigchld', armed'} \subseteq BOOLEAN
          /\ child' \in [ChildId -> States] /\ heard' = heard /\ hung' \subseteq ChildId
          /\ response' \in Seq(Msg) /\ UNCHANGED <<start, result, exit>>
      BY <1>a, <1>d, <1>6 DEF SendChunk, States
    <2>1. ParentTyped'
      BY <1>a, <1>b DEF ParentTyped, pvars
    <2>4. FlagsTyped'
      BY <1>a, <1>b, <2>0 DEF FlagsTyped, pvars
    <2>2. ChildrenTyped'
      <3>1. sent[k] + 1 \in 0 .. Chunks
        BY <1>a, <1>6 DEF SendChunk, ChildrenTyped, Sent
      <3> QED  BY <1>a, <1>6, <2>0, <3>1 DEF SendChunk, ChildrenTyped
    <2>3. PipesTyped'
      BY <1>a, <1>b, <2>0 DEF PipesTyped, pvars
    <2> QED  BY <2>1, <2>2, <2>3, <2>4, TypedParts
  <1>7. CASE TakeExit(k)
    <2>1. ParentTyped'
      BY <1>a, <1>b DEF ParentTyped, pvars
    <2>4. FlagsTyped'
      BY <1>a, <1>b, <1>7 DEF TakeExit, Exit, benchmp_sigchld, FlagsTyped, pvars, flags
    <2>2. ChildrenTyped'
      BY <1>a, <1>7 DEF TakeExit, Exit, benchmp_sigchld, ChildrenTyped, States
    <2>3. PipesTyped'
      BY <1>a, <1>b, <1>7 DEF TakeExit, Exit, PipesTyped, pvars, pipes
    <2> QED  BY <2>1, <2>2, <2>3, <2>4, TypedParts
  <1>8. CASE Adopted(k)
    <2>1. ParentTyped'
      BY <1>a, <1>b DEF ParentTyped, pvars
    <2>4. FlagsTyped'
      BY <1>a, <1>b, <1>8 DEF Adopted, Leaves, FlagsTyped, pvars, flags
    <2>2. ChildrenTyped'
      BY <1>a, <1>8 DEF Adopted, Leaves, ChildrenTyped, States
    <2>3. PipesTyped'
      BY <1>a, <1>b, <1>8 DEF Adopted, Leaves, PipesTyped, pvars, pipes
    <2> QED  BY <2>1, <2>2, <2>3, <2>4, TypedParts
  <1>9. CASE Gone(k)
    <2>1. ParentTyped'
      BY <1>a, <1>b DEF ParentTyped, pvars
    <2>4. FlagsTyped'
      BY <1>a, <1>b, <1>9 DEF Gone, Exit, benchmp_sigchld, FlagsTyped, pvars, flags
    <2>2. ChildrenTyped'
      BY <1>a, <1>9 DEF Gone, Exit, benchmp_sigchld, ChildrenTyped, States
    <2>3. PipesTyped'
      BY <1>a, <1>b, <1>9 DEF Gone, Exit, PipesTyped, pvars, pipes
    <2> QED  BY <2>1, <2>2, <2>3, <2>4, TypedParts
  <1> QED
    BY <1>1, <1>2, <1>3, <1>4, <1>5, <1>6, <1>7, <1>8, <1>9 DEF ChildStep

\* A fault keeps the types.
LEMMA TypedFault ==
    ASSUME IInv, Fault
    PROVE  Typed'
  <1> USE BenchmpAssumption
  <1>a. Typed /\ TypeOK
    BY DEF IInv, Typed
  <1>b. faults' \in 0 .. MaxFaults /\ UNCHANGED <<round, i, part, merged, time, alarmed, cleanup>>
    BY <1>a DEF Fault, TypeOK
  <1>1. ASSUME NEW k \in ChildId, Crash(k) PROVE Typed'
    BY <1>a, <1>b, <1>1 DEF Crash, Exit, benchmp_sigchld, Typed, TypeOK, Msg, pipes, flags
  <1>2. ASSUME NEW k \in ChildId, CleanupHangs(k) PROVE Typed'
    BY <1>a, <1>b, <1>2 DEF CleanupHangs, Typed, TypeOK, Msg, pipes, flags
  <1>3. CASE benchmp_sigterm
    BY <1>a, <1>b, <1>3 DEF benchmp_sigterm, Typed, TypeOK, Msg, cvars, pipes
  <1>4. CASE ParentKilled
    BY <1>a, <1>b, <1>4 DEF ParentKilled, Typed, TypeOK, Msg, cvars, pipes, flags
  <1> QED
    BY <1>1, <1>2, <1>3, <1>4 DEF Fault

-----------------------------------------------------------------------------
(* The steps, by what they do to the children *)

\* The steps of one child, without the nesting of the handlers.
Moved(k, s) == child' = [child EXCEPT ![k] = s]

Died(k) ==
    /\ Live(k) /\ Moved(k, "dead")
    /\ UNCHANGED <<response, start, result>> /\ (exit = 0 => exit' = 0)
    /\ \A j \in ChildId \ {k} : sent'[j] = sent[j]
    /\ ~Closed => sent' = sent

Readied(k) ==
    /\ child[k] = "init" /\ Moved(k, "warmup") /\ ~Closed
    /\ response' = Append(response, <<k, "ready">>)
    /\ UNCHANGED <<start, result, exit, sent>>

Started(k) ==
    /\ child[k] = "warmup" /\ Moved(k, "timing") /\ (start > 0 \/ Closed)
    /\ (start = 0 => start' = 0)
    /\ UNCHANGED <<response, result, exit, sent>>

Finished(k) ==
    /\ child[k] = "timing" /\ Moved(k, "cooldown") /\ ~Closed
    /\ response' = Append(response, <<k, "done">>)
    /\ UNCHANGED <<start, result, exit, sent>>

Saw(k) ==
    /\ child[k] = "cooldown" /\ Moved(k, "asked") /\ (result > 0 \/ Closed)
    /\ UNCHANGED <<response, start, result, exit, sent>>

Took(k) ==
    /\ child[k] = "asked" /\ Moved(k, "sending")
    /\ \/ result > 0 /\ result' = result - 1
       \/ result = 0 /\ Closed /\ result' = 0
    /\ UNCHANGED <<response, start, exit, sent>>

Wrote(k) ==
    /\ child[k] = "sending" /\ ~Closed
    /\ Moved(k, IF sent[k] + 1 = Chunks THEN "final" ELSE "sending")
    /\ response' = Append(response, <<k, "result">>)
    /\ sent' = [sent EXCEPT ![k] = @ + 1]
    /\ UNCHANGED <<start, result, exit>>

Left(k) ==
    /\ Live(k) /\ Moved(k, "leaving")
    /\ UNCHANGED <<response, start, result, exit, sent>>

SameParent == UNCHANGED <<round, ppc, i, part, merged, time>>

OneChild(k) ==
    \/ Died(k) \/ Readied(k) \/ Started(k) \/ Finished(k)
    \/ Saw(k) \/ Took(k) \/ Wrote(k) \/ Left(k)

\* A living child goes somewhere, but not back to where it was forked.
OneMoves(k) == Live(k) /\ \E s \in States \ {"none", "init"} : Moved(k, s)

\* Some children may have been told to leave, the others are where they were.
Fewer == \A k \in ChildId : child'[k] = child[k] \/ (Live(k) /\ child'[k] = "leaving")

\* A write to the response pipe does one of two things.
LEMMA WriteKinds ==
    ASSUME NEW k \in ChildId, NEW kind, NEW next, Write(k, kind, next)
    PROVE  \/ /\ Closed /\ Moved(k, "dead") /\ UNCHANGED <<response, start, result, exit>>
           \/ /\ ~Closed /\ Moved(k, next)
              /\ response' = Append(response, <<k, kind>>)
              /\ UNCHANGED <<start, result, exit>>
  BY DEF Write, Exit, benchmp_sigchld, Moved, pipes

\* Each step of a child, and each fault of one, is of one of these kinds.
LEMMA ChildKinds ==
    ASSUME Typed, NEW k \in ChildId,
           ChildStep(k) \/ (Fault /\ Crash(k))
    PROVE  OneChild(k)
  <1>a. ChildrenTyped /\ PipesTyped
    BY TypedParts
  <1>1. CASE ChildInit(k)
    <2>1. CASE Leaves(k)
      BY <1>1, <2>1 DEF ChildInit, Leaves, OneChild, Left, Moved, Live, pipes
    <2>2. CASE Write(k, "ready", "warmup")
      <3>1. child[k] = "init" /\ sent' = sent
        BY <1>1 DEF ChildInit
      <3> QED  BY <2>2, <3>1, WriteKinds DEF OneChild, Died, Readied, Live
    <2> QED  BY <1>1, <2>1, <2>2 DEF ChildInit
  <1>2. CASE TakeStart(k)
    BY <1>a, <1>2 DEF TakeStart, OneChild, Started, Moved, PipesTyped
  <1>3. CASE Measure(k)
    <2>1. child[k] = "timing" /\ sent' = sent /\ Write(k, "done", "cooldown")
      BY <1>3 DEF Measure
    <2> QED  BY <2>1, WriteKinds DEF OneChild, Died, Finished, Live
  <1>4. CASE SeeResult(k)
    BY <1>4 DEF SeeResult, OneChild, Saw, Moved, pipes
  <1>5. CASE TakeResult(k)
    <2>1. result \in Nat
      BY <1>a DEF PipesTyped
    <2>2. Took(k)
      BY <1>5, <2>1 DEF TakeResult, Took, Moved
    <2> QED  BY <2>2 DEF OneChild
  <1>6. CASE SendChunk(k)
    <2>1. /\ child[k] = "sending" /\ sent' = [sent EXCEPT ![k] = @ + 1]
          /\ Write(k, "result", IF sent[k] + 1 = Chunks THEN "final" ELSE "sending")
      BY <1>6 DEF SendChunk
    <2>2. \A j \in ChildId \ {k} : sent'[j] = sent[j]
      BY <1>a, <2>1 DEF ChildrenTyped
    <2> QED  BY <2>1, <2>2, WriteKinds DEF OneChild, Died, Wrote, Live
  <1>7. CASE TakeExit(k)
    BY <1>a, <1>7 DEF TakeExit, benchmp_sigchld, OneChild, Died, Moved, Live, PipesTyped
  <1>8. CASE Adopted(k)
    BY <1>8 DEF Adopted, Leaves, OneChild, Left, Moved, Live, pipes
  <1>9. CASE Crash(k)
    BY <1>9 DEF Crash, Exit, benchmp_sigchld, OneChild, Died, Moved, pipes
  <1>10. CASE Gone(k)
    BY <1>10 DEF Gone, Exit, benchmp_sigchld, OneChild, Died, Moved, Live, pipes
  <1> QED
    BY <1>1, <1>2, <1>3, <1>4, <1>5, <1>6, <1>7, <1>8, <1>9, <1>10 DEF ChildStep

\* A child's step leaves the parent alone.
LEMMA ParentRests ==
    ASSUME NEW k \in ChildId,
           ChildStep(k) \/ (Fault /\ Crash(k))
    PROVE  SameParent
  BY DEF ChildStep, Fault, Crash, SameParent, pvars

\* A child that moves is alive, and is not back where it began.
LEMMA Moving ==
    ASSUME TypeOK, NEW k \in ChildId, OneChild(k)
    PROVE  OneMoves(k)
  <1>1. \E s \in States \ {"none", "init"} : Moved(k, s)
    BY DEF OneChild, Died, Readied, Started, Finished, Saw, Took, Wrote, Left, States
  <1>2. Live(k)
    BY DEF OneChild, Died, Readied, Started, Finished, Saw, Took, Wrote, Left, Live
  <1> QED  BY <1>1, <1>2 DEF OneMoves

\* Only Enter and Fork make children; the parent's other steps may kill some.
LEMMA ParentKills ==
    ASSUME TypeOK, Waited, ParentStep \/ ForkFails, ~Enter, ~Fork
    PROVE  Fewer
  <1>b. /\ Par \in Nat /\ Par >= 1 /\ Par <= Parallel /\ i \in Nat
        /\ Here \subseteq ChildId /\ ChildId \subseteq Nat
    BY ParFacts DEF TypeOK
  <1>c. ASSUME NEW k \in ChildId, Kill(k) PROVE Fewer
    BY <1>c, KillEffect DEF Fewer, TypeOK
  <1>1. CASE Abort
    <2>1. i > 0 => i - 1 \in ChildId
      BY <1>b, BenchmpAssumption DEF Waited, ChildId
    <2> QED  BY <1>1, <1>c, <2>1 DEF Abort, Fewer
  <1>2. CASE KillNext
    <2>1. i < Par => i \in ChildId
      BY <1>b, BenchmpAssumption DEF ChildId
    <2> QED  BY <1>2, <1>c, <2>1 DEF KillNext, Fewer
  <1>3. CASE benchmp_sigalrm
    <2>1. i > 0 => i - 1 \in ChildId
      BY <1>b, BenchmpAssumption DEF Waited, ChildId
    <2> QED  BY <1>3, <1>c, <2>1 DEF benchmp_sigalrm, Fewer
  <1>4. CASE child' = child
    BY <1>4 DEF Fewer
  <1> QED
    BY <1>1, <1>2, <1>3, <1>4
       DEF ParentStep, CheckFork, AbortWait, Collect, Sigpipe, SendStart, AskResult,
           ReadResult, AllowDeath, SendExit, GiveUp, WaitNext, Reap, Return, ForkFails, cvars

\* Nothing the invariant speaks of changes.
Idle == UNCHANGED <<round, ppc, i, part, merged, time, child, sent, response,
                    start, result, exit>>

\* The parent's end, by SIGPIPE or by a signal from outside.
Killed == /\ ppc' = "killed"
          /\ UNCHANGED <<round, i, part, merged, time, child, sent, response,
                         start, result, exit>>

\* The kinds of steps there are.
LEMMA Steps ==
    ASSUME Typed, [Next]_vars
    PROVE  \/ ParentStep \/ ForkFails
           \/ \E k \in ChildId : SameParent /\ OneChild(k)
           \/ Idle \/ Killed
  <1>1. CASE UNCHANGED vars
    BY <1>1 DEF vars, pvars, cvars, pipes, Idle
  <1>2. ASSUME NEW k \in ChildId, ChildStep(k)
        PROVE  SameParent /\ OneChild(k)
    BY <1>2, ChildKinds, ParentRests
  <1>3. CASE Fault
    <2>1. ASSUME NEW k \in ChildId, Crash(k)
          PROVE  SameParent /\ OneChild(k)
      BY <1>3, <2>1, ChildKinds, ParentRests
    <2>4. ASSUME NEW k \in ChildId, CleanupHangs(k)
          PROVE  Idle
      BY <1>3, <2>4 DEF Fault, CleanupHangs, Idle, pipes
    <2>2. CASE benchmp_sigterm
      BY <1>3, <2>2 DEF Fault, benchmp_sigterm, Idle, cvars, pipes
    <2>3. CASE ParentKilled
      BY <1>3, <2>3 DEF Fault, ParentKilled, Killed, cvars, pipes
    <2> QED  BY <1>3, <2>1, <2>2, <2>3, <2>4 DEF Fault
  <1> QED  BY <1>1, <1>2, <1>3 DEF Next

-----------------------------------------------------------------------------
(* The children the parent has forked and waited for *)

\* A child that moves was not waited for.
LEMMA WaitedChild ==
    ASSUME IInv, NEW k \in ChildId, SameParent, OneChild(k)
    PROVE  Waited'
  <1>a. TypeOK /\ Waited
    BY DEF IInv, Typed
  <1>b. i \in Nat /\ ChildId \subseteq Nat /\ child \in [ChildId -> States]
    BY <1>a, ParFacts DEF TypeOK, States
  <1>c. PICK s \in States \ {"none", "init"} : Live(k) /\ child' = [child EXCEPT ![k] = s]
    BY <1>a, Moving DEF OneMoves, Moved
  <1>1. /\ child[k] # "none" /\ \A j \in ChildId \ {k} : child'[j] = child[j]
        /\ \A j \in ChildId : ~Live(j) => ~Live(j)' /\ child'[j] = child[j]
    BY <1>b, <1>c DEF Live
  <1>2. Par' = Par /\ Here' = Here /\ i' = i /\ ppc' = ppc
    BY DEF SameParent, Par, Here
  <1>3. \A j \in ChildId : child[j] = "none" => child'[j] = "none"
    BY <1>1
  <1> QED  BY <1>a, <1>b, <1>1, <1>2, <1>3 DEF Waited

\* The parent's loops over the children.
LEMMA WaitedParent ==
    ASSUME IInv, ParentStep \/ ForkFails
    PROVE  Waited'
  <1> USE BenchmpAssumption
  <1>a. TypeOK /\ Waited /\ Results
    BY DEF IInv, Typed
  <1>b. /\ i \in Nat /\ ChildId \subseteq Nat /\ child \in [ChildId -> States]
        /\ Par \in Nat /\ Par >= 1 /\ Par <= Parallel
    BY <1>a, ParFacts DEF TypeOK, States
  <1>c. ppc \notin {"enter", "fork"} \/ ppc' = "abort" =>
          \A j \in ChildId : /\ ~Live(j) => ~Live(j)'
                             /\ child[j] = "none" => child'[j] = "none"
                             /\ child[j] = "dead" => child'[j] = "dead"
    <2>1. ppc \notin {"enter", "fork"} \/ ppc' = "abort" => ~Enter /\ ~Fork
      BY DEF Enter, Fork
    <2> QED  BY <1>a, <2>1, ParentKills DEF Fewer, Live
  <1>d. ppc # "end" => Par' = Par /\ Here' = Here
    BY DEF ParentStep, ForkFails, Par, Here, Enter, CheckFork, Fork, Abort, AbortWait, Collect,
           Sigpipe, SendStart, AskResult, ReadResult, AllowDeath, SendExit, GiveUp, KillNext,
           WaitNext, Reap, benchmp_sigalrm, Return
  <1>1. CASE Enter
    BY <1>a, <1>b, <1>c, <1>d, <1>1 DEF Enter, Waited, Live
  <1>2. CASE CheckFork
    BY <1>a, <1>b, <1>c, <1>d, <1>2 DEF CheckFork, Waited, Live
  <1>3. CASE Fork
    <2>1. i \in Here /\ Here' = Here /\ Par' = Par
      BY <1>a, <1>b, <1>d, <1>3 DEF Fork, Waited, Here
    <2> QED  BY <1>a, <1>b, <1>3, <2>1 DEF Fork, Waited, Live
  <1>4. CASE Abort
    BY <1>a, <1>b, <1>c, <1>d, <1>4 DEF Abort, Waited, Live
  <1>5. CASE AbortWait
    BY <1>a, <1>b, <1>c, <1>d, <1>5 DEF AbortWait, Waited, Live
  <1>6. CASE Collect
    <2>1. i' \in Nat /\ i' <= Par
      <3>1. CASE i < Par
        BY <1>a, <1>b, <1>6, <3>1, CollectTurn DEF IInv, Typed
      <3>2. CASE i = Par
        BY <1>b, <1>6, <3>2 DEF Collect
      <3> QED  BY <1>a, <1>b, <3>1, <3>2 DEF Waited
    <2>2. ppc \in {"ready", "done"} /\ ppc' \in {"ready", "done", "start", "ask"}
      BY <1>6 DEF Collect
    <2> QED  BY <1>a, <1>c, <1>d, <2>1, <2>2 DEF Waited
  <1>7. CASE Sigpipe
    BY <1>a, <1>b, <1>c, <1>d, <1>7 DEF Sigpipe, Waited, Live
  <1>8. CASE SendStart
    BY <1>a, <1>b, <1>c, <1>d, <1>8 DEF SendStart, Waited, Live
  <1>9. CASE AskResult
    BY <1>a, <1>b, <1>c, <1>d, <1>9 DEF AskResult, Waited, Live
  <1>10. CASE ReadResult
    <2>1. /\ ppc = "collect"
          /\ (i' = i /\ ppc' = ppc) \/ (i' = i + 1 /\ ppc' = "ask")
      BY <1>10, Zenon DEF ReadResult
    <2> QED  BY <1>a, <1>b, <1>c, <1>d, <2>1 DEF Waited
  <1>11. CASE AllowDeath
    BY <1>a, <1>b, <1>c, <1>d, <1>11 DEF AllowDeath, Waited, Live
  <1>12. CASE SendExit
    <2>1. \A k \in ChildId : k >= Par => child[k] = "none"
      BY <1>a, <1>b DEF Waited, Here
    <2> QED  BY <1>a, <1>b, <1>c, <1>d, <1>12, <2>1 DEF SendExit, Waited, Live
  <1>13. CASE GiveUp
    BY <1>a, <1>b, <1>c, <1>d, <1>13 DEF GiveUp, Waited, Live
  <1>14. CASE KillNext
    <2>1. \A k \in ChildId : k >= Par => child[k] = "none"
      BY <1>a, <1>b DEF Waited, Here
    <2>2. CASE i < Par
      BY <1>a, <1>b, <1>c, <1>d, <1>14, <2>2 DEF KillNext, Waited
    <2>3. CASE i = Par
      <3>1. \A k \in ChildId : ~Live(k)
        BY <1>a, <1>b, <1>14, <2>1, <2>3 DEF KillNext, Waited, Live
      <3> QED  BY <1>a, <1>b, <1>c, <1>d, <1>14, <2>3, <3>1 DEF KillNext, Waited
    <2> QED  BY <1>a, <1>b, <2>2, <2>3 DEF Waited
  <1>15. CASE WaitNext
    BY <1>a, <1>b, <1>c, <1>d, <1>15 DEF WaitNext, Waited, Live
  <1>16. CASE Reap
    BY <1>a, <1>b, <1>c, <1>d, <1>16 DEF Reap, Waited, Live
  <1>17. CASE benchmp_sigalrm
    BY <1>a, <1>b, <1>c, <1>d, <1>17 DEF benchmp_sigalrm, Waited, Live
  <1>18. CASE Return
    <2>1. CASE round = 1 /\ time > 0
      <3>1. Par' = Parallel /\ Here' = ChildId
        BY <1>18, <2>1 DEF Return, Par, Here, ChildId
      <3> QED  BY <1>a, <1>b, <1>c, <1>18, <2>1, <3>1 DEF Return, Waited
    <2>2. CASE ~(round = 1 /\ time > 0)
      <3>1. Par' = Par /\ Here' = Here
        BY <1>18, <2>2 DEF Return, Par, Here
      <3> QED  BY <1>a, <1>b, <1>c, <1>18, <2>2, <3>1 DEF Return, Waited
    <2> QED  BY <2>1, <2>2
  <1>19. CASE ForkFails
    BY <1>a, <1>b, <1>c, <1>d, <1>19 DEF ForkFails, Waited, Live
  <1> QED
    BY <1>1, <1>2, <1>3, <1>4, <1>5, <1>6, <1>7, <1>8, <1>9, <1>10, <1>11, <1>12, <1>13,
       <1>14, <1>15, <1>16, <1>17, <1>18, <1>19 DEF ParentStep

-----------------------------------------------------------------------------
(* The bytes in the response pipe *)

\* The children of a round are finitely many, before and after a step.
LEMMA HereFinite ==
    ASSUME TypeOK, TypeOK'
    PROVE  IsFiniteSet(Here) /\ IsFiniteSet(Here')
  <1>1. Par' \in Nat /\ Par' - 1 \in Int
    BY BenchmpAssumption DEF TypeOK, Par
  <1>2. IsFiniteSet(0 .. Par' - 1)
    BY <1>1, FS_Interval
  <1> QED  BY <1>2, ParFacts DEF Here

\* Past(S) is finite, and counts no less when no child goes back.
LEMMA PastGrows ==
    ASSUME TypeOK, TypeOK', NEW S, Past(S) \subseteq Past(S)'
    PROVE  /\ Cardinality(Past(S)) \in Nat /\ Cardinality(Past(S)') \in Nat
           /\ Cardinality(Past(S)) <= Cardinality(Past(S)')
           /\ Cardinality(Past(S)) <= Par
  <1>1. IsFiniteSet(Here) /\ IsFiniteSet(Here') /\ Cardinality(Here) = Par
    BY ParFacts, HereFinite
  <1>2. Past(S) \in SUBSET Here /\ Past(S)' \in SUBSET Here'
    BY DEF Past
  <1>3. IsFiniteSet(Past(S)) /\ IsFiniteSet(Past(S)')
    BY <1>1, <1>2, FS_Subset
  <1>4. Cardinality(Past(S)) <= Cardinality(Past(S)') /\ Cardinality(Past(S)) <= Par
    BY <1>1, <1>2, <1>3, FS_Subset
  <1> QED  BY <1>3, <1>4, FS_CardinalityType

\* One child more.
LEMMA PastAdds ==
    ASSUME TypeOK, TypeOK', NEW S, NEW k, k \notin Past(S),
           Past(S)' = Past(S) \cup {k}
    PROVE  /\ Cardinality(Past(S)) \in Nat
           /\ Cardinality(Past(S)') = Cardinality(Past(S)) + 1
  <1>1. IsFiniteSet(Here)
    BY ParFacts
  <1>2. IsFiniteSet(Past(S))
    BY <1>1, FS_Subset DEF Past
  <1> QED  BY <1>2, FS_AddElement, FS_CardinalityType

\* When as many bytes were read as there are children, all sent theirs.
LEMMA PastAll ==
    ASSUME TypeOK, NEW S, Par <= Cardinality(Past(S))
    PROVE  Past(S) = Here
  <1>1. IsFiniteSet(Here) /\ Cardinality(Here) = Par /\ Par \in Nat
    BY ParFacts
  <1>2. Past(S) \in SUBSET Here
    BY DEF Past
  <1>3. Cardinality(Past(S)) \in Nat /\ Cardinality(Past(S)) <= Cardinality(Here)
    BY <1>1, <1>2, FS_Subset, FS_CardinalityType
  <1> QED  BY <1>1, <1>2, <1>3, FS_Subset

\* A child writes its byte when it leaves the state the byte is about.
LEMMA BytesChild ==
    ASSUME IInv, Typed', NEW k \in ChildId, SameParent, OneChild(k)
    PROVE  Bytes'
  <1>a. TypeOK /\ TypeOK' /\ Waited /\ Bytes /\ Phases
    BY DEF IInv, Typed
  <1>b. i \in Nat /\ child \in [ChildId -> States] /\ response \in Seq(Msg)
    BY DEF IInv, Typed, TypeOK, States
  <1>c. Here' = Here /\ i' = i /\ ppc' = ppc /\ Here \subseteq ChildId
    BY <1>a, ParFacts DEF SameParent, Par, Here
  <1>d. k \in Here
    BY <1>a, Moving DEF Waited, OneMoves, Live
  <1> DEFINE P == Past({"none", "init"})
             Q == Past({"warmup", "timing"})
  <1>e. ASSUME P \subseteq P', Q \subseteq Q', response' = response
        PROVE  Bytes'
    <2>1. /\ Cardinality(P) \in Nat /\ Cardinality(P') \in Nat /\ Cardinality(P) <= Cardinality(P')
          /\ Cardinality(Q) \in Nat /\ Cardinality(Q') \in Nat /\ Cardinality(Q) <= Cardinality(Q')
      BY <1>a, <1>e, PastGrows
    <2> HIDE DEF P, Q
    <2>2. /\ ppc \in {"check", "fork"} => Len(response) <= Cardinality(P')
          /\ ppc = "ready" => i + Len(response) <= Cardinality(P')
          /\ ppc = "done" => i + Len(response) <= Cardinality(Q')
      BY <1>a, <1>b, <2>1 DEF Bytes, P, Q
    <2> QED  BY <1>a, <1>c, <1>e, <2>2 DEF Bytes, P, Q
  <1>f. CASE ppc \notin {"check", "fork", "ready", "start", "done"}
    BY <1>c, <1>f DEF Bytes
  <1>g. CASE ppc \in {"check", "fork", "ready", "start", "done"}
    <2>a. ppc \in Unasked /\ ~Closed /\ result = 0 /\ ~Reporting(k)
      BY <1>a, <1>g DEF Phases, Unasked, Waiting, Forking, Closed
    <2>1. CASE Died(k) \/ Left(k)
      BY <1>b, <1>c, <1>e, <2>1 DEF Died, Left, Moved, Past
    <2>2. CASE Readied(k)
      <3>1. ppc \in {"check", "fork", "ready"}
        BY <1>a, <1>g, <2>2 DEF Phases, Readied
      <3>2. k \notin P /\ P' = P \cup {k}
        BY <1>b, <1>c, <1>d, <2>2 DEF Readied, Moved, Past
      <3>3. Cardinality(P) \in Nat /\ Cardinality(P') = Cardinality(P) + 1
        BY <1>a, <3>2, PastAdds
      <3>4. Len(response') = Len(response) + 1 /\ Len(response) \in Nat
        BY <1>b, <2>2 DEF Readied
      <3> QED  BY <1>a, <1>b, <1>c, <3>1, <3>3, <3>4 DEF Bytes
    <2>3. CASE Started(k)
      BY <1>b, <1>c, <1>e, <2>3 DEF Started, Moved, Past
    <2>4. CASE Finished(k)
      <3>1. ppc = "done"
        BY <1>a, <1>g, <2>4 DEF Phases, Finished, Begun, Waiting, Forking
      <3>2. k \notin Q /\ Q' = Q \cup {k}
        BY <1>b, <1>c, <1>d, <2>4 DEF Finished, Moved, Past
      <3>3. Cardinality(Q) \in Nat /\ Cardinality(Q') = Cardinality(Q) + 1
        BY <1>a, <3>2, PastAdds
      <3>4. Len(response') = Len(response) + 1 /\ Len(response) \in Nat
        BY <1>b, <2>4 DEF Finished
      <3> QED  BY <1>a, <1>b, <1>c, <3>1, <3>3, <3>4 DEF Bytes
    <2> QED
      BY <2>a, <2>1, <2>2, <2>3, <2>4 DEF OneChild, Saw, Took, Wrote, Left, Reporting
  <1> QED  BY <1>f, <1>g

\* The parent takes bytes out and counts them, or begins to count.
LEMMA BytesParent ==
    ASSUME IInv, Typed', ParentStep \/ ForkFails
    PROVE  Bytes'
  <1>a. TypeOK /\ TypeOK' /\ Waited /\ Bytes /\ Phases
    BY DEF IInv, Typed
  <1>b. /\ i \in Nat /\ child \in [ChildId -> States] /\ response \in Seq(Msg)
        /\ Par \in Nat /\ Here \subseteq ChildId
    BY <1>a, ParFacts DEF IInv, Typed, TypeOK, States
  <1>c. \A S : Cardinality(Past(S)) \in Nat /\ Cardinality(Past(S)') \in Nat
    <2>1. IsFiniteSet(Here) /\ IsFiniteSet(Here')
      BY <1>a, HereFinite
    <2> QED  BY <2>1, FS_Subset, FS_CardinalityType DEF Past
  <1>1. CASE Enter
    BY <1>1, <1>c DEF Enter, Bytes
  <1>2. CASE CheckFork
    <2>1. \A S : Past(S)' = Past(S)
      BY <1>2 DEF CheckFork, Past, Here, Par, cvars
    <2> QED  BY <1>a, <1>b, <1>2, <2>1 DEF CheckFork, Bytes, pipes
  <1>3. CASE Fork
    <2>1. Past({"none", "init"})' = Past({"none", "init"})
      <3>1. child[i] = "none" /\ Here' = Here /\ i \in ChildId
        BY <1>a, <1>b, <1>3, BenchmpAssumption DEF Fork, Waited, Here, Par, ChildId, TypeOK
      <3> QED  BY <1>b, <1>3, <3>1 DEF Fork, Past
    <2> QED  BY <1>a, <1>b, <1>3, <2>1 DEF Fork, Bytes, pipes
  <1>4. CASE Collect
    <2>1. \A S : Past(S)' = Past(S)
      BY <1>4 DEF Collect, Past, Here, Par, cvars
    <2>2. CASE i < Par
      <3>1. /\ ppc' = ppc
            /\ \E n \in Nat : /\ n <= Len(response) /\ n <= Par - i /\ i' = i + n
                              /\ response' = SubSeq(response, n + 1, Len(response))
        BY <1>a, <1>b, <1>4, <2>2, CollectTurn
      <3>2. i' + Len(response') = i + Len(response) /\ ppc \in {"ready", "done"}
        <4>1. PICK n \in Nat : /\ n <= Len(response) /\ i' = i + n
                               /\ response' = SubSeq(response, n + 1, Len(response))
          BY <3>1
        <4>2. Len(response') = Len(response) - n
          BY <1>b, <4>1
        <4>3. ppc \in {"ready", "done"} /\ Len(response) \in Nat
          BY <1>b, <1>4 DEF Collect
        <4>4. i' = i + n /\ i \in Nat
          BY <1>b, <4>1
        <4> QED  BY <4>2, <4>3, <4>4
      <3> QED  BY <1>a, <2>1, <3>1, <3>2 DEF Bytes
    <2>3. CASE i = Par
      <3>1. response' = response /\ ppc' = (IF ppc = "ready" THEN "start" ELSE "ask")
        BY <1>a, <1>b, <1>4, <2>3 DEF Collect
      <3>2. CASE ppc = "ready"
        <4>1. Cardinality(Past({"none", "init"})) <= Par
          BY <1>a, <2>1, PastGrows
        <4>2. Len(response) = 0
          BY <1>a, <1>b, <1>c, <2>3, <3>2, <4>1 DEF Bytes
        <4>3. response = <<>>
          BY <1>b, <4>2
        <4> QED  BY <3>1, <3>2, <4>3 DEF Bytes
      <3> QED  BY <3>1, <3>2 DEF Bytes
    <2> QED  BY <1>a, <1>b, <2>2, <2>3 DEF Waited
  <1>5. CASE SendStart
    BY <1>a, <1>b, <1>c, <1>5 DEF SendStart, Bytes
  <1>6. CASE ppc' \notin {"check", "fork", "ready", "start", "done"}
    BY <1>6 DEF Bytes
  <1> QED
    BY <1>1, <1>2, <1>3, <1>4, <1>5, <1>6
       DEF ParentStep, Abort, AbortWait, Sigpipe, AskResult, ReadResult, AllowDeath,
           SendExit, GiveUp, KillNext, WaitNext, Reap, benchmp_sigalrm, Return, ForkFails

-----------------------------------------------------------------------------
(* The phases *)

\* A child goes on only on a byte that says that all may.
LEMMA PhasesChild ==
    ASSUME IInv, NEW k \in ChildId, SameParent, OneChild(k)
    PROVE  Phases'
  <1>a. TypeOK /\ Phases
    BY DEF IInv, Typed
  <1>b. /\ child \in [ChildId -> States] /\ ppc' = ppc
        /\ start \in Nat /\ result \in Nat /\ exit \in Nat
    BY <1>a, BenchmpAssumption DEF TypeOK, States, SameParent
  <1> USE DEF Waiting, Unasked, Asking, Forking, Begun, Undone, Reporting, Moved
  <1>1. CASE Died(k)
    BY <1>a, <1>b, <1>1 DEF Died, Phases
  <1>2. CASE Readied(k)
    BY <1>a, <1>b, <1>2 DEF Readied, Phases
  <1>3. CASE Started(k)
    BY <1>a, <1>b, <1>3 DEF Started, Phases, Closed
  <1>4. CASE Finished(k)
    BY <1>a, <1>b, <1>4 DEF Finished, Phases
  <1>5. CASE Saw(k)
    BY <1>a, <1>b, <1>5 DEF Saw, Phases, Closed
  <1>6. CASE Took(k)
    BY <1>a, <1>b, <1>6 DEF Took, Phases, Closed
  <1>7. CASE Wrote(k)
    BY <1>a, <1>b, <1>7 DEF Wrote, Phases
  <1>8. CASE Left(k)
    BY <1>a, <1>b, <1>8 DEF Left, Phases
  <1> QED
    BY <1>1, <1>2, <1>3, <1>4, <1>5, <1>6, <1>7, <1>8 DEF OneChild

\* The parent opens a phase when it has heard from all the children.
LEMMA PhasesParent ==
    ASSUME IInv, ParentStep \/ ForkFails
    PROVE  Phases'
  <1>a. TypeOK /\ Waited /\ Bytes /\ Phases /\ Results
    BY DEF IInv, Typed
  <1>b. /\ child \in [ChildId -> States] /\ i \in Nat /\ Par \in Nat /\ Par >= 1
        /\ start \in Nat /\ result \in Nat /\ exit \in Nat
        /\ Here \subseteq ChildId /\ response \in Seq(Msg)
    BY <1>a, BenchmpAssumption, ParFacts DEF TypeOK, States, IInv, Typed
  <1>c. ppc \notin {"enter", "fork"} \/ ppc' = "abort" =>
          \A k \in ChildId : child'[k] = child[k] \/ child'[k] = "leaving"
    <2>1. ppc \notin {"enter", "fork"} \/ ppc' = "abort" => ~Enter /\ ~Fork
      BY DEF Enter, Fork
    <2> QED  BY <1>a, <2>1, ParentKills DEF Fewer
  <1> USE DEF Waiting, Unasked, Asking, Forking, Begun, Undone, Reporting
  <1>1. CASE Enter
    BY <1>a, <1>b, <1>c, <1>1 DEF Enter, Phases, pipes
  <1>2. CASE CheckFork
    BY <1>a, <1>b, <1>c, <1>2 DEF CheckFork, Phases, pipes
  <1>3. CASE Fork
    BY <1>a, <1>b, <1>c, <1>3 DEF Fork, Phases, pipes
  <1>4. CASE Abort
    BY <1>a, <1>b, <1>c, <1>4 DEF Abort, Phases, pipes
  <1>5. CASE AbortWait
    BY <1>a, <1>b, <1>c, <1>5 DEF AbortWait, Phases, pipes
  <1>6. CASE Collect
    <2>0. ppc \in {"ready", "done"} /\ UNCHANGED <<child, start, result, exit>>
      BY <1>6 DEF Collect, cvars
    <2>1. CASE i < Par
      <3>1. ppc' = ppc
        BY <1>a, <1>b, <1>6, <2>1, CollectTurn
      <3> QED  BY <1>a, <2>0, <3>1 DEF Phases
    <2>2. CASE i = Par
      <3>1. ppc' = (IF ppc = "ready" THEN "start" ELSE "ask") /\ Len(response) \in Nat
        BY <1>b, <1>6, <2>2 DEF Collect
      <3>2. CASE ppc = "ready"
        <4>1. Par <= Cardinality(Past({"none", "init"}))
          <5>1. Cardinality(Past({"none", "init"})) \in Nat
            BY <1>a, ParFacts, FS_Subset, FS_CardinalityType DEF Past
          <5> QED  BY <1>a, <1>b, <2>2, <3>1, <3>2, <5>1 DEF Bytes
        <4>2. \A k \in Here : child[k] # "init"
          <5>1. Past({"none", "init"}) = Here
            BY <1>a, <4>1, PastAll
          <5> QED  BY <5>1 DEF Past
        <4>3. \A k \in ChildId : child[k] # "init"
          BY <1>a, <4>2 DEF Waited
        <4> QED  BY <1>a, <2>0, <3>1, <3>2, <4>3 DEF Phases
      <3>3. CASE ppc = "done"
        <4>1. Par <= Cardinality(Past({"warmup", "timing"}))
          <5>1. Cardinality(Past({"warmup", "timing"})) \in Nat
            BY <1>a, ParFacts, FS_Subset, FS_CardinalityType DEF Past
          <5> QED  BY <1>a, <1>b, <2>2, <3>1, <3>3, <5>1 DEF Bytes
        <4>2. \A k \in Here : child[k] \notin {"warmup", "timing"}
          <5>1. Past({"warmup", "timing"}) = Here
            BY <1>a, <4>1, PastAll
          <5> QED  BY <5>1 DEF Past
        <4>3. \A k \in ChildId : ~Undone(k)
          BY <1>a, <3>3, <4>2 DEF Waited, Phases
        <4> QED  BY <1>a, <2>0, <3>1, <3>3, <4>3 DEF Phases
      <3> QED  BY <2>0, <3>2, <3>3
    <2> QED  BY <1>a, <1>b, <2>1, <2>2 DEF Waited
  <1>7. CASE Sigpipe
    BY <1>a, <1>b, <1>c, <1>7 DEF Sigpipe, Phases, pipes
  <1>8. CASE SendStart
    BY <1>a, <1>b, <1>c, <1>8 DEF SendStart, Phases, pipes
  <1>9. CASE AskResult
    BY <1>a, <1>b, <1>c, <1>9 DEF AskResult, Phases, pipes
  <1>10. CASE ReadResult
    BY <1>a, <1>b, <1>c, <1>10 DEF ReadResult, Phases, pipes
  <1>11. CASE AllowDeath
    BY <1>a, <1>b, <1>c, <1>11 DEF AllowDeath, Phases, pipes
  <1>12. CASE SendExit
    BY <1>a, <1>b, <1>c, <1>12 DEF SendExit, Phases, pipes
  <1>13. CASE GiveUp
    BY <1>a, <1>b, <1>c, <1>13 DEF GiveUp, Phases, pipes
  <1>14. CASE KillNext
    <2>0. /\ ppc = "perr" /\ UNCHANGED <<start, result, exit>>
          /\ \A k \in ChildId : child'[k] = child[k] \/ child'[k] = "leaving"
      BY <1>c, <1>14 DEF KillNext, pipes
    <2>1. CASE ppc' = "perrwait"
      BY <1>a, <2>0, <2>1 DEF Phases
    <2>2. CASE ppc' = "reap" /\ i = Par /\ child' = child
      <3>1. \A k \in ChildId : ~Live(k)
        <4>1. \A k \in ChildId : k < Par \/ child[k] = "none"
          BY <1>a, <1>b, ParFacts DEF Waited, Here
        <4> QED  BY <1>a, <2>0, <2>2, <4>1 DEF Waited, Live
      <3> QED  BY <2>0, <2>2, <3>1 DEF Phases, Live
    <2> QED  BY <1>14, <2>1, <2>2 DEF KillNext
  <1>15. CASE WaitNext
    BY <1>a, <1>b, <1>c, <1>15 DEF WaitNext, Phases, pipes
  <1>16. CASE Reap
    BY <1>a, <1>b, <1>c, <1>16 DEF Reap, Phases, pipes
  <1>17. CASE benchmp_sigalrm
    BY <1>a, <1>b, <1>c, <1>17 DEF benchmp_sigalrm, Phases, pipes
  <1>18. CASE Return
    BY <1>a, <1>b, <1>c, <1>18 DEF Return, Phases, pipes
  <1>19. CASE ForkFails
    BY <1>a, <1>b, <1>c, <1>19 DEF ForkFails, Phases, pipes
  <1> QED
    BY <1>1, <1>2, <1>3, <1>4, <1>5, <1>6, <1>7, <1>8, <1>9, <1>10, <1>11, <1>12, <1>13,
       <1>14, <1>15, <1>16, <1>17, <1>18, <1>19 DEF ParentStep

\* What a child has sent before the parent knows of it.
LEMMA SentChild ==
    ASSUME IInv, NEW k \in ChildId, OneChild(k)
    PROVE  Sent'
  <1>a. /\ child \in [ChildId -> States] /\ sent \in [ChildId -> 0 .. Chunks]
        /\ Sent /\ Chunks \in Nat \ {0}
    BY BenchmpAssumption DEF IInv, Typed, TypeOK, States
  <1>1. CASE Died(k)
    BY <1>a, <1>1 DEF Died, Sent, Moved
  <1>2. CASE Wrote(k)
    BY <1>a, <1>2 DEF Wrote, Sent, Moved
  <1>3. CASE ~Died(k) /\ ~Wrote(k)
    BY <1>a, <1>3 DEF OneChild, Readied, Started, Finished, Saw, Took, Left, Sent, Moved
  <1> QED  BY <1>1, <1>2, <1>3

\* The parent forks a child that has sent nothing.
LEMMA SentParent ==
    ASSUME IInv, ParentStep \/ ForkFails
    PROVE  Sent'
  <1>a. TypeOK /\ Waited /\ Sent
    BY DEF IInv, Typed
  <1>b. /\ child \in [ChildId -> States] /\ sent \in [ChildId -> 0 .. Chunks]
        /\ i \in Nat /\ Chunks \in Nat \ {0}
    BY <1>a, BenchmpAssumption DEF TypeOK, States
  <1>1. CASE Enter
    BY <1>1 DEF Enter, Sent
  <1>2. CASE Fork
    BY <1>a, <1>b, <1>2 DEF Fork, Waited, Sent
  <1>3. CASE ~Enter /\ ~Fork
    <2>1. sent' = sent
      BY <1>3 DEF ParentStep, ForkFails, cvars, CheckFork, Abort, AbortWait, Collect, Sigpipe,
             SendStart, AskResult, ReadResult, AllowDeath, SendExit, GiveUp, KillNext, WaitNext,
             Reap, benchmp_sigalrm, Return
    <2>2. Fewer
      BY <1>a, <1>3, ParentKills
    <2> QED  BY <1>a, <2>1, <2>2 DEF Fewer, Sent
  <1> QED  BY <1>1, <1>2, <1>3

-----------------------------------------------------------------------------
(* The results *)

\* All chunks of a whole result are of the child it is from.
LEMMA WholeFrom ==
    ASSUME NEW m, Whole(m)
    PROVE  From(m) \in Here /\ \A n \in 1 .. Chunks : merged[m][n] = <<From(m), "result">>
  <1>1. PICK k \in Here : \A n \in 1 .. Chunks : merged[m][n] = <<k, "result">>
    BY DEF Whole
  <1>2. merged[m][1] = <<k, "result">>
    BY <1>1, BenchmpAssumption
  <1>3. From(m) = k
    BY <1>2 DEF From
  <1> QED  BY <1>1, <1>3

\* As many results as children, all of different children: one of each.
LEMMA Covered ==
    ASSUME Typed, Len(merged) = Par, \A m \in DOMAIN merged : Whole(m),
           \A m, n \in DOMAIN merged : m # n => From(m) # From(n)
    PROVE  \A k \in Here : \E m \in DOMAIN merged : From(m) = k
  <1> DEFINE f == [m \in 1 .. Par |-> From(m)]
  <1>1. DOMAIN merged = 1 .. Par /\ TypeOK
    BY DEF Typed
  <1>2. /\ IsFiniteSet(Here) /\ Cardinality(Here) = Par
        /\ IsFiniteSet(1 .. Par) /\ Cardinality(1 .. Par) = Par
    BY <1>1, ParFacts, FS_Interval
  <1>3. f \in Injection(1 .. Par, Here)
    <2>1. \A m \in 1 .. Par : From(m) \in Here
      BY <1>1, WholeFrom
    <2>2. f \in [1 .. Par -> Here]
      BY <2>1
    <2>3. \A a, b \in 1 .. Par : f[a] = f[b] => a = b
      BY <1>1
    <2> HIDE DEF f
    <2> QED  BY <2>2, <2>3 DEF Injection, IsInjective
  <1> HIDE DEF f
  <1>4. f \in Surjection(1 .. Par, Here)
    BY <1>2, <1>3, FS_Injection
  <1>5. \A k \in Here : \E m \in 1 .. Par : f[m] = k
    BY <1>4 DEF Surjection
  <1> QED  BY <1>1, <1>5 DEF f

\* Only the child that was asked writes to the pipe.
LEMMA ResultsChild ==
    ASSUME IInv, NEW k \in ChildId, SameParent, OneChild(k)
    PROVE  Results'
  <1>a. TypeOK /\ Waited /\ Phases /\ Sent /\ Results
    BY DEF IInv, Typed
  <1>b. /\ child \in [ChildId -> States] /\ sent \in [ChildId -> 0 .. Chunks]
        /\ result \in Nat /\ response \in Seq(Msg) /\ part \in Seq(Msg)
        /\ Here \subseteq ChildId
    BY <1>a, ParFacts DEF IInv, Typed, TypeOK, States
  <1>c. /\ UNCHANGED <<ppc, i, part, merged, time>> /\ Here' = Here /\ Par' = Par
        /\ \A m : Whole(m)' <=> Whole(m)
        /\ \A m : From(m)' = From(m)
    BY DEF SameParent, Par, Here, Whole, From
  <1>d. k \in Here
    BY <1>a, Moving DEF Waited, OneMoves, Live
  <1>e. \A m \in DOMAIN merged : From(m) \in ChildId
    BY <1>a, <1>b, WholeFrom DEF Results
  <1>1. ASSUME ppc = "ask" \/ ppc = "collect"
        PROVE  \A m \in DOMAIN merged' : child'[From(m)'] \in {"final", "leaving", "dead"}
    <2>1. \A m \in DOMAIN merged : child[From(m)] \in {"final", "leaving", "dead"}
      BY <1>a, <1>1 DEF Results
    <2>2. child[k] \in {"final", "leaving", "dead"} => child'[k] \in {"final", "leaving", "dead"}
      BY <1>b DEF OneChild, Died, Readied, Started, Finished, Saw, Took, Wrote, Left, Moved, States
    <2>3. \A j \in ChildId \ {k} : child'[j] = child[j]
      BY <1>b DEF OneChild, Died, Readied, Started, Finished, Saw, Took, Wrote, Left, Moved
    <2> QED  BY <1>c, <1>e, <2>1, <2>2, <2>3
  <1>2. ASSUME ppc = "ask" PROVE result' = 0 /\ Quiet'
    <2>1. result = 0 /\ Quiet /\ ~Closed /\ ~Undone(k)
      BY <1>a, <1>2 DEF Results, Closed, Phases, Asking
    <2>2. Died(k) \/ Left(k)
      BY <2>1 DEF OneChild, Readied, Started, Finished, Saw, Took, Wrote, Quiet, Undone
    <2> QED  BY <1>b, <2>1, <2>2 DEF Died, Left, Moved, Quiet
  <1>3. ASSUME ppc = "collect"
        PROVE  \/ result' = 1 /\ Quiet' /\ part' = <<>>
               \/ result' = 0 /\ \E j \in Here : Owner(j)'
    <2>1. ~Closed /\ ~Undone(k)
      BY <1>a, <1>3 DEF Closed, Phases, Asking
    <2>2. Died(k) \/ Saw(k) \/ Took(k) \/ Wrote(k) \/ Left(k)
      BY <2>1 DEF OneChild, Readied, Started, Finished, Undone
    <2>3. CASE result = 1 /\ Quiet /\ part = <<>>
      <3>1. CASE Died(k) \/ Saw(k) \/ Left(k)
        BY <1>b, <1>c, <2>3, <3>1 DEF Died, Saw, Left, Moved, Quiet
      <3>2. CASE Took(k)
        <4>1. /\ result' = 0 /\ response' = <<>> /\ sent' = sent /\ child[k] = "asked"
              /\ child' = [child EXCEPT ![k] = "sending"]
          BY <2>3, <3>2 DEF Took, Quiet, Moved
        <4>2. \A m \in DOMAIN merged : From(m) # k
          BY <1>a, <1>3, <4>1 DEF Results
        <4>3. sent[k] = 0
          BY <1>a, <4>1 DEF Sent
        <4>4. Owner(k)'
          BY <1>b, <1>c, <2>3, <4>1, <4>2, <4>3 DEF Owner, Quiet
        <4> QED  BY <1>d, <4>1, <4>4
      <3>3. CASE Wrote(k)
        BY <2>3, <3>3 DEF Wrote, Quiet
      <3> QED  BY <2>2, <3>1, <3>2, <3>3
    <2>4. ASSUME result = 0, NEW j \in Here, Owner(j)
          PROVE  result' = 0 /\ Owner(j)'
      <3>1. CASE Died(k) \/ Left(k)
        <4>1. /\ UNCHANGED <<response, result, sent>>
              /\ child' = [child EXCEPT ![k] = "dead"] \/ child' = [child EXCEPT ![k] = "leaving"]
          BY <2>1, <3>1 DEF Died, Left, Moved
        <4> QED  BY <1>b, <1>c, <2>4, <4>1 DEF Owner
      <3>2. CASE Saw(k) \/ Took(k)
        BY <2>1, <2>4, <3>2 DEF Saw, Took
      <3>3. CASE Wrote(k)
        <4>1. k = j
          BY <2>4, <3>3 DEF Wrote, Owner
        <4>2. /\ response' = Append(response, <<j, "result">>) /\ result' = result
              /\ sent' = [sent EXCEPT ![j] = @ + 1]
              /\ \/ child' = [child EXCEPT ![j] = "final"]
                 \/ child' = [child EXCEPT ![j] = "sending"]
          BY <3>3, <4>1 DEF Wrote, Moved
        <4>3. /\ Len(response') = Len(response) + 1 /\ Len(response) \in Nat
              /\ \A n \in DOMAIN response' : response'[n] = <<j, "result">>
          BY <1>b, <2>4, <4>2 DEF Owner
        <4>4. sent'[j] = sent[j] + 1 /\ sent[j] = Len(part) + Len(response) /\ Len(part) \in Nat
          BY <1>b, <2>4, <4>2 DEF Owner
        <4>5. sent'[j] = Len(part) + Len(response')
          BY <4>3, <4>4
        <4> QED  BY <1>b, <1>c, <2>4, <4>2, <4>3, <4>5 DEF Owner
      <3> QED  BY <2>2, <3>1, <3>2, <3>3
    <2> QED  BY <1>a, <1>3, <2>3, <2>4 DEF Results
  <1> QED
    BY <1>a, <1>c, <1>1, <1>2, <1>3 DEF Results

\* One read takes all that is in the pipe, and never the start of another
\* child's result.
LEMMA ReadAll ==
    ASSUME IInv, ReadResult
    PROVE  \E k \in Here :
             LET got == part \o response IN
             /\ result = 0 /\ Owner(k) /\ response' = <<>>
             /\ got \in Seq(Msg) /\ Len(got) = sent[k]
             /\ \A n \in DOMAIN got : got[n] = <<k, "result">>
             /\ \/ /\ Len(got) = Chunks /\ merged' = Append(merged, got)
                   /\ i' = i + 1 /\ ppc' = "ask"
                \/ /\ Len(got) # Chunks /\ part' = got
                   /\ UNCHANGED <<merged, i, ppc>>
  <1>a. /\ response \in Seq(Msg) /\ part \in Seq(Msg) /\ Len(part) < Chunks
        /\ sent \in [ChildId -> 0 .. Chunks] /\ Here \subseteq ChildId
    BY ParFacts DEF IInv, Typed, TypeOK
  <1>b. ppc = "collect" /\ response # <<>> /\ Results
    BY DEF ReadResult, IInv
  <1>1. PICK k \in Here : result = 0 /\ Owner(k)
    BY <1>b DEF Results, Quiet
  <1>2. sent[k] = Len(part) + Len(response) /\ sent[k] \in 0 .. Chunks
    BY <1>a, <1>1 DEF Owner
  <1> DEFINE n == Min({Len(response), Chunks - Len(part)})
             read == part \o SubSeq(response, 1, n)
             got == part \o response
  <1>3. n = Len(response)
    <2>1. Len(response) \in Nat /\ Chunks - Len(part) \in Nat /\ Len(response) <= Chunks - Len(part)
      BY <1>a, <1>2, BenchmpAssumption
    <2> QED  BY <2>1, MinOfTwo
  <1>4. /\ response' = SubSeq(response, n + 1, Len(response))
        /\ \/ /\ Len(read) = Chunks /\ merged' = Append(merged, read)
              /\ i' = i + 1 /\ ppc' = "ask"
           \/ Len(read) # Chunks /\ part' = read /\ UNCHANGED <<merged, i, ppc>>
    BY DEF ReadResult
  <1> HIDE DEF n
  <1>5. SubSeq(response, 1, n) = response /\ SubSeq(response, n + 1, Len(response)) = <<>>
    BY <1>a, <1>3
  <1>6. read = got
    BY <1>5
  <1>7. got \in Seq(Msg) /\ Len(got) = sent[k]
    BY <1>a, <1>2
  <1>8. \A m \in DOMAIN got : got[m] = <<k, "result">>
    BY <1>a, <1>1 DEF Owner
  <1> HIDE DEF read, got
  <1>9. /\ response' = <<>>
        /\ \/ /\ Len(got) = Chunks /\ merged' = Append(merged, got)
              /\ i' = i + 1 /\ ppc' = "ask"
           \/ Len(got) # Chunks /\ part' = got /\ UNCHANGED <<merged, i, ppc>>
    BY <1>4, <1>5, <1>6
  <1> QED  BY <1>1, <1>7, <1>8, <1>9 DEF got

\* Reading a result keeps the invariant of the results.
LEMMA ResultsRead ==
    ASSUME IInv, ReadResult
    PROVE  Results'
  <1>a. TypeOK /\ Sent /\ Results /\ merged \in Seq(Seq(Msg)) /\ i \in Nat
    BY DEF IInv, Typed, TypeOK
  <1>b. /\ ppc = "collect" /\ UNCHANGED <<child, sent, result, time>>
        /\ Here' = Here /\ Par' = Par /\ Here \subseteq ChildId
    BY <1>a, ParFacts DEF ReadResult, cvars, Here, Par
  <1>c. time = 0 /\ Len(merged) = i
    BY <1>a, <1>b DEF Results
  <1> DEFINE got == part \o response
  <1>1. PICK k \in Here :
          /\ result = 0 /\ Owner(k) /\ response' = <<>>
          /\ got \in Seq(Msg) /\ Len(got) = sent[k]
          /\ \A n \in DOMAIN got : got[n] = <<k, "result">>
          /\ \/ /\ Len(got) = Chunks /\ merged' = Append(merged, got)
                /\ i' = i + 1 /\ ppc' = "ask"
             \/ /\ Len(got) # Chunks /\ part' = got
                /\ UNCHANGED <<merged, i, ppc>>
    BY ReadAll
  <1> HIDE DEF got
  <1>2. CASE Len(got) = Chunks
    <2>1. /\ merged' = Append(merged, got) /\ i' = i + 1 /\ ppc' = "ask"
      BY <1>1, <1>2
    <2>z. PICK z \in Nat : z = i + 1
      BY <1>a
    <2>2. /\ DOMAIN merged' = 1 .. z /\ Len(merged') = z
          /\ DOMAIN merged = 1 .. i
          /\ \A m \in 1 .. i : merged'[m] = merged[m]
          /\ merged'[z] = got
      BY <1>a, <1>c, <1>1, <2>1, <2>z
    <2>3. \A m \in 1 .. i : Whole(m)' /\ From(m)' = From(m)
      <3> SUFFICES ASSUME NEW m \in 1 .. i
                   PROVE  Whole(m)' /\ From(m)' = From(m)
        OBVIOUS
      <3>1. Whole(m) /\ merged'[m] = merged[m]
        BY <1>a, <2>2 DEF Results
      <3> QED  BY <1>b, <3>1 DEF Whole, From
    <2>4. \A n \in 1 .. Chunks : got[n] = <<k, "result">>
      BY <1>1, <1>2
    <2>5. Whole(z)'
      BY <1>b, <1>2, <2>2, <2>4 DEF Whole
    <2>6. From(z)' = k
      <3>1. got[1] = <<k, "result">>
        BY <2>4, BenchmpAssumption
      <3> QED  BY <2>2, <3>1 DEF From
    <2>7. \A m \in 1 .. i : From(m) # k
      BY <1>1, <2>2 DEF Owner
    <2>d. \A m \in DOMAIN merged' : m \in 1 .. i \/ m = z
      BY <1>a, <2>z, <2>2
    <2>8. /\ \A m \in DOMAIN merged' : Whole(m)'
          /\ \A m, n \in DOMAIN merged' : m # n => From(m)' # From(n)'
      <3>1. \A m, n \in 1 .. i : m # n => From(m)' # From(n)'
        BY <1>a, <2>2, <2>3 DEF Results
      <3>2. \A m \in DOMAIN merged' : Whole(m)'
        BY <2>3, <2>5, <2>d
      <3>3. \A m \in 1 .. i : From(m)' # From(z)'
        BY <2>3, <2>6, <2>7
      <3> QED  BY <2>d, <3>1, <3>2, <3>3
    <2>9. child[k] \in {"final", "leaving", "dead"} /\ \A j \in ChildId : child[j] # "sending"
      BY <1>a, <1>b, <1>1, <1>2, BenchmpAssumption DEF Owner, Sent
    <2>10. \A m \in DOMAIN merged' : child'[From(m)'] \in {"final", "leaving", "dead"}
      <3>1. \A m \in 1 .. i : child[From(m)] \in {"final", "leaving", "dead"}
        BY <1>a, <1>b, <2>2 DEF Results
      <3>2. \A m \in 1 .. i : child'[From(m)'] \in {"final", "leaving", "dead"}
        BY <1>b, <2>3, <3>1
      <3>3. child'[From(z)'] \in {"final", "leaving", "dead"}
        BY <1>b, <2>6, <2>9
      <3> QED  BY <2>d, <3>2, <3>3
    <2> QED
      BY <1>b, <1>c, <1>1, <2>1, <2>z, <2>2, <2>8, <2>9, <2>10
         DEF Results, Quiet, Unasked, Waiting, Forking
  <1>3. CASE Len(got) # Chunks
    <2>1. part' = got /\ UNCHANGED <<merged, i, ppc>>
      BY <1>1, <1>3
    <2>2. Owner(k)'
      BY <1>b, <1>1, <2>1 DEF Owner, From
    <2>3. \A m \in DOMAIN merged : (Whole(m)' <=> Whole(m)) /\ From(m)' = From(m)
      BY <1>b, <2>1 DEF Whole, From
    <2> QED  BY <1>a, <1>b, <1>c, <1>1, <2>1, <2>2, <2>3 DEF Results
  <1> QED  BY <1>2, <1>3

\* The parent asks one child at a time and keeps what it has merged.
LEMMA ResultsParent ==
    ASSUME IInv, ParentStep \/ ForkFails
    PROVE  Results'
  <1>a. TypeOK /\ Typed /\ Waited /\ Bytes /\ Phases /\ Results
    BY DEF IInv, Typed
  <1>b. /\ i \in Nat /\ Par \in Nat /\ time \in {0, 1} /\ result \in Nat
        /\ response \in Seq(Msg) /\ merged \in Seq(Seq(Msg)) /\ Here \subseteq ChildId
    BY <1>a, ParFacts DEF Typed, TypeOK
  <1>c. ASSUME merged' = merged, Here \subseteq Here'
        PROVE  /\ \A m \in DOMAIN merged' : Whole(m)'
               /\ \A m, n \in DOMAIN merged' : m # n => From(m)' # From(n)'
               /\ \A m \in DOMAIN merged : From(m)' = From(m)
    BY <1>a, <1>c DEF Results, Whole, From
  <1>d. ppc # "end" => Par' = Par /\ Here' = Here
    BY DEF ParentStep, ForkFails, Par, Here, Enter, CheckFork, Fork, Abort, AbortWait, Collect,
           Sigpipe, SendStart, AskResult, ReadResult, AllowDeath, SendExit, GiveUp, KillNext,
           WaitNext, Reap, benchmp_sigalrm, Return
  <1> USE DEF Unasked, Waiting, Forking
  <1>1. CASE Enter
    BY <1>a, <1>1 DEF Enter, Results
  <1>2. CASE CheckFork \/ Fork \/ Abort \/ AbortWait \/ SendStart \/ ForkFails
    <2>1. /\ ppc \in Unasked /\ ppc' \in Unasked \cup {"end"}
          /\ UNCHANGED <<round, merged, time>>
      BY <1>2 DEF CheckFork, Fork, Abort, AbortWait, SendStart, ForkFails
    <2>2. merged = <<>> /\ time = 0
      BY <1>a, <2>1 DEF Results
    <2> QED  BY <2>1, <2>2 DEF Results
  <1>3. CASE Collect
    <2>0. /\ ppc \in {"ready", "done"} /\ UNCHANGED <<merged, time, child, result>>
          /\ merged = <<>> /\ time = 0 /\ result = 0 /\ \A k \in ChildId : ~Reporting(k)
      BY <1>a, <1>3 DEF Collect, Results, Phases, cvars
    <2>1. CASE i < Par
      <3>1. ppc' = ppc
        BY <1>a, <1>b, <1>3, <2>1, CollectTurn
      <3> QED  BY <2>0, <3>1 DEF Results
    <2>2. CASE i = Par
      <3>1. /\ ppc' = (IF ppc = "ready" THEN "start" ELSE "ask")
            /\ i' = 0 /\ response' = response
        BY <1>b, <1>3, <2>2 DEF Collect
      <3>2. CASE ppc = "ready"
        BY <2>0, <3>1, <3>2 DEF Results
      <3>3. CASE ppc = "done"
        <4>1. Cardinality(Past({"warmup", "timing"})) \in Nat
          BY <1>a, ParFacts, FS_Subset, FS_CardinalityType DEF Past
        <4>2. Cardinality(Past({"warmup", "timing"})) <= Par
          BY <1>a, ParFacts, FS_Subset DEF Past
        <4>3. Len(response) \in Nat /\ i + Len(response) <= Cardinality(Past({"warmup", "timing"}))
          BY <1>a, <1>b, <3>3 DEF Bytes
        <4>4. Len(response) = 0
          BY <1>b, <2>2, <4>1, <4>2, <4>3
        <4>5. response = <<>>
          BY <1>b, <4>4
        <4>6. Quiet'
          BY <2>0, <3>1, <4>5 DEF Quiet, Reporting
        <4> QED  BY <2>0, <3>1, <3>3, <4>6 DEF Results
      <3> QED  BY <2>0, <3>2, <3>3
    <2> QED  BY <1>a, <1>b, <2>1, <2>2 DEF Waited
  <1>4. CASE AskResult
    <2>1. /\ ppc = "ask" /\ ppc' = "collect" /\ part' = <<>> /\ result' = result + 1
          /\ UNCHANGED <<merged, i, time, child, response>>
      BY <1>4 DEF AskResult, cvars
    <2>2. result' = 1 /\ Quiet' /\ Len(merged') = i' /\ time = 0
      BY <1>a, <2>1 DEF Results, Quiet
    <2> QED  BY <1>a, <1>c, <1>d, <2>1, <2>2 DEF Results
  <1>5. CASE ReadResult
    BY <1>5, ResultsRead
  <1>6. CASE AllowDeath
    BY <1>a, <1>c, <1>d, <1>6 DEF AllowDeath, Results
  <1>7. CASE SendExit
    <2>1. /\ ppc = "exit" /\ ppc' = "reap" /\ merged' = merged
      BY <1>7 DEF SendExit
    <2>2. \A k \in Here : \E m \in DOMAIN merged : From(m) = k
      BY <1>a, <2>1, Covered DEF Results
    <2>3. \A k \in Here' : \E m \in DOMAIN merged' : From(m)' = k
      BY <1>c, <1>d, <2>1, <2>2
    <2> QED  BY <1>c, <1>d, <2>1, <2>3 DEF Results
  <1>8. CASE GiveUp \/ KillNext \/ WaitNext \/ Reap \/ benchmp_sigalrm \/ Sigpipe
    <2>1. /\ ppc \in {"ready", "start", "done", "ask", "collect", "exit", "perr",
                     "perrwait", "reap"}
          /\ ppc' \in {"perr", "perrwait", "reap", "end", "killed"}
          /\ ppc' \in {"perr", "perrwait"} => ppc # "reap"
          /\ UNCHANGED <<merged, time>>
      BY <1>8 DEF GiveUp, KillNext, WaitNext, Reap, benchmp_sigalrm, Sigpipe
    <2>2. time > 0 => \A k \in Here' : \E m \in DOMAIN merged' : From(m)' = k
      BY <1>a, <1>c, <1>d, <2>1 DEF Results
    <2> QED  BY <1>a, <1>c, <1>d, <2>1, <2>2 DEF Results
  <1>9. CASE Return
    <2>1. CASE round = 1 /\ time > 0
      <3>1. Here \subseteq Here'
        <4>1. Here' = ChildId
          BY <1>9, <2>1 DEF Return, Here, Par, ChildId
        <4> QED  BY <1>b, <4>1
      <3>2. ppc' = "enter" /\ time' = 0 /\ merged' = merged
        BY <1>9, <2>1 DEF Return
      <3> QED  BY <1>c, <3>1, <3>2 DEF Results
    <2>2. CASE ~(round = 1 /\ time > 0)
      <3>1. ppc' = "returned" /\ UNCHANGED <<round, time, merged>>
        BY <1>9, <2>2 DEF Return
      <3>2. Here' = Here
        BY <3>1 DEF Here, Par
      <3> QED  BY <1>a, <1>c, <3>1, <3>2 DEF Results
    <2> QED  BY <2>1, <2>2
  <1> QED
    BY <1>1, <1>2, <1>3, <1>4, <1>5, <1>6, <1>7, <1>8, <1>9 DEF ParentStep

-----------------------------------------------------------------------------
(* The theorems *)

\* The invariant holds at the start.
LEMMA IInvInit ==
    ASSUME Init
    PROVE  IInv
  <1>1. Typed
    BY TypedInit
  <1>2. Par = 1
    BY DEF Init, Par
  <1>3. Waited /\ Bytes /\ Phases /\ Sent
    BY <1>2, BenchmpAssumption
       DEF Init, Waited, Bytes, Phases, Sent, Waiting, Unasked, Asking, Forking, Live
  <1>4. Results
    BY DEF Init, Results, Unasked, Waiting, Forking
  <1> QED  BY <1>1, <1>3, <1>4 DEF IInv

\* Every step keeps it.
LEMMA IInvNext ==
    ASSUME IInv, [Next]_vars
    PROVE  IInv'
  <1>t. Typed'
    <2>1. CASE UNCHANGED vars
      BY <2>1 DEF IInv, Typed, TypeOK, vars, pvars, cvars, pipes, flags
    <2>2. CASE Next
      BY <2>2, TypedParent, TypedChild, TypedFault DEF Next
    <2> QED  BY <2>1, <2>2
  <1>1. CASE ParentStep \/ ForkFails
    BY <1>t, <1>1, WaitedParent, BytesParent, PhasesParent, SentParent, ResultsParent DEF IInv
  <1>2. ASSUME NEW k \in ChildId, SameParent, OneChild(k)
        PROVE  IInv'
    BY <1>t, <1>2, WaitedChild, BytesChild, PhasesChild, SentChild, ResultsChild DEF IInv
  <1>3. CASE Idle
    <2>1. Par' = Par /\ Here' = Here
      BY <1>3 DEF Idle, Par, Here
    <2>2. Waited'
      BY <1>3, <2>1 DEF Idle, IInv, Waited, Live
    <2>3. Bytes'
      BY <1>3, <2>1 DEF Idle, IInv, Bytes, Past
    <2>4. Phases' /\ Sent'
      BY <1>3 DEF Idle, IInv, Phases, Sent, Begun, Undone, Reporting
    <2>5. Results'
      BY <1>3, <2>1 DEF Idle, IInv, Results, Whole, From, Quiet, Owner
    <2> QED  BY <1>t, <2>2, <2>3, <2>4, <2>5 DEF IInv
  <1>4. CASE Killed
    <2>1. Par' = Par /\ Here' = Here
      BY <1>4 DEF Killed, Par, Here
    <2>2. Waited' /\ Bytes' /\ Phases' /\ Sent'
      BY <1>4, <2>1 DEF Killed, IInv, Waited, Bytes, Phases, Sent, Waiting, Unasked, Asking, Forking
    <2>3. Results'
      BY <1>4, <2>1 DEF Killed, IInv, Results, Whole, From, Waiting, Unasked, Forking
    <2> QED  BY <1>t, <2>2, <2>3 DEF IInv
  <1> QED  BY <1>1, <1>2, <1>3, <1>4, Steps DEF IInv

(***************************************************************************)
(* The inductive invariant: for each place of the parent, what the pipes   *)
(* of benchmp() hold and where its children can be.                        *)
(***************************************************************************)
THEOREM Invariance == Spec => []IInv
  <1>1. Init => IInv
    BY IInvInit
  <1>2. IInv /\ [Next]_vars => IInv'
    BY IInvNext
  <1> QED  BY <1>1, <1>2, PTL DEF Spec

(***************************************************************************)
(* The phases never overlap: no child measures while another initializes,  *)
(* and none reports while another measures, however many children there    *)
(* are and whatever crashes, hangs or signals come in between.             *)
(***************************************************************************)
THEOREM PhasesDoNotOverlap == Spec => []Lockstep
  <1>1. IInv => Lockstep
    <2> SUFFICES ASSUME IInv PROVE Lockstep
      OBVIOUS
    <2>a. TypeOK /\ Waited /\ Phases /\ Here \subseteq ChildId
      BY ParFacts DEF IInv, Typed
    <2>1. ppc # "killed" =>
            /\ (\E k \in Here : Measuring(k)) => \A k \in Here : child[k] # "init"
            /\ (\E k \in Here : Reporting(k)) => \A k \in Here : ~Measuring(k)
      <3>1. CASE ppc \in Waiting \cup {"done"} \cup Asking
        BY <2>a, <3>1 DEF Phases, Waiting, Unasked, Asking, Forking, Begun, Undone,
                          Measuring, Reporting
      <3>2. CASE ppc \in {"perr", "perrwait"}
        BY <2>a, <3>2 DEF Phases, Begun, Undone, Measuring, Reporting
      <3>3. CASE ppc \in {"end", "enter", "returned"}
        BY <2>a, <3>3 DEF Waited, Live, Measuring, Reporting
      <3> QED
        BY <2>a, <3>1, <3>2, <3>3 DEF TypeOK, Waiting, Asking, Forking
    <2> QED  BY <2>a, <2>1 DEF Lockstep
  <1> QED  BY <1>1, Invariance, PTL

(***************************************************************************)
(* The results benchmp_parent() merges are whole and of different          *)
(* children, and a time is only set when every child's was merged.         *)
(***************************************************************************)
THEOREM ResultsAreWhole == Spec => []ResultsWhole
  <1>1. IInv => ResultsWhole
    <2> SUFFICES ASSUME IInv PROVE ResultsWhole
      OBVIOUS
    <2>a. Results
      BY DEF IInv
    <2>b. 1 \in 1 .. Chunks
      BY BenchmpAssumption
    <2>1. \A m \in DOMAIN merged :
            /\ From(m) \in Here
            /\ \A n \in 1 .. Chunks : merged[m][n] = <<From(m), "result">>
      BY <2>a, WholeFrom DEF Results
    <2>2. \A m \in DOMAIN merged : merged[m][1] = <<From(m), "result">>
      BY <2>b, <2>1
    <2>3. \A m \in DOMAIN merged : \A n \in 1 .. Chunks : merged[m][n] = merged[m][1]
      BY <2>1, <2>2
    <2>4. \A m, n \in DOMAIN merged : m # n => merged[m][1] # merged[n][1]
      BY <2>a, <2>2 DEF Results
    <2>5. \A m \in DOMAIN merged : merged[m][1][2] = "result"
      BY <2>2
    <2>6. time > 0 => {merged[m][1][1] : m \in DOMAIN merged} = Here
      BY <2>a, <2>1 DEF Results, From
    <2> QED  BY <2>3, <2>4, <2>5, <2>6 DEF ResultsWhole
  <1> QED  BY <1>1, Invariance, PTL

(***************************************************************************)
(* No way out of benchmp(), its two error paths included, leaves a child   *)
(* behind.                                                                 *)
(***************************************************************************)
THEOREM NobodyIsLeft == Spec => []NoneLeft
  <1>1. IInv => NoneLeft
    BY DEF IInv, Waited, NoneLeft, AnyLive
  <1> QED  BY <1>1, Invariance, PTL
=============================================================================
