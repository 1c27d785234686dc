--------------------------- MODULE SteppingProofs ---------------------------
(***************************************************************************)
(* For every program, every limit and every width of the stack pointer:    *)
(* the program counter and the stack pointer stay in range through every   *)
(* step, and a step back restores the CPU as it was when the last step     *)
(* not yet taken back began. The history holds the latest snapshots of     *)
(* the trail of all steps, the oldest dropped at the cap; what the loops   *)
(* of a step do in between does not touch it.                              *)
(*                                                                         *)
(* For every program that balances its stack and keeps it in one half of   *)
(* the address space: a step over ends in its frame and a step out in its  *)
(* caller. The stack is then a sequence of frames (Framed), and the code's *)
(* count of calls is the number of frames above the one the step began in. *)
(***************************************************************************)
EXTENDS Stepping, SequenceTheorems, TLAPS

CpuTyped ==
  /\ prog \in Programs
  /\ pc \in Addr /\ sp \in SpRange /\ stack \in [SpRange -> Addr]

(* h is the last Len(h) elements of t. *)
EndOf(h, t) ==
  /\ Len(h) <= Len(t)
  /\ \A i \in 1..Len(h) : h[i] = t[Len(t) - Len(h) + i]

(* The history is the end of the trail. *)
HistoryInv ==
  /\ history \in Seq(Snapshots)
  /\ trail \in Seq(Snapshots)
  /\ EndOf(history, trail)

IInv == CpuTyped /\ HistoryInv

(* Dropping the first element leaves an end of the same sequence. *)
LEMMA TailOfEnd ==
  ASSUME NEW S, NEW h \in Seq(S), NEW t \in Seq(S), EndOf(h, t), h # << >>
  PROVE  EndOf(Tail(h), t)
<1>1. /\ Len(Tail(h)) = Len(h) - 1
      /\ \A i \in 1..Len(Tail(h)) : Tail(h)[i] = h[i + 1]
  BY HeadTailProperties
<1>2. Len(h) \in Nat /\ Len(t) \in Nat
  BY LenProperties
<1>3. ASSUME NEW i \in 1..Len(Tail(h))
      PROVE  Tail(h)[i] = t[Len(t) - Len(Tail(h)) + i]
  <2>1. i + 1 \in 1..Len(h)
    BY <1>1, <1>2, <1>3
  <2>2. h[i + 1] = t[Len(t) - Len(h) + (i + 1)]
    BY <2>1 DEF EndOf
  <2>3. Len(t) - Len(h) + (i + 1) = Len(t) - Len(Tail(h)) + i
    BY <1>1, <1>2
  <2>4. QED
    BY <1>1, <1>3, <2>2, <2>3
<1>4. Len(Tail(h)) <= Len(t)
  BY <1>1, <1>2 DEF EndOf
<1>5. QED
  BY <1>3, <1>4 DEF EndOf

(* Appending the same element to both. *)
LEMMA AppendToEnd ==
  ASSUME NEW S, NEW h \in Seq(S), NEW t \in Seq(S), NEW e \in S, EndOf(h, t)
  PROVE  EndOf(Append(h, e), Append(t, e))
<1> DEFINE ha == Append(h, e)
           ta == Append(t, e)
<1>1. /\ Len(ha) = Len(h) + 1 /\ ha[Len(h) + 1] = e
      /\ \A i \in 1..Len(h) : ha[i] = h[i]
  BY AppendProperties
<1>2. /\ Len(ta) = Len(t) + 1 /\ ta[Len(t) + 1] = e
      /\ \A i \in 1..Len(t) : ta[i] = t[i]
  BY AppendProperties
<1>3. Len(h) \in Nat /\ Len(t) \in Nat /\ Len(h) <= Len(t)
  BY LenProperties DEF EndOf
<1> HIDE DEF ha, ta
<1>4. ASSUME NEW i \in 1..Len(ha)
      PROVE  ha[i] = ta[Len(ta) - Len(ha) + i]
  <2>1. CASE i = Len(h) + 1
    <3>1. Len(ta) - Len(ha) + i = Len(t) + 1
      BY <1>1, <1>2, <1>3, <2>1
    <3>2. QED
      BY <1>1, <1>2, <2>1, <3>1
  <2>2. CASE i \in 1..Len(h)
    <3>1. Len(ta) - Len(ha) + i = Len(t) - Len(h) + i
      BY <1>1, <1>2, <1>3, <2>2
    <3>2. Len(t) - Len(h) + i \in 1..Len(t)
      BY <1>3, <2>2
    <3>3. h[i] = t[Len(t) - Len(h) + i]
      BY <2>2 DEF EndOf
    <3>4. QED
      BY <1>1, <1>2, <2>2, <3>1, <3>2, <3>3
  <2>3. QED
    BY <1>1, <1>3, <1>4, <2>1, <2>2
<1>5. Len(ha) <= Len(ta)
  BY <1>1, <1>2, <1>3
<1>6. QED
  BY <1>4, <1>5 DEF EndOf, ha, ta

(* What is left of a sequence without its last element. *)
LEMMA WithoutLast ==
  ASSUME NEW S, NEW s \in Seq(S), Len(s) >= 1
  PROVE  LET u == SubSeq(s, 1, Len(s) - 1)
         IN  /\ u \in Seq(S) /\ Len(u) = Len(s) - 1
             /\ \A i \in 1..(Len(s) - 1) : u[i] = s[i]
<1> DEFINE n == Len(s) - 1
           u == SubSeq(s, 1, n)
<1>1. n \in Nat /\ 1 \in Int /\ n \in Int /\ \A i \in 1..n : i \in 1..Len(s)
  BY LenProperties
<1>2. \A i \in 1..n : s[i] \in S
  BY <1>1, ElementOfSeq
<1> HIDE DEF n
<1>3. /\ u \in Seq(S)
      /\ Len(u) = IF 1 <= n THEN n - 1 + 1 ELSE 0
      /\ \A i \in 1..(n - 1 + 1) : u[i] = s[1 + i - 1]
  BY <1>1, <1>2, SubSeqProperties
<1> HIDE DEF u
<1>4. Len(u) = n
  BY <1>1, <1>3
<1>5. ASSUME NEW i \in 1..n PROVE u[i] = s[i]
  <2>1. i \in 1..(n - 1 + 1) /\ 1 + i - 1 = i
    BY <1>1, <1>5
  <2>2. QED
    BY <1>3, <2>1
<1>6. QED
  BY <1>3, <1>4, <1>5 DEF n, u

(* Dropping the last element of both. *)
LEMMA WithoutLastOfEnd ==
  ASSUME NEW S, NEW h \in Seq(S), NEW t \in Seq(S), EndOf(h, t), Len(h) >= 1
  PROVE  EndOf(SubSeq(h, 1, Len(h) - 1), SubSeq(t, 1, Len(t) - 1))
<1> DEFINE hs == SubSeq(h, 1, Len(h) - 1)
           ts == SubSeq(t, 1, Len(t) - 1)
<1>1. Len(h) \in Nat /\ Len(t) \in Nat /\ Len(h) <= Len(t) /\ Len(t) >= 1
  BY LenProperties DEF EndOf
<1>2. Len(hs) = Len(h) - 1 /\ \A i \in 1..(Len(h) - 1) : hs[i] = h[i]
  BY WithoutLast
<1>3. Len(ts) = Len(t) - 1 /\ \A i \in 1..(Len(t) - 1) : ts[i] = t[i]
  BY <1>1, WithoutLast
<1> HIDE DEF hs, ts
<1>4. ASSUME NEW i \in 1..Len(hs)
      PROVE  hs[i] = ts[Len(ts) - Len(hs) + i]
  <2>1. i \in 1..(Len(h) - 1) /\ i \in 1..Len(h)
    BY <1>1, <1>2, <1>4
  <2>2. Len(ts) - Len(hs) + i = Len(t) - Len(h) + i
    BY <1>1, <1>2, <1>3, <2>1
  <2>3. Len(t) - Len(h) + i \in 1..(Len(t) - 1)
    BY <1>1, <2>1
  <2>4. h[i] = t[Len(t) - Len(h) + i]
    BY <2>1 DEF EndOf
  <2>5. QED
    BY <1>2, <1>3, <2>1, <2>2, <2>3, <2>4
<1>5. Len(hs) <= Len(ts)
  BY <1>1, <1>2, <1>3
<1>6. QED
  BY <1>4, <1>5 DEF EndOf, hs, ts

(* A wrapped stack pointer is one. *)
LEMMA WrapInRange ==
  ASSUME NEW x \in Int
  PROVE  Wrap(x) \in SpRange
<1> DEFINE N == 2 * Half
<1>1. N \in Nat /\ N > 0
  BY WidthAssumption
<1>2. x % N \in 0..(N - 1)
  <2> HIDE DEF N
  <2> QED BY <1>1
<1>3. QED
  BY <1>2 DEF Wrap, SpRange

(* What the snapshot of a typed CPU is. *)
LEMMA SnapshotTyped ==
  ASSUME CpuTyped
  PROVE  Snapshot \in Snapshots
BY DEF CpuTyped, Snapshot, Snapshots

(* An instruction keeps the CPU typed. *)
LEMMA ExecuteTyped ==
  ASSUME CpuTyped, Execute
  PROVE  CpuTyped'
<1> DEFINE i == prog[pc]
<1>1. i \in Instructions
  BY ProgramAssumption DEF CpuTyped
<1>2. i.to \subseteq Addr /\ i.after \in Addr
  BY <1>1 DEF Instructions
<1>3. prog' \in Programs
  BY DEF CpuTyped, Execute
<1>4. sp \in Int /\ sp + 2 \in Int /\ sp - 2 \in Int
  BY WidthAssumption DEF CpuTyped, SpRange
<1>5. Wrap(sp + 2) \in SpRange /\ Wrap(sp - 2) \in SpRange
  BY <1>4, WrapInRange
<1>6. ASSUME NEW word \in Addr, Push(word)
      PROVE  sp' \in SpRange /\ stack' \in [SpRange -> Addr]
  BY <1>5, <1>6 DEF Push, CpuTyped
<1>7. Entry \in Addr
  BY ProgramAssumption
<1> HIDE DEF i
<1>8. CASE i.class = "plain" /\ pc' \in i.to /\ UNCHANGED <<sp, stack, level>>
  BY <1>8, <1>2, <1>3 DEF CpuTyped
<1>9. CASE i.class = "call" /\ pc' \in i.to /\ Push(i.after)
  BY <1>9, <1>2, <1>3, <1>6 DEF CpuTyped
<1>10. CASE i.class = "ret" /\ pc' = stack[sp] /\ sp' = Wrap(sp + 2) /\ UNCHANGED stack
  BY <1>10, <1>3, <1>5 DEF CpuTyped
<1>11. CASE Skip(i)
  BY <1>11, <1>2, <1>3 DEF CpuTyped, Skip
<1>12. CASE i.class = "push" /\ pc' = i.after /\ Push(Entry)
  BY <1>12, <1>2, <1>3, <1>6, <1>7 DEF CpuTyped
<1>13. CASE i.class = "pop" /\ pc' = i.after /\ sp' = Wrap(sp + 2) /\ UNCHANGED stack
  BY <1>13, <1>2, <1>3, <1>5 DEF CpuTyped
<1>14. QED
  BY <1>8, <1>9, <1>10, <1>11, <1>12, <1>13 DEF Execute, i

(* Neither history nor trail holds a snapshot at first. *)
LEMMA InitInv == Init => IInv
<1> SUFFICES ASSUME Init PROVE IInv
  OBVIOUS
<1>1. << >> \in Seq(Snapshots)
  OBVIOUS
<1>2. InitSp \in SpRange
  BY WidthAssumption DEF SpRange
<1>3. CpuTyped
  BY <1>2, ProgramAssumption DEF Init, CpuTyped
<1>4. HistoryInv
  BY <1>1 DEF Init, HistoryInv, EndOf
<1>5. QED
  BY <1>3, <1>4 DEF IInv

(* The first instruction of a step: one snapshot to both sequences.        *)
LEMMA BeginInv ==
  ASSUME IInv, NEW l, Begin(l)
  PROVE  IInv'
<1>1. Snapshot \in Snapshots
  BY SnapshotTyped DEF IInv
<1> DEFINE kept == IF Len(history) >= MaxHistory THEN Tail(history) ELSE history
<1>2. history' = Append(kept, Snapshot) /\ trail' = Append(trail, Snapshot)
  BY DEF Begin, PushHistory
<1>3. history \in Seq(Snapshots) /\ trail \in Seq(Snapshots) /\ EndOf(history, trail)
  BY DEF IInv, HistoryInv
<1>4. kept \in Seq(Snapshots) /\ EndOf(kept, trail)
  <2>1. CASE Len(history) >= MaxHistory
    <3>1. history # << >>
      BY <1>3, <2>1, LimitAssumption
    <3>2. Tail(history) \in Seq(Snapshots)
      BY <1>3, <3>1, HeadTailProperties
    <3>3. QED
      BY <1>3, <2>1, <3>1, <3>2, TailOfEnd
  <2>2. CASE ~(Len(history) >= MaxHistory)
    BY <1>3, <2>2
  <2>3. QED
    BY <2>1, <2>2
<1> HIDE DEF kept
<1>5. HistoryInv'
  <2>1. history' \in Seq(Snapshots) /\ trail' \in Seq(Snapshots)
    BY <1>1, <1>2, <1>3, <1>4, AppendProperties
  <2>2. EndOf(history', trail')
    BY <1>1, <1>2, <1>3, <1>4, AppendToEnd
  <2>3. QED
    BY <2>1, <2>2 DEF HistoryInv, EndOf
<1>6. CpuTyped'
  BY DEF IInv, CpuTyped, Begin, cpu
<1>7. QED
  BY <1>5, <1>6 DEF IInv

(* What a step back leaves the CPU in. *)
LEMMA StepBackSnapshot ==
  ASSUME IInv, StepBack
  PROVE  /\ Len(history) \in 1..Len(trail)
         /\ Snapshot' = trail[Len(trail)]
         /\ Snapshot' \in Snapshots
<1> DEFINE s == history[Len(history)]
<1>1. history \in Seq(Snapshots) /\ trail \in Seq(Snapshots) /\ history # << >>
  BY DEF IInv, HistoryInv, StepBack
<1>2. Len(history) \in 1..Len(trail) /\ Len(history) \in 1..Len(history)
  BY <1>1 DEF IInv, HistoryInv, EndOf
<1>3. s \in Snapshots
  BY <1>1, <1>2
<1>4. s = trail[Len(trail)]
  <2>1. Len(trail) - Len(history) + Len(history) = Len(trail)
    BY <1>2
  <2>2. QED
    BY <1>2, <2>1 DEF IInv, HistoryInv, EndOf
<1>5. Snapshot' = [pc |-> s.pc, sp |-> s.sp, stack |-> s.stack]
  BY DEF StepBack, Snapshot
<1>6. s = [pc |-> s.pc, sp |-> s.sp, stack |-> s.stack]
  BY <1>3 DEF Snapshots
<1>7. QED
  BY <1>2, <1>3, <1>4, <1>5, <1>6

(* A step back takes the last snapshot off both. *)
LEMMA StepBackInv ==
  ASSUME IInv, StepBack
  PROVE  IInv'
<1>1. Len(history) \in 1..Len(trail) /\ Snapshot' \in Snapshots
  BY StepBackSnapshot
<1>2. CpuTyped'
  <2>1. prog' \in Programs
    BY DEF IInv, CpuTyped, StepBack
  <2>2. pc' \in Addr /\ sp' \in SpRange /\ stack' \in [SpRange -> Addr]
    BY <1>1 DEF Snapshot, Snapshots
  <2>3. QED
    BY <2>1, <2>2 DEF CpuTyped
<1>3. history \in Seq(Snapshots) /\ trail \in Seq(Snapshots) /\ EndOf(history, trail)
  BY DEF IInv, HistoryInv
<1>4. /\ history' = SubSeq(history, 1, Len(history) - 1)
      /\ trail' = SubSeq(trail, 1, Len(trail) - 1)
  BY DEF StepBack
<1>5. Len(history) >= 1 /\ Len(trail) >= 1
  BY <1>1, <1>3
<1>6. history' \in Seq(Snapshots) /\ trail' \in Seq(Snapshots)
  BY <1>3, <1>4, <1>5, WithoutLast
<1>7. EndOf(history', trail')
  BY <1>3, <1>4, <1>5, WithoutLastOfEnd
<1>8. QED
  BY <1>2, <1>6, <1>7 DEF IInv, HistoryInv, EndOf

(* Inside the loops the history stays. *)
LEMMA IterationInv ==
  ASSUME IInv, Execute
  PROVE  IInv'
<1>1. CpuTyped'
  BY ExecuteTyped DEF IInv
<1>2. HistoryInv'
  BY DEF IInv, HistoryInv, EndOf, Execute
<1>3. QED
  BY <1>1, <1>2 DEF IInv

(* Every step keeps the invariant. *)
LEMMA NextInv == IInv /\ [Next]_vars => IInv'
<1> SUFFICES ASSUME IInv, [Next]_vars PROVE IInv'
  OBVIOUS
<1>1. CASE Step
  BY <1>1, BeginInv DEF Step
<1>2. CASE StepIn
  BY <1>2, BeginInv DEF StepIn
<1>3. CASE StepOut
  BY <1>3, BeginInv DEF StepOut
<1>4. CASE StepBack
  BY <1>4, StepBackInv
<1>5. CASE Iteration
  <2>1. Execute
    BY <1>5 DEF Iteration, OverIteration, WalkIteration, InAsmIteration, InCIteration,
                SingleInstruction, OutIteration
  <2>2. QED
    BY <2>1, IterationInv
<1>6. CASE UNCHANGED vars
  BY <1>6 DEF IInv, CpuTyped, HistoryInv, EndOf, vars, cpu
<1>7. QED
  BY <1>1, <1>2, <1>3, <1>4, <1>5, <1>6 DEF Next

(* The history is always the end of the trail, and the CPU typed. *)
THEOREM HistoryIsEndOfTrail == Spec => []IInv
BY InitInv, NextInv, PTL DEF Spec

(* A step back restores what the last step not taken back started from.    *)
THEOREM StepBackRestoring == Spec => StepBackRestores
<1>1. IInv /\ [Next]_vars => [StepBack => Snapshot' = trail[Len(trail)]]_vars
  BY StepBackSnapshot
<1>2. QED
  BY <1>1, HistoryIsEndOfTrail, PTL DEF Spec, StepBackRestores
-----------------------------------------------------------------------------
(* Inside a loop the counter is below its limit and no more calls are      *)
(* open than instructions have been executed.                              *)
Limit(l) ==
  IF l = "walk" THEN WalkLimit
  ELSE IF l \in {"inAsm", "inC"} THEN InLimit
  ELSE IF l = "one" THEN 1 ELSE OverLimit

LoopInv ==
  /\ loop \in Loops \cup {"idle"}
  /\ iter \in Nat /\ iter < Limit(loop)
  /\ loop = "idle" => iter = 0
  /\ depth \in 0..OverLimit
  /\ loop # "idle" => depth <= iter
  /\ startPc \in Addr /\ startSp \in SpRange
  /\ level \in Int /\ held \in BOOLEAN
  /\ Len(history) <= MaxHistory

(* No limit exceeds that of a step over. *)
LEMMA Limits == \A l : Limit(l) \in 1..OverLimit
BY LimitAssumption DEF Limit

(* No loop runs and no call is open at first. *)
LEMMA InitLoop == Init => LoopInv
<1> SUFFICES ASSUME Init PROVE LoopInv
  OBVIOUS
<1>1. InitSp \in SpRange /\ Entry \in Addr
  BY WidthAssumption, ProgramAssumption DEF SpRange
<1>2. Len(history) <= MaxHistory  BY LimitAssumption DEF Init
<1> QED  BY <1>1, <1>2, Limits, LimitAssumption DEF Init, LoopInv

(* A step begins at zero, and the cap drops the oldest snapshot. *)
LEMMA BeginLoop ==
  ASSUME IInv, LoopInv, NEW l \in Loops, Begin(l)
  PROVE  LoopInv'
<1>1. /\ loop' = l /\ iter' = 0 /\ depth' = 0 /\ level' = 0 /\ held' = TRUE /\ l # "idle"
      /\ startPc' = pc /\ startSp' = sp
  BY DEF Begin, LoopInv, Loops, OverLoops
<1>2. Len(history') <= MaxHistory
  <2>1. /\ history \in Seq(Snapshots) /\ Snapshot \in Snapshots
        /\ MaxHistory \in Nat \ {0} /\ Len(history) <= MaxHistory
    BY SnapshotTyped, LimitAssumption DEF IInv, HistoryInv, LoopInv
  <2>2. CASE Len(history) >= MaxHistory
    <3>1. history' = Append(Tail(history), Snapshot)
      BY <2>2 DEF Begin, PushHistory
    <3>2. Tail(history) \in Seq(Snapshots) /\ Len(Tail(history)) = Len(history) - 1
      BY <2>1, <2>2, HeadTailProperties
    <3>3. Len(history') = Len(history) - 1 + 1
      BY <2>1, <3>1, <3>2, AppendProperties
    <3> QED  BY <2>1, <3>3
  <2>3. CASE ~(Len(history) >= MaxHistory)
    <3>1. history' = Append(history, Snapshot)
      BY <2>3 DEF Begin, PushHistory
    <3>2. Len(history') = Len(history) + 1
      BY <2>1, <3>1, AppendProperties
    <3> QED  BY <2>1, <2>3, <3>2
  <2> QED  BY <2>2, <2>3
<1> QED
  BY <1>1, <1>2, Limits, LimitAssumption DEF LoopInv, IInv, CpuTyped

(* A loop ends before its counter reaches the limit. *)
LEMMA IterateLoop ==
  ASSUME LoopInv, loop # "idle", NEW stop, Iterate(stop, Limit(loop))
  PROVE  /\ loop' \in Loops \cup {"idle"}
         /\ iter' \in Nat /\ iter' < Limit(loop')
         /\ loop' = "idle" => iter' = 0
         /\ loop' # "idle" => iter' = iter + 1
         /\ iter + 1 <= OverLimit
<1>1. Limit(loop) \in 1..OverLimit /\ Limit("idle") \in 1..OverLimit /\ OverLimit \in Nat
  BY Limits, LimitAssumption
<1>2. iter \in Nat /\ iter < Limit(loop) /\ loop \in Loops
  BY DEF LoopInv
<1>3. CASE loop' = "idle" /\ iter' = 0
  BY <1>1, <1>2, <1>3
<1>4. CASE iter' = iter + 1 /\ loop' = loop /\ iter + 1 # Limit(loop)
  BY <1>1, <1>2, <1>4
<1> QED
  BY <1>3, <1>4 DEF Iterate

(* An instruction is a call, a return or neither. *)
LEMMA ExecuteLevel ==
  ASSUME Execute, level \in Int, held \in BOOLEAN
  PROVE  level' \in Int /\ held' \in BOOLEAN
<1>1. level' \in Int
  BY DEF Execute, Skip
<1>2. held' = (held /\ sp' <= startSp)
  BY DEF Execute
<1> QED  BY <1>1, <1>2, Zenon

(* One instruction in a loop opens one call at most. *)
LEMMA IterationLoop ==
  ASSUME LoopInv, Execute, loop # "idle", NEW stop, Iterate(stop, Limit(loop)),
         depth' \in {0, depth, depth + 1} \/ (depth > 0 /\ depth' = depth - 1)
  PROVE  LoopInv'
<1>1. level' \in Int /\ held' \in BOOLEAN  BY ExecuteLevel DEF LoopInv
<1>2. /\ depth \in 0..OverLimit /\ depth <= iter /\ iter \in Nat /\ OverLimit \in Nat
      /\ startPc \in Addr /\ startSp \in SpRange /\ Len(history) <= MaxHistory
  BY LimitAssumption DEF LoopInv
<1>3. UNCHANGED <<history, startPc, startSp>>  BY DEF Execute
<1>4. /\ loop' \in Loops \cup {"idle"}
      /\ iter' \in Nat /\ iter' < Limit(loop')
      /\ loop' = "idle" => iter' = 0
      /\ loop' # "idle" => iter' = iter + 1
      /\ iter + 1 <= OverLimit
  BY IterateLoop
<1>5. depth' \in 0..OverLimit /\ (loop' # "idle" => depth' <= iter')
  BY <1>2, <1>4
<1> QED  BY <1>1, <1>2, <1>3, <1>4, <1>5 DEF LoopInv

(* Each iteration has the limit of its loop. *)
LEMMA LoopsStep ==
  ASSUME LoopInv, Iteration
  PROVE  LoopInv'
<1>1. CASE OverIteration
  <2>1. loop \in OverLoops /\ Execute
    BY <1>1 DEF OverIteration
  <2>2. Limit(loop) = OverLimit
    BY <2>1 DEF Limit, OverLoops
  <2>3. PICK stop : Iterate(stop, Limit(loop))
    BY <1>1, <2>2 DEF OverIteration
  <2>4. depth' \in {0, depth, depth + 1} \/ (depth > 0 /\ depth' = depth - 1)
    BY <1>1 DEF OverIteration, CallDepth
  <2> QED  BY <2>1, <2>3, <2>4, IterationLoop DEF OverLoops
<1>2. CASE WalkIteration
  <2>1. loop = "walk" /\ Execute /\ Limit(loop) = WalkLimit /\ depth' = depth
    BY <1>2 DEF WalkIteration, Limit, OverLoops
  <2>2. PICK stop : Iterate(stop, Limit(loop))  BY <1>2, <2>1 DEF WalkIteration
  <2> QED  BY <2>1, <2>2, IterationLoop
<1>3. CASE InAsmIteration
  <2>1. loop = "inAsm" /\ Execute /\ Limit(loop) = InLimit /\ depth' = depth
    BY <1>3 DEF InAsmIteration, Limit, OverLoops
  <2>2. PICK stop : Iterate(stop, Limit(loop))  BY <1>3, <2>1 DEF InAsmIteration
  <2> QED  BY <2>1, <2>2, IterationLoop
<1>4. CASE InCIteration
  <2>1. loop = "inC" /\ Execute /\ Limit(loop) = InLimit /\ depth' = depth
    BY <1>4 DEF InCIteration, Limit, OverLoops
  <2>2. PICK stop : Iterate(stop, Limit(loop))  BY <1>4, <2>1 DEF InCIteration
  <2> QED  BY <2>1, <2>2, IterationLoop
<1>5. CASE SingleInstruction
  <2>1. loop = "one" /\ Execute /\ Limit(loop) = 1 /\ depth' = depth
    BY <1>5 DEF SingleInstruction, Limit, OverLoops
  <2>2. PICK stop : Iterate(stop, Limit(loop))  BY <1>5, <2>1 DEF SingleInstruction
  <2> QED  BY <2>1, <2>2, IterationLoop
<1>6. CASE OutIteration
  <2>1. loop = "out" /\ Execute /\ Limit(loop) = OverLimit /\ depth' = depth
    BY <1>6 DEF OutIteration, Limit, OverLoops
  <2>2. PICK stop : Iterate(stop, Limit(loop))  BY <1>6, <2>1 DEF OutIteration
  <2> QED  BY <2>1, <2>2, IterationLoop
<1> QED
  BY <1>1, <1>2, <1>3, <1>4, <1>5, <1>6 DEF Iteration

(* Every step keeps the counters of the loops within their limits. *)
LEMMA NextLoop == IInv /\ LoopInv /\ [Next]_vars => LoopInv'
<1> SUFFICES ASSUME IInv, LoopInv, [Next]_vars PROVE LoopInv'
  OBVIOUS
<1>1. CASE Step \/ StepIn \/ StepOut
  <2>1. PICK l \in Loops : Begin(l)
    BY <1>1 DEF Step, StepIn, StepOut, Loops, OverLoops
  <2> QED  BY <2>1, BeginLoop
<1>2. CASE StepBack
  <2>1. UNCHANGED <<loop, iter, depth, startPc, startSp, held>> /\ level' = 0
    BY <1>2 DEF StepBack
  <2>2. Len(history') <= MaxHistory
    <3>1. history \in Seq(Snapshots) /\ Len(history) >= 1
      BY <1>2, StepBackSnapshot DEF IInv, HistoryInv
    <3>2. Len(history') = Len(history) - 1
      BY <1>2, <3>1, WithoutLast DEF StepBack
    <3>3. Len(history) \in Nat /\ MaxHistory \in Nat /\ Len(history) <= MaxHistory
      BY <3>1, LimitAssumption DEF LoopInv
    <3> QED  BY <3>2, <3>3
  <2> QED  BY <2>1, <2>2 DEF LoopInv
<1>3. CASE Iteration
  BY <1>3, LoopsStep
<1>4. CASE UNCHANGED vars
  BY <1>4 DEF LoopInv, vars
<1> QED  BY <1>1, <1>2, <1>3, <1>4 DEF Next

(* The stack pointer keeps its width, the history its cap and each loop    *)
(* its limit, for every program, every limit and every width (the four     *)
(* step commands of z80_target and push_history).                          *)
THEOREM SteppingTypeCorrect == Spec => []TypeOK
<1>1. IInv /\ LoopInv => TypeOK
  <2> SUFFICES ASSUME IInv, LoopInv PROVE TypeOK
    OBVIOUS
  <2>1. iter \in 0..OverLimit
    BY Limits, LimitAssumption DEF LoopInv
  <2> QED
    BY <2>1, SnapshotTyped DEF TypeOK, IInv, CpuTyped, HistoryInv, LoopInv
<1> QED
  BY <1>1, InitLoop, NextLoop, HistoryIsEndOfTrail, PTL DEF Spec
-----------------------------------------------------------------------------
(* The frames on the stack. The k-th of n holds its return address ret[k]  *)
(* at at[k], its words below that, and then, at the word below, the return *)
(* address of the next. Under the first there is only what the program was *)
(* started with, where any return leads to the entry.                      *)
Framed(n, at, ret, c, s, m) ==
  LET w == Words[prog]
  IN  /\ n \in Nat \ {0} /\ at \in [Nat -> SpRange] /\ ret \in [Nat -> Addr]
      /\ s = at[n] - 2 * w[c]
      /\ \A k \in 1..n : m[at[k]] = ret[k]
      /\ \A k \in 1..(n - 1) : at[k] - 2 * w[ret[k + 1]] = at[k + 1] + 2
      /\ \A j, k \in 1..n : j < k => at[k] < at[j]
      /\ ret[1] = Entry /\ \A x \in SpRange : x >= at[1] => m[x] = Entry

(* The frame the step began in is the l-th below the last, holds what it   *)
(* held then, and the frames above it lie below that.                      *)
Base(n, at, s, l) ==
  /\ l \in 0..(n - 1)
  /\ startSp = at[n - l] - 2 * Words[prog][startPc]
  /\ \A k \in (n - l + 1)..n : at[k] <= startSp - 2
  /\ s <= startSp

(* What an instruction does to the stack. *)
Kept     == sp' = sp /\ stack' = stack /\ Words[prog][pc'] = Words[prog][pc] /\ level' = level
Called   == /\ IsCall(pc) /\ ~IsRet(pc) /\ sp' = sp - 2 /\ level' = level + 1
            /\ Words[prog][pc'] = 0
            /\ \E r \in Addr : /\ stack' = [stack EXCEPT ![sp'] = r]
                               /\ Words[prog][r] = Words[prog][pc]
Returned == /\ IsRet(pc) /\ ~IsCall(pc) /\ sp' = sp + 2 /\ level' = level - 1
            /\ Words[prog][pc] = 0 /\ pc' = stack[sp] /\ stack' = stack
Pushed   == /\ ~IsCall(pc) /\ ~IsRet(pc) /\ sp' = sp - 2 /\ level' = level
            /\ Words[prog][pc'] = Words[prog][pc] + 1
            /\ stack' = [stack EXCEPT ![sp'] = Entry]
Popped   == /\ ~IsCall(pc) /\ ~IsRet(pc) /\ sp' = sp + 2 /\ level' = level
            /\ Words[prog][pc] > 0 /\ Words[prog][pc'] = Words[prog][pc] - 1
            /\ stack' = stack

(* A number in range is its own remainder; *)
LEMMA SmallMod ==
  ASSUME NEW N \in Nat, N > 0, NEW x \in 0..(N - 1)
  PROVE  x % N = x
OBVIOUS

(* one below it wraps to the top; *)
LEMMA NegativeMod ==
  ASSUME NEW N \in Nat, N > 0, NEW x \in (-N)..(-1)
  PROVE  x % N = x + N
OBVIOUS

(* and one above it to the bottom. *)
LEMMA LargeMod ==
  ASSUME NEW N \in Nat, N > 0, NEW x \in N..(2 * N - 1)
  PROVE  x % N = x - N
OBVIOUS

(* A stack pointer that does not leave its half has not wrapped. *)
LEMMA NoWrap ==
  ASSUME NEW x \in SpRange, NEW d \in {-2, 2}, x < Half <=> Wrap(x + d) < Half
  PROVE  Wrap(x + d) = x + d
<1> DEFINE N == 2 * Half
<1>1. N \in Nat /\ N > 0 /\ Half \in Nat /\ Half > 2 /\ x \in 0..(N - 1)
  BY WidthAssumption DEF SpRange
<1>2. CASE x + d \in 0..(N - 1)
  <2> HIDE DEF N
  <2>1. (x + d) % N = x + d
    BY <1>1, <1>2, SmallMod
  <2> QED  BY <2>1 DEF Wrap, N
<1>3. CASE x + d \in (-N)..(-1)
  <2>1. (x + d) % N = x + d + N
    <3> HIDE DEF N
    <3> QED  BY <1>1, <1>3, NegativeMod
  <2>2. Wrap(x + d) = x + d + 2 * Half
    BY <2>1 DEF Wrap
  <2> QED  BY <1>1, <1>3, <2>2
<1>4. CASE x + d \in N..(2 * N - 1)
  <2>1. (x + d) % N = x + d - N
    <3> HIDE DEF N
    <3> QED  BY <1>1, <1>4, LargeMod
  <2>2. Wrap(x + d) = x + d - 2 * Half
    BY <2>1 DEF Wrap
  <2> QED  BY <1>1, <1>4, <2>2
<1> QED  BY <1>1, <1>2, <1>3, <1>4

(* The code's difference of two stack pointers two bytes apart. *)
LEMMA SmallDelta ==
  /\ Signed(Wrap(0)) = 0
  /\ Signed(Wrap(2)) = 2
  /\ Signed(Wrap(-2)) = -2
<1> DEFINE N == 2 * Half
<1>1. N \in Nat /\ N > 0 /\ Half \in Nat /\ Half > 2
  BY WidthAssumption
<1>2. 0 % N = 0 /\ 2 % N = 2 /\ (-2) % N = -2 + N
  <2>1. N > 4  BY <1>1
  <2> HIDE DEF N
  <2> QED  BY <1>1, <2>1, SmallMod, NegativeMod
<1> QED
  BY <1>1, <1>2 DEF Wrap, Signed

(* Within one half the cast does not change how stack pointers compare. *)
LEMMA SignedOrder ==
  ASSUME NEW x \in SpRange, NEW y \in SpRange, x < Half <=> y < Half
  PROVE  /\ Signed(x) >= Signed(y) <=> x >= y
         /\ Signed(x) > Signed(y) <=> x > y
BY WidthAssumption DEF Signed, SpRange

(* An instruction of a balanced program does one of the five. *)
LEMMA ExecuteKinds ==
  ASSUME CpuTyped, StackBalanced, Execute, OneHalf, OneHalf', level \in Int
  PROVE  Kept \/ Called \/ Returned \/ Pushed \/ Popped
<1> DEFINE i == prog[pc]
           w == Words[prog]
<1>1. /\ i \in Instructions /\ prog \in Programs /\ pc \in Addr /\ sp \in SpRange
      /\ \A a \in Addr : w[a] \in Nat
  BY ProgramAssumption DEF CpuTyped
<1>2. i.to \subseteq Addr /\ i.after \in Addr /\ i.class \in {"plain", "call", "ret", "push", "pop"}
  BY <1>1 DEF Instructions
<1>3. /\ i.class = "plain" => \A t \in i.to : w[t] = w[pc]
      /\ i.class = "call"  => (\A t \in i.to : w[t] = 0) /\ w[i.after] = w[pc]
      /\ i.class = "ret"   => w[pc] = 0 /\ (i.conditional => w[i.after] = 0)
      /\ i.class = "push"  => w[i.after] = w[pc] + 1
      /\ i.class = "pop"   => w[pc] > 0 /\ w[i.after] = w[pc] - 1
  BY <1>1 DEF StackBalanced, Balanced
<1>4. sp < Half <=> sp' < Half
  BY DEF OneHalf
<1>5. sp' = Wrap(sp - 2) => sp' = sp - 2
  <2> SUFFICES ASSUME sp' = Wrap(sp - 2) PROVE sp' = sp - 2  OBVIOUS
  <2>1. sp - 2 = sp + (-2)  BY <1>1 DEF SpRange
  <2> QED  BY <1>1, <1>4, <2>1, NoWrap
<1>6. sp' = Wrap(sp + 2) => sp' = sp + 2
  BY <1>1, <1>4, NoWrap
<1> HIDE DEF i, w
<1>7. CASE i.class = "plain" /\ pc' \in i.to /\ UNCHANGED <<sp, stack, level>>
  BY <1>3, <1>7 DEF Kept, w
<1>8. CASE i.class = "call" /\ pc' \in i.to /\ Push(i.after) /\ level' = level + 1
  <2>1. IsCall(pc) /\ ~IsRet(pc)  BY <1>8 DEF IsCall, IsRet, i
  <2> QED  BY <1>2, <1>3, <1>5, <1>8, <2>1 DEF Called, Push, w
<1>9. CASE i.class = "ret" /\ pc' = stack[sp] /\ sp' = Wrap(sp + 2)
           /\ level' = level - 1 /\ UNCHANGED stack
  <2>1. IsRet(pc) /\ ~IsCall(pc)  BY <1>9 DEF IsCall, IsRet, i
  <2> QED  BY <1>3, <1>6, <1>9, <2>1 DEF Returned, w
<1>10. CASE i.class \in {"call", "ret"} /\ i.conditional /\ Skip(i)
  BY <1>3, <1>10 DEF Kept, Skip, w
<1>11. CASE i.class = "push" /\ pc' = i.after /\ Push(Entry) /\ UNCHANGED level
  <2>1. ~IsRet(pc) /\ ~IsCall(pc)  BY <1>11 DEF IsCall, IsRet, i
  <2> QED  BY <1>3, <1>5, <1>11, <2>1 DEF Pushed, Push, w
<1>12. CASE i.class = "pop" /\ pc' = i.after /\ sp' = Wrap(sp + 2) /\ UNCHANGED <<stack, level>>
  <2>1. ~IsRet(pc) /\ ~IsCall(pc)  BY <1>12 DEF IsCall, IsRet, i
  <2> QED  BY <1>3, <1>6, <1>12, <2>1 DEF Popped, w
<1> QED
  BY <1>7, <1>8, <1>9, <1>10, <1>11, <1>12 DEF Execute, i

(* What a state of a step tells of the numbers in it. *)
LEMMA Numbers ==
  ASSUME CpuTyped
  PROVE  /\ sp \in SpRange /\ pc \in Addr /\ stack \in [SpRange -> Addr]
         /\ \A a \in Addr : Words[prog][a] \in Nat
         /\ SpRange \subseteq Nat /\ Entry \in Addr
BY ProgramAssumption, WidthAssumption DEF CpuTyped, SpRange

(* No frame lies below the last. *)
LEMMA LastIsLowest ==
  ASSUME NEW n, NEW at, NEW ret, NEW c, NEW s, NEW m, Framed(n, at, ret, c, s, m)
  PROVE  \A k \in 1..n : at[k] \in Nat /\ at[k] >= at[n]
<1> SUFFICES ASSUME NEW k \in 1..n PROVE at[k] \in Nat /\ at[k] >= at[n]
  OBVIOUS
<1>1. n \in Nat \ {0} /\ at \in [Nat -> SpRange] /\ SpRange \subseteq Nat
  BY WidthAssumption DEF Framed, SpRange
<1>2. at[k] \in Nat /\ at[n] \in Nat
  <2>1. k \in Nat /\ n \in Nat  BY <1>1
  <2>2. at[k] \in SpRange /\ at[n] \in SpRange  BY <1>1, <2>1
  <2> QED  BY <1>1, <2>2
<1>3. CASE k < n
  <2>1. at[n] < at[k]
    BY <1>1, <1>3 DEF Framed
  <2> QED  BY <1>2, <2>1
<1>4. CASE k = n
  BY <1>2, <1>4
<1> QED  BY <1>1, <1>3, <1>4

(* The frames stay when neither the stack nor the words on it change. *)
LEMMA KeptFrames ==
  ASSUME CpuTyped, CpuTyped', Kept, NEW n, NEW at, NEW ret,
         Framed(n, at, ret, pc, sp, stack)
  PROVE  /\ Framed(n, at, ret, pc', sp', stack')
         /\ Base(n, at, sp, level) /\ sp' <= startSp => Base(n, at, sp', level')
BY DEF Kept, Framed, Base

(* A word pushed is a word more of the last frame. *)
LEMMA PushedFrames ==
  ASSUME CpuTyped, CpuTyped', Pushed, NEW n, NEW at, NEW ret,
         Framed(n, at, ret, pc, sp, stack)
  PROVE  /\ Framed(n, at, ret, pc', sp', stack')
         /\ Base(n, at, sp, level) /\ sp' <= startSp => Base(n, at, sp', level')
<1>1. /\ n \in Nat \ {0} /\ at \in [Nat -> SpRange] /\ ret \in [Nat -> Addr]
      /\ sp = at[n] - 2 * Words[prog][pc] /\ sp' = sp - 2
      /\ Words[prog][pc'] = Words[prog][pc] + 1 /\ Words[prog][pc] \in Nat
      /\ stack' = [stack EXCEPT ![sp'] = Entry] /\ level' = level
  BY Numbers DEF Framed, Pushed
<1>2. \A k \in 1..n : at[k] \in Nat /\ at[k] >= at[n]
  BY LastIsLowest
<1>3. sp' = at[n] - 2 * Words[prog][pc']
  BY <1>1, <1>2
<1>4. \A x \in SpRange : x >= at[n] => stack'[x] = stack[x]
  <2>1. sp' < at[n]  BY <1>1, <1>2
  <2> QED  BY <1>1, <1>2, <2>1, Numbers
<1>5. Framed(n, at, ret, pc', sp', stack')
  <2>1. \A k \in 1..n : stack'[at[k]] = ret[k]
    BY <1>1, <1>2, <1>4 DEF Framed
  <2>2. \A x \in SpRange : x >= at[1] => stack'[x] = Entry
    <3>1. at[1] \in Nat /\ at[1] >= at[n] /\ at[n] \in Nat  BY <1>1, <1>2
    <3>2. \A x \in SpRange : x >= at[1] => x >= at[n]  BY <3>1, Numbers
    <3> QED  BY <1>4, <3>2 DEF Framed
  <2> QED  BY <1>3, <2>1, <2>2 DEF Framed
<1>6. Base(n, at, sp, level) /\ sp' <= startSp => Base(n, at, sp', level')
  BY <1>1 DEF Base
<1> QED  BY <1>5, <1>6

(* A word popped is one less of the last frame. *)
LEMMA PoppedFrames ==
  ASSUME CpuTyped, CpuTyped', Popped, NEW n, NEW at, NEW ret,
         Framed(n, at, ret, pc, sp, stack)
  PROVE  /\ Framed(n, at, ret, pc', sp', stack')
         /\ Base(n, at, sp, level) /\ sp' <= startSp => Base(n, at, sp', level')
<1>1. /\ n \in Nat \ {0} /\ at[n] \in Nat
      /\ sp = at[n] - 2 * Words[prog][pc] /\ sp' = sp + 2
      /\ Words[prog][pc'] = Words[prog][pc] - 1 /\ Words[prog][pc] \in Nat
      /\ stack' = stack /\ level' = level
  BY Numbers DEF Framed, Popped
<1>2. sp' = at[n] - 2 * Words[prog][pc']
  BY <1>1
<1> QED
  BY <1>1, <1>2 DEF Framed, Base

(* A call adds a frame, above those that were there. *)
LEMMA CalledFrames ==
  ASSUME CpuTyped, CpuTyped', Called, level \in Int, startSp \in Nat, NEW n, NEW at, NEW ret,
         Framed(n, at, ret, pc, sp, stack)
  PROVE  \E at2, ret2 :
           /\ Framed(n + 1, at2, ret2, pc', sp', stack')
           /\ Base(n, at, sp, level) /\ sp' <= startSp => Base(n + 1, at2, sp', level')
<1>1. /\ n \in Nat \ {0} /\ at \in [Nat -> SpRange] /\ ret \in [Nat -> Addr]
      /\ sp = at[n] - 2 * Words[prog][pc] /\ sp' = sp - 2
      /\ Words[prog][pc'] = 0 /\ Words[prog][pc] \in Nat
      /\ level' = level + 1 /\ sp' \in SpRange /\ sp' \in Nat /\ sp \in Nat
  BY Numbers DEF Framed, Called, CpuTyped
<1>2. PICK r \in Addr : /\ stack' = [stack EXCEPT ![sp'] = r]
                        /\ Words[prog][r] = Words[prog][pc]
  BY DEF Called
<1> DEFINE at2  == [at EXCEPT ![n + 1] = sp']
           ret2 == [ret EXCEPT ![n + 1] = r]
<1>3. \A k \in 1..n : at[k] \in Nat /\ at[k] >= at[n] /\ at[k] > sp'
  <2>1. \A k \in 1..n : at[k] \in Nat /\ at[k] >= at[n]
    BY LastIsLowest
  <2>2. sp' < at[n] /\ at[n] \in Nat  BY <1>1, <2>1
  <2> QED  BY <1>1, <2>1, <2>2
<1>4. /\ at2 \in [Nat -> SpRange] /\ ret2 \in [Nat -> Addr]
      /\ at2[n + 1] = sp' /\ ret2[n + 1] = r
      /\ \A k \in 1..n : at2[k] = at[k] /\ ret2[k] = ret[k]
  BY <1>1, <1>2
<1> HIDE DEF at2, ret2
<1>5. \A x \in SpRange : x > sp' => stack'[x] = stack[x]
  BY <1>1, <1>2, Numbers
<1>6. stack'[sp'] = r
  BY <1>1, <1>2, Numbers
<1>7. Framed(n + 1, at2, ret2, pc', sp', stack')
  <2>1. n + 1 \in Nat \ {0} /\ sp' = at2[n + 1] - 2 * Words[prog][pc']
    BY <1>1, <1>4
  <2>2. \A k \in 1..(n + 1) : stack'[at2[k]] = ret2[k]
    <3>1. ASSUME NEW k \in 1..n PROVE stack'[at2[k]] = ret2[k]
      BY <1>1, <1>3, <1>4, <1>5 DEF Framed
    <3>2. \A k \in 1..(n + 1) : k \in 1..n \/ k = n + 1  BY <1>1
    <3> QED  BY <1>4, <1>6, <3>1, <3>2
  <2>3. \A k \in 1..(n + 1 - 1) : at2[k] - 2 * Words[prog][ret2[k + 1]] = at2[k + 1] + 2
    <3>1. ASSUME NEW k \in 1..(n - 1)
          PROVE  at2[k] - 2 * Words[prog][ret2[k + 1]] = at2[k + 1] + 2
      <4>1. k \in 1..n /\ k + 1 \in 1..n  BY <1>1, <3>1
      <4> QED  BY <1>4, <4>1 DEF Framed
    <3>2. at2[n] - 2 * Words[prog][ret2[n + 1]] = at2[n + 1] + 2
      <4>1. n \in 1..n /\ at[n] \in Nat  BY <1>1, <1>3
      <4> QED  BY <1>1, <1>2, <1>4, <4>1
    <3>3. \A k \in 1..(n + 1 - 1) : k \in 1..(n - 1) \/ k = n  BY <1>1
    <3> QED  BY <3>1, <3>2, <3>3
  <2>4. \A j, k \in 1..(n + 1) : j < k => at2[k] < at2[j]
    <3> SUFFICES ASSUME NEW j \in 1..(n + 1), NEW k \in 1..(n + 1), j < k
                 PROVE  at2[k] < at2[j]
      OBVIOUS
    <3>1. j \in 1..n  BY <1>1
    <3>2. CASE k \in 1..n  BY <1>4, <3>1, <3>2 DEF Framed
    <3>3. CASE k = n + 1  BY <1>3, <1>4, <3>1, <3>3
    <3> QED  BY <1>1, <3>2, <3>3
  <2>5. ret2[1] = Entry /\ \A x \in SpRange : x >= at2[1] => stack'[x] = Entry
    <3>1. 1 \in 1..n /\ at2[1] = at[1] /\ ret2[1] = ret[1] /\ at[1] > sp' /\ at[1] \in Nat
      BY <1>1, <1>3, <1>4
    <3>2. \A x \in SpRange : x >= at[1] => x > sp'
      <4>1. SpRange \subseteq Nat  BY Numbers
      <4> QED  BY <1>1, <3>1, <4>1
    <3> QED  BY <1>5, <3>1, <3>2 DEF Framed
  <2> QED  BY <1>4, <2>1, <2>2, <2>3, <2>4, <2>5 DEF Framed
<1>8. ASSUME Base(n, at, sp, level), sp' <= startSp
      PROVE  Base(n + 1, at2, sp', level')
  <2>1. level + 1 \in 0..(n + 1 - 1) /\ n + 1 - (level + 1) = n - level /\ n - level \in 1..n
    BY <1>1, <1>8 DEF Base
  <2>2. startSp = at2[n + 1 - (level + 1)] - 2 * Words[prog][startPc]
    BY <1>4, <1>8, <2>1 DEF Base
  <2>3. \A k \in (n + 1 - (level + 1) + 1)..(n + 1) : at2[k] <= startSp - 2
    <3> SUFFICES ASSUME NEW k \in (n - level + 1)..(n + 1) PROVE at2[k] <= startSp - 2
      BY <2>1
    <3>1. CASE k = n + 1
      BY <1>1, <1>4, <1>8, <3>1 DEF Base
    <3>2. CASE k \in (n - level + 1)..n
      <4>1. k \in 1..n  BY <1>1, <2>1, <3>2
      <4> QED  BY <1>4, <1>8, <3>2, <4>1 DEF Base
    <3> QED  BY <1>1, <2>1, <3>1, <3>2
  <2> QED  BY <1>1, <1>8, <2>1, <2>2, <2>3 DEF Base
<1> QED  BY <1>7, <1>8

(* A return takes the last frame away, or leaves what the program was      *)
(* started with.                                                           *)
LEMMA ReturnedFrames ==
  ASSUME CpuTyped, CpuTyped', Returned, StackBalanced, level \in Int, startSp \in Nat,
         startPc \in Addr, NEW n, NEW at, NEW ret,
         Framed(n, at, ret, pc, sp, stack)
  PROVE  \E n2, at2 :
           /\ Framed(n2, at2, ret, pc', sp', stack')
           /\ Base(n, at, sp, level) /\ sp' <= startSp => Base(n2, at2, sp', level')
<1>1. /\ n \in Nat \ {0} /\ at \in [Nat -> SpRange] /\ ret \in [Nat -> Addr]
      /\ Words[prog][pc] = 0 /\ sp = at[n] - 2 * Words[prog][pc] /\ sp' = sp + 2
      /\ pc' = stack[sp] /\ stack' = stack /\ level' = level - 1
      /\ sp \in SpRange /\ sp' \in SpRange
  BY Numbers DEF Framed, Returned, CpuTyped
<1>2. SpRange \subseteq Nat /\ \A k \in 1..n : at[k] \in Nat
  BY <1>1, Numbers
<1>3. sp = at[n] /\ pc' = ret[n] /\ n \in 1..n
  BY <1>1, <1>2 DEF Framed
<1>4. CASE n > 1
  <2>1. n - 1 \in Nat \ {0} /\ n - 1 \in 1..n /\ 1 \in 1..(n - 1)
    BY <1>1, <1>4
  <2>2. sp' = at[n - 1] - 2 * Words[prog][pc']
    <3>1. n - 1 \in 1..(n - 1) /\ n - 1 + 1 = n  BY <1>1, <2>1
    <3>2. at[n - 1] - 2 * Words[prog][ret[n]] = at[n] + 2
      BY <3>1 DEF Framed
    <3> QED  BY <1>1, <1>3, <3>2
  <2>3. Framed(n - 1, at, ret, pc', sp', stack')
    <3>1. \A k \in 1..(n - 1) : k \in 1..n  BY <1>1
    <3>2. \A k \in 1..(n - 1 - 1) : k \in 1..(n - 1)  BY <1>1
    <3> QED  BY <1>1, <2>1, <2>2, <3>1, <3>2 DEF Framed
  <2>4. ASSUME Base(n, at, sp, level), sp' <= startSp
        PROVE  Base(n - 1, at, sp', level')
    <3>1. level # 0
      <4> SUFFICES ASSUME level = 0 PROVE FALSE  OBVIOUS
      <4>1. startSp = at[n] - 2 * Words[prog][startPc] /\ Words[prog][startPc] \in Nat
        BY <1>1, <2>4, Numbers DEF Base
      <4> QED  BY <1>1, <1>2, <1>3, <2>4, <4>1
    <3>2. /\ level - 1 \in 0..(n - 1 - 1) /\ n - 1 - (level - 1) = n - level
          /\ level \in 0..(n - 1)
      BY <1>1, <2>4, <3>1 DEF Base
    <3>3. \A k \in (n - 1 - (level - 1) + 1)..(n - 1) : k \in (n - level + 1)..n
      BY <1>1, <3>2
    <3> QED  BY <1>1, <2>4, <3>2, <3>3 DEF Base
  <2> QED  BY <2>3, <2>4
<1>5. CASE n = 1
  <2> DEFINE at2 == [at EXCEPT ![1] = sp']
  <2>1. at2 \in [Nat -> SpRange] /\ at2[1] = sp'
    BY <1>1
  <2> HIDE DEF at2
  <2>2. pc' = Entry /\ Words[prog][pc'] = 0 /\ ret[1] = Entry
    BY <1>3, <1>5 DEF Framed, StackBalanced, CpuTyped
  <2>3. \A x \in SpRange : x >= sp' => stack'[x] = Entry
    <3>1. \A x \in SpRange : x >= sp' => x >= at[1]  BY <1>1, <1>2, <1>3, <1>5
    <3> QED  BY <1>1, <3>1 DEF Framed
  <2>4. Framed(1, at2, ret, pc', sp', stack')
    <3>1. sp' = at2[1] - 2 * Words[prog][pc']
      BY <1>1, <1>2, <2>1, <2>2
    <3>2. \A k \in 1..1 : stack'[at2[k]] = ret[k]
      BY <1>1, <1>2, <2>1, <2>2, <2>3
    <3> QED  BY <1>1, <2>1, <2>2, <2>3, <3>1, <3>2 DEF Framed
  <2>5. ~(Base(n, at, sp, level) /\ sp' <= startSp)
    <3> SUFFICES ASSUME Base(n, at, sp, level), sp' <= startSp PROVE FALSE  OBVIOUS
    <3>1. level = 0 /\ n - level = 1  BY <1>5 DEF Base
    <3>2. startSp = at[1] - 2 * Words[prog][startPc] /\ Words[prog][startPc] \in Nat
      BY <3>1, Numbers DEF Base
    <3> QED  BY <1>1, <1>2, <1>3, <1>5, <3>2
  <2> QED  BY <2>4, <2>5
<1> QED  BY <1>1, <1>4, <1>5

(* Every instruction keeps the stack framed, and the frame the step began  *)
(* in where it is for as long as it holds what it held.                    *)
LEMMA ExecuteFrames ==
  ASSUME CpuTyped, LoopInv, StackBalanced, Execute, OneHalf, OneHalf',
         NEW n, NEW at, NEW ret, Framed(n, at, ret, pc, sp, stack)
  PROVE  \E n2, at2, ret2 :
           /\ Framed(n2, at2, ret2, pc', sp', stack')
           /\ Base(n, at, sp, level) /\ sp' <= startSp => Base(n2, at2, sp', level')
<1>1. CpuTyped' /\ level \in Int /\ startPc \in Addr /\ startSp \in Nat
  BY ExecuteTyped, WidthAssumption DEF LoopInv, SpRange
<1>2. Kept \/ Called \/ Returned \/ Pushed \/ Popped
  BY <1>1, ExecuteKinds
<1>3. CASE Kept      BY <1>1, <1>3, KeptFrames
<1>4. CASE Called    BY <1>1, <1>4, CalledFrames
<1>5. CASE Returned  BY <1>1, <1>5, ReturnedFrames
<1>6. CASE Pushed    BY <1>1, <1>6, PushedFrames
<1>7. CASE Popped    BY <1>1, <1>7, PoppedFrames
<1> QED  BY <1>2, <1>3, <1>4, <1>5, <1>6, <1>7

(* Above the frame the step began in the stack pointer is below where the  *)
(* step began.                                                             *)
LEMMA AboveBase ==
  ASSUME CpuTyped, LoopInv, NEW n, NEW at, NEW ret, NEW c \in Addr, NEW s, NEW m, NEW l,
         Framed(n, at, ret, c, s, m), Base(n, at, s, l), l # 0
  PROVE  s <= startSp - 2
<1>1. /\ n \in Nat \ {0} /\ l \in 0..(n - 1) /\ startSp \in Nat /\ Words[prog][c] \in Nat
      /\ s = at[n] - 2 * Words[prog][c]
  BY Numbers DEF Framed, Base, LoopInv
<1>2. at[n] \in Nat
  <2>1. n \in 1..n  BY <1>1
  <2> QED  BY <2>1, LastIsLowest
<1>3. at[n] <= startSp - 2
  <2>1. n \in (n - l + 1)..n  BY <1>1
  <2> QED  BY <2>1 DEF Base
<1> QED  BY <1>1, <1>2, <1>3

(* In the frame the step began in, all that pops what it held then is a    *)
(* return, or a pop of something held.                                     *)
LEMMA LeavesBase ==
  ASSUME CpuTyped, LoopInv, StackBalanced, Execute, OneHalf, OneHalf',
         NEW n, NEW at, NEW ret, Framed(n, at, ret, pc, sp, stack),
         Base(n, at, sp, level), sp' > startSp
  PROVE  level' <= 0 /\ (Words[prog][startPc] = 0 => level' < 0)
<1>1. /\ CpuTyped' /\ level \in Int /\ level \in 0..(n - 1) /\ n \in Nat \ {0}
      /\ startSp \in Nat /\ sp \in Nat /\ sp' \in Nat /\ sp <= startSp
      /\ Words[prog][pc] \in Nat /\ pc \in Addr
  <2>1. CpuTyped'  BY ExecuteTyped
  <2>2. sp \in Nat /\ sp' \in Nat  BY <2>1, WidthAssumption DEF CpuTyped, SpRange
  <2> QED  BY <2>1, <2>2, Numbers DEF LoopInv, Base, Framed
<1>2. level = 0 /\ Words[prog][startPc] = 0 => sp = startSp - 2 * Words[prog][pc]
  <2>1. n \in 1..n  BY <1>1
  <2>2. at[n] \in Nat  BY <2>1, LastIsLowest
  <2> QED  BY <1>1, <2>2 DEF Base, Framed
<1>3. level # 0 => sp <= startSp - 2
  BY <1>1, AboveBase
<1>4. Kept \/ Called \/ Returned \/ Pushed \/ Popped
  BY <1>1, ExecuteKinds
<1>5. ~Kept /\ ~Called /\ ~Pushed
  BY <1>1 DEF Kept, Called, Pushed
<1>6. CASE Returned
  BY <1>1, <1>2, <1>3, <1>6 DEF Returned
<1>7. CASE Popped
  BY <1>1, <1>2, <1>3, <1>7 DEF Popped
<1> QED  BY <1>4, <1>5, <1>6, <1>7

(* The count of calls in the code is that of the calls open. *)
LEMMA CallsCounted ==
  ASSUME CpuTyped, LoopInv, StackBalanced, Execute, OneHalf, OneHalf',
         startSp < Half <=> InitSp < Half,
         NEW n, NEW at, Base(n, at, sp, level), depth = level,
         NEW n2, NEW at2, NEW ret2, Framed(n2, at2, ret2, pc', sp', stack'),
         Base(n2, at2, sp', level')
  PROVE  CallDepth = level'
<1>1. /\ CpuTyped' /\ level \in Nat /\ level' \in Nat
      /\ startSp \in SpRange /\ sp \in SpRange /\ sp' \in SpRange /\ pc' \in Addr
      /\ sp' <= startSp
  <2>1. CpuTyped'  BY ExecuteTyped
  <2> QED  BY <2>1 DEF CpuTyped, LoopInv, Base
<1>2. SpRange \subseteq Nat  BY Numbers
<1>3. Signed(sp') >= Signed(startSp) <=> sp' >= startSp
  BY <1>1, SignedOrder DEF OneHalf
<1>4. sp' >= startSp => level' = 0
  <2> SUFFICES ASSUME level' # 0 PROVE ~(sp' >= startSp)  OBVIOUS
  <2>1. Words[prog][pc'] \in Nat  BY <1>1, Numbers
  <2>2. sp' <= startSp - 2  BY <1>1, AboveBase
  <2> QED  BY <1>1, <1>2, <2>2
<1> DEFINE delta   == Signed(Wrap(sp' - sp))
           counted == IF delta = -2 /\ IsCall(pc) THEN depth + 1
                      ELSE IF delta = 2 /\ IsRet(pc) /\ depth > 0 THEN depth - 1
                      ELSE depth
<1>5. counted = level'
  <2>1. Kept \/ Called \/ Returned \/ Pushed \/ Popped
    BY <1>1, ExecuteKinds
  <2>2. CASE Kept
    <3>1. sp' - sp = 0 /\ level' = level  BY <1>1, <1>2, <2>2 DEF Kept
    <3>2. delta = 0  BY <3>1, SmallDelta
    <3> QED  BY <3>1, <3>2
  <2>3. CASE Called \/ Pushed
    <3>1. sp' - sp = -2
      <4>1. sp' = sp - 2  BY <2>3 DEF Called, Pushed
      <4>2. sp \in Nat  BY <1>1, <1>2
      <4> QED  BY <4>1, <4>2
    <3>2. delta = -2  BY <3>1, SmallDelta
    <3> HIDE DEF delta
    <3> QED  BY <2>3, <3>2 DEF Called, Pushed
  <2>4. CASE Returned \/ Popped
    <3>1. sp' - sp = 2
      <4>1. sp' = sp + 2  BY <2>4 DEF Returned, Popped
      <4>2. sp \in Nat  BY <1>1, <1>2
      <4> QED  BY <4>1, <4>2
    <3>2. delta = 2  BY <3>1, SmallDelta
    <3> HIDE DEF delta
    <3> QED  BY <1>1, <2>4, <3>2 DEF Returned, Popped
  <2> QED  BY <2>1, <2>2, <2>3, <2>4
<1>6. CallDepth = IF Signed(sp') >= Signed(startSp) THEN 0 ELSE counted
  BY DEF CallDepth
<1> HIDE DEF counted
<1> QED  BY <1>3, <1>4, <1>5, <1>6

(* Of the CPU and of each snapshot in the history the stack is framed; in  *)
(* a loop the frame the step began in is known while it holds what it      *)
(* held; the code's count of calls is then the number open; and as long as *)
(* a step out goes on, its frame does.                                     *)
HasFrames(c, s, m) == \E n, at, ret : Framed(n, at, ret, c, s, m)

InFrame ==
  \E n, at, ret : /\ Framed(n, at, ret, pc, sp, stack)
                  /\ loop # "idle" /\ held => Base(n, at, sp, level)

FrameInv ==
  /\ \A i \in 1..Len(history) : HasFrames(history[i].pc, history[i].sp, history[i].stack)
  /\ InFrame
  /\ loop # "idle" => (startSp < Half <=> InitSp < Half)
  /\ loop \in OverLoops /\ held => depth = level
  /\ loop = "out" => held

(* There is one frame at first, that of the entry. *)
LEMMA InitFrames == StackBalanced /\ Init => FrameInv
<1> SUFFICES ASSUME StackBalanced, Init PROVE FrameInv
  OBVIOUS
<1> DEFINE at  == [k \in Nat |-> InitSp]
           ret == [k \in Nat |-> Entry]
<1>1. /\ InitSp \in SpRange /\ SpRange \subseteq Nat /\ Entry \in Addr
      /\ Words[prog][Entry] = 0 /\ stack = [x \in SpRange |-> Entry]
      /\ pc = Entry /\ sp = InitSp /\ history = << >> /\ loop = "idle"
  BY WidthAssumption, ProgramAssumption DEF Init, StackBalanced, SpRange
<1>2. at \in [Nat -> SpRange] /\ ret \in [Nat -> Addr] /\ at[1] = InitSp /\ ret[1] = Entry
  BY <1>1
<1> HIDE DEF at, ret
<1>3. Framed(1, at, ret, pc, sp, stack)
  BY <1>1, <1>2 DEF Framed
<1> QED  BY <1>1, <1>3 DEF FrameInv, InFrame, OverLoops

(* Frames are frames of the same program after a step as before. *)
LEMMA StillFramed ==
  ASSUME prog' = prog,
         \A i \in 1..Len(history') :
           HasFrames(history'[i].pc, history'[i].sp, history'[i].stack)
  PROVE  \A i \in 1..Len(history') :
           HasFrames(history[i].pc, history[i].sp, history[i].stack)'
<1> SUFFICES ASSUME NEW i \in 1..Len(history')
             PROVE  HasFrames(history[i].pc, history[i].sp, history[i].stack)'
  OBVIOUS
<1>1. PICK n, at, ret : Framed(n, at, ret, history'[i].pc, history'[i].sp, history'[i].stack)
  BY DEF HasFrames
<1>2. Framed(n, at, ret, history[i].pc, history[i].sp, history[i].stack)'
  BY <1>1 DEF Framed
<1> QED  BY <1>2 DEF HasFrames

(* A step begins in the last frame, with no call open. *)
LEMMA BeginFrames ==
  ASSUME IInv, LoopInv, FrameInv, OneHalf, NEW l \in Loops, Begin(l)
  PROVE  FrameInv'
<1>1. /\ prog' = prog /\ pc' = pc /\ sp' = sp /\ stack' = stack
      /\ loop' = l /\ depth' = 0 /\ level' = 0 /\ held' = TRUE
      /\ startPc' = pc /\ startSp' = sp
  BY DEF Begin, cpu
<1>2. CpuTyped  BY DEF IInv
<1>3. PICK n, at, ret : Framed(n, at, ret, pc, sp, stack)
  BY DEF FrameInv, InFrame
<1>4. Framed(n, at, ret, pc, sp, stack)'
  BY <1>1, <1>3 DEF Framed
<1>5. Base(n, at, sp, level)'
  <2>1. n \in Nat \ {0} /\ sp = at[n] - 2 * Words[prog][pc] /\ sp \in Nat
    BY <1>2, <1>3, Numbers DEF Framed
  <2> QED  BY <1>1, <2>1 DEF Base
<1>6. InFrame'
  BY <1>4, <1>5 DEF InFrame
<1>7. \A i \in 1..Len(history') : HasFrames(history[i].pc, history[i].sp, history[i].stack)'
  <2> DEFINE kept == IF Len(history) >= MaxHistory THEN Tail(history) ELSE history
  <2>1. history' = Append(kept, Snapshot) /\ history \in Seq(Snapshots)
    BY DEF Begin, PushHistory, IInv, HistoryInv
  <2>2. /\ kept \in Seq(Snapshots)
        /\ \A i \in 1..Len(kept) : \E j \in 1..Len(history) : kept[i] = history[j]
    <3>1. CASE Len(history) >= MaxHistory
      <4>1. history # << >>  BY <2>1, <3>1, LimitAssumption
      <4>2. /\ kept \in Seq(Snapshots) /\ Len(kept) = Len(history) - 1
            /\ \A i \in 1..Len(kept) : kept[i] = history[i + 1]
        BY <2>1, <3>1, <4>1, HeadTailProperties
      <4>3. Len(history) \in Nat  BY <2>1, LenProperties
      <4>4. \A i \in 1..Len(kept) : i + 1 \in 1..Len(history)  BY <4>2, <4>3
      <4> QED  BY <4>2, <4>4
    <3>2. CASE ~(Len(history) >= MaxHistory)
      BY <2>1, <3>2
    <3> QED  BY <3>1, <3>2
  <2> HIDE DEF kept
  <2>3. Snapshot \in Snapshots  BY <1>2, SnapshotTyped
  <2>4. /\ Len(history') = Len(kept) + 1 /\ history'[Len(kept) + 1] = Snapshot
        /\ \A i \in 1..Len(kept) : history'[i] = kept[i]
    BY <2>1, <2>2, <2>3, AppendProperties
  <2>5. HasFrames(Snapshot.pc, Snapshot.sp, Snapshot.stack)
    BY <1>3 DEF HasFrames, Snapshot
  <2>6. \A i \in 1..Len(history') :
          HasFrames(history'[i].pc, history'[i].sp, history'[i].stack)
    <3>1. Len(kept) \in Nat  BY <2>2, LenProperties
    <3>2. \A i \in 1..Len(history') : i \in 1..Len(kept) \/ i = Len(kept) + 1
      BY <2>4, <3>1
    <3> QED  BY <2>2, <2>4, <2>5, <3>2 DEF FrameInv
  <2> QED  BY <1>1, <2>6, StillFramed
<1> QED
  BY <1>1, <1>6, <1>7 DEF FrameInv, OneHalf

(* A step back returns to a framed stack, outside of any loop. *)
LEMMA StepBackFrames ==
  ASSUME IInv, FrameInv, StepBack
  PROVE  FrameInv'
<1>1. /\ history \in Seq(Snapshots) /\ Len(history) \in 1..Len(trail)
      /\ loop = "idle" /\ loop' = loop /\ prog' = prog
      /\ pc' = history[Len(history)].pc /\ sp' = history[Len(history)].sp
      /\ stack' = history[Len(history)].stack
  BY StepBackSnapshot DEF IInv, HistoryInv, StepBack
<1>2. /\ Len(history) \in Nat /\ Len(history) >= 1 /\ Len(history) \in 1..Len(history)
  BY <1>1, LenProperties
<1>3. HasFrames(pc', sp', stack')
  BY <1>1, <1>2 DEF FrameInv
<1>4. InFrame'
  <2>1. PICK n, at, ret : Framed(n, at, ret, pc', sp', stack')
    BY <1>3 DEF HasFrames
  <2>2. Framed(n, at, ret, pc, sp, stack)'
    BY <1>1, <2>1 DEF Framed
  <2> QED  BY <1>1, <2>2 DEF InFrame
<1>5. \A i \in 1..Len(history') : HasFrames(history[i].pc, history[i].sp, history[i].stack)'
  <2>1. history' = SubSeq(history, 1, Len(history) - 1)
    BY DEF StepBack
  <2>2. /\ Len(history') = Len(history) - 1
        /\ \A i \in 1..(Len(history) - 1) : history'[i] = history[i]
    BY <1>1, <1>2, <2>1, WithoutLast
  <2>3. \A i \in 1..Len(history') : i \in 1..Len(history)  BY <1>2, <2>2
  <2>4. \A i \in 1..Len(history') :
          HasFrames(history'[i].pc, history'[i].sp, history'[i].stack)
    BY <2>2, <2>3 DEF FrameInv
  <2> QED  BY <1>1, <2>4, StillFramed
<1> QED
  BY <1>1, <1>4, <1>5 DEF FrameInv, OverLoops

(* An instruction of a loop, whatever ends it. *)
LEMMA LoopFrames ==
  ASSUME IInv, LoopInv, FrameInv, StackBalanced, OneHalf, OneHalf', Iteration
  PROVE  FrameInv'
<1>1. /\ Execute /\ loop # "idle" /\ CpuTyped
      /\ loop \in OverLoops => depth' = CallDepth
      /\ loop' \in {loop, "idle"}
  BY DEF Iteration, OverIteration, WalkIteration, InAsmIteration, InCIteration,
         SingleInstruction, OutIteration, Iterate, OverLoops, IInv
<1>2. /\ UNCHANGED <<prog, history, startPc, startSp>>
      /\ held' = (held /\ sp' <= startSp) /\ held \in BOOLEAN
  BY <1>1 DEF Execute, LoopInv
<1>3. PICK n, at, ret : /\ Framed(n, at, ret, pc, sp, stack)
                        /\ held => Base(n, at, sp, level)
  BY <1>1 DEF FrameInv, InFrame
<1>4. PICK n2, at2, ret2 :
        /\ Framed(n2, at2, ret2, pc', sp', stack')
        /\ Base(n, at, sp, level) /\ sp' <= startSp => Base(n2, at2, sp', level')
  BY <1>1, <1>3, ExecuteFrames
<1>5. held' => held /\ sp' <= startSp
  BY <1>2, Zenon
<1>6. InFrame'
  <2>1. Framed(n2, at2, ret2, pc, sp, stack)'
    BY <1>2, <1>4 DEF Framed
  <2>2. held' => Base(n2, at2, sp, level)'
    BY <1>2, <1>3, <1>4, <1>5 DEF Base
  <2> QED  BY <2>1, <2>2 DEF InFrame
<1>7. \A i \in 1..Len(history') : HasFrames(history[i].pc, history[i].sp, history[i].stack)'
  BY <1>2, StillFramed DEF FrameInv
<1>8. ASSUME loop' \in OverLoops, held' PROVE depth' = level'
  <2>1. loop \in OverLoops  BY <1>1, <1>8 DEF OverLoops
  <2>2. held /\ depth = level /\ (startSp < Half <=> InitSp < Half)
    BY <1>1, <1>5, <1>8, <2>1 DEF FrameInv
  <2>3. Base(n, at, sp, level) /\ Base(n2, at2, sp', level')
    BY <1>3, <1>4, <1>5, <1>8
  <2> QED  BY <1>1, <1>3, <1>4, <2>1, <2>2, <2>3, CallsCounted
<1>9. ASSUME loop' = "out" PROVE held'
  <2>1. loop = "out" /\ held /\ (startSp < Half <=> InitSp < Half)
    BY <1>1, <1>9 DEF FrameInv
  <2>2. ~(Signed(sp') > Signed(startSp))
    BY <1>9, <2>1 DEF Iteration, OverIteration, WalkIteration, InAsmIteration, InCIteration,
                      SingleInstruction, OutIteration, Iterate, OverLoops
  <2>3. sp' \in SpRange /\ startSp \in SpRange /\ SpRange \subseteq Nat
    BY <1>1, ExecuteTyped, Numbers DEF LoopInv, CpuTyped
  <2>4. sp' <= startSp
    BY <2>1, <2>2, <2>3, SignedOrder DEF OneHalf
  <2> QED  BY <1>2, <2>1, <2>4
<1> QED
  BY <1>1, <1>2, <1>6, <1>7, <1>8, <1>9 DEF FrameInv

(* Frames are kept by every step of a program that keeps to its half. *)
LEMMA FramesNext ==
  IInv /\ LoopInv /\ FrameInv /\ StackBalanced /\ OneHalf /\ OneHalf' /\ [Next]_vars
    => FrameInv'
<1> SUFFICES ASSUME IInv, LoopInv, FrameInv, StackBalanced, OneHalf, OneHalf', [Next]_vars
             PROVE  FrameInv'
  OBVIOUS
<1>1. CASE Step \/ StepIn \/ StepOut
  <2>1. PICK l \in Loops : Begin(l)
    BY <1>1 DEF Step, StepIn, StepOut, Loops, OverLoops
  <2> QED  BY <2>1, BeginFrames
<1>2. CASE StepBack   BY <1>2, StepBackFrames
<1>3. CASE Iteration  BY <1>3, LoopFrames
<1>4. CASE UNCHANGED vars
  <2>1. /\ prog' = prog /\ pc' = pc /\ sp' = sp /\ stack' = stack /\ history' = history
        /\ loop' = loop /\ depth' = depth /\ level' = level /\ held' = held
        /\ startPc' = startPc /\ startSp' = startSp
    BY <1>4 DEF vars, cpu
  <2>2. InFrame'
    <3>1. PICK n, at, ret : /\ Framed(n, at, ret, pc, sp, stack)
                            /\ loop # "idle" /\ held => Base(n, at, sp, level)
      BY DEF FrameInv, InFrame
    <3>2. Framed(n, at, ret, pc, sp, stack)'
      BY <2>1, <3>1 DEF Framed
    <3>3. loop' # "idle" /\ held' => Base(n, at, sp, level)'
      BY <2>1, <3>1 DEF Base
    <3> QED  BY <3>2, <3>3 DEF InFrame
  <2> QED  BY <2>1, <2>2, StillFramed DEF FrameInv
<1> QED  BY <1>1, <1>2, <1>3, <1>4 DEF Next

(* A step over that ends by its own condition does so when the code's      *)
(* count is zero, and while the frame it began in holds what it held that  *)
(* count is of the calls open.                                             *)
LEMMA OverEndsInFrame ==
  ASSUME IInv, LoopInv, FrameInv, StackBalanced, OneHalf, OneHalf', Next,
         loop' = "idle", loop \in OverLoops, iter + 1 # OverLimit, held'
  PROVE  level' <= 0
<1>1. OverIteration
  BY DEF Next, Step, StepIn, StepOut, StepBack, Begin, Iteration, WalkIteration,
         InAsmIteration, InCIteration, SingleInstruction, OutIteration, OverLoops
<1>2. /\ Execute /\ depth' = CallDepth /\ depth' = 0 /\ loop # "idle" /\ CpuTyped
  BY <1>1 DEF OverIteration, Iterate, OverLoops, IInv
<1>3. /\ held' = (held /\ sp' <= startSp) /\ held \in BOOLEAN
  BY <1>2 DEF Execute, LoopInv
<1>4. held /\ sp' <= startSp
  BY <1>3, Zenon
<1>5. PICK n, at, ret : Framed(n, at, ret, pc, sp, stack) /\ Base(n, at, sp, level)
  BY <1>2, <1>4 DEF FrameInv, InFrame
<1>6. PICK n2, at2, ret2 :
        Framed(n2, at2, ret2, pc', sp', stack') /\ Base(n2, at2, sp', level')
  BY <1>2, <1>4, <1>5, ExecuteFrames
<1>7. depth = level /\ (startSp < Half <=> InitSp < Half)
  BY <1>2, <1>4 DEF FrameInv
<1>8. CallDepth = level'
  BY <1>2, <1>5, <1>6, <1>7, CallsCounted
<1>9. level' = 0
  BY <1>2, <1>8
<1> QED  BY <1>9

(* A step out that ends by its own condition has popped what lay above it, *)
(* and on a bare frame that is the return address.                         *)
LEMMA OutEndsInCaller ==
  ASSUME IInv, LoopInv, FrameInv, StackBalanced, OneHalf, OneHalf', Next,
         loop = "out", loop' = "idle", iter + 1 # OverLimit
  PROVE  level' <= 0 /\ (Words[prog][startPc] = 0 => level' < 0)
<1>1. OutIteration
  BY DEF Next, Step, StepIn, StepOut, StepBack, Begin, Iteration, WalkIteration,
         InAsmIteration, InCIteration, SingleInstruction, OverIteration, OverLoops
<1>2. Execute /\ Signed(sp') > Signed(startSp) /\ CpuTyped
  BY <1>1 DEF OutIteration, Iterate, IInv
<1>3. held /\ (startSp < Half <=> InitSp < Half)
  BY DEF FrameInv
<1>4. PICK n, at, ret : Framed(n, at, ret, pc, sp, stack) /\ Base(n, at, sp, level)
  BY <1>3 DEF FrameInv, InFrame
<1>5. sp' > startSp
  <2>1. sp' \in SpRange /\ startSp \in SpRange
    BY <1>2, ExecuteTyped DEF LoopInv, CpuTyped
  <2> QED  BY <1>2, <1>3, <2>1, SignedOrder DEF OneHalf
<1> QED  BY <1>2, <1>4, <1>5, LeavesBase

(* The frames are kept for as long as the stack stays in its half. *)
LEMMA FramesKept == StackBalanced => (Spec /\ []OneHalf => [](IInv /\ LoopInv /\ FrameInv))
<1> SUFFICES ASSUME StackBalanced PROVE Spec /\ []OneHalf => [](IInv /\ LoopInv /\ FrameInv)
  OBVIOUS
<1>1. Init => IInv /\ LoopInv /\ FrameInv
  BY InitInv, InitLoop, InitFrames
<1>2. IInv /\ LoopInv /\ FrameInv /\ OneHalf /\ OneHalf' /\ [Next]_vars
        => (IInv /\ LoopInv /\ FrameInv)'
  BY NextInv, NextLoop, FramesNext
<1> QED  BY <1>1, <1>2, PTL DEF Spec

(* For every balanced program and every width: as long as the stack stays  *)
(* in its half of the address space, a step over that ends by its own      *)
(* condition is not inside a function called from the frame it began in,   *)
(* while that frame holds what it held (z80_target::step). Where the stack *)
(* crosses the middle it may be: the run stepping_sign_bit.                *)
THEOREM StepOverEndsInFrame == StackBalanced => (Spec /\ []OneHalf => StepOverInFrame)
<1> SUFFICES ASSUME StackBalanced PROVE Spec /\ []OneHalf => StepOverInFrame
  OBVIOUS
<1>1. IInv /\ LoopInv /\ FrameInv /\ OneHalf /\ OneHalf' /\ [Next]_vars
        => [loop' = "idle" /\ loop \in OverLoops /\ iter + 1 # OverLimit /\ held'
              => level' <= 0]_vars
  BY OverEndsInFrame
<1> QED  BY <1>1, FramesKept, PTL DEF Spec, StepOverInFrame

(* And a step out that ends by its own condition is not inside a function  *)
(* called from its frame, and has returned to the caller if that frame had *)
(* only the return address on the stack when it began                      *)
(* (z80_target::step_out).                                                 *)
THEOREM StepOutEndsInCaller == StackBalanced => (Spec /\ []OneHalf => StepOutReturnsFromBase)
<1> SUFFICES ASSUME StackBalanced PROVE Spec /\ []OneHalf => StepOutReturnsFromBase
  OBVIOUS
<1>1. IInv /\ LoopInv /\ FrameInv /\ OneHalf /\ OneHalf' /\ [Next]_vars
        => [loop = "out" /\ loop' = "idle" /\ iter + 1 # OverLimit
              => level' <= 0 /\ (Words[prog][startPc] = 0 => level' < 0)]_vars
  BY OutEndsInCaller
<1> QED  BY <1>1, FramesKept, PTL DEF Spec, StepOutReturnsFromBase
=============================================================================
