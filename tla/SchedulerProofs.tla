-------------------------- MODULE SchedulerProofs --------------------------
(***************************************************************************)
(* Proofs about Scheduler: types, and RefreshSpaced, for every number of   *)
(* loops, callers and restarts and every interval.                         *)
(*                                                                         *)
(* RefreshSpaced speaks of one step.  What makes it hold is that a success *)
(* the file records is covered by the file's NextCheck, that the last      *)
(* process to succeed is about to write a time that covers its success,    *)
(* and that a loop's timer agrees with the file it read for as long as     *)
(* nobody has touched it since.  No assumption is made on who runs beside  *)
(* whom: when two savers meet, the file either does not parse, or holds    *)
(* the time of one of them, which records the latest success only if it is *)
(* the time of the process that made it.                                   *)
(***************************************************************************)
EXTENDS Scheduler, TLAPS

(* n ticks from now the last success is as old as its interval asks.       *)
Covers(n) == n + since >= spacing

FileCovers == recorded => (file = "ok" /\ Covers(due))

SaverCovers ==
    \A p \in Procs : (pc[p] \in {"save", "saving"} /\ by = p) => Covers(next[p])

TimersAgree ==
    \A l \in Loops : (pc[l] = "wait" /\ current[l]) => (file = "ok" /\ next[l] = due)

SpacedInv == TypeOK /\ FileCovers /\ SaverCovers /\ TimersAgree

-----------------------------------------------------------------------------
LEMMA TypeInit == Init => TypeOK
<1> SUFFICES ASSUME Init PROVE TypeOK
    OBVIOUS
<1>1. /\ cancelled \in [Loops -> BOOLEAN] /\ recorded \in BOOLEAN
      /\ current \in [Loops -> BOOLEAN] /\ by \in Procs \union {"nobody"}
      BY Zenon DEF Init
<1>2. 0 \in Ticks /\ 0 \in 0 .. MaxRestarts
      BY IntervalAssumption, RestartsAssumption DEF Ticks
<1>3. /\ pc \in [Procs -> Steps]
      /\ ctx \in [Loops -> {"root", "request"}]
      /\ next \in [Procs -> Ticks]
      /\ due \in Ticks
      BY <1>2 DEF Init, Steps
<1>4. QED  BY <1>1, <1>2, <1>3 DEF Init, TypeOK

LEMMA TypeStep == TypeOK /\ [Next]_vars => TypeOK'
<1> SUFFICES ASSUME TypeOK, [Next]_vars PROVE TypeOK'
    OBVIOUS
<1> USE IntervalAssumption DEF schedule, context, history, unmoved
<1>1. ASSUME NEW l \in Loops, Start(l)
      PROVE  TypeOK'
      BY <1>1, CtxKindsAssumption DEF Start, Goto, TypeOK, Procs, Steps
<1>2. ASSUME NEW c \in Callers, CallRunNow(c)
      PROVE  TypeOK'
      BY <1>2 DEF CallRunNow, Goto, TypeOK, Procs, Steps
<1>3. ASSUME NEW l \in Loops, RequestEnds(l)
      PROVE  TypeOK'
      BY <1>3 DEF RequestEnds, TypeOK
<1>4. ASSUME NEW p \in Procs, RunNow(p)
      PROVE  TypeOK'
  <2>1. CASE TaskOk(p)
    <3>1. recorded' \in BOOLEAN
          BY <2>1, Zenon DEF TaskOk
    <3>2. since' \in Ticks /\ next' \in [Procs -> Ticks] /\ pc' \in [Procs -> Steps]
          BY <2>1 DEF TaskOk, Goto, TypeOK, Steps, Ticks
    <3>3. QED  BY <2>1, <3>1, <3>2 DEF TaskOk, TypeOK
  <2>2. CASE TaskFails(p)
        BY <2>2 DEF TaskFails, Goto, TypeOK, Steps
  <2>3. 0 \in Ticks
        BY DEF Ticks
  <2>4. CASE SaveBegin(p)
    <3>1. current' \in [Loops -> BOOLEAN]
          BY <2>4 DEF SaveBegin, Changes, TypeOK
    <3>2. file' \in {"absent", "bad", "ok"} /\ due' \in Ticks /\ recorded' \in BOOLEAN
          BY <2>3, <2>4 DEF SaveBegin, Changes, TypeOK
    <3>3. next' \in [Procs -> Ticks] /\ pc' \in [Procs -> Steps]
          BY <2>3, <2>4 DEF SaveBegin, AfterSave, Goto, TypeOK, Steps
    <3>4. QED  BY <2>4, <3>1, <3>2, <3>3 DEF SaveBegin, TypeOK
  <2>5. CASE SaveEnd(p)
    <3>1. recorded' \in BOOLEAN
          BY <2>5, Zenon DEF SaveEnd
    <3>2. current' \in [Loops -> BOOLEAN]
          BY <2>5 DEF SaveEnd, Changes
    <3>3. file' \in {"absent", "bad", "ok"} /\ due' \in Ticks
          BY <2>3, <2>5 DEF SaveEnd, Changes, TypeOK
    <3>4. next' \in [Procs -> Ticks] /\ pc' \in [Procs -> Steps]
          BY <2>3, <2>5 DEF SaveEnd, AfterSave, Goto, TypeOK, Steps
    <3>5. QED  BY <2>5, <3>1, <3>2, <3>3, <3>4 DEF SaveEnd, TypeOK
  <2>6. QED  BY <1>4, <2>1, <2>2, <2>4, <2>5 DEF RunNow
<1>5. ASSUME NEW l \in Loops,
             Check(l) \/ CheckFails(l) \/ TimerFires(l) \/ CtxDone(l)
      PROVE  TypeOK'
  <2>1. current' \in [Loops -> BOOLEAN]
        BY <1>5 DEF Check, CheckFails, TimerFires, CtxDone, TypeOK
  <2>2. next' \in [Procs -> Ticks] /\ pc' \in [Procs -> Steps]
        BY <1>5 DEF Check, CheckFails, TimerFires, CtxDone, Goto, TypeOK, Steps, Ticks
  <2>3. UNCHANGED <<interval, file, due, ctx, cancelled, since, spacing, by,
                    recorded, restarts>>
        BY <1>5 DEF Check, CheckFails, TimerFires, CtxDone
  <2>4. QED  BY <2>1, <2>2, <2>3 DEF TypeOK
<1>6. CASE Tick
      BY <1>6 DEF Tick, Less, TypeOK, Ticks
<1>7. CASE Restart
  <2>1. cancelled' \in [Loops -> BOOLEAN] /\ current' \in [Loops -> BOOLEAN]
        BY <1>7, Zenon DEF Restart
  <2>2. /\ pc' \in [Procs -> Steps]
        /\ ctx' \in [Loops -> {"root", "request"}]
        /\ next' \in [Procs -> Ticks]
        BY <1>7 DEF Restart, Steps, Ticks
  <2>3. restarts' \in 0 .. MaxRestarts
        BY <1>7, RestartsAssumption DEF Restart, TypeOK
  <2>4. QED  BY <1>7, <2>1, <2>2, <2>3 DEF Restart, TypeOK
<1>8. CASE UNCHANGED vars
      BY <1>8 DEF vars, TypeOK
<1>9. QED
  <2>1. Loops \subseteq Procs /\ Callers \subseteq Procs
        BY DEF Procs
  <2>2. QED  BY <1>1, <1>2, <1>3, <1>4, <1>5, <1>6, <1>7, <1>8, <2>1
             DEF Next, LoopStep

(* Types: in particular no delay goes below zero or beyond the interval.   *)
THEOREM TypeCorrect == Spec => []TypeOK
BY TypeInit, TypeStep, PTL DEF Spec

-----------------------------------------------------------------------------
LEMMA SpacedInit == Init => SpacedInv
<1> SUFFICES ASSUME Init PROVE SpacedInv
    OBVIOUS
<1>1. FileCovers /\ SaverCovers /\ TimersAgree
      BY DEF Init, FileCovers, SaverCovers, TimersAgree, Procs
<1>2. QED  BY <1>1, TypeInit DEF SpacedInv

LEMMA SpacedStep == SpacedInv /\ [Next]_vars => SpacedInv'
<1> SUFFICES ASSUME SpacedInv, [Next]_vars PROVE SpacedInv'
    OBVIOUS
<1> USE IntervalAssumption DEF SpacedInv, schedule, context, history, unmoved
<1> DEFINE Rest == FileCovers /\ SaverCovers /\ TimersAgree
<1>1. TypeOK'
      BY TypeStep
<1>2. Loops \subseteq Procs /\ Callers \subseteq Procs /\ 0 \in Ticks
      BY DEF Procs, Ticks
<1>3. ASSUME NEW l \in Loops, Start(l) \/ RequestEnds(l)
      PROVE  Rest'
      BY <1>2, <1>3 DEF Start, RequestEnds, Goto, TypeOK, FileCovers, SaverCovers,
         TimersAgree, Covers
<1>4. ASSUME NEW c \in Callers, CallRunNow(c)
      PROVE  Rest'
      BY <1>2, <1>4 DEF CallRunNow, Goto, TypeOK, FileCovers, SaverCovers,
         TimersAgree, Covers
<1>5. ASSUME NEW p \in Procs, TaskOk(p) \/ TaskFails(p)
      PROVE  Rest'
  <2>1. FileCovers'
        BY <1>5 DEF TaskOk, TaskFails, FileCovers, Covers
  <2>2. SaverCovers'
        BY <1>5 DEF TaskOk, TaskFails, Goto, TypeOK, SaverCovers, Covers, Ticks
  <2>3. TimersAgree'
        BY <1>2, <1>5 DEF TaskOk, TaskFails, Goto, TypeOK, TimersAgree
  <2>4. QED  BY <2>1, <2>2, <2>3
(* A writer may leave the file unreadable; it records the success only     *)
(* with the time of the process that made it.                              *)
<1>6. ASSUME NEW p \in Procs, SaveBegin(p) \/ SaveEnd(p)
      PROVE  Rest'
  <2>1. FileCovers'
    <3>1. CASE SaveBegin(p)
          BY <3>1 DEF SaveBegin, Changes, FileCovers, Covers
    <3>2. CASE SaveEnd(p)
          BY <3>2 DEF SaveEnd, Changes, FileCovers, SaverCovers, Covers
    <3>3. QED  BY <1>6, <3>1, <3>2
  <2>2. SaverCovers'
    <3>1. \A q \in Procs : pc'[q] \in {"save", "saving"}
             => pc[q] \in {"save", "saving"} /\ next'[q] = next[q]
          BY <1>6 DEF SaveBegin, SaveEnd, AfterSave, Goto, TypeOK
    <3>2. QED  BY <1>6, <3>1 DEF SaveBegin, SaveEnd, SaverCovers, Covers
  <2>3. TimersAgree'
    <3>1. CASE SaveBegin(p) /\ file' = file /\ due' = due /\ current' = current
      <4>1. \A l \in Loops : pc'[l] = "wait" => pc[l] = "wait" /\ next'[l] = next[l]
            BY <1>2, <3>1 DEF SaveBegin, AfterSave, Goto, TypeOK
      <4>2. QED  BY <3>1, <4>1 DEF TimersAgree
    <3>2. CASE current' = [l \in Loops |-> FALSE]
          BY <3>2 DEF TimersAgree
    <3>3. QED  BY <1>6, <3>1, <3>2 DEF SaveBegin, SaveEnd, Changes
  <2>4. QED  BY <2>1, <2>2, <2>3
<1>7. ASSUME NEW l \in Loops,
             Check(l) \/ CheckFails(l) \/ TimerFires(l) \/ CtxDone(l)
      PROVE  Rest'
  <2>1. FileCovers'
        BY <1>7 DEF Check, CheckFails, TimerFires, CtxDone, FileCovers, Covers
  <2>2. SaverCovers'
        BY <1>2, <1>7 DEF Check, CheckFails, TimerFires, CtxDone, Goto, TypeOK,
           SaverCovers, Covers
  <2>3. TimersAgree'
        BY <1>2, <1>7 DEF Check, CheckFails, TimerFires, CtxDone, Goto, TypeOK,
           TimersAgree
  <2>4. QED  BY <2>1, <2>2, <2>3
<1>8. ASSUME Tick
      PROVE  Rest'
  <2>1. \A n \in Ticks : Covers(n) => Less(n) + since' >= spacing'
        BY <1>8 DEF Tick, Less, Covers, TypeOK, Ticks
  <2>2. FileCovers'
        BY <1>8, <2>1 DEF Tick, FileCovers, Covers, TypeOK
  <2>3. SaverCovers'
        BY <1>8, <2>1 DEF Tick, SaverCovers, Covers, TypeOK
  <2>4. TimersAgree'
        BY <1>2, <1>8 DEF Tick, TimersAgree, TypeOK
  <2>5. QED  BY <2>2, <2>3, <2>4
<1>9. ASSUME Restart
      PROVE  Rest'
      BY <1>2, <1>9 DEF Restart, FileCovers, SaverCovers, TimersAgree, Covers
<1>10. ASSUME UNCHANGED vars
       PROVE  Rest'
      BY <1>10 DEF vars, FileCovers, SaverCovers, TimersAgree, Covers
<1>11. Rest'
      BY <1>2, <1>3, <1>4, <1>5, <1>6, <1>7, <1>8, <1>9, <1>10
         DEF Next, LoopStep, RunNow
<1>12. QED  BY <1>1, <1>11

(* Whatever loops and activations run beside each other: a refresh that    *)
(* the schedule file records is not repeated before its interval is over   *)
(* by a loop that reads the file, or whose timer stands for the file as it *)
(* is, across any number of failed tasks, failed or interrupted saves, and *)
(* restarts with other intervals.                                          *)
THEOREM RefreshesSpaced == Spec => RefreshSpaced
<1> DEFINE Due(l) ==
        /\ recorded /\ pc'[l] = "run"
        /\ pc[l] = "check" \/ (pc[l] = "wait" /\ current[l])
        => since >= spacing
<1>1. ASSUME SpacedInv, [Next]_vars, NEW l \in Loops,
             recorded, pc'[l] = "run",
             pc[l] = "check" \/ (pc[l] = "wait" /\ current[l])
      PROVE  since >= spacing
  <2>1. l \in Procs
        BY DEF Procs
  <2>2. \/ Check(l) /\ file = "ok" /\ due = 0
        \/ TimerFires(l)
    <3>1. pc'[l] # pc[l]
          BY <1>1
    <3>2. PICK p \in Procs : \/ p \in Loops /\ (Start(p) \/ LoopStep(p))
                             \/ p \in Callers /\ (CallRunNow(p) \/ RunNow(p))
          BY <1>1, <3>1 DEF Next, vars, RequestEnds, Tick, Restart, context, Procs,
             SpacedInv, TypeOK
    <3>3. p = l
          BY <1>1, <2>1, <3>1, <3>2 DEF LoopStep, RunNow, Start, CallRunNow, TaskOk,
             TaskFails, SaveBegin, SaveEnd, Check, CheckFails, TimerFires, CtxDone,
             Goto, SpacedInv, TypeOK
    <3>4. l \notin Callers
          BY ProcsAssumption
    <3>5. Check(l) \/ TimerFires(l)
          BY <1>1, <2>1, <3>2, <3>3, <3>4 DEF LoopStep, RunNow, Start, TaskOk,
             TaskFails, SaveBegin, SaveEnd, CheckFails, CtxDone, Goto, SpacedInv,
             TypeOK
    <3>6. QED  BY <1>1, <2>1, <3>5 DEF Check, Goto, SpacedInv, TypeOK
  <2>3. Covers(0)
        BY <1>1, <2>2 DEF SpacedInv, FileCovers, TimersAgree, TimerFires, Check
  <2>4. QED  BY <1>1, <2>3, IntervalAssumption DEF SpacedInv, TypeOK, Covers, Ticks
<1>2. SpacedInv /\ [Next]_vars => [\A l \in Loops : Due(l)]_vars
      BY <1>1
<1>3. QED  BY <1>2, SpacedInit, SpacedStep, PTL DEF Spec, RefreshSpaced
=============================================================================
