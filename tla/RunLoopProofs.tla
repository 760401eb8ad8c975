---------------------------- MODULE RunLoopProofs ----------------------------
(***************************************************************************)
(* Proofs about RunLoop, for every set of threads and events, every        *)
(* instruction cost and frame length: its types, that Emulate stops at     *)
(* cycle_stop, that event_cycle keeps up with the queue, that a masked IRQ *)
(* is held, and that the loop implements EventSchedule.                    *)
(***************************************************************************)
EXTENDS RunLoop, TLAPS

(* Who holds the lock is known from where the threads are, and the queue is *)
(* used only when there is one.                                             *)
LockDiscipline ==
  /\ lock = "run" <=> pc \in {"drain", "callback"}
  /\ \A t \in Threads : lock = t <=> tpc[t] # "idle"
  /\ lock # "free" => HasQueue
  /\ Queued(entries) # {} => HasQueue
  /\ pc = "step" => caller = "SingleStep"
  /\ QuietStart /\ pc \in InStart => \A t \in Threads : tpc[t] = "idle"

(* From Start until the loop returns, a store through EventQueue::cycle     *)
(* reaches the limit of that loop.                                          *)
PointerDiscipline ==
  /\ pc \in InStart => caller \in Loops
  /\ pc \in InStart \ {"enter"} => HasQueue
  /\ pc = "host" => cycle_ptr # "local"
  /\ pc \notin {"host", "enter", "start"} => cycle_ptr # "dangling"
  /\ ~HasQueue => cycle_ptr = "unset"
  /\ HasQueue /\ pc \notin {"enter", "start"} =>
       cycle_ptr \in {"unset", "dangling"} \/ PointsToLimit
  /\ \A t \in Threads : tpc[t] # "idle" => cycle_ptr # "unset"

(* Every value of event_cycle, stored or about to be, is within the frame.  *)
WithinFrame ==
  /\ stop <= cycle_stop
  /\ event_cycle <= cycle_stop
  /\ start_min <= cycle_stop
  /\ \A t \in Threads : new_min[t] <= cycle_stop
  /\ pc = "host" \/ caller = "SingleStep" => cycle_stop <= cycle
  /\ StopsAtFrameEnd

(* Every minimum on its way to event_cycle is still one when it is stored.  *)
MinimaCurrent ==
  /\ \A t \in Threads : tpc[t] = "store" =>
       \A e \in Queued(entries) : new_min[t] <= entries[e]
  /\ QuietStart /\ pc = "start_store" =>
       \A e \in Queued(entries) : start_min <= entries[e]
  /\ TargetTracksFront

Inv ==
  TypeOK /\ LockDiscipline /\ PointerDiscipline /\ WithinFrame /\ MinimaCurrent

-----------------------------------------------------------------------------
(* The value std::min(stop, front) computes: a number, at most stop and at  *)
(* most the time of every posted event.                                     *)
LEMMA TargetBounds ==
  ASSUME NEW s \in Nat, NEW q \in [Events -> Nat], NEW v \in Target(s, q)
  PROVE  v \in Nat /\ v <= s /\ \A e \in Queued(q) : v <= q[e]
BY DEF Target, Minima, Queued

USE RunLoopAssumption

(* Every step keeps every variable in its type (cpu.cc:77-168).             *)
LEMMA TypeStep == TypeOK /\ [Next]_vars => TypeOK'
<1> SUFFICES ASSUME TypeOK, [Next]_vars PROVE TypeOK'
  OBVIOUS
<1> USE DEF TypeOK, PcValues, InStart, Loops, queueVars, threadVars, irqVars
<1>1. CASE NewFrame
  BY <1>1 DEF NewFrame
<1>2. CASE Enter \/ StartStop
  BY <1>2 DEF Enter, StartStop
<1>3. CASE StartRead
  BY <1>3, TargetBounds DEF StartRead
<1>4. CASE StartStore
  BY <1>4 DEF StartStore
<1>5. CASE LoopHead \/ StepSample
  BY <1>5 DEF LoopHead, StepSample, Sample
<1>6. CASE Interrupt
  BY <1>6 DEF Interrupt, AfterInstruction
<1>7. CASE Emu
  BY <1>7 DEF Emu, AfterInstruction
<1>8. CASE ExpireEnter \/ ExpirePop
  BY <1>8 DEF ExpireEnter, ExpirePop, Idle
<1>9. CASE CallbackReturn \/ FrameCheck \/ StepEnter
  BY <1>9 DEF CallbackReturn, FrameCheck, StepEnter
<1>10. CASE CallbackSchedule
  <2>1. entries' \in [Events -> Nat]
    BY <1>10 DEF CallbackSchedule, Times
  <2>2. event_cycle' \in Nat
    BY <1>10, <2>1, TargetBounds DEF CallbackSchedule
  <2>3. QED
    BY <1>10, <2>1, <2>2 DEF CallbackSchedule
<1>11. CASE ExpireReturn
  BY <1>11, TargetBounds DEF ExpireReturn
<1>12. ASSUME NEW t \in Threads, Schedule(t) PROVE TypeOK'
  BY <1>12, TargetBounds
     DEF Schedule, SchedulePush, ScheduleRead, ScheduleStore, Times
<1>13. ASSUME NEW s \in Sources,
              SetInterruptSource(s) \/ ClearInterruptSource(s)
       PROVE TypeOK'
  BY <1>13 DEF SetInterruptSource, ClearInterruptSource
<1>14. CASE UNCHANGED vars
  BY <1>14 DEF vars
<1>15. QED
  BY <1>1, <1>2, <1>3, <1>4, <1>5, <1>6, <1>7, <1>8, <1>9, <1>10, <1>11,
     <1>12, <1>13, <1>14 DEF Next, RunThread

-----------------------------------------------------------------------------
(* The lock is held by the run thread exactly inside Expire and by a thread *)
(* exactly inside Schedule (cpu.cc:140-159).                                *)
LEMMA LockDisciplineStep ==
  TypeOK /\ LockDiscipline /\ [Next]_vars => LockDiscipline'
<1> SUFFICES ASSUME TypeOK, LockDiscipline, [Next]_vars
             PROVE  LockDiscipline'
  OBVIOUS
<1> USE DEF LockDiscipline, Queued, InStart, queueVars, threadVars
<1>0. lock \in Threads \cup {"free", "run"} /\ tpc \in [Threads -> {"idle", "pushed", "store"}]
      /\ entries \in [Events -> Nat]
  BY DEF TypeOK
<1>1. CASE NewFrame \/ Enter \/ StartStop \/ StartRead \/ StartStore
  BY <1>0, <1>1 DEF NewFrame, Enter, StartStop, StartRead, StartStore
<1>2. CASE LoopHead \/ StepSample \/ Interrupt \/ Emu
  BY <1>0, <1>2 DEF LoopHead, StepSample, Sample, Interrupt, Emu, AfterInstruction
<1>3. CASE ExpireEnter
  BY <1>0, <1>3 DEF ExpireEnter
<1>4. CASE ExpirePop
  BY <1>0, <1>4 DEF ExpirePop
<1>5. CASE CallbackReturn \/ CallbackSchedule
  BY <1>0, <1>5 DEF CallbackReturn, CallbackSchedule
<1>6. CASE ExpireReturn
  BY <1>0, <1>6 DEF ExpireReturn
<1>7. CASE FrameCheck \/ StepEnter
  BY <1>0, <1>7 DEF FrameCheck, StepEnter
<1>8. ASSUME NEW t \in Threads, Schedule(t) PROVE LockDiscipline'
  BY <1>0, <1>8 DEF Schedule, SchedulePush, ScheduleRead, ScheduleStore
<1>9. ASSUME NEW s \in Sources,
             SetInterruptSource(s) \/ ClearInterruptSource(s)
      PROVE  LockDiscipline'
  BY <1>9 DEF SetInterruptSource, ClearInterruptSource
<1>10. CASE UNCHANGED vars
  BY <1>10 DEF vars
<1>11. QED
  BY <1>1, <1>2, <1>3, <1>4, <1>5, <1>6, <1>7, <1>8, <1>9, <1>10
     DEF Next, RunThread

(* The pointer is set by Start and is left dangling only when the loop that *)
(* owns its target returns (cpu.cc:161-164, cpu.h:326-353).                 *)
LEMMA PointerDisciplineStep ==
  TypeOK /\ LockDiscipline /\ PointerDiscipline /\ [Next]_vars
    => PointerDiscipline'
<1> SUFFICES ASSUME TypeOK, LockDiscipline, PointerDiscipline, [Next]_vars
             PROVE  PointerDiscipline'
  OBVIOUS
<1> USE DEF PointerDiscipline, PointsToLimit, Loops, InStart, queueVars,
            threadVars
<1>0. /\ caller \in Loops \cup {"SingleStep"}
      /\ cycle_ptr \in {"unset", "CpuState", "local", "dangling"}
      /\ tpc \in [Threads -> {"idle", "pushed", "store"}]
      /\ QuietStart /\ pc \in InStart => \A t \in Threads : tpc[t] = "idle"
  BY DEF TypeOK, LockDiscipline
<1>1. CASE NewFrame \/ Enter \/ StartStop \/ StartRead \/ StartStore
  <2>1. CASE NewFrame
    BY <1>0, <2>1 DEF NewFrame
  <2>2. CASE Enter
    BY <1>0, <2>2 DEF Enter
  <2>3. CASE StartStop
    BY <1>0, <2>3 DEF StartStop
  <2>4. CASE StartRead \/ StartStore
    BY <1>0, <2>4 DEF StartRead, StartStore
  <2>5. QED
    BY <1>1, <2>1, <2>2, <2>3, <2>4
<1>2. CASE LoopHead \/ StepSample
  BY <1>0, <1>2 DEF LoopHead, StepSample, Sample
<1>3. CASE Interrupt \/ Emu
  BY <1>0, <1>3 DEF Interrupt, Emu, AfterInstruction
<1>4. CASE ExpireEnter \/ ExpirePop \/ CallbackReturn
  BY <1>0, <1>4 DEF ExpireEnter, ExpirePop, CallbackReturn
<1>5. CASE CallbackSchedule \/ ExpireReturn
  BY <1>0, <1>5 DEF CallbackSchedule, ExpireReturn
<1>6. CASE FrameCheck \/ StepEnter
  BY <1>0, <1>6 DEF FrameCheck, StepEnter
<1>7. ASSUME NEW t \in Threads, Schedule(t) PROVE PointerDiscipline'
  BY <1>0, <1>7 DEF Schedule, SchedulePush, ScheduleRead, ScheduleStore
<1>8. ASSUME NEW s \in Sources,
             SetInterruptSource(s) \/ ClearInterruptSource(s)
      PROVE  PointerDiscipline'
  BY <1>8 DEF SetInterruptSource, ClearInterruptSource
<1>9. CASE UNCHANGED vars
  BY <1>9 DEF vars
<1>10. QED
  BY <1>1, <1>2, <1>3, <1>4, <1>5, <1>6, <1>7, <1>8, <1>9
     DEF Next, RunThread

(* cycle_stop only grows and bounds every value written to event_cycle.     *)
LEMMA WithinFrameStep ==
  TypeOK /\ LockDiscipline /\ WithinFrame /\ [Next]_vars => WithinFrame'
<1> SUFFICES ASSUME TypeOK, LockDiscipline, WithinFrame, [Next]_vars
             PROVE  WithinFrame'
  OBVIOUS
<1> USE DEF WithinFrame, StopsAtFrameEnd, Loops, queueVars, threadVars
<1>0. /\ cycle \in Nat /\ cycle_stop \in Nat /\ event_cycle \in Nat
      /\ stop \in Nat /\ start_min \in Nat /\ new_min \in [Threads -> Nat]
      /\ entries \in [Events -> Nat]
      /\ pc = "step" => caller = "SingleStep"
      /\ caller \in Loops \cup {"SingleStep"}
  BY DEF TypeOK, LockDiscipline
<1>1. CASE NewFrame
  BY <1>0, <1>1 DEF NewFrame
<1>2. CASE Enter \/ StartStop \/ StartStore
  BY <1>0, <1>2 DEF Enter, StartStop, StartStore
<1>3. CASE StartRead
  BY <1>0, <1>3, TargetBounds DEF StartRead
<1>4. CASE LoopHead \/ StepSample
  BY <1>0, <1>4 DEF LoopHead, StepSample, Sample
<1>5. CASE Interrupt \/ Emu
  BY <1>0, <1>5 DEF Interrupt, Emu, AfterInstruction
<1>6. CASE ExpireEnter \/ ExpirePop \/ CallbackReturn
  BY <1>0, <1>6 DEF ExpireEnter, ExpirePop, CallbackReturn
<1>7. CASE CallbackSchedule
  <2>1. entries' \in [Events -> Nat]
    BY <1>0, <1>7 DEF CallbackSchedule, Times
  <2>2. event_cycle' \in Nat /\ event_cycle' <= stop
    BY <1>0, <1>7, <2>1, TargetBounds DEF CallbackSchedule
  <2>3. QED
    BY <1>0, <1>7, <2>2 DEF CallbackSchedule
<1>8. CASE ExpireReturn
  BY <1>0, <1>8, TargetBounds DEF ExpireReturn
<1>9. CASE FrameCheck \/ StepEnter
  BY <1>0, <1>9 DEF FrameCheck, StepEnter
<1>10. ASSUME NEW t \in Threads, Schedule(t) PROVE WithinFrame'
  BY <1>0, <1>10, TargetBounds
     DEF Schedule, SchedulePush, ScheduleRead, ScheduleStore
<1>11. ASSUME NEW s \in Sources,
              SetInterruptSource(s) \/ ClearInterruptSource(s)
       PROVE  WithinFrame'
  BY <1>11 DEF SetInterruptSource, ClearInterruptSource
<1>12. CASE UNCHANGED vars
  BY <1>12 DEF vars
<1>13. QED
  BY <1>1, <1>2, <1>3, <1>4, <1>5, <1>6, <1>7, <1>8, <1>9, <1>10, <1>11,
     <1>12 DEF Next, RunThread

(* A minimum read under the lock stays one until it is stored, and without  *)
(* a Schedule at the entry of Emulate so does the one Start reads.          *)
LEMMA MinimaCurrentStep ==
  TypeOK /\ LockDiscipline /\ PointerDiscipline /\ MinimaCurrent /\ [Next]_vars
    => MinimaCurrent'
<1> SUFFICES ASSUME TypeOK, LockDiscipline, PointerDiscipline, MinimaCurrent,
                    [Next]_vars
             PROVE  MinimaCurrent'
  OBVIOUS
<1> USE DEF MinimaCurrent, TargetTracksFront, Queued, InStart, queueVars,
            threadVars
<1>0. /\ cycle \in Nat /\ cycle_stop \in Nat /\ event_cycle \in Nat
      /\ stop \in Nat /\ start_min \in Nat /\ new_min \in [Threads -> Nat]
      /\ entries \in [Events -> Nat]
      /\ lock \in Threads \cup {"free", "run"}
      /\ tpc \in [Threads -> {"idle", "pushed", "store"}]
      /\ lock = "run" <=> pc \in {"drain", "callback"}
      /\ \A t \in Threads : lock = t <=> tpc[t] # "idle"
      /\ Queued(entries) # {} => HasQueue
      /\ QuietStart /\ pc \in InStart => \A t \in Threads : tpc[t] = "idle"
  BY DEF TypeOK, LockDiscipline
<1>1. CASE NewFrame \/ Enter \/ StartStop \/ StartStore
  BY <1>0, <1>1 DEF NewFrame, Enter, StartStop, StartStore
<1>2. CASE StartRead
  BY <1>0, <1>2, TargetBounds DEF StartRead
<1>3. CASE LoopHead \/ StepSample \/ Interrupt \/ Emu
  BY <1>0, <1>3 DEF LoopHead, StepSample, Sample, Interrupt, Emu,
                    AfterInstruction
<1>4. CASE ExpireEnter \/ ExpirePop \/ CallbackReturn
  BY <1>0, <1>4 DEF ExpireEnter, ExpirePop, CallbackReturn, IsFront, Idle
<1>5. CASE CallbackSchedule
  BY <1>0, <1>5 DEF CallbackSchedule
<1>6. CASE ExpireReturn
  BY <1>0, <1>6, TargetBounds DEF ExpireReturn
<1>7. CASE FrameCheck \/ StepEnter
  BY <1>0, <1>7 DEF FrameCheck, StepEnter
<1>8. ASSUME NEW t \in Threads, SchedulePush(t) PROVE MinimaCurrent'
  BY <1>0, <1>8 DEF SchedulePush
<1>9. ASSUME NEW t \in Threads, ScheduleRead(t) PROVE MinimaCurrent'
  BY <1>0, <1>9, TargetBounds DEF ScheduleRead
<1>10. ASSUME NEW t \in Threads, ScheduleStore(t) PROVE MinimaCurrent'
  <2>1. HasQueue /\ cycle_ptr # "unset"
    BY <1>0, <1>10 DEF ScheduleStore, LockDiscipline, PointerDiscipline
  <2>2. pc \in InStart \/ cycle_ptr = "dangling" \/ PointsToLimit
    BY <2>1 DEF PointerDiscipline
  <2>3. QED
    BY <1>0, <1>10, <2>2 DEF ScheduleStore
<1>11. ASSUME NEW s \in Sources,
              SetInterruptSource(s) \/ ClearInterruptSource(s)
       PROVE  MinimaCurrent'
  BY <1>11 DEF SetInterruptSource, ClearInterruptSource
<1>12. CASE UNCHANGED vars
  BY <1>12 DEF vars
<1>13. QED
  BY <1>1, <1>2, <1>3, <1>4, <1>5, <1>6, <1>7, <1>8, <1>9, <1>10, <1>11,
     <1>12 DEF Next, RunThread, Schedule

-----------------------------------------------------------------------------
(* The inductive invariant of the loop and its queue (cpu.cc:77-168).       *)
LEMMA Invariance == Spec => []Inv
<1>1. Init => Inv
  BY DEF Init, Inv, TypeOK, PcValues, InStart, Idle, Sources, LockDiscipline,
         PointerDiscipline, Loops, Queued, WithinFrame, StopsAtFrameEnd,
         MinimaCurrent, TargetTracksFront
<1>2. Inv /\ [Next]_vars => Inv'
  BY TypeStep, LockDisciplineStep, PointerDisciplineStep, WithinFrameStep,
     MinimaCurrentStep DEF Inv
<1>3. QED
  BY <1>1, <1>2, PTL DEF Spec

(* Every variable of the loop and the queue keeps its type (cpu.cc:77-168). *)
THEOREM TypeCorrect == Spec => []TypeOK
BY Invariance, PTL DEF Inv

(* With no Schedule at the entry of Emulate, the unlocked comparison with   *)
(* event_cycle never misses a posted event (cpu.cc:110).                    *)
THEOREM TargetTracksFrontAlways == Spec => []TargetTracksFront
BY Invariance, PTL DEF Inv, MinimaCurrent

(* Emulate begins no instruction at or after cycle_stop, even when Start    *)
(* races with Schedule (cpu.cc:109-129).                                    *)
THEOREM StopsAtFrameEndAlways == Spec => []StopsAtFrameEnd
BY Invariance, PTL DEF Inv, WithinFrame

-----------------------------------------------------------------------------
(* The loop implements EventSchedule when no Schedule overlaps the entry of *)
(* Emulate: the instruction that begins at LoopHead, or that SingleStep     *)
(* commits to when Expire returns, finds nothing due, because a due event   *)
(* would have lowered event_cycle to at most cycle.                         *)

(* An instruction begins with no event due, or overtakes a Schedule that    *)
(* has not returned (cpu.cc:110-126).                                       *)
LEMMA LoopHeadBegins ==
  ASSUME QuietStart, Inv, LoopHead
  PROVE  [Abstract!Next]_(Abstract!vars)
<1> USE DEF LoopHead, queueVars, threadVars, InStart, Queued, Abstract!Posted,
            Abstract!Due, Abstract!Idle, Idle
<1>1. /\ cycle \in Nat /\ event_cycle \in Nat /\ entries \in [Events -> Nat]
      /\ lock \in Threads \cup {"free", "run"}
      /\ lock # "run" /\ cycle_ptr # "dangling"
  BY DEF Inv, TypeOK, LockDiscipline, PointerDiscipline
<1>2. CASE cycle < event_cycle
  <2>1. lock \in Threads \/ Abstract!Due = {}
    <3>1. SUFFICES ASSUME lock = "free" PROVE Abstract!Due = {}
      BY <1>1
    <3>2. \A e \in Queued(entries) : event_cycle <= entries[e]
      BY <1>1, <3>1 DEF Inv, MinimaCurrent, TargetTracksFront
    <3>3. QED
      BY <1>1, <1>2, <3>2
  <2>2. Abstract!Begin
    BY <1>2, <2>1 DEF Abstract!Begin, Sample
  <2>3. QED
    BY <2>2 DEF Abstract!Next
<1>3. CASE ~(cycle < event_cycle)
  BY <1>3 DEF Abstract!vars
<1>4. QED
  BY <1>2, <1>3

(* SingleStep commits to its instruction when Expire returns, with nothing  *)
(* due (cpu.cc:77-100).                                                     *)
LEMMA ExpireReturns ==
  ASSUME Inv, ExpireReturn
  PROVE  [Abstract!Next]_(Abstract!vars)
<1> USE DEF ExpireReturn, IsDue, Queued, Abstract!Posted, Abstract!Due,
            Abstract!Idle, Idle
<1>1. /\ cycle \in Nat /\ entries \in [Events -> Nat]
      /\ lock = "run"
  BY DEF Inv, TypeOK, LockDiscipline
<1>2. CASE caller = "SingleStep"
  <2>1. Abstract!Due = {}
    BY <1>1
  <2>2. Abstract!Begin
    BY <1>1, <1>2, <2>1 DEF Abstract!Begin
  <2>3. QED
    BY <2>2 DEF Abstract!Next
<1>3. CASE caller # "SingleStep"
  BY <1>1, <1>3 DEF Abstract!vars
<1>4. QED
  BY <1>2, <1>3

(* The loop and its queue implement EventSchedule (cpu.cc:77-168).          *)
THEOREM LoopImplementsSchedule ==
  ASSUME QuietStart
  PROVE  Spec => ImplementsSchedule
<1>1. Init => Abstract!Init
  BY DEF Init, Abstract!Init, Idle, Abstract!Idle
<1>2. Inv /\ [Next]_vars => [Abstract!Next]_(Abstract!vars)
  <2> SUFFICES ASSUME Inv, [Next]_vars PROVE [Abstract!Next]_(Abstract!vars)
    OBVIOUS
  <2> USE DEF queueVars, threadVars, Abstract!vars
  <2>0. /\ cycle \in Nat /\ entries \in [Events -> Nat]
        /\ lock \in Threads \cup {"free", "run"}
        /\ lock = "run" <=> pc \in {"drain", "callback"}
        /\ \A t \in Threads : lock = t <=> tpc[t] # "idle"
        /\ Queued(entries) # {} => HasQueue
    BY DEF Inv, TypeOK, LockDiscipline
  <2>1. CASE NewFrame \/ Enter \/ StartStop \/ StartRead \/ StartStore
    BY <2>1 DEF NewFrame, Enter, StartStop, StartRead, StartStore
  <2>2. CASE LoopHead
    BY <2>2, LoopHeadBegins
  <2>3. CASE Interrupt \/ Emu
    <3>1. Abstract!Execute
      BY <2>3 DEF Interrupt, Emu, AfterInstruction, Abstract!Execute
    <3>2. QED
      BY <3>1 DEF Abstract!Next
  <2>4. CASE ExpireEnter \/ CallbackReturn \/ FrameCheck
    BY <2>0, <2>4 DEF ExpireEnter, CallbackReturn, FrameCheck
  <2>5. CASE ExpirePop
    <3>1. PICK e \in Events : IsFront(entries, e) /\ entries[e] <= cycle
                              /\ entries' = [entries EXCEPT ![e] = Idle]
      BY <2>5 DEF ExpirePop, IsDue
    <3>2. /\ lock = "run" /\ lock' = "run" /\ cycle' = cycle
          /\ pc = "drain" /\ pc' = "callback"
      BY <2>0, <2>5 DEF ExpirePop
    <3>3. /\ e \in Abstract!Due
          /\ \A o \in Abstract!Posted : entries[e] <= entries[o]
          /\ entries' = [entries EXCEPT ![e] = Abstract!Idle]
      BY <3>1 DEF IsFront, Queued, Idle, Abstract!Due, Abstract!Posted,
                  Abstract!Idle
    <3>4. Abstract!Fire(e)
      BY <3>2, <3>3 DEF Abstract!Fire
    <3>5. QED
      BY <3>4 DEF Abstract!Next
  <2>6. CASE CallbackSchedule
    <3>1. PICK e \in Events, t \in Times :
            entries[e] = Idle /\ entries' = [entries EXCEPT ![e] = t]
      BY <2>6 DEF CallbackSchedule
    <3>2. /\ lock = "run" /\ lock' = "run" /\ cycle' = cycle
          /\ pc = "callback" /\ pc' = "drain"
      BY <2>0, <2>6 DEF CallbackSchedule
    <3>3. e \notin Abstract!Posted
      BY <3>1 DEF Idle, Abstract!Posted, Abstract!Idle
    <3>4. Abstract!PostFromCallback(e, t)
      BY <3>1, <3>2, <3>3 DEF Abstract!PostFromCallback
    <3>5. QED
      BY <3>1, <3>4 DEF Abstract!Next, Times
  <2>7. CASE ExpireReturn
    BY <2>7, ExpireReturns
  <2>8. CASE StepEnter
    <3>1. CASE HasQueue
      BY <2>8, <3>1 DEF StepEnter
    <3>2. CASE ~HasQueue
      <4>1. Abstract!Due = {}
        BY <2>0, <3>2 DEF Queued, Idle, Abstract!Due, Abstract!Posted,
           Abstract!Idle
      <4>2. Abstract!Begin
        BY <2>8, <3>2, <4>1 DEF StepEnter, Abstract!Begin
      <4>3. QED
        BY <4>2 DEF Abstract!Next
    <3>3. QED
      BY <3>1, <3>2
  <2>9. CASE StepSample
    BY <2>9 DEF StepSample, Sample
  <2>10. ASSUME NEW t \in Threads, SchedulePush(t)
         PROVE  [Abstract!Next]_(Abstract!vars)
    <3>1. PICK e \in Events, time \in Times :
            entries[e] = Idle /\ entries' = [entries EXCEPT ![e] = time]
      BY <2>10 DEF SchedulePush
    <3>2. Abstract!Post(e, time)
      BY <2>0, <2>10, <3>1 DEF SchedulePush, Abstract!Post, Abstract!Posted,
         Abstract!Idle, Idle
    <3>3. QED
      BY <3>1, <3>2 DEF Abstract!Next, Times
  <2>11. ASSUME NEW t \in Threads, ScheduleRead(t)
         PROVE  [Abstract!Next]_(Abstract!vars)
    BY <2>11 DEF ScheduleRead
  <2>12. ASSUME NEW t \in Threads, ScheduleStore(t)
         PROVE  [Abstract!Next]_(Abstract!vars)
    <3>1. Abstract!PostReturns
      BY <2>0, <2>12 DEF ScheduleStore, Abstract!PostReturns
    <3>2. QED
      BY <3>1 DEF Abstract!Next
  <2>13. ASSUME NEW s \in Sources,
                SetInterruptSource(s) \/ ClearInterruptSource(s)
         PROVE  [Abstract!Next]_(Abstract!vars)
    BY <2>13 DEF SetInterruptSource, ClearInterruptSource
  <2>14. CASE UNCHANGED vars
    BY <2>14 DEF vars
  <2>15. QED
    BY <2>1, <2>2, <2>3, <2>4, <2>5, <2>6, <2>7, <2>8, <2>9, <2>10, <2>11,
       <2>12, <2>13, <2>14 DEF Next, RunThread, Schedule
<1>3. QED
  BY <1>1, <1>2, Invariance, PTL DEF Spec, ImplementsSchedule, Abstract!Spec
-----------------------------------------------------------------------------
(* What the loop committed to on its one load of pending_interrupts.        *)

NmiIfMasked == pc = "interrupt" /\ interrupts = 0 => type = 1

(* The sum reaches 3 with interrupts disabled only if the NMI bit is in it  *)
(* (cpu.cc:113).                                                            *)
LEMMA MaskedSampleTakesNmi ==
  ASSUME interrupts = 0, TakesInterrupt(pending) PROVE NMI \in pending
BY DEF TakesInterrupt, PendingBits, IRQ, NMI

(* Only the two samples lead to an interrupt, and the flag does not change  *)
(* before it is delivered (cpu.cc:112-121, cpu.h:331-342).                   *)
LEMMA NmiIfMaskedStep ==
  ASSUME TypeOK, NmiIfMasked, [Next]_vars PROVE NmiIfMasked'
<1> USE DEF NmiIfMasked, TypeOK, InStart, queueVars, threadVars, irqVars
<1>1. CASE LoopHead \/ StepSample
  BY <1>1, MaskedSampleTakesNmi DEF LoopHead, StepSample, Sample
<1>2. CASE Interrupt \/ Emu
  BY <1>2 DEF Interrupt, Emu, AfterInstruction
<1>3. CASE NewFrame \/ Enter \/ StartStop \/ StartRead \/ StartStore
  BY <1>3 DEF NewFrame, Enter, StartStop, StartRead, StartStore
<1>4. CASE ExpireEnter \/ ExpirePop \/ CallbackReturn \/ CallbackSchedule
           \/ ExpireReturn \/ FrameCheck \/ StepEnter
  BY <1>4 DEF ExpireEnter, ExpirePop, CallbackReturn, CallbackSchedule,
     ExpireReturn, FrameCheck, StepEnter
<1>5. ASSUME NEW t \in Threads, Schedule(t) PROVE NmiIfMasked'
  BY <1>5 DEF Schedule, SchedulePush, ScheduleRead, ScheduleStore
<1>6. ASSUME NEW s \in Sources,
             SetInterruptSource(s) \/ ClearInterruptSource(s)
      PROVE  NmiIfMasked'
  BY <1>6 DEF SetInterruptSource, ClearInterruptSource
<1>7. CASE UNCHANGED vars
  BY <1>7 DEF vars
<1>8. QED
  BY <1>1, <1>2, <1>3, <1>4, <1>5, <1>6, <1>7 DEF Next, RunThread

(* While interrupts are disabled only an NMI is delivered, and it leaves an *)
(* IRQ that waits where it is, whatever devices raise or drop between the   *)
(* load and the delivery (cpu.cc:112-121).                                   *)
THEOREM MaskedIrqHeldAlways == Spec => MaskedIrqHeld
<1>1. Init => NmiIfMasked
  BY DEF Init, NmiIfMasked
<1>2. TypeOK /\ NmiIfMasked /\ [Next]_vars => NmiIfMasked'
  BY NmiIfMaskedStep
<1>3. TypeOK /\ NmiIfMasked /\ [Next]_vars =>
        [(pc = "interrupt" /\ pc' # "interrupt" /\ interrupts = 0)
           => (type = 1 /\ (IRQ \in pending => IRQ \in pending'))]_vars
  <2> SUFFICES ASSUME TypeOK, NmiIfMasked, Next, pc = "interrupt",
                      pc' # "interrupt", interrupts = 0
               PROVE  type = 1 /\ (IRQ \in pending => IRQ \in pending')
    OBVIOUS
  <2>1. type = 1
    BY DEF NmiIfMasked
  <2>2. Interrupt
    BY DEF Next, RunThread, NewFrame, Enter, StartStop, StartRead, StartStore,
       LoopHead, Emu, ExpireEnter, ExpirePop, CallbackReturn,
       CallbackSchedule, ExpireReturn, FrameCheck, StepEnter, StepSample,
       Schedule, SchedulePush, ScheduleRead, ScheduleStore,
       SetInterruptSource, ClearInterruptSource
  <2> QED
    BY <2>1, <2>2 DEF Interrupt, IRQ, NMI
<1>4. QED
  BY <1>1, <1>2, <1>3, TypeCorrect, PTL DEF Spec, MaskedIrqHeld
=============================================================================
