------------------------------- MODULE RunLoop -------------------------------
(***************************************************************************)
(* The execution loop every emulated system runs on, and the event queue   *)
(* it shares with other threads: Emulate, EmulateWithCycleProcessing and   *)
(* SingleStep of EmulatedCpu, EventQueue and the interrupt request bits of *)
(* CpuState (cpu.h, cpu.cc).                                               *)
(*                                                                         *)
(* One run thread calls the loops over and over.  External threads call    *)
(* EventQueue::Schedule, which takes the queue's lock; event callbacks run *)
(* on the run thread with the lock held and may call ScheduleNoLock.  The  *)
(* loop's only link to the queue is event_cycle: it executes instructions  *)
(* while cycle < event_cycle, reading event_cycle without the lock, and    *)
(* everything posted to the queue must lower it through the pointer Start  *)
(* gave it.  Emulate has event_cycle in CpuState; the other loop has it on *)
(* its stack, and leaves the pointer dangling when it returns.             *)
(* Interrupt sources are raised and cleared by devices at any time.        *)
(*                                                                         *)
(* Breakpoints, the other thing the loop looks at before an instruction,   *)
(* are modelled in DebugInterface.                                         *)
(***************************************************************************)
EXTENDS Naturals

CONSTANTS
  Threads,     \* threads that call EventQueue::Schedule
  Events,      \* the callbacks that can be in the queue, one entry each
  Costs,       \* the cycles an instruction can take
  FrameLengths,\* by how much the host moves cycle_stop for one call
  MaxCycle,    \* bound: no event is posted, no frame ends, beyond this cycle
  HasQueue,    \* FALSE: the loops are called with no queue, the default
  QuietStart   \* TRUE: no Schedule overlaps the entry of a loop

ASSUME RunLoopAssumption ==
  /\ Costs \subseteq Nat \ {0}
  /\ FrameLengths \subseteq Nat
  /\ MaxCycle \in Nat
  /\ HasQueue \in BOOLEAN
  /\ QuietStart \in BOOLEAN
  /\ "free" \notin Threads /\ "run" \notin Threads

VARIABLES
  cycle,       \* CpuState::cycle
  cycle_stop,  \* CpuState::cycle_stop, set by the host before the call
  event_cycle, \* the limit of the loop: CpuState::event_cycle, or the local
               \* of that name in EmulateWithCycleProcessing
  stop,        \* EventQueue::stop
  entries,     \* EventQueue::entries: the time of each posted event, or Idle
  lock,        \* EventQueue::lock: its holder, or "free"
  pc,          \* where the run thread is
  start_min,   \* the minimum Start has read and not yet stored, else 0
  tpc,         \* where each external thread is inside Schedule
  new_min,     \* the minimum each of them has read and not yet stored, else 0
  interrupts,  \* CpuState::interrupts: 1 when interrupts are allowed
  pending,     \* CpuState::pending_interrupts, as the set of raised sources
  type,        \* the interrupt type the loop chose: 1 for NMI, else 0
  caller,      \* which of the loops the run thread is, or was last, in
  cycle_ptr    \* what EventQueue::cycle points to

queueVars == <<stop, entries, lock>>
threadVars == <<tpc, new_min>>
irqVars == <<interrupts, pending, type>>
vars == <<cycle, cycle_stop, event_cycle, start_min, pc, caller, cycle_ptr,
          queueVars, threadVars, irqVars>>

-----------------------------------------------------------------------------
(* Interrupt sources: bit 1 of pending_interrupts is IRQ, bit 2 is NMI.    *)

IRQ == 1
NMI == 2
Sources == {IRQ, NMI}

Idle == MaxCycle + 1   \* larger than every time an event can be posted for
Times == 0..MaxCycle

PendingBits(p) == (IF IRQ \in p THEN 2 ELSE 0) + (IF NMI \in p THEN 4 ELSE 0)

\* Variant: the test asks for interrupts allowed whatever the source.
TakesInterruptMaskingNmi(p) == p # {} /\ interrupts = 1

\* Variant: >= 2, which every source alone passes.
TakesInterruptOffByOne(p) == PendingBits(p) + interrupts >= 2

\* The loop's test for an interrupt, on its one load of pending_interrupts.
TakesInterrupt(p) == PendingBits(p) + interrupts >= 3

-----------------------------------------------------------------------------
(* The heap.  Its front is the smallest time; of equal times any may be.   *)

Queued(q) == {e \in Events : q[e] # Idle}
Minima(S) == {v \in S : \A w \in S : v <= w}

\* Variant: the minimum of the heap alone.
TargetBeyondStop(s, q) ==
  IF Queued(q) = {} THEN {s} ELSE Minima({q[e] : e \in Queued(q)})

\* std::min(stop, entries.begin()->t), or stop when the heap is empty.
Target(s, q) == Minima({s} \cup {q[e] : e \in Queued(q)})

\* Variant: the heap is ordered the other way.
IsFrontOfMaxHeap(q, e) == e \in Queued(q) /\ \A o \in Queued(q) : q[e] >= q[o]

IsFront(q, e) == e \in Queued(q) /\ \A o \in Queued(q) : q[e] <= q[o]

\* Variant: an event is due from the cycle after its own.
IsDueLate(e) == entries[e] < cycle

\* entries.front().t <= t
IsDue(e) == entries[e] <= cycle

Loops == {"Emulate", "EmulateWithCycleProcessing"}

\* A store through EventQueue::cycle reaches the limit of the current loop.
\* One through a dangling pointer hits dead stack memory.
PointsToLimit ==
  cycle_ptr = IF caller = "EmulateWithCycleProcessing" THEN "local"
                                                       ELSE "CpuState"

\* Program points between a loop's entry and the end of EventQueue::Start.
InStart == {"enter", "start", "start_read", "start_store"}

-----------------------------------------------------------------------------
(* The host and the entry of Emulate and EmulateWithCycleProcessing.       *)

\* The host moves cycle_stop and calls a loop; after MaxCycle only calls
\* with nothing left to run remain.
NewFrame ==
  /\ pc = "host"
  /\ \E n \in FrameLengths \cup {0} :
       /\ cycle + n <= MaxCycle \/ n = 0
       /\ cycle_stop' = cycle + n
  /\ QuietStart => \A t \in Threads : tpc[t] = "idle"
  /\ pc' = "enter"
  /\ caller' \in Loops
  /\ UNCHANGED <<cycle, event_cycle, start_min, cycle_ptr, queueVars,
                 threadVars, irqVars>>

\* event_cycle = state->cycle_stop; events->Start only if there is one.
Enter ==
  /\ pc = "enter"
  /\ event_cycle' = cycle_stop
  /\ pc' = IF HasQueue THEN "start" ELSE "loop"
  /\ UNCHANGED <<cycle, cycle_stop, start_min, caller, cycle_ptr, queueVars,
                 threadVars, irqVars>>

\* EventQueue::Start takes no lock: stop, the read of the front and the
\* store to *cycle are three steps other threads can fall between.
StartStop ==
  /\ pc = "start"
  /\ stop' = cycle_stop
  /\ cycle_ptr' = IF caller = "Emulate" THEN "CpuState" ELSE "local"
  /\ pc' = "start_read"
  /\ UNCHANGED <<cycle, cycle_stop, event_cycle, start_min, caller, entries,
                 lock, threadVars, irqVars>>

StartRead ==
  /\ pc = "start_read"
  /\ IF Queued(entries) = {}
       THEN pc' = "loop" /\ UNCHANGED start_min
       ELSE pc' = "start_store" /\ start_min' \in Target(stop, entries)
  /\ UNCHANGED <<cycle, cycle_stop, event_cycle, caller, cycle_ptr, queueVars,
                 threadVars, irqVars>>

StartStore ==
  /\ pc = "start_store"
  /\ event_cycle' = start_min
  /\ start_min' = 0
  /\ pc' = "loop"
  /\ UNCHANGED <<cycle, cycle_stop, caller, cycle_ptr, queueVars, threadVars,
                 irqVars>>

-----------------------------------------------------------------------------
(* The loop: while(cycle < event_cycle), the load of pending_interrupts,   *)
(* then an interrupt or an instruction.                                    *)

\* Variant: type is the raw bit of pending_interrupts.
SampleRawBit(run, irq) ==
  /\ type' = IF NMI \in pending THEN 4 ELSE 0
  /\ pc' = IF TakesInterrupt(pending) THEN irq ELSE run

\* With the load of pending_interrupts the loop commits to what it does
\* next; a source raised later waits for the next round.
Sample(run, irq) ==
  /\ type' = IF NMI \in pending THEN 1 ELSE 0
  /\ pc' = IF TakesInterrupt(pending) THEN irq ELSE run

LoopHead ==
  /\ pc = "loop"
  /\ IF cycle < event_cycle
       THEN Sample("emu", "interrupt")
       ELSE pc' = "expire" /\ UNCHANGED type
  /\ UNCHANGED <<cycle, cycle_stop, event_cycle, start_min, caller, cycle_ptr,
                 queueVars, threadVars, interrupts, pending>>

AfterInstruction == IF caller = "SingleStep" THEN "host" ELSE "loop"

\* exec->interrupt: DoInterrupt masks interrupts and tells the system, which
\* deasserts the source it was told of.
Interrupt ==
  /\ pc = "interrupt"
  /\ interrupts' = 0
  /\ pending' = pending \ {IF type = 1 THEN NMI ELSE IRQ}
  /\ type' = 0
  /\ \E c \in Costs : cycle' = cycle + c
  /\ pc' = AfterInstruction
  /\ UNCHANGED <<cycle_stop, event_cycle, start_min, caller, cycle_ptr,
                 queueVars, threadVars>>

\* exec->emu: some cycles pass, and the instruction may be one of those that
\* set or clear the interrupt-disable flag.
Emu ==
  /\ pc = "emu"
  /\ \E c \in Costs : cycle' = cycle + c
  /\ interrupts' \in {0, 1}
  /\ pc' = AfterInstruction
  /\ UNCHANGED <<cycle_stop, event_cycle, start_min, caller, cycle_ptr,
                 queueVars, threadVars, pending, type>>

-----------------------------------------------------------------------------
(* EventQueue::Expire on the run thread.                                   *)

\* Emulate calls Expire through events whether or not it was given one.
ExpireEnter ==
  /\ pc = "expire"
  /\ IF HasQueue
       THEN lock = "free" /\ lock' = "run" /\ pc' = "drain"
       ELSE /\ pc' = IF caller = "Emulate" THEN "null_queue" ELSE "check"
            /\ UNCHANGED lock
  /\ UNCHANGED <<cycle, cycle_stop, event_cycle, start_min, caller, cycle_ptr,
                 stop, entries, threadVars, irqVars>>

\* The front is due: it leaves the heap, then its callback runs.
ExpirePop ==
  /\ pc = "drain"
  /\ \E e \in Events :
       /\ IsFront(entries, e)
       /\ IsDue(e)
       /\ entries' = [entries EXCEPT ![e] = Idle]
  /\ pc' = "callback"
  /\ UNCHANGED <<cycle, cycle_stop, event_cycle, start_min, caller, cycle_ptr,
                 stop, lock, threadVars, irqVars>>

\* A callback that posts nothing.
CallbackReturn ==
  /\ pc = "callback"
  /\ pc' = "drain"
  /\ UNCHANGED <<cycle, cycle_stop, event_cycle, start_min, caller, cycle_ptr,
                 queueVars, threadVars, irqVars>>

\* A callback that posts an event, itself or another, with ScheduleNoLock:
\* the lock is already held around it.  Callbacks post into the future: one
\* that posted a time already due would be popped by the same Expire.
CallbackSchedule ==
  /\ pc = "callback"
  /\ \E e \in Events, t \in Times :
       /\ entries[e] = Idle
       /\ t > cycle
       /\ entries' = [entries EXCEPT ![e] = t]
       /\ event_cycle' \in Target(stop, entries')
  /\ pc' = "drain"
  /\ UNCHANGED <<cycle, cycle_stop, start_min, caller, cycle_ptr, stop, lock,
                 threadVars, irqVars>>

\* Variant: Expire leaves event_cycle at the end of the frame.
ExpireReturnToStop ==
  /\ pc = "drain"
  /\ \A e \in Queued(entries) : ~IsDue(e)
  /\ event_cycle' = stop
  /\ lock' = "free"
  /\ pc' = IF caller = "SingleStep" THEN "step" ELSE "check"
  /\ UNCHANGED <<cycle, cycle_stop, start_min, caller, cycle_ptr, stop,
                 entries, threadVars, irqVars>>

ExpireReturn ==
  /\ pc = "drain"
  /\ \A e \in Queued(entries) : ~IsDue(e)
  /\ event_cycle' \in Target(stop, entries)
  /\ lock' = "free"
  /\ pc' = IF caller = "SingleStep" THEN "step" ELSE "check"
  /\ UNCHANGED <<cycle, cycle_stop, start_min, caller, cycle_ptr, stop,
                 entries, threadVars, irqVars>>

\* while(state->cycle < state->cycle_stop), else the loop returns.
FrameCheck ==
  /\ pc = "check"
  /\ pc' = IF cycle < cycle_stop THEN "loop" ELSE "host"
  /\ cycle_ptr' = IF pc' = "host" /\ cycle_ptr = "local" THEN "dangling"
                                                          ELSE cycle_ptr
  /\ UNCHANGED <<cycle, cycle_stop, event_cycle, start_min, caller,
                 queueVars, threadVars, irqVars>>

-----------------------------------------------------------------------------
(* EmulatedCpu::SingleStep: Expire, then one interrupt or one instruction, *)
(* whatever event_cycle says.  It has no Start: with a queue it must come  *)
(* after a loop whose event_cycle still exists.                            *)

StepEnter ==
  /\ pc = "host"
  /\ HasQueue => cycle_ptr = "CpuState"
  /\ cycle < MaxCycle
  /\ caller' = "SingleStep"
  /\ pc' = IF HasQueue THEN "expire" ELSE "step"
  /\ UNCHANGED <<cycle, cycle_stop, event_cycle, start_min, cycle_ptr, queueVars,
                 threadVars, irqVars>>

StepSample ==
  /\ pc = "step"
  /\ Sample("emu", "interrupt")
  /\ UNCHANGED <<cycle, cycle_stop, event_cycle, start_min, caller, cycle_ptr,
                 queueVars, threadVars, interrupts, pending>>

-----------------------------------------------------------------------------
(* EventQueue::Schedule on another thread, once a loop has called Start:   *)
(* before that EventQueue::cycle points nowhere.                           *)

SchedulePush(t) ==
  /\ tpc[t] = "idle"
  /\ HasQueue /\ cycle_ptr # "unset"
  /\ QuietStart => pc \notin InStart
  /\ lock = "free"
  /\ lock' = t
  /\ \E e \in Events, time \in Times :
       /\ entries[e] = Idle
       /\ entries' = [entries EXCEPT ![e] = time]
  /\ tpc' = [tpc EXCEPT ![t] = "pushed"]
  /\ UNCHANGED <<cycle, cycle_stop, event_cycle, start_min, pc, caller,
                 cycle_ptr, stop, new_min, irqVars>>

ScheduleRead(t) ==
  /\ tpc[t] = "pushed"
  /\ \E v \in Target(stop, entries) : new_min' = [new_min EXCEPT ![t] = v]
  /\ tpc' = [tpc EXCEPT ![t] = "store"]
  /\ UNCHANGED <<cycle, cycle_stop, event_cycle, start_min, pc, caller,
                 cycle_ptr, queueVars, irqVars>>

ScheduleStore(t) ==
  /\ tpc[t] = "store"
  /\ event_cycle' = IF PointsToLimit THEN new_min[t] ELSE event_cycle
  /\ new_min' = [new_min EXCEPT ![t] = 0]
  /\ lock' = "free"
  /\ tpc' = [tpc EXCEPT ![t] = "idle"]
  /\ UNCHANGED <<cycle, cycle_stop, start_min, pc, caller, cycle_ptr, stop,
                 entries, irqVars>>

-----------------------------------------------------------------------------
(* Devices.                                                                *)

SetInterruptSource(s) ==
  /\ pending' = pending \cup {s}
  /\ UNCHANGED <<cycle, cycle_stop, event_cycle, start_min, pc, caller,
                 cycle_ptr, queueVars, threadVars, interrupts, type>>

ClearInterruptSource(s) ==
  /\ pending' = pending \ {s}
  /\ UNCHANGED <<cycle, cycle_stop, event_cycle, start_min, pc, caller,
                 cycle_ptr, queueVars, threadVars, interrupts, type>>

-----------------------------------------------------------------------------

Init ==
  /\ cycle = 0 /\ cycle_stop = 0 /\ event_cycle = 0 /\ stop = 0
  /\ entries = [e \in Events |-> Idle]
  /\ lock = "free"
  /\ pc = "host"
  /\ start_min = 0
  /\ tpc = [t \in Threads |-> "idle"]
  /\ new_min = [t \in Threads |-> 0]
  /\ interrupts = 0 /\ pending = {} /\ type = 0
  /\ caller = "Emulate" /\ cycle_ptr = "unset"

RunThread ==
  \/ NewFrame \/ Enter \/ StartStop \/ StartRead \/ StartStore
  \/ LoopHead \/ Interrupt \/ Emu
  \/ ExpireEnter \/ ExpirePop \/ CallbackReturn \/ CallbackSchedule
  \/ ExpireReturn \/ FrameCheck \/ StepEnter \/ StepSample

Schedule(t) == SchedulePush(t) \/ ScheduleRead(t) \/ ScheduleStore(t)

Next ==
  \/ RunThread
  \/ \E t \in Threads : Schedule(t)
  \/ \E s \in Sources : SetInterruptSource(s) \/ ClearInterruptSource(s)

Spec == Init /\ [][Next]_vars

\* The run thread and a thread inside Schedule keep going.
Progress ==
  /\ WF_vars(RunThread)
  /\ \A t \in Threads : WF_vars(ScheduleRead(t) \/ ScheduleStore(t))

\* The host goes on asking for frames that have cycles in them.
HostAdvances == SF_vars(NewFrame /\ cycle_stop' > cycle)

FairSpec == Spec /\ Progress
AdvancingSpec == Spec /\ Progress /\ HostAdvances

-----------------------------------------------------------------------------
(* Properties.                                                             *)

PcValues == InStart \cup
  {"host", "loop", "emu", "interrupt", "expire", "drain", "callback", "check",
   "step", "null_queue"}

\* The state space of the loops and the queue (cpu.cc:77-168).
TypeOK ==
  /\ cycle \in Nat /\ cycle_stop \in Nat /\ event_cycle \in Nat
  /\ stop \in Nat /\ start_min \in Nat
  /\ entries \in [Events -> Nat]
  /\ lock \in Threads \cup {"free", "run"}
  /\ pc \in PcValues
  /\ tpc \in [Threads -> {"idle", "pushed", "store"}]
  /\ new_min \in [Threads -> Nat]
  /\ interrupts \in {0, 1}
  /\ pending \subseteq Sources
  /\ type \in {0, 1}
  /\ caller \in Loops \cup {"SingleStep"}
  /\ cycle_ptr \in {"unset", "CpuState", "local", "dangling"}

\* Once Start has run, until the loop's event_cycle is gone, and while nobody
\* is inside the queue, event_cycle is at or below the time of every posted
\* event, so the unlocked comparison in while(cycle < event_cycle)
\* (cpu.cc:110, cpu.h:330) cannot run past one.  It does not hold when a
\* Schedule overlaps the entry of the loop (QuietStart = FALSE): Start then
\* overwrites the lowered event_cycle with the minimum it read.
TargetTracksFront ==
  (QuietStart /\ lock = "free" /\ pc \notin InStart /\ cycle_ptr # "dangling")
    => \A e \in Queued(entries) : event_cycle <= entries[e]

\* Whatever order Start, Schedule and Expire write event_cycle in, none of
\* their values lets a loop begin an instruction at or after cycle_stop
\* (cpu.cc:109-129, cpu.h:329-352).
StopsAtFrameEnd ==
  (pc \in {"emu", "interrupt"} /\ caller \in Loops) => cycle < cycle_stop

\* The sum interrupts + pending_interrupts >= 3 (cpu.cc:113) lets no IRQ
\* through while the program has interrupts disabled, and a source raised
\* between the load and the delivery does not change what was decided.
MaskedIrqHeld ==
  [][(pc = "interrupt" /\ pc' # "interrupt" /\ interrupts = 0)
       => (type = 1 /\ (IRQ \in pending => IRQ \in pending'))]_vars

\* Emulate is declared with events = nullptr and tests events before Start:
\* a run without a queue is a legal call (cpu.h:317, cpu.cc:107-108).
QueueNotDereferencedWhenAbsent == pc # "null_queue"

\* An event that has come due is fired, even when Start's race with Schedule
\* has put event_cycle above it: cycle_stop still bounds the loop
\* (cpu.cc:128-129, 146-159).
DueFires ==
  \A e \in Events :
    (e \in Queued(entries) /\ entries[e] <= cycle)
      ~> ~(e \in Queued(entries) /\ entries[e] <= cycle)

\* An NMI that is waiting when the host is about to run frames is delivered,
\* whatever the program does to its interrupt flag (cpu.cc:112-121), as long
\* as frames with cycles in them are run and the other threads do not post
\* events for ever: each post sends the loop to Expire before it looks at
\* pending_interrupts again.
NmiTaken ==
  <>[](lock \notin Threads) =>
    ((NMI \in pending /\ pc = "host" /\ cycle < MaxCycle)
       ~> NMI \notin pending)

\* What the loop promises of its events, stated on its own.
Abstract == INSTANCE EventSchedule WITH
  now <- cycle,
  when <- entries,
  committed <- pc \in {"emu", "interrupt", "step"},
  posting <- lock \in Threads

\* No instruction begins while an event whose Schedule has returned is due,
\* and events leave the queue once, when due, earliest first (cpu.cc:102-168).
ImplementsSchedule == Abstract!Spec
=============================================================================
