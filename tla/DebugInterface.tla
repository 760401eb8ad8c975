--------------------------- MODULE DebugInterface ---------------------------
(***************************************************************************)
(* DebugInterface (debug_interface.h, debug_interface.cc): client threads  *)
(* pause, resume and single-step the run thread and edit its breakpoints.  *)
(*                                                                         *)
(* Everything goes through a counter, pause, two flags and two condition   *)
(* variables under pause_lock, and through events posted to the EventQueue *)
(* under its own lock.  PausedFunc stops the run thread by waiting on      *)
(* pause_var inside an event callback (so with the queue's lock held) or   *)
(* inside a breakpoint (without it).  The queue itself is used here by its *)
(* contract (EventSchedule): a posted event that is due is fired before    *)
(* the next instruction begins, earliest first, with the lock held.        *)
(*                                                                         *)
(* The interface is the cross_thread one: pause starts at 0 and            *)
(* breakpoints_pause is true.                                              *)
(***************************************************************************)
EXTENDS Integers, FiniteSets

CONSTANTS
  Clients,     \* threads that call the interface
  Addrs,       \* addresses a breakpoint can be set at
  StepClocks,  \* values of n_clocks passed to SingleStep
  Depth,       \* bound: how many Pauses a client has open at once
  MaxStale,    \* bound: PausedFunc events in the queue at once
  CanPause, CanStep, CanBreak,   \* which calls the clients make
  Serialized   \* TRUE: clients call one at a time (LuaState::exec_lock)

ASSUME DebugAssumption ==
  /\ IsFiniteSet(Clients)
  /\ StepClocks \subseteq Nat \ {0}
  /\ Depth \in Nat /\ MaxStale \in Nat
  /\ {CanPause, CanStep, CanBreak, Serialized} \subseteq BOOLEAN
  /\ "free" \notin Clients /\ "run" \notin Clients

VARIABLES
  pause,          \* the counter: the run thread is to stop while it is not 0
  pause_response, \* 1 while the run thread is inside PausedFunc
  step_pending,   \* 1 while a SingleStepFunc event is in the queue
  pause_lock,     \* holder of pause_lock across steps, or "free"
  waiters,        \* clients in pause_wait_var's wait set
  events_lock,    \* holder of EventQueue::lock, or "free"
  paused_events,  \* PausedFunc events in the queue, all for time 0
  table_ops,      \* breakpoint edits in the queue, all for time 0
  step_left,      \* cycles until the SingleStepFunc event is due, or None
  table,          \* EmulatedCpu::breakpoints, with what each does on a hit
  pc,             \* where the run thread is
  after,          \* where PausedFunc returns to
  bp_mode,        \* pause_on_hit in the closure being run
  was_stepping,   \* the local of that name in the closure
  cpc,            \* where each client is
  edit,           \* the breakpoint edit each client is making
  holders,        \* the Pauses and breakpoint stops that are still open
  stepped         \* the one a SingleStep has reopened, until it is over

dbgVars == <<pause, pause_response, step_pending>>
queueVars == <<paused_events, table_ops, step_left>>
runVars == <<pc, after, bp_mode, was_stepping>>
clientVars == <<cpc, edit>>
openVars == <<holders, stepped>>
vars == <<dbgVars, pause_lock, waiters, events_lock, queueVars, table,
          runVars, clientVars, openVars>>

None == -1
Modes == {"pause", "continue"}       \* SetBreakpoint's pause_on_hit
Edits == (Modes \cup {"none"}) \X Addrs
NoEdit == <<>>
Hit == <<"breakpoint", 0>>           \* the closure's own ++pause
Tokens == (Clients \X (1..Depth)) \cup {Hit}

\* The run thread is stopped: in pause_var's wait set, or out of it and about
\* to look at pause again.
CpuStopped == pc \in {"paused", "woken"}

-----------------------------------------------------------------------------
(* The run thread: the loop of EmulatedCpu, as far as a client can tell.   *)

Due == paused_events > 0 \/ table_ops # {} \/ step_left = 0

\* The head of the loop, and the breakpoint test before an instruction, which
\* may be at any address.
Head ==
  /\ pc = "head"
  /\ \/ Due /\ pc' = "expire" /\ UNCHANGED bp_mode
     \/ ~Due /\ pc' = "emu" /\ UNCHANGED bp_mode
     \/ ~Due /\ pc' = "bp_enter"
        /\ \E a \in Addrs : table[a] # "none" /\ bp_mode' = table[a]
  /\ UNCHANGED <<dbgVars, pause_lock, waiters, events_lock, queueVars, table,
                 after, was_stepping, clientVars, openVars>>

\* An instruction takes at least a cycle.
Emu ==
  /\ pc = "emu"
  /\ step_left' \in IF step_left > 0 THEN 0..(step_left - 1) ELSE {step_left}
  /\ pc' = "head"
  /\ UNCHANGED <<dbgVars, pause_lock, waiters, events_lock, paused_events,
                 table_ops, table, after, bp_mode, was_stepping, clientVars,
                 openVars>>

ExpireEnter ==
  /\ pc = "expire"
  /\ events_lock = "free"
  /\ events_lock' = "run"
  /\ pc' = "drain"
  /\ UNCHANGED <<dbgVars, pause_lock, waiters, queueVars, table, after,
                 bp_mode, was_stepping, clientVars, openVars>>

\* Variant: Expire pops without looking whether the queue is empty.
FirePausedUnguarded ==
  /\ pc = "drain"
  /\ paused_events' = paused_events - 1
  /\ pc' = "pf_lock"
  /\ after' = "drain"
  /\ UNCHANGED <<dbgVars, pause_lock, waiters, events_lock, table_ops,
                 step_left, table, bp_mode, was_stepping, clientVars,
                 openVars>>

FirePaused ==
  /\ pc = "drain"
  /\ paused_events > 0
  /\ paused_events' = paused_events - 1
  /\ pc' = "pf_lock"
  /\ after' = "drain"
  /\ UNCHANGED <<dbgVars, pause_lock, waiters, events_lock, table_ops,
                 step_left, table, bp_mode, was_stepping, clientVars,
                 openVars>>

\* AddBreakpoint leaves a breakpoint that is there already as it is.
Edited(t, op) ==
  LET a == op[2] IN
  IF op[1] # "none" /\ t[a] # "none" THEN t ELSE [t EXCEPT ![a] = op[1]]

\* Events of the same time leave the heap in any order.
FireEdit ==
  /\ pc = "drain"
  /\ \E op \in table_ops :
       /\ table_ops' = table_ops \ {op}
       /\ table' = Edited(table, op)
  /\ UNCHANGED <<dbgVars, pause_lock, waiters, events_lock, paused_events,
                 step_left, runVars, clientVars, openVars>>

\* Its time is after every other event's.
FireStep ==
  /\ pc = "drain"
  /\ paused_events = 0 /\ table_ops = {} /\ step_left = 0
  /\ step_left' = None
  /\ pc' = "step_lock"
  /\ UNCHANGED <<dbgVars, pause_lock, waiters, events_lock, paused_events,
                 table_ops, table, after, bp_mode, was_stepping, clientVars,
                 openVars>>

ExpireReturn ==
  /\ pc = "drain"
  /\ ~Due
  /\ events_lock' = "free"
  /\ pc' = "head"
  /\ UNCHANGED <<dbgVars, pause_lock, waiters, queueVars, table, after,
                 bp_mode, was_stepping, clientVars, openVars>>

-----------------------------------------------------------------------------
(* SingleStepFunc and PausedFunc on the run thread.                        *)

\* Variant: SingleStepFunc forgets pause++.
SingleStepFuncUncounted ==
  /\ pc = "step_lock"
  /\ pause_lock = "free"
  /\ step_pending' = 0
  /\ holders' = holders \cup stepped
  /\ stepped' = {}
  /\ pc' = "pf_lock"
  /\ after' = "drain"
  /\ UNCHANGED <<pause, pause_response, pause_lock, waiters, events_lock,
                 queueVars, table, bp_mode, was_stepping, clientVars>>

\* The locked block of SingleStepFunc: the run thread reopens the pause that
\* SingleStep gave up.
SingleStepFunc ==
  /\ pc = "step_lock"
  /\ pause_lock = "free"
  /\ step_pending' = 0
  /\ pause' = pause + 1
  /\ holders' = holders \cup stepped
  /\ stepped' = {}
  /\ pc' = "pf_lock"
  /\ after' = "drain"
  /\ UNCHANGED <<pause_response, pause_lock, waiters, events_lock, queueVars,
                 table, bp_mode, was_stepping, clientVars>>

\* PausedFunc up to its first wait, or to its end when pause is 0: then
\* pause_response goes up and down under the lock and nobody sees it.
PausedFunc ==
  /\ pc = "pf_lock"
  /\ pause_lock = "free"
  /\ waiters' = {}
  /\ IF pause # 0
       THEN pause_response' = 1 /\ pc' = "paused"
       ELSE pause_response' = 0 /\ pc' = after
  /\ UNCHANGED <<pause, step_pending, pause_lock, events_lock, queueVars,
                 table, after, bp_mode, was_stepping, clientVars, openVars>>

\* Variant: if(pause) in place of while(pause).
PausedWakeOnce ==
  /\ pc = "woken"
  /\ pause_lock = "free"
  /\ pc' = after /\ pause_response' = 0 /\ waiters' = {}
  /\ UNCHANGED <<pause, step_pending, pause_lock, events_lock, queueVars,
                 table, after, bp_mode, was_stepping, clientVars, openVars>>

\* Variant: PausedFunc leaves without notifying pause_wait_var.
PausedWakeSilent ==
  /\ pc = "woken"
  /\ pause_lock = "free"
  /\ IF pause # 0
       THEN pc' = "paused" /\ UNCHANGED <<pause_response, waiters>>
       ELSE pc' = after /\ pause_response' = 0 /\ UNCHANGED waiters
  /\ UNCHANGED <<pause, step_pending, pause_lock, events_lock, queueVars,
                 table, after, bp_mode, was_stepping, clientVars, openVars>>

\* while(pause), after a wait.
PausedWake ==
  /\ pc = "woken"
  /\ pause_lock = "free"
  /\ IF pause # 0
       THEN pc' = "paused" /\ UNCHANGED <<pause_response, waiters>>
       ELSE pc' = after /\ pause_response' = 0 /\ waiters' = {}
  /\ UNCHANGED <<pause, step_pending, pause_lock, events_lock, queueVars,
                 table, after, bp_mode, was_stepping, clientVars, openVars>>

-----------------------------------------------------------------------------
(* The closure SetBreakpoint installs, on the run thread.                  *)

BreakpointEnter ==
  /\ pc = "bp_enter"
  /\ pause_lock = "free"
  /\ was_stepping' = step_pending
  /\ IF step_pending = 1
       THEN UNCHANGED <<pause, holders>>
       ELSE pause' = pause + 1 /\ holders' = holders \cup {Hit}
  /\ pc' = "bp_fn"
  /\ UNCHANGED <<pause_response, step_pending, pause_lock, waiters,
                 events_lock, queueVars, table, after, bp_mode, clientVars,
                 stepped>>

PausesOnHit == bp_mode = "pause" /\ was_stepping = 0

\* fn(cpu), without the lock, does nothing to the interface.
BreakpointFn ==
  /\ pc = "bp_fn"
  /\ pc' = IF PausesOnHit THEN "pf_lock" ELSE "bp_leave"
  /\ after' = "emu"
  /\ UNCHANGED <<dbgVars, pause_lock, waiters, events_lock, queueVars, table,
                 bp_mode, was_stepping, clientVars, openVars>>

\* fn(cpu) calls Resume.  pause_response is 0, so the call does not wait, and
\* the notification of pause_var finds nobody.
BreakpointFnResumes ==
  /\ pc = "bp_fn"
  /\ PausesOnHit /\ Hit \in holders
  /\ pause_lock = "free"
  /\ pause' = pause - 1
  /\ holders' = holders \ {Hit}
  /\ pc' = "pf_lock"
  /\ after' = "emu"
  /\ UNCHANGED <<pause_response, step_pending, pause_lock, waiters,
                 events_lock, queueVars, table, bp_mode, was_stepping,
                 clientVars, stepped>>

\* Variant: a breakpoint that does not pause forgets --pause.
BreakpointLeaveCounted ==
  /\ pc = "bp_leave"
  /\ pause_lock = "free"
  /\ holders' = holders \ {Hit}
  /\ pc' = "emu"
  /\ UNCHANGED <<dbgVars, pause_lock, waiters, events_lock, queueVars, table,
                 after, bp_mode, was_stepping, clientVars, stepped>>

BreakpointLeave ==
  /\ pc = "bp_leave"
  /\ pause_lock = "free"
  /\ pause' = pause - 1
  /\ holders' = holders \ {Hit}
  /\ pc' = "emu"
  /\ UNCHANGED <<pause_response, step_pending, pause_lock, waiters,
                 events_lock, queueVars, table, after, bp_mode, was_stepping,
                 clientVars, stepped>>

-----------------------------------------------------------------------------
(* Clients.  A call begins with the step that first takes pause_lock, or   *)
(* reads the state.                                                        *)

CanCall(c) ==
  /\ cpc[c] = "idle"
  /\ Serialized => \A o \in Clients : cpc[o] = "idle"

Goto(c, point) == cpc' = [cpc EXCEPT ![c] = point]

\* Variant: the call does not wait for the run thread.
AwaitNothing(c, point) == Goto(c, "idle") /\ UNCHANGED waiters

\* while(!pause_response) pause_wait_var.wait(l)
AwaitResponse(c, point) ==
  IF pause_response = 1
    THEN Goto(c, "idle") /\ UNCHANGED waiters
    ELSE Goto(c, point) /\ waiters' = waiters \cup {c}

\* A client that finds the counter above 0 returns at once; the one that made
\* it 1 keeps the lock while it posts PausedFunc.
Pause(c) ==
  /\ CanPause /\ CanCall(c)
  /\ paused_events < MaxStale
  /\ pause_lock = "free"
  /\ \E k \in 1..Depth :
       /\ <<c, k>> \notin holders \cup stepped
       /\ holders' = holders \cup {<<c, k>>}
  /\ pause' = pause + 1
  /\ IF pause = 0
       THEN pause_lock' = c /\ Goto(c, "schedule")
       ELSE UNCHANGED <<pause_lock, cpc>>
  /\ UNCHANGED <<pause_response, step_pending, waiters, events_lock,
                 queueVars, table, runVars, edit, stepped>>

\* EventQueue::Schedule(0, PausedFunc), then the wait, which gives up the lock.
PauseSchedule(c) ==
  /\ cpc[c] = "schedule"
  /\ events_lock = "free"
  /\ paused_events' = paused_events + 1
  /\ pause_lock' = "free"
  /\ AwaitResponse(c, "pause_wait")
  /\ UNCHANGED <<dbgVars, events_lock, table_ops, step_left, table, runVars,
                 edit, openVars>>

PauseWait(c) ==
  /\ cpc[c] = "pause_wait"
  /\ c \notin waiters
  /\ pause_lock = "free"
  /\ AwaitResponse(c, "pause_wait")
  /\ UNCHANGED <<dbgVars, pause_lock, events_lock, queueVars, table, runVars,
                 edit, openVars>>

\* Variant: Resume does not wait for the run thread to leave PausedFunc.
ResumeLockedAtOnce(c, wait, done) ==
  /\ pause_lock = "free"
  /\ pause' = pause - 1
  /\ pc' = IF pause = 1 /\ pc = "paused" THEN "woken" ELSE pc
  /\ Goto(c, done)
  /\ UNCHANGED <<pause_response, step_pending, pause_lock, waiters,
                 events_lock, queueVars, table, after, bp_mode, was_stepping,
                 edit>>

\* Variant: Resume does not notify pause_var.
ResumeLockedSilent(c, wait, done) ==
  /\ pause_lock = "free"
  /\ pause' = pause - 1
  /\ IF pause = 1 /\ pause_response = 1
       THEN Goto(c, wait) /\ waiters' = waiters \cup {c}
       ELSE Goto(c, done) /\ UNCHANGED waiters
  /\ UNCHANGED <<pause_response, step_pending, pause_lock, events_lock,
                 queueVars, table, runVars, edit>>

\* Resume: the last one wakes the run thread and waits to see it gone.
ResumeLocked(c, wait, done) ==
  /\ pause_lock = "free"
  /\ pause' = pause - 1
  /\ IF pause = 1
       THEN /\ pc' = IF pc = "paused" THEN "woken" ELSE pc
            /\ IF pause_response = 1
                 THEN Goto(c, wait) /\ waiters' = waiters \cup {c}
                 ELSE Goto(c, done) /\ UNCHANGED waiters
       ELSE Goto(c, done) /\ UNCHANGED <<pc, waiters>>
  /\ UNCHANGED <<pause_response, step_pending, pause_lock, events_lock,
                 queueVars, table, after, bp_mode, was_stepping, edit>>

ResumeRecheck(c, done) ==
  /\ c \notin waiters
  /\ pause_lock = "free"
  /\ IF pause_response = 1 /\ pause = 0
       THEN waiters' = waiters \cup {c} /\ UNCHANGED cpc
       ELSE Goto(c, done) /\ UNCHANGED waiters
  /\ UNCHANGED <<dbgVars, pause_lock, events_lock, queueVars, table, runVars,
                 edit, openVars>>

\* A client ends a Pause of its own, or the stop of a breakpoint that pauses:
\* that one possibly before the run thread has stopped.
Resume(c) ==
  /\ CanCall(c)
  /\ \E token \in holders :
       /\ \/ \E k \in 1..Depth : token = <<c, k>>
          \/ token = Hit /\ bp_mode = "pause"
       /\ holders' = holders \ {token}
  /\ ResumeLocked(c, "resume_wait", "idle")
  /\ UNCHANGED stepped

ResumeWait(c) == cpc[c] = "resume_wait" /\ ResumeRecheck(c, "idle")

\* LuaCpu::SingleStep's checks, without the lock, before it calls SingleStep.
SingleStep(c) ==
  /\ CanStep /\ CanCall(c)
  /\ pause # 0 /\ ~(pause > 1)
  /\ Goto(c, "step")
  /\ UNCHANGED <<dbgVars, pause_lock, waiters, events_lock, queueVars, table,
                 runVars, edit, openVars>>

\* ScheduleNoLock: "The CPU is paused here".
StepSchedule(c) ==
  /\ cpc[c] = "step"
  /\ IF step_pending = 0
       THEN step_pending' = 1 /\ step_left' \in StepClocks
       ELSE UNCHANGED <<step_pending, step_left>>
  /\ Goto(c, "step_resume")
  /\ UNCHANGED <<pause, pause_response, pause_lock, waiters, events_lock,
                 paused_events, table_ops, table, runVars, edit, openVars>>

\* SingleStep's Resume gives up whichever pause is open.
StepResume(c) ==
  /\ cpc[c] = "step_resume"
  /\ \E open \in IF holders = {} THEN {{}} ELSE {{t} : t \in holders} :
       /\ holders' = holders \ open
       /\ stepped' = stepped \cup open
  /\ ResumeLocked(c, "step_resume_wait", "step_wait")

StepResumeWait(c) ==
  cpc[c] = "step_resume_wait" /\ ResumeRecheck(c, "step_wait")

\* "Wait for the run thread to pause".
StepWait(c) ==
  /\ cpc[c] = "step_wait"
  /\ c \notin waiters
  /\ pause_lock = "free"
  /\ AwaitResponse(c, "step_wait")
  /\ UNCHANGED <<dbgVars, pause_lock, events_lock, queueVars, table, runVars,
                 edit, openVars>>

\* SetBreakpoint and ClearBreakpoint read pause without the lock to choose
\* between editing the table and posting the edit.
EditBreakpoint(c) ==
  /\ CanBreak /\ CanCall(c)
  /\ \E op \in Edits \ table_ops : edit' = [edit EXCEPT ![c] = op]
  /\ Goto(c, IF pause # 0 THEN "edit_direct" ELSE "edit_schedule")
  /\ UNCHANGED <<dbgVars, pause_lock, waiters, events_lock, queueVars, table,
                 runVars, openVars>>

EditDirect(c) ==
  /\ cpc[c] = "edit_direct"
  /\ table' = Edited(table, edit[c])
  /\ edit' = [edit EXCEPT ![c] = NoEdit]
  /\ Goto(c, "idle")
  /\ UNCHANGED <<dbgVars, pause_lock, waiters, events_lock, queueVars,
                 runVars, openVars>>

EditSchedule(c) ==
  /\ cpc[c] = "edit_schedule"
  /\ events_lock = "free"
  /\ table_ops' = table_ops \cup {edit[c]}
  /\ edit' = [edit EXCEPT ![c] = NoEdit]
  /\ Goto(c, "idle")
  /\ UNCHANGED <<dbgVars, pause_lock, waiters, events_lock, paused_events,
                 step_left, table, runVars, openVars>>

\* A condition variable may wake a thread nobody notified.
SpuriousWakeup ==
  /\ \/ \E c \in waiters : waiters' = waiters \ {c} /\ UNCHANGED pc
     \/ pc = "paused" /\ pc' = "woken" /\ UNCHANGED waiters
  /\ UNCHANGED <<dbgVars, pause_lock, events_lock, queueVars, table, after,
                 bp_mode, was_stepping, clientVars, openVars>>

-----------------------------------------------------------------------------

Init ==
  /\ pause = 0 /\ pause_response = 0 /\ step_pending = 0
  /\ pause_lock = "free" /\ events_lock = "free"
  /\ waiters = {}
  /\ paused_events = 0 /\ table_ops = {} /\ step_left = None
  /\ table = [a \in Addrs |-> "none"]
  /\ pc = "head" /\ after = "drain"
  /\ bp_mode = "pause" /\ was_stepping = 0
  /\ cpc = [c \in Clients |-> "idle"]
  /\ edit = [c \in Clients |-> NoEdit]
  /\ holders = {} /\ stepped = {}

RunThread ==
  \/ Head \/ Emu
  \/ ExpireEnter \/ FirePaused \/ FireEdit \/ FireStep \/ ExpireReturn
  \/ SingleStepFunc \/ PausedFunc \/ PausedWake
  \/ BreakpointEnter \/ BreakpointFn \/ BreakpointFnResumes \/ BreakpointLeave

\* The steps a client takes inside a call.
InCall(c) ==
  \/ PauseSchedule(c) \/ PauseWait(c) \/ ResumeWait(c)
  \/ StepSchedule(c) \/ StepResume(c) \/ StepResumeWait(c) \/ StepWait(c)
  \/ EditDirect(c) \/ EditSchedule(c)

Call(c) == Pause(c) \/ Resume(c) \/ SingleStep(c) \/ EditBreakpoint(c)

Next ==
  \/ RunThread
  \/ \E c \in Clients : Call(c) \/ InCall(c)
  \/ SpuriousWakeup

Spec == Init /\ [][Next]_vars

\* The host keeps the run thread in its loop, and a client that has begun a
\* call is scheduled until it returns.
FairSpec ==
  /\ Spec
  /\ WF_vars(RunThread)
  /\ \A c \in Clients : WF_vars(InCall(c))

-----------------------------------------------------------------------------
(* Properties.                                                             *)

PcValues ==
  {"head", "emu", "expire", "drain", "step_lock", "pf_lock", "paused",
   "woken", "bp_enter", "bp_fn", "bp_leave"}
CpcValues ==
  {"idle", "schedule", "pause_wait", "resume_wait", "step", "step_resume",
   "step_resume_wait", "step_wait", "edit_direct", "edit_schedule"}

\* The state space of DebugInterface and its clients (debug_interface.h:29-43).
TypeOK ==
  /\ pause \in Int
  /\ pause_response \in {0, 1} /\ step_pending \in {0, 1}
  /\ pause_lock \in Clients \cup {"free"}
  /\ waiters \subseteq Clients
  /\ events_lock \in {"free", "run"}
  /\ paused_events \in Nat
  /\ table_ops \subseteq Edits
  /\ step_left \in Nat \cup {None}
  /\ table \in [Addrs -> Modes \cup {"none"}]
  /\ pc \in PcValues
  /\ after \in {"drain", "emu"}
  /\ bp_mode \in Modes
  /\ was_stepping \in {0, 1}
  /\ cpc \in [Clients -> CpcValues]
  /\ edit \in [Clients -> Edits \cup {NoEdit}]
  /\ \A c \in Clients :
       cpc[c] \in {"edit_direct", "edit_schedule"} => edit[c] \in Edits
  /\ holders \subseteq Tokens /\ stepped \subseteq Tokens

\* pause is exactly the number of Pauses and breakpoint stops that have not
\* been resumed, across SingleStep handing its pause to the run thread and
\* closures that add and drop one of their own (debug_interface.cc:38, 50,
\* 71, 83-84, 95).
PauseCountsHolders == pause = Cardinality(holders)

\* Between calls, a CPU that a client has paused and not resumed is stopped,
\* whoever else has paused, stepped and resumed in turn
\* (debug_interface.cc:35-73).
StoppedWhileHeld ==
  (Serialized /\ ~CanBreak /\ \A c \in Clients : cpc[c] = "idle")
    => (pause # 0 <=> CpuStopped /\ pause_response = 1)

\* What SingleStep takes for granted: "The CPU is paused here"
\* (debug_interface.cc:60), from LuaCpu's test of paused()
\* (lua_interface/lua_cpu.cc:239-243).
CpuPausedAtStep == \A c \in Clients : cpc[c] = "step" => CpuStopped

\* SingleStep does not return on the stale pause_response of the stop it came
\* from: when it returns the step event has been fired and the CPU is stopped
\* again (debug_interface.cc:66-72).
StepIsOver ==
  [][\A c \in Clients :
       (cpc[c] = "step_wait" /\ cpc'[c] = "idle")
         => step_left = None /\ step_pending = 0 /\ CpuStopped]_vars

\* Every call returns: Pause and SingleStep when the run thread has stopped,
\* Resume when it has left (debug_interface.cc:35-73).
CallsReturn == \A c \in Clients : (cpc[c] # "idle") ~> (cpc[c] = "idle")

\* The wait of SingleStep ends: "Wait for the run thread to pause"
\* (debug_interface.cc:68).
SingleStepReturns ==
  \A c \in Clients : (cpc[c] = "step_wait") ~> (cpc[c] = "idle")

\* When the last pause is dropped the run thread leaves PausedFunc: no
\* notification is lost (debug_interface.cc:18-20, 52).
ResumedRuns == (CpuStopped /\ pause = 0) ~> (~CpuStopped \/ pause # 0)
=============================================================================
