------------------------ MODULE DebugInterfaceProofs ------------------------
(***************************************************************************)
(* Proofs about DebugInterface, for every finite set of clients and every  *)
(* nesting of their Pauses: its types, and, for clients that call one at a *)
(* time and set no breakpoints, that pause counts the open Pauses and that *)
(* the CPU is stopped exactly while one is open.  With breakpoints, and    *)
(* clients of any kind that do not step, pause still counts.               *)
(***************************************************************************)
EXTENDS DebugInterface, FiniteSetTheorems, TLAPS

(* The clients the invariant is about.                                      *)
Disciplined == Serialized /\ ~CanBreak

OneCall ==
  \A c, d \in Clients : cpc[c] # "idle" /\ cpc[d] # "idle" => c = d

NoBreakpoints ==
  /\ table_ops = {}
  /\ \A a \in Addrs : table[a] = "none"
  /\ pc \notin {"bp_enter", "bp_fn", "bp_leave"}
  /\ after = "drain"
  /\ Hit \notin holders \cup stepped
  /\ \A c \in Clients : cpc[c] \notin {"edit_direct", "edit_schedule"}

Response == pause_response = 1 <=> CpuStopped

(* No PausedFunc is in the queue or about to run.                           *)
Quiescent == paused_events = 0 /\ pc # "pf_lock"

StepOver ==
  step_pending = 0 /\ step_left = None /\ stepped = {} /\ pc # "step_lock"
StepAhead ==
  /\ step_pending = 1
  /\ step_left # None <=> pc # "step_lock"
  /\ step_left = None \/ step_left \in Nat
  /\ pause = 0 /\ Quiescent
  /\ \E t \in Tokens : stepped = {t}

(* Where the run thread can be while client c is at each point of a call.   *)
CallInv(c) ==
  /\ cpc[c] = "schedule" =>
       pause = 1 /\ Quiescent /\ ~CpuStopped /\ StepOver
  /\ cpc[c] = "pause_wait" =>
       /\ pause = 1 /\ StepOver
       /\ \/ paused_events = 1 /\ pc # "pf_lock" /\ ~CpuStopped
          \/ paused_events = 0 /\ (pc = "pf_lock" \/ CpuStopped)
  /\ cpc[c] = "resume_wait" => pause = 0 /\ Quiescent /\ StepOver
  /\ cpc[c] = "step" => pause = 1 /\ Quiescent /\ CpuStopped /\ StepOver
  /\ cpc[c] = "step_resume" =>
       /\ pause = 1 /\ Quiescent /\ CpuStopped
       /\ step_pending = 1 /\ step_left \in Nat /\ stepped = {}
  /\ cpc[c] = "step_resume_wait" =>
       \/ StepAhead
       \/ StepOver /\ pause = 1 /\ paused_events = 0 /\ (pc = "pf_lock" \/ CpuStopped)
  /\ cpc[c] = "step_wait" =>
       \/ StepAhead /\ ~CpuStopped
       \/ StepOver /\ pause = 1 /\ paused_events = 0 /\ (pc = "pf_lock" \/ CpuStopped)

IdleInv ==
  (\A c \in Clients : cpc[c] = "idle") =>
    Quiescent /\ StepOver /\ (pause # 0 <=> CpuStopped)

Counted == IsFiniteSet(holders) /\ pause = Cardinality(holders)

LockInv == \A c \in Clients : pause_lock = c => cpc[c] = "schedule"

Inv ==
  /\ TypeOK
  /\ OneCall /\ NoBreakpoints /\ Response /\ Counted /\ LockInv
  /\ pc = "paused" => pause # 0
  /\ \A c \in Clients : CallInv(c)
  /\ IdleInv

-----------------------------------------------------------------------------
USE DebugAssumption

(* Every step keeps every variable in its type, under any discipline        *)
(* (debug_interface.h:29-43).                                               *)
LEMMA TypeStep == TypeOK /\ [Next]_vars => TypeOK'
<1> SUFFICES ASSUME TypeOK, [Next]_vars PROVE TypeOK'
  OBVIOUS
<1> USE DEF TypeOK, PcValues, CpcValues, dbgVars, queueVars, runVars,
            clientVars, openVars, None
<1>1. CASE Head
  BY <1>1 DEF Head
<1>2. CASE Emu
  BY <1>2 DEF Emu
<1>3. CASE ExpireEnter \/ FirePaused \/ FireStep \/ ExpireReturn
  BY <1>3 DEF ExpireEnter, FirePaused, FireStep, ExpireReturn
<1>4. CASE FireEdit
  BY <1>4 DEF FireEdit, Edited, Edits
<1>5. CASE SingleStepFunc \/ PausedFunc \/ PausedWake
  BY <1>5 DEF SingleStepFunc, PausedFunc, PausedWake
<1>6. CASE BreakpointEnter \/ BreakpointFn \/ BreakpointFnResumes
           \/ BreakpointLeave
  BY <1>6 DEF BreakpointEnter, BreakpointFn, BreakpointFnResumes,
     BreakpointLeave, PausesOnHit, Tokens
<1>7. ASSUME NEW c \in Clients, Pause(c) PROVE TypeOK'
  BY <1>7 DEF Pause, Goto, Tokens
<1>8. ASSUME NEW c \in Clients,
             PauseSchedule(c) \/ PauseWait(c) \/ StepWait(c)
      PROVE  TypeOK'
  BY <1>8 DEF PauseSchedule, PauseWait, StepWait, AwaitResponse, Goto
<1>9. ASSUME NEW c \in Clients, Resume(c) \/ StepResume(c) PROVE TypeOK'
  BY <1>9 DEF Resume, StepResume, ResumeLocked, Goto
<1>10. ASSUME NEW c \in Clients, ResumeWait(c) \/ StepResumeWait(c)
       PROVE  TypeOK'
  BY <1>10 DEF ResumeWait, StepResumeWait, ResumeRecheck, Goto
<1>11. ASSUME NEW c \in Clients, SingleStep(c) \/ StepSchedule(c)
       PROVE  TypeOK'
  BY <1>11, ZenonT(60) DEF SingleStep, StepSchedule, Goto
<1>12. ASSUME NEW c \in Clients,
              EditBreakpoint(c) \/ EditDirect(c) \/ EditSchedule(c)
       PROVE  TypeOK'
  <2>1. CASE EditBreakpoint(c)
    BY <2>1 DEF EditBreakpoint, Goto
  <2>2. CASE EditDirect(c)
    <3>1. edit[c] \in Edits
      BY <2>2 DEF EditDirect
    <3>2. table' \in [Addrs -> Modes \cup {"none"}]
      BY <2>2, <3>1 DEF EditDirect, Edited, Edits
    <3> QED
      BY <2>2, <3>2 DEF EditDirect, Goto
  <2>3. CASE EditSchedule(c)
    <3>1. edit[c] \in Edits
      BY <2>3 DEF EditSchedule
    <3> QED
      BY <2>3, <3>1 DEF EditSchedule, Goto
  <2>4. QED
    BY <1>12, <2>1, <2>2, <2>3
<1>13. CASE SpuriousWakeup
  BY <1>13 DEF SpuriousWakeup
<1>14. CASE UNCHANGED vars
  BY <1>14 DEF vars
<1>15. QED
  BY <1>1, <1>2, <1>3, <1>4, <1>5, <1>6, <1>7, <1>8, <1>9, <1>10, <1>11,
     <1>12, <1>13, <1>14 DEF Next, RunThread, Call, InCall

(* Every variable keeps its type (debug_interface.h:29-43).                 *)
THEOREM TypeCorrect == Spec => []TypeOK
<1>1. Init => TypeOK
  BY DEF Init, TypeOK, PcValues, CpcValues, Modes, None
<1>2. QED
  BY <1>1, TypeStep, PTL DEF Spec

-----------------------------------------------------------------------------
(* Cardinality is used only through these two facts.                        *)

LEMMA Opened ==
  ASSUME Counted, NEW t, t \notin holders, holders' = holders \cup {t},
         pause' = pause + 1
  PROVE  Counted'
BY FS_AddElement DEF Counted

LEMMA Closed ==
  ASSUME Counted, NEW t \in holders, holders' = holders \ {t},
         pause' = pause - 1
  PROVE  Counted'
BY FS_RemoveElement DEF Counted

\* The counter is 0 exactly when nothing is open, and 1 when one thing is.
LEMMA OpenPauses ==
  ASSUME Counted
  PROVE  /\ pause \in Nat
         /\ pause = 0 <=> holders = {}
         /\ pause = 1 => \E t : holders = {t}
BY FS_EmptySet, FS_Singleton, FS_CardinalityType DEF Counted

LEMMA InvStep == ASSUME Disciplined, Inv, [Next]_vars PROVE Inv'
<1>1. TypeOK'
  BY TypeStep DEF Inv
<1>2. pause \in Nat /\ (pause = 0 <=> holders = {})
  BY OpenPauses DEF Inv
<1> USE DEF Inv, Disciplined, NoBreakpoints, OneCall, Response, Quiescent,
            StepOver, StepAhead, CallInv, IdleInv, LockInv, CpuStopped, None,
            dbgVars, queueVars, runVars, clientVars, openVars, TypeOK,
            PcValues, CpcValues
<1>3. CASE Head
  BY <1>1, <1>2, <1>3 DEF Head, Counted
<1>4. CASE Emu
  BY <1>1, <1>2, <1>4 DEF Emu, Counted
<1>5. CASE ExpireEnter
  BY <1>1, <1>2, <1>5 DEF ExpireEnter, Counted
<1>6. CASE FirePaused
  BY <1>1, <1>2, <1>6 DEF FirePaused, Counted
<1>7. CASE FireStep
  BY <1>1, <1>2, <1>7 DEF FireStep, Counted
<1>8. CASE ExpireReturn
  BY <1>1, <1>2, <1>8 DEF ExpireReturn, Counted
<1>9. CASE PausedFunc
  BY <1>1, <1>2, <1>9 DEF PausedFunc, Counted
<1>10. CASE PausedWake
  BY <1>1, <1>2, <1>10 DEF PausedWake, Counted
<1>11. CASE SpuriousWakeup
  BY <1>1, <1>2, <1>11 DEF SpuriousWakeup, Counted
<1>12. CASE UNCHANGED vars
  BY <1>1, <1>2, <1>12 DEF vars, Counted
<1>13. CASE FireEdit \/ BreakpointEnter \/ BreakpointFn
            \/ BreakpointFnResumes \/ BreakpointLeave
  BY <1>13 DEF FireEdit, BreakpointEnter, BreakpointFn, BreakpointFnResumes,
     BreakpointLeave
<1>14. CASE SingleStepFunc
  <2>1. PICK t \in Tokens : stepped = {t}
    BY <1>14 DEF SingleStepFunc
  <2>2. holders = {}
    BY <1>2, <1>14 DEF SingleStepFunc
  <2>3. Counted'
    BY <1>14, <2>1, <2>2, Opened DEF SingleStepFunc
  <2> QED
    BY <1>1, <1>2, <1>14, <2>1, <2>3 DEF SingleStepFunc
<1>15. ASSUME NEW c \in Clients, Pause(c) PROVE Inv'
  <2>1. Counted'
    BY <1>15, Opened DEF Pause
  <2>2. Hit \notin holders'
    <3>1. PICK k \in 1..Depth : holders' = holders \cup {<<c, k>>}
      BY <1>15 DEF Pause
    <3>2. <<c, k>> # Hit
      BY DEF Hit
    <3> QED
      BY <3>1, <3>2
  <2>3. CASE pause = 0
    BY <1>1, <1>2, <1>15, <2>1, <2>2, <2>3 DEF Pause, CanCall, Goto
  <2>4. CASE pause # 0
    BY <1>1, <1>2, <1>15, <2>1, <2>2, <2>4 DEF Pause, CanCall, Goto
  <2> QED
    BY <2>3, <2>4
<1>16. ASSUME NEW c \in Clients, PauseSchedule(c) PROVE Inv'
  BY <1>1, <1>2, <1>16 DEF PauseSchedule, AwaitResponse, Goto, Counted
<1>17. ASSUME NEW c \in Clients, PauseWait(c) PROVE Inv'
  BY <1>1, <1>2, <1>17 DEF PauseWait, AwaitResponse, Goto, Counted
<1>18. ASSUME NEW c \in Clients, Resume(c) PROVE Inv'
  <2>1. Counted'
    BY <1>18, Closed DEF Resume, ResumeLocked
  <2> QED
    BY <1>1, <1>2, <1>18, <2>1 DEF Resume, ResumeLocked, CanCall, Goto
<1>19. ASSUME NEW c \in Clients, ResumeWait(c) PROVE Inv'
  BY <1>1, <1>2, <1>19 DEF ResumeWait, ResumeRecheck, Goto, Counted
<1>20. ASSUME NEW c \in Clients, SingleStep(c) PROVE Inv'
  BY <1>1, <1>2, <1>20 DEF SingleStep, CanCall, Goto, Counted
<1>21. ASSUME NEW c \in Clients, StepSchedule(c) PROVE Inv'
  BY <1>1, <1>2, <1>21 DEF StepSchedule, Goto, Counted
<1>22. ASSUME NEW c \in Clients, StepResume(c) PROVE Inv'
  <2>1. PICK t : holders = {t}
    BY <1>22, OpenPauses DEF StepResume
  <2>2. holders' = holders \ {t} /\ stepped' = {t} /\ t \in Tokens
    BY <1>22, <2>1 DEF StepResume
  <2>3. Counted'
    BY <1>22, <2>1, <2>2, Closed DEF StepResume, ResumeLocked
  <2> QED
    BY <1>1, <1>2, <1>22, <2>2, <2>3 DEF StepResume, ResumeLocked, Goto
<1>23. ASSUME NEW c \in Clients, StepResumeWait(c) PROVE Inv'
  BY <1>1, <1>2, <1>23 DEF StepResumeWait, ResumeRecheck, Goto, Counted
<1>24. ASSUME NEW c \in Clients, StepWait(c) PROVE Inv'
  BY <1>1, <1>2, <1>24 DEF StepWait, AwaitResponse, Goto, Counted
<1>25. ASSUME NEW c \in Clients,
              EditBreakpoint(c) \/ EditDirect(c) \/ EditSchedule(c)
       PROVE  Inv'
  BY <1>25 DEF EditBreakpoint, EditDirect, EditSchedule
<1>26. QED
  BY <1>3, <1>4, <1>5, <1>6, <1>7, <1>8, <1>9, <1>10, <1>11, <1>12, <1>13,
     <1>14, <1>15, <1>16, <1>17, <1>18, <1>19, <1>20, <1>21, <1>22, <1>23,
     <1>24, <1>25 DEF Next, RunThread, Call, InCall

LEMMA InvInit == ASSUME Disciplined PROVE Init => Inv
<1> SUFFICES ASSUME Init PROVE Inv
  OBVIOUS
<1>1. TypeOK
  BY DEF Init, TypeOK, PcValues, CpcValues, Modes, None
<1>2. Counted
  BY FS_EmptySet DEF Init, Counted
<1>3. QED
  BY <1>1, <1>2 DEF Inv, Init, OneCall, NoBreakpoints, Response, LockInv,
     CallInv, IdleInv, Quiescent, StepOver, CpuStopped, None

LEMMA Invariance == ASSUME Disciplined PROVE Spec => []Inv
<1>1. Init => Inv
  BY InvInit
<1>2. Inv /\ [Next]_vars => Inv'
  BY InvStep
<1>3. QED
  BY <1>1, <1>2, PTL DEF Spec

(* For clients that call one at a time and set no breakpoints, pause is the *)
(* number of open Pauses (debug_interface.cc:38, 50, 71).                   *)
THEOREM PauseCountsHoldersAlways ==
  ASSUME Disciplined PROVE Spec => []PauseCountsHolders
<1>1. Inv => PauseCountsHolders
  BY DEF Inv, Counted, PauseCountsHolders
<1>2. QED
  BY <1>1, Invariance, PTL

(* For the same clients the CPU is stopped, between calls, exactly while a  *)
(* Pause is open (debug_interface.cc:35-73).                                *)
THEOREM StoppedWhileHeldAlways ==
  ASSUME Disciplined PROVE Spec => []StoppedWhileHeld
<1>1. Inv => StoppedWhileHeld
  BY DEF Inv, IdleInv, Response, StoppedWhileHeld, TypeOK
<1>2. QED
  BY <1>1, Invariance, PTL

(* For the same clients SingleStep finds the CPU paused, as its comment     *)
(* says (debug_interface.cc:60).                                            *)
THEOREM CpuPausedAtStepAlways ==
  ASSUME Disciplined PROVE Spec => []CpuPausedAtStep
<1>1. Inv => CpuPausedAtStep
  BY DEF Inv, CallInv, CpuPausedAtStep
<1>2. QED
  BY <1>1, Invariance, PTL

LEMMA StepEnds ==
  ASSUME Inv, [Next]_vars, NEW c \in Clients, cpc[c] = "step_wait",
         cpc'[c] = "idle"
  PROVE  StepOver /\ CpuStopped
<1>1. StepWait(c)
  <2> USE DEF dbgVars, queueVars, runVars, clientVars, openVars, TypeOK, Inv
  <2>1. CASE RunThread \/ SpuriousWakeup \/ UNCHANGED vars
    BY <2>1 DEF RunThread, Head, Emu, ExpireEnter, FirePaused, FireEdit,
       FireStep, ExpireReturn, SingleStepFunc, PausedFunc, PausedWake,
       BreakpointEnter, BreakpointFn, BreakpointFnResumes, BreakpointLeave,
       SpuriousWakeup, vars
  <2>2. ASSUME NEW d \in Clients, Call(d) PROVE FALSE
    BY <2>2 DEF Call, Pause, Resume, ResumeLocked, SingleStep,
       EditBreakpoint, CanCall, Goto
  <2>3. ASSUME NEW d \in Clients, InCall(d), ~StepWait(c) PROVE FALSE
    BY <2>3 DEF InCall, PauseSchedule, PauseWait, ResumeWait, StepSchedule,
       StepResume, StepResumeWait, StepWait, EditDirect, EditSchedule,
       ResumeRecheck, ResumeLocked, AwaitResponse, Goto
  <2>4. QED
    BY <2>1, <2>2, <2>3 DEF Next
<1>2. pause_response = 1
  BY <1>1 DEF StepWait, AwaitResponse, Goto, Inv, TypeOK
<1>3. QED
  BY <1>2 DEF Inv, CallInv, Response

(* For the same clients SingleStep returns only after its own stop           *)
(* (debug_interface.cc:66-72).                                              *)
THEOREM StepIsOverAlways == ASSUME Disciplined PROVE Spec => StepIsOver
<1>1. Inv /\ [Next]_vars =>
        [\A c \in Clients : (cpc[c] = "step_wait" /\ cpc'[c] = "idle")
           => step_left = None /\ step_pending = 0 /\ CpuStopped]_vars
  BY StepEnds DEF StepOver
<1>2. QED
  BY <1>1, Invariance, PTL DEF Spec, StepIsOver
-----------------------------------------------------------------------------
(* Clients that set breakpoints but never step, and need not wait for one   *)
(* another: the closure's own ++pause is open only from its entry until     *)
(* --pause, or until PausedFunc has seen pause at 0.                        *)

NoSteps ==
  /\ step_pending = 0 /\ was_stepping = 0
  /\ stepped = {} /\ step_left = None /\ pc # "step_lock"
  /\ \A c \in Clients :
       cpc[c] \notin {"step", "step_resume", "step_resume_wait", "step_wait"}

HitInv ==
  /\ pc \in {"head", "emu", "expire", "drain", "bp_enter"} => Hit \notin holders
  /\ pc = "bp_leave" => Hit \in holders /\ bp_mode = "continue"
  /\ pc = "bp_fn" /\ bp_mode = "continue" => Hit \in holders

CountInv == TypeOK /\ Counted /\ NoSteps /\ HitInv

(* Each step but SingleStepFunc keeps the count, the Resume of a            *)
(* breakpoint's stop before the CPU has stopped included                    *)
(* (debug_interface.cc:81-96).                                              *)
LEMMA CountStep == ASSUME ~CanStep, CountInv, [Next]_vars PROVE CountInv'
<1>1. TypeOK'
  BY TypeStep DEF CountInv
<1>2. pause \in Nat /\ (pause = 0 <=> holders = {})
  BY OpenPauses DEF CountInv
<1> USE DEF CountInv, NoSteps, HitInv, None, dbgVars, queueVars, runVars,
            clientVars, openVars, TypeOK
<1>3. CASE Head \/ Emu \/ ExpireEnter \/ FirePaused \/ FireEdit \/ FireStep
           \/ ExpireReturn
  BY <1>1, <1>3 DEF Head, Emu, ExpireEnter, FirePaused, FireEdit, FireStep,
     ExpireReturn, Counted
<1>4. CASE PausedFunc \/ PausedWake
  BY <1>1, <1>2, <1>4 DEF PausedFunc, PausedWake, Counted
<1>5. CASE BreakpointEnter
  <2>1. Counted'
    BY <1>5, Opened DEF BreakpointEnter
  <2> QED
    BY <1>1, <1>5, <2>1 DEF BreakpointEnter
<1>6. CASE BreakpointFn
  BY <1>1, <1>6 DEF BreakpointFn, PausesOnHit, Modes, Counted
<1>7. CASE BreakpointFnResumes \/ BreakpointLeave
  <2>1. Counted'
    BY <1>7, Closed DEF BreakpointFnResumes, BreakpointLeave
  <2> QED
    BY <1>1, <1>7, <2>1 DEF BreakpointFnResumes, BreakpointLeave, PausesOnHit
<1>8. ASSUME NEW c \in Clients, Pause(c) PROVE CountInv'
  <2>1. PICK k \in 1..Depth :
          <<c, k>> \notin holders /\ holders' = holders \cup {<<c, k>>}
    BY <1>8 DEF Pause
  <2>2. <<c, k>> # Hit
    BY DEF Hit
  <2>3. Counted'
    BY <1>8, <2>1, Opened DEF Pause
  <2> QED
    BY <1>1, <1>8, <2>1, <2>2, <2>3 DEF Pause, Goto
<1>9. ASSUME NEW c \in Clients, Resume(c) PROVE CountInv'
  <2>1. PICK token \in holders :
          /\ holders' = holders \ {token}
          /\ token = Hit => bp_mode = "pause"
    <3>1. \A k \in 1..Depth : <<c, k>> # Hit
      BY DEF Hit
    <3> QED
      BY <1>9, <3>1 DEF Resume
  <2>2. Counted'
    BY <1>9, <2>1, Closed DEF Resume, ResumeLocked
  <2> QED
    BY <1>1, <1>9, <2>1, <2>2 DEF Resume, ResumeLocked, Goto
<1>10. ASSUME NEW c \in Clients,
              PauseSchedule(c) \/ PauseWait(c) \/ ResumeWait(c)
       PROVE  CountInv'
  BY <1>1, <1>10 DEF PauseSchedule, PauseWait, ResumeWait, AwaitResponse,
     ResumeRecheck, Goto, Counted
<1>11. ASSUME NEW c \in Clients,
              EditBreakpoint(c) \/ EditDirect(c) \/ EditSchedule(c)
       PROVE  CountInv'
  BY <1>1, <1>11 DEF EditBreakpoint, EditDirect, EditSchedule, Goto, Counted
<1>12. ASSUME NEW c \in Clients,
              \/ SingleStep(c) \/ StepSchedule(c) \/ StepResume(c)
              \/ StepResumeWait(c) \/ StepWait(c)
       PROVE  FALSE
  BY <1>12 DEF SingleStep, StepSchedule, StepResume, StepResumeWait, StepWait
<1>13. CASE SingleStepFunc
  BY <1>13 DEF SingleStepFunc
<1>14. CASE SpuriousWakeup \/ UNCHANGED vars
  BY <1>1, <1>14 DEF SpuriousWakeup, vars, Counted
<1>15. QED
  BY <1>3, <1>4, <1>5, <1>6, <1>7, <1>8, <1>9, <1>10, <1>11, <1>12, <1>13,
     <1>14 DEF Next, RunThread, Call, InCall

(* For clients that never step, in any interleaving and with any            *)
(* breakpoints, pause is the number of open Pauses and breakpoint stops: a   *)
(* closure takes back exactly what it added (debug_interface.cc:38, 50,      *)
(* 83-84, 95).                                                              *)
THEOREM BreakpointsCountHoldersAlways ==
  ASSUME ~CanStep PROVE Spec => []PauseCountsHolders
<1>1. Init => CountInv
  BY FS_EmptySet DEF Init, CountInv, TypeOK, PcValues, CpcValues, Modes, None,
     Counted, NoSteps, HitInv
<1>2. CountInv /\ [Next]_vars => CountInv'
  BY CountStep
<1>3. CountInv => PauseCountsHolders
  BY DEF CountInv, Counted, PauseCountsHolders
<1>4. QED
  BY <1>1, <1>2, <1>3, PTL DEF Spec
=============================================================================
