------------------------------ MODULE LuaDebug ------------------------------
(***************************************************************************)
(* The Lua side of the debugger (src/lua_interface): LuaState lets one     *)
(* thread at a time run the interpreter, and LuaCpu pauses the run thread  *)
(* around every peek and poke.  The run thread itself enters the           *)
(* interpreter when a breakpoint has a Lua function.                       *)
(*                                                                         *)
(* Of DebugInterface this is Pause, Resume and PausedFunc, each up to the  *)
(* wait it may have to make; single steps are in that module.  Two locks   *)
(* are held across steps, pause_lock and the queue's, by whoever stands at *)
(* a place where the code has taken one and waits for the other.           *)
(***************************************************************************)
EXTENDS Integers, FiniteSets

CONSTANTS
  Clients,      \* threads that run scripts or a console
  MaxNested,    \* bound: calls into LuaState from the Lua code a thread runs
  MaxEvents     \* bound: PausedFunc events in the queue at once

Run == "run"
Threads == Clients \cup {Run}

ASSUME LuaAssumption ==
  /\ IsFiniteSet(Clients)
  /\ "free" \notin Threads /\ Run \notin Clients
  /\ MaxNested \in Nat /\ MaxEvents \in Nat

VARIABLES
  exec_lock,      \* the thread that holds LuaState::exec_lock, or "free"
  owning_thread,  \* LuaState::owning_thread, or "free"
  nested,         \* per thread, the calls in progress that found was_owner
  at,             \* where each thread is
  pause,          \* DebugInterface::pause
  pause_response, \* 1 while the run thread waits in PausedFunc
  events,         \* PausedFunc events in the queue
  holders         \* the pauses and breakpoint stops still open

lockVars == <<exec_lock, owning_thread, nested>>
pauseVars == <<pause, pause_response, events, holders>>
vars == <<lockVars, at, pauseVars>>

Hit == <<Run, "hit">>                \* the closure's own ++pause
Tokens == (Threads \X {"hold", "peek"}) \cup {Hit}

\* Where the run thread is between its visits to the interpreter, and where any
\* thread is in the interpreter or waits for it.
Running == {"head", "drain", "cpu", "emu"}
Stopped == {"paused", "stopped"}
Posts == {"pause_post", "peek_post"}
Waits == {"pause_wait", "peek_wait"}
InPause == Posts \cup Waits
InLua == {"lua", "access", "resume_wait"} \cup InPause
Holding == InLua \cup {"own", "unlock", "got"}

Goto(t, place) == at' = [at EXCEPT ![t] = place]

\* DebugInterface::pause_lock, kept by Pause while it posts and given up in every
\* wait; and EventQueue::lock, kept by Expire while its callbacks run.
PauseLockFree == \A t \in Threads : at[t] \notin Posts
EventsLockFree == at[Run] \notin {"drain", "fire", "paused"}

-----------------------------------------------------------------------------
(* LuaState *)

\* GainOwnership's look at owning_thread, without the lock.
IsOwner(t) ==
  /\ IF owning_thread = t
     THEN nested' = [nested EXCEPT ![t] = @ + 1] /\ Goto(t, "lua")
     ELSE Goto(t, "gain") /\ UNCHANGED nested
  /\ UNCHANGED <<exec_lock, owning_thread, pauseVars>>

\* ExecFile and DoInteractiveConsole, from outside or from Lua.
Enter(t) ==
  /\ \/ t # Run /\ at[t] = "out"
     \/ at[t] = "lua" /\ nested[t] < MaxNested
  /\ IsOwner(t)

\* The Lua function of a breakpoint, on the run thread.
CallRefFunction == at[Run] = "fn" /\ IsOwner(Run)

GainOwnership(t) ==
  /\ at[t] = "gain"
  /\ exec_lock = "free"
  /\ exec_lock' = t
  /\ Goto(t, "own")
  /\ UNCHANGED <<owning_thread, nested, pauseVars>>

Own(t) ==
  /\ at[t] = "own"
  /\ owning_thread' = t
  /\ Goto(t, "lua")
  /\ UNCHANGED <<exec_lock, nested, pauseVars>>

\* The end of a call: with was_owner it leaves the ownership alone.
Leave(t) ==
  /\ at[t] = "lua"
  /\ IF nested[t] > 0
     THEN nested' = [nested EXCEPT ![t] = @ - 1] /\ UNCHANGED <<owning_thread, at>>
     ELSE owning_thread' = "free" /\ Goto(t, "unlock") /\ UNCHANGED nested
  /\ UNCHANGED <<exec_lock, pauseVars>>

ReleaseOwnership(t) ==
  /\ at[t] = "unlock"
  /\ exec_lock' = "free"
  /\ Goto(t, IF t = Run THEN "stop" ELSE "out")
  /\ UNCHANGED <<owning_thread, nested, pauseVars>>

\* The console waits for a line without the lock, but with the ownership.
Fgets(c) ==
  /\ at[c] = "lua"
  /\ exec_lock' = "free"
  /\ Goto(c, "gets")
  /\ UNCHANGED <<owning_thread, nested, pauseVars>>

FgetsRelock(c) ==
  /\ at[c] = "gets"
  /\ exec_lock = "free"
  /\ exec_lock' = c
  /\ Goto(c, "got")
  /\ UNCHANGED <<owning_thread, nested, pauseVars>>

FgetsReturnUnowned(c) ==   \* Variant: owning_thread is left to whoever had the lock
  /\ at[c] = "got"
  /\ Goto(c, "lua")
  /\ UNCHANGED <<lockVars, pauseVars>>

FgetsReturn(c) ==
  /\ at[c] = "got"
  /\ owning_thread' = c
  /\ Goto(c, "lua")
  /\ UNCHANGED <<exec_lock, nested, pauseVars>>

-----------------------------------------------------------------------------
(* LuaCpu, on the thread that runs Lua *)

\* Only the first pause posts PausedFunc and waits for it.
Pause(t, use, post, done) ==
  /\ at[t] = "lua" /\ PauseLockFree
  /\ events < MaxEvents
  /\ <<t, use>> \notin holders
  /\ holders' = holders \cup {<<t, use>>}
  /\ pause' = pause + 1
  /\ Goto(t, IF pause = 0 THEN post ELSE done)
  /\ UNCHANGED <<lockVars, pause_response, events>>

Answered(t) == Goto(t, IF at[t] \in {"peek_post", "peek_wait"} THEN "access" ELSE "lua")

PauseScheduleNoWait(t) ==   \* Variant: the response is not awaited
  /\ at[t] \in Posts /\ EventsLockFree
  /\ events' = events + 1
  /\ Answered(t)
  /\ UNCHANGED <<lockVars, pause, pause_response, holders>>

\* Schedule, with pause_lock held, and the look at pause_response before any wait.
PauseSchedule(t) ==
  /\ at[t] \in Posts /\ EventsLockFree
  /\ events' = events + 1
  /\ IF pause_response = 1 THEN Answered(t)
     ELSE Goto(t, IF at[t] = "peek_post" THEN "peek_wait" ELSE "pause_wait")
  /\ UNCHANGED <<lockVars, pause, pause_response, holders>>

PauseReturns(t) ==
  /\ at[t] \in Waits /\ PauseLockFree
  /\ pause_response = 1
  /\ Answered(t)
  /\ UNCHANGED <<lockVars, pauseVars>>

\* The last Resume waits for the run thread to leave PausedFunc.
Resume(t, token) ==
  /\ token \in holders /\ PauseLockFree
  /\ holders' = holders \ {token}
  /\ pause' = pause - 1
  /\ Goto(t, IF pause = 1 /\ pause_response = 1 THEN "resume_wait" ELSE "lua")
  /\ UNCHANGED <<lockVars, pause_response, events>>

ResumeReturns(t) ==
  /\ at[t] = "resume_wait" /\ PauseLockFree
  /\ pause_response = 0 \/ pause # 0
  /\ Goto(t, "lua")
  /\ UNCHANGED <<lockVars, pauseVars>>

\* cpu:pause() and cpu:resume(); a script ends a pause of its own or the stop of
\* a breakpoint, possibly from the breakpoint's function.
LuaPause(t) == Pause(t, "hold", "pause_post", "lua")
LuaResume(t) == at[t] = "lua" /\ \E token \in {<<t, "hold">>, Hit} : Resume(t, token)

\* PeekImpl and PokeImpl: the access is between the two.
PeekBegin(t) == Pause(t, "peek", "peek_post", "access")
PeekEnd(t) == at[t] = "access" /\ Resume(t, <<t, "peek">>)

-----------------------------------------------------------------------------
(* The run thread *)

PausedFuncUnanswered(place, back) ==   \* Variant: pause_response is not set
  /\ PauseLockFree
  /\ Goto(Run, IF pause # 0 THEN place ELSE back)
  /\ UNCHANGED pause_response

\* PausedFunc up to its wait; back is where it leads when pause is 0.
PausedFunc(place, back) ==
  /\ PauseLockFree
  /\ IF pause # 0 THEN pause_response' = 1 /\ Goto(Run, place)
     ELSE Goto(Run, back) /\ UNCHANGED pause_response

\* The head of the loop: due events first, all of them under the queue's lock.
Expire ==
  /\ at[Run] \in {"head", "drain"}
  /\ events > 0
  /\ events' = events - 1
  /\ Goto(Run, "fire")
  /\ UNCHANGED <<lockVars, pause, pause_response, holders>>

ExpireReturn ==
  /\ at[Run] = "drain"
  /\ events = 0
  /\ Goto(Run, "head")
  /\ UNCHANGED <<lockVars, pauseVars>>

Fire ==
  /\ at[Run] = "fire"
  /\ PausedFunc("paused", "drain")
  /\ UNCHANGED <<lockVars, pause, events, holders>>

Fetch ==
  /\ at[Run] = "head"
  /\ events = 0
  /\ Goto(Run, "cpu")
  /\ UNCHANGED <<lockVars, pauseVars>>

Execute ==
  /\ at[Run] \in {"cpu", "emu"}
  /\ Goto(Run, "head")
  /\ UNCHANGED <<lockVars, pauseVars>>

\* A breakpoint has a Lua function ("fn") or none ("stop").
OnBreakpoint == \E place \in {"fn", "stop"} : Goto(Run, place)

\* It is hit again only when its last stop has been resumed.
Breakpoint ==
  /\ at[Run] = "cpu" /\ PauseLockFree
  /\ Hit \notin holders
  /\ pause' = pause + 1
  /\ holders' = holders \cup {Hit}
  /\ OnBreakpoint
  /\ UNCHANGED <<lockVars, pause_response, events>>

Stop ==
  /\ at[Run] = "stop"
  /\ PausedFunc("stopped", "emu")
  /\ UNCHANGED <<lockVars, pause, events, holders>>

PausedWake ==
  /\ at[Run] \in Stopped /\ PauseLockFree
  /\ pause = 0
  /\ pause_response' = 0
  /\ Goto(Run, IF at[Run] = "paused" THEN "drain" ELSE "emu")
  /\ UNCHANGED <<lockVars, pause, events, holders>>

-----------------------------------------------------------------------------

Init ==
  /\ exec_lock = "free" /\ owning_thread = "free"
  /\ nested = [t \in Threads |-> 0]
  /\ at = [t \in Threads |-> IF t = Run THEN "head" ELSE "out"]
  /\ pause = 0 /\ pause_response = 0 /\ events = 0
  /\ holders = {}

\* What a thread does by itself once it has begun, and what the user asks for.
InCall(t) ==
  \/ GainOwnership(t) \/ Own(t) \/ ReleaseOwnership(t)
  \/ PauseSchedule(t) \/ PauseReturns(t) \/ PeekEnd(t) \/ ResumeReturns(t)

Script(t) ==
  \/ Enter(t) \/ Leave(t)
  \/ LuaPause(t) \/ LuaResume(t) \/ PeekBegin(t)

Console(c) == Fgets(c) \/ FgetsRelock(c) \/ FgetsReturn(c)

RunLoop ==
  \/ Expire \/ Fire \/ ExpireReturn
  \/ Fetch \/ Execute \/ Stop \/ PausedWake
  \/ CallRefFunction

Next ==
  \/ \E t \in Threads : InCall(t) \/ Script(t)
  \/ \E c \in Clients : Console(c)
  \/ RunLoop \/ Breakpoint

Spec == Init /\ [][Next]_vars

\* The host keeps the run thread in its loop, and schedules a thread that is
\* inside a call.
FairSpec ==
  /\ Spec
  /\ WF_vars(RunLoop)
  /\ \A t \in Threads : WF_vars(InCall(t))

-----------------------------------------------------------------------------
(* Properties *)

\* GainOwnership's unlocked look at owning_thread tells a thread the truth about
\* itself: one that runs Lua holds exec_lock and is the owner, although fgets
\* gives up the lock and keeps the ownership; one that is about to enter is
\* not, so that it takes the lock (lua_state.cc:245-254, 270-277).
OwnershipIsKnown ==
  \A t \in Threads :
    /\ at[t] \in InLua => exec_lock = t /\ owning_thread = t
    /\ at[t] \in {"out", "fn", "gain"} => owning_thread # t /\ exec_lock # t

\* While a script peeks or pokes from its own thread the CPU executes nothing,
\* whether the peek has stopped it, found it stopped by a pause or a breakpoint,
\* or found it on its way there (lua_cpu.cc:57-79).
PeekOnStoppedCpu ==
  \A c \in Clients : at[c] = "access" => at[Run] \notin Running

\* The run thread waits for a script that waits for the run thread: in a pause
\* of its own, in a breakpoint's function for exec_lock, or in a PausedFunc that
\* outlived its pause for pause_lock, which the next Pause keeps while it waits for
\* the queue's lock.
Deadlocked ==
  \/ at[Run] \in Waits
  \/ at[Run] = "gain" /\ exec_lock \in Clients /\ at[exec_lock] \in Waits
  \/ at[Run] = "fire" /\ \E c \in Clients : at[c] \in Posts

\* A pause, a peek or a poke of a script that makes no single steps returns, or it
\* hangs in one of these three ways and no other (debug_interface.cc:37-44,
\* cpu.cc:148-153, lua_state.cc:250).
PauseEndsOrDeadlocks ==
  \A c \in Clients : (at[c] \in InPause) ~> (at[c] \notin InPause \/ Deadlocked)
=============================================================================
