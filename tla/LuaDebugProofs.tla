--------------------------- MODULE LuaDebugProofs ---------------------------
(***************************************************************************)
(* Proofs about LuaDebug, for every finite set of clients, every nesting   *)
(* of their calls and every number of events: a thread's unlocked look at  *)
(* owning_thread is right, and a peek meets a CPU that executes nothing.   *)
(***************************************************************************)
EXTENDS LuaDebug, FiniteSetTheorems, TLAPS

Places ==
  Running \cup Stopped \cup InLua
    \cup {"out", "fn", "gain", "own", "unlock", "gets", "got", "stop", "fire"}

\* The types of the variables.
TypeOK ==
  /\ exec_lock \in Threads \cup {"free"}
  /\ owning_thread \in Threads \cup {"free"}
  /\ nested \in [Threads -> Nat]
  /\ at \in [Threads -> Places]
  /\ pause \in Int
  /\ pause_response \in {0, 1}
  /\ events \in Nat
  /\ holders \subseteq Tokens

\* The lock is held exactly where the code is between taking and giving it.
LockHeld == \A t \in Threads : at[t] \in Holding <=> exec_lock = t

\* A thread in Lua is the owner; an owner is in Lua or at its prompt.
Owner ==
  \A t \in Threads :
    /\ at[t] \in InLua => owning_thread = t
    /\ owning_thread = t => at[t] \in InLua \cup {"gets", "got"}

LockInv == TypeOK /\ LockHeld /\ Owner

Response == pause_response = 1 <=> at[Run] \in Stopped

\* The counter counts the pauses and stops that are open.
Counted == IsFiniteSet(holders) /\ pause = Cardinality(holders)

PeekOpen ==
  \A t \in Threads : at[t] \in {"peek_post", "peek_wait", "access"} => <<t, "peek">> \in holders

\* While a pause is open the run thread executes nothing, or somebody who holds
\* exec_lock is in the middle of stopping it.
Halted == pause # 0 => at[Run] \notin Running \/ \E c \in Clients : at[c] \in InPause

PauseInv == Response /\ Counted /\ PeekOpen /\ Halted

LuaInv == LockInv /\ PauseInv

USE DEF Goto, lockVars, pauseVars

-----------------------------------------------------------------------------
(* Ownership *)

\* At the start nobody is in Lua and the lock is free.
LEMMA LockInit == Init => LockInv
BY LuaAssumption
DEF Init, LockInv, TypeOK, LockHeld, Owner, Places, Running, Stopped, InLua, InPause, Posts,
    Waits, Holding, Threads, Run, Tokens

\* What the run thread does outside the interpreter: neither it nor the lock is
\* concerned.
LEMMA LockRun ==
  ASSUME LockInv,
         Expire \/ Fire \/ ExpireReturn \/ Fetch \/ Execute \/ Stop \/ PausedWake \/ Breakpoint
  PROVE  LockInv'
<1> USE DEF LockInv, TypeOK, LockHeld, Owner, Places, Running, Stopped, InLua, InPause, Posts,
            Waits, Holding, Threads, Run, Tokens, Hit, PausedFunc, OnBreakpoint
<1>1. CASE Expire
  BY <1>1 DEF Expire
<1>2. CASE Fetch
  BY <1>2 DEF Fetch
<1>3. CASE Execute
  BY <1>3 DEF Execute
<1>4. CASE Stop
  BY <1>4 DEF Stop
<1>5. CASE PausedWake
  BY <1>5 DEF PausedWake
<1>6. CASE Breakpoint
  BY <1>6 DEF Breakpoint
<1>7. CASE Fire
  BY <1>7 DEF Fire
<1>8. CASE ExpireReturn
  BY <1>8 DEF ExpireReturn
<1> QED
  BY <1>1, <1>2, <1>3, <1>4, <1>5, <1>6, <1>7, <1>8

\* Taking the lock, owning, and giving both back.
LEMMA LockEnter ==
  ASSUME LockInv, NEW t \in Threads,
         \/ IsOwner(t) /\ at[t] \in {"out", "fn", "lua"}
         \/ GainOwnership(t) \/ Own(t) \/ Leave(t) \/ ReleaseOwnership(t)
  PROVE  LockInv'
<1> USE LuaAssumption
    DEF LockInv, TypeOK, LockHeld, Owner, Places, Running, Stopped, InLua, InPause, Posts,
        Waits, Holding, Threads, Run
<1>1. CASE IsOwner(t) /\ at[t] \in {"out", "fn", "lua"}
  BY <1>1 DEF IsOwner
<1>2. CASE GainOwnership(t)
  BY <1>2 DEF GainOwnership
<1>3. CASE Own(t)
  BY <1>3 DEF Own
<1>4. CASE Leave(t)
  BY <1>4 DEF Leave
<1>5. CASE ReleaseOwnership(t)
  BY <1>5 DEF ReleaseOwnership
<1> QED
  BY <1>1, <1>2, <1>3, <1>4, <1>5

\* The console's three steps.
LEMMA LockConsole ==
  ASSUME LockInv, NEW c \in Clients, Console(c)
  PROVE  LockInv'
<1> USE LuaAssumption
    DEF LockInv, TypeOK, LockHeld, Owner, Places, Running, Stopped, InLua, InPause, Posts,
        Waits, Holding, Threads, Run
<1>1. CASE Fgets(c)
  BY <1>1 DEF Fgets
<1>2. CASE FgetsRelock(c)
  BY <1>2 DEF FgetsRelock
<1>3. CASE FgetsReturn(c)
  BY <1>3 DEF FgetsReturn
<1> QED
  BY <1>1, <1>2, <1>3 DEF Console

\* Pauses and peeks stay inside Lua.
LEMMA LockPauses ==
  ASSUME LockInv, NEW t \in Threads,
         LuaPause(t) \/ LuaResume(t) \/ PeekBegin(t) \/ PeekEnd(t)
           \/ PauseSchedule(t) \/ PauseReturns(t) \/ ResumeReturns(t)
  PROVE  LockInv'
<1> USE LuaAssumption
    DEF LockInv, TypeOK, LockHeld, Owner, Places, Running, Stopped, InLua, InPause, Posts,
        Waits, Holding, Threads, Run, Tokens
<1>1. CASE LuaPause(t)
  BY <1>1 DEF LuaPause, Pause
<1>2. CASE LuaResume(t)
  BY <1>2 DEF LuaResume, Resume
<1>3. CASE PeekBegin(t)
  BY <1>3 DEF PeekBegin, Pause
<1>4. CASE PeekEnd(t)
  BY <1>4 DEF PeekEnd, Resume
<1>5. CASE PauseReturns(t)
  BY <1>5 DEF PauseReturns, Answered
<1>6. CASE ResumeReturns(t)
  BY <1>6 DEF ResumeReturns
<1>7. CASE PauseSchedule(t)
  BY <1>7 DEF PauseSchedule, Answered
<1> QED
  BY <1>1, <1>2, <1>3, <1>4, <1>5, <1>6, <1>7

\* Every step keeps the lock and the owner in agreement with the code's places.
LEMMA LockNext == LockInv /\ [Next]_vars => LockInv'
<1> SUFFICES ASSUME LockInv, [Next]_vars PROVE LockInv'
  OBVIOUS
<1>1. ASSUME NEW t \in Threads, InCall(t) \/ Script(t) PROVE LockInv'
  <2>1. CASE Enter(t)
    BY <2>1, LockEnter DEF Enter
  <2> QED
    BY <1>1, <2>1, LockEnter, LockPauses DEF InCall, Script
<1>2. ASSUME NEW c \in Clients, Console(c) PROVE LockInv'
  BY <1>2, LockConsole
<1>3. CASE CallRefFunction
  BY <1>3, LockEnter DEF CallRefFunction, Threads
<1>4. CASE RunLoop \/ Breakpoint
  BY <1>3, <1>4, LockRun DEF RunLoop
<1>5. CASE UNCHANGED vars
  BY <1>5 DEF vars, LockInv, TypeOK, LockHeld, Owner
<1> QED
  BY <1>1, <1>2, <1>4, <1>5 DEF Next

-----------------------------------------------------------------------------
(* Pauses *)

\* A pause opened is one more, so the counter is not 0.
LEMMA OpenedOne ==
  ASSUME Counted, holders \subseteq Tokens, NEW k, k \notin holders,
         holders' = holders \cup {k}, pause' = pause + 1
  PROVE  Counted' /\ pause' # 0
BY FS_AddElement, FS_CardinalityType DEF Counted

\* A pause closed is one less, and the counter was not 0.
LEMMA ClosedOne ==
  ASSUME Counted, NEW k, k \in holders,
         holders' = holders \ {k}, pause' = pause - 1
  PROVE  Counted' /\ pause # 0
BY FS_RemoveElement, FS_CardinalityType, FS_EmptySet DEF Counted

\* At the start no pause is open.
LEMMA PauseInit == Init => PauseInv
BY FS_EmptySet, LuaAssumption
DEF Init, PauseInv, Response, Counted, PeekOpen, Halted, Running, Stopped, Threads, Run

\* A client inside Pause is the only one that can be in Lua, so that whoever else
\* runs Lua and finds a pause open finds the run thread stopped.
LEMMA NobodyElseWaits ==
  ASSUME LockInv, PauseInv, NEW t \in Threads, at[t] \in InLua, at[t] \notin InPause, pause # 0
  PROVE  at[Run] \notin Running
BY DEF LockInv, LockHeld, PauseInv, Halted, Threads, Holding, InLua

\* The run thread outside the interpreter.
LEMMA PauseRun ==
  ASSUME LockInv, PauseInv,
         Expire \/ Fire \/ ExpireReturn \/ Fetch \/ Execute \/ Stop \/ PausedWake \/ Breakpoint
  PROVE  PauseInv'
<1> USE LuaAssumption
    DEF LockInv, TypeOK, PauseInv, Response, Counted, PeekOpen, Halted, Running, Stopped,
        InPause, Posts, Waits, Threads, Run
<1>1. CASE Expire
  BY <1>1 DEF Expire
<1>2. CASE Fetch
  BY <1>2 DEF Fetch
<1>3. CASE Execute
  BY <1>3 DEF Execute
<1>4. CASE Stop
  BY <1>4 DEF Stop, PausedFunc
<1>5. CASE PausedWake
  <2>1. PICK place \in {"drain", "emu"} : at' = [at EXCEPT ![Run] = place]
    BY <1>5 DEF PausedWake
  <2>2. pause' = 0 /\ pause_response' = 0 /\ holders' = holders /\ pause = 0
    BY <1>5 DEF PausedWake
  <2> QED
    BY <2>1, <2>2
<1>6. CASE Breakpoint
  <2>1. Counted'
    BY <1>6, OpenedOne DEF Breakpoint
  <2> QED
    BY <1>6, <2>1 DEF Breakpoint, OnBreakpoint, Hit
<1>7. CASE Fire
  BY <1>7 DEF Fire, PausedFunc
<1>8. CASE ExpireReturn
  BY <1>8 DEF ExpireReturn
<1> QED
  BY <1>1, <1>2, <1>3, <1>4, <1>5, <1>6, <1>7, <1>8

\* Taking and giving back ownership, and the console: no pause is concerned, and
\* the run thread is in the interpreter before and after or has stopped.
LEMMA PauseOwnership ==
  ASSUME LockInv, PauseInv, NEW t \in Threads,
         \/ IsOwner(t) /\ at[t] \in {"out", "fn", "lua"} /\ (t = Run => at[t] # "out")
         \/ GainOwnership(t) \/ Own(t) \/ Leave(t) \/ ReleaseOwnership(t)
         \/ t \in Clients /\ Console(t)
  PROVE  PauseInv'
<1> USE LuaAssumption
    DEF LockInv, TypeOK, PauseInv, Response, Counted, PeekOpen, Halted, Running, Stopped,
        InPause, Posts, Waits, Threads, Run
<1>1. CASE IsOwner(t) /\ at[t] \in {"out", "fn", "lua"} /\ (t = Run => at[t] # "out")
  BY <1>1 DEF IsOwner
<1>2. CASE GainOwnership(t)
  BY <1>2 DEF GainOwnership
<1>3. CASE Own(t)
  BY <1>3 DEF Own
<1>4. CASE Leave(t)
  BY <1>4 DEF Leave
<1>5. CASE ReleaseOwnership(t)
  BY <1>5 DEF ReleaseOwnership
<1>6. CASE t \in Clients /\ Console(t)
  BY <1>6 DEF Console, Fgets, FgetsRelock, FgetsReturn
<1> QED
  BY <1>1, <1>2, <1>3, <1>4, <1>5, <1>6

\* Pause, by a script or around a peek.
LEMMA PausePause ==
  ASSUME LockInv, PauseInv, NEW t \in Threads, LuaPause(t) \/ PeekBegin(t)
  PROVE  PauseInv'
<1>1. PICK use \in {"hold", "peek"}, post \in Posts, done \in {"lua", "access"} :
        /\ Pause(t, use, post, done)
        /\ post = "peek_post" \/ done = "access" => use = "peek"
  BY DEF LuaPause, PeekBegin, Posts
<1>2. Counted' /\ pause' # 0
  BY <1>1, OpenedOne DEF Pause, LockInv, TypeOK, PauseInv
<1>3. pause # 0 => at[Run] \notin Running
  BY <1>1, NobodyElseWaits DEF Pause, InLua, InPause, Posts, Waits
<1>4. at' = [at EXCEPT ![t] = IF pause = 0 THEN post ELSE done] /\ at[t] = "lua"
  BY <1>1 DEF Pause
<1> USE LuaAssumption DEF LockInv, TypeOK, PauseInv, Threads, Run
<1>5. Response'
  BY <1>1, <1>4 DEF Pause, Response, Stopped, Posts
<1>6. PeekOpen'
  BY <1>1, <1>4 DEF Pause, PeekOpen, Posts
<1>7. Halted'
  BY <1>3, <1>4 DEF Halted, Running, InPause, Posts
<1> QED
  BY <1>2, <1>5, <1>6, <1>7

\* Resume, by a script or after a peek: the run thread cannot be running yet.
LEMMA PauseResume ==
  ASSUME LockInv, PauseInv, NEW t \in Threads, LuaResume(t) \/ PeekEnd(t)
  PROVE  PauseInv'
<1>1. PICK token \in {<<t, "hold">>, <<t, "peek">>, Hit} :
        /\ Resume(t, token)
        /\ at[t] \in {"lua", "access"}
        /\ token = <<t, "peek">> => at[t] = "access"
  BY DEF LuaResume, PeekEnd, Hit
<1>2. Counted' /\ pause # 0
  BY <1>1, ClosedOne DEF Resume, PauseInv
<1>3. at[Run] \notin Running
  BY <1>1, <1>2, NobodyElseWaits DEF InLua, InPause, Posts, Waits
<1> USE LuaAssumption DEF LockInv, TypeOK, PauseInv, Threads, Run
<1>4. Response'
  BY <1>1 DEF Resume, Response, Stopped
<1>5. PeekOpen'
  BY <1>1 DEF Resume, PeekOpen, Hit
<1>6. Halted'
  BY <1>1, <1>3 DEF Resume, Halted, Running
<1> QED
  BY <1>2, <1>4, <1>5, <1>6

\* Posting, which leads to the wait or past it, and the ends of the two waits, which
\* look at pause_response and at the counter.
LEMMA PauseWaits ==
  ASSUME LockInv, PauseInv, NEW t \in Threads,
         PauseSchedule(t) \/ PauseReturns(t) \/ ResumeReturns(t)
  PROVE  PauseInv'
<1> USE LuaAssumption
    DEF LockInv, TypeOK, PauseInv, Response, Counted, PeekOpen, Halted, Running, Stopped,
        InPause, Posts, Waits, Threads, Run
<1>1. CASE PauseReturns(t)
  BY <1>1 DEF PauseReturns, Answered
<1>2. CASE ResumeReturns(t)
  BY <1>2 DEF ResumeReturns
<1>3. CASE PauseSchedule(t)
  BY <1>3 DEF PauseSchedule, Answered
<1> QED
  BY <1>1, <1>2, <1>3

-----------------------------------------------------------------------------
(* The theorems *)

\* The two parts together are inductive.
LEMMA LuaNext == LuaInv /\ [Next]_vars => LuaInv'
<1> SUFFICES ASSUME LockInv, PauseInv, [Next]_vars PROVE PauseInv'
  BY LockNext DEF LuaInv
<1>1. ASSUME NEW t \in Threads, InCall(t) \/ Script(t) PROVE PauseInv'
  <2>1. CASE Enter(t)
    BY <2>1, PauseOwnership DEF Enter
  <2> QED
    BY <1>1, <2>1, PauseOwnership, PausePause, PauseResume, PauseWaits DEF InCall, Script
<1>2. ASSUME NEW c \in Clients, Console(c) PROVE PauseInv'
  BY <1>2, PauseOwnership DEF Threads
<1>3. CASE CallRefFunction
  BY <1>3, PauseOwnership DEF CallRefFunction, Threads
<1>4. CASE RunLoop \/ Breakpoint
  BY <1>3, <1>4, PauseRun DEF RunLoop
<1>5. CASE UNCHANGED vars
  BY <1>5 DEF vars, PauseInv, Response, Counted, PeekOpen, Halted
<1> QED
  BY <1>1, <1>2, <1>4, <1>5 DEF Next

\* So they hold always.
LEMMA LuaInvAlways == Spec => []LuaInv
<1>1. Init => LuaInv
  BY LockInit, PauseInit DEF LuaInv
<1> QED
  BY <1>1, LuaNext, PTL DEF Spec

\* The variables keep their types.
THEOREM TypeCorrect == Spec => []TypeOK
BY LuaInvAlways, PTL DEF LuaInv, LockInv

\* A thread that reads owning_thread without the lock learns the truth about
\* itself, although the console gives up exec_lock and keeps the ownership
\* (lua_state.cc:245-254, 270-277).
THEOREM OwnershipIsKnownAlways == Spec => []OwnershipIsKnown
<1>1. LuaInv => OwnershipIsKnown
  BY LuaAssumption
  DEF LuaInv, LockInv, LockHeld, Owner, OwnershipIsKnown, Holding, InLua, InPause, Posts, Waits,
      Threads
<1> QED
  BY <1>1, LuaInvAlways, PTL

\* A peek or a poke of a client finds the CPU executing nothing, whoever stopped
\* it (lua_cpu.cc:57-79).
THEOREM PeekOnStoppedCpuAlways == Spec => []PeekOnStoppedCpu
<1>1. LuaInv => PeekOnStoppedCpu
  <2> SUFFICES ASSUME LuaInv, NEW c \in Clients, at[c] = "access"
               PROVE  at[Run] \notin Running
    BY DEF PeekOnStoppedCpu
  <2>1. pause # 0
    BY FS_EmptySet DEF LuaInv, PauseInv, Counted, PeekOpen, Threads
  <2> QED
    BY <2>1, NobodyElseWaits DEF LuaInv, Threads, InLua, InPause, Posts, Waits
<1> QED
  BY <1>1, LuaInvAlways, PTL
=============================================================================
