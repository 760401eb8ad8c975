---------------------------- MODULE EventSchedule ----------------------------
(***************************************************************************)
(* What EventQueue and the loops of EmulatedCpu (cpu.cc:77-168) promise    *)
(* together: callbacks are posted for a cycle by any thread and fired on   *)
(* the run thread, each once, not before its cycle, earliest first, and no *)
(* instruction begins while a posted callback is due.  There is no lock,   *)
(* no heap and no event_cycle here.                                        *)
(***************************************************************************)
EXTENDS Naturals

CONSTANTS Events, Costs, MaxCycle

VARIABLES
  now,        \* cycles executed
  when,       \* the cycle each posted callback is due, or Idle
  committed,  \* an instruction has begun and has not ended
  posting     \* a thread is in the middle of posting

vars == <<now, when, committed, posting>>

Idle == MaxCycle + 1
Posted == {e \in Events : when[e] # Idle}
Due == {e \in Posted : when[e] <= now}

Init ==
  /\ now = 0
  /\ when = [e \in Events |-> Idle]
  /\ committed = FALSE
  /\ posting = FALSE

\* A thread's call takes time: the callback is posted before it returns.
Post(e, t) ==
  /\ ~posting /\ e \notin Posted
  /\ when' = [when EXCEPT ![e] = t]
  /\ posting' = TRUE
  /\ UNCHANGED <<now, committed>>

PostReturns ==
  /\ posting
  /\ posting' = FALSE
  /\ UNCHANGED <<now, when, committed>>

\* A callback posts another while it runs.
PostFromCallback(e, t) ==
  /\ ~committed /\ ~posting /\ e \notin Posted
  /\ when' = [when EXCEPT ![e] = t]
  /\ UNCHANGED <<now, committed, posting>>

Fire(e) ==
  /\ ~committed /\ ~posting
  /\ e \in Due
  /\ \A o \in Posted : when[e] <= when[o]
  /\ when' = [when EXCEPT ![e] = Idle]
  /\ UNCHANGED <<now, committed, posting>>

\* Only a call that has not returned yet may be overtaken.
Begin ==
  /\ ~committed
  /\ posting \/ Due = {}
  /\ committed' = TRUE
  /\ UNCHANGED <<now, when, posting>>

Execute ==
  /\ committed
  /\ \E c \in Costs : now' = now + c
  /\ committed' = FALSE
  /\ UNCHANGED <<when, posting>>

Next ==
  \/ \E e \in Events, t \in 0..MaxCycle : Post(e, t) \/ PostFromCallback(e, t)
  \/ PostReturns
  \/ \E e \in Events : Fire(e)
  \/ Begin
  \/ Execute

Spec == Init /\ [][Next]_vars
=============================================================================
