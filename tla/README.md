# A specification of retro_cpu

retro_cpu emulates machines built on the 6502 family (a 65C816 core, the NES,
the C256) and lets a Lua console on another thread pause, step and inspect the
emulated CPU.  These modules model its control: the execution loop and its
event queue, the debugger and the Lua interpreter that stop it from other
threads, the CPU's modes, stack and interrupts; and its data as far as there is
something to get wrong: arithmetic, addressing, the bus, the C256's coprocessor,
and the NES picture unit with the clock that drives it.  TLC checks them on small
instances, and TLAPS proves every one of their invariants, and every property of
single steps, for instances of any size.

    tlc -config RunLoop.cfg MCRunLoop.tla
    tlapm RunLoopProofs.tla

## The system

| Part | State | Operations | Talks to |
|---|---|---|---|
| Execution loop (`cpu.cc`, `cpu.h`) | `cycle`, `cycle_stop`, `event_cycle`, `interrupts`, `pending_interrupts` | `Emulate`, `EmulateWithCycleProcessing`, `SingleStep` | calls `EventQueue::Start`/`Expire`, breakpoints, the CPU's `emu` and `interrupt` |
| `EventQueue` (`cpu.cc`, `cpu.h`) | a heap of (time, callback), a lock, a pointer to the loop's `event_cycle` | `Start`, `Schedule`, `ScheduleNoLock`, `Expire` | writes `*cycle`, runs callbacks on the run thread with the lock held |
| `DebugInterface` (`debug_interface.cc`) | `pause`, `pause_response`, `step_pending`, two condition variables, a lock | `Pause`, `Resume`, `SingleStep`, `SetBreakpoint`, `ClearBreakpoint`; `PausedFunc`, `SingleStepFunc` and the breakpoint closure on the run thread | posts events; edits the breakpoint table |
| Lua bindings (`lua_interface/lua_cpu.cc`) | none of their own | `Peek`, `Poke`, `SingleStep`, ... | `DebugInterface` |
| `LuaState` (`lua_interface/lua_state.cc`) | `exec_lock`, `owning_thread` | `GainOwnership`, `ReleaseOwnership`, the console's `fgets` | held around every call of the bindings |
| `SystemBus` (`cpu.cc`, `cpu.h`) | page table, `io_mask`, I/O devices | `ReadByte`, `WriteByte`, `QueryIo`, `Map` | memory and device callbacks |
| 65C816 (`cpu/65816/`) | registers, P split over several fields, mode (E, M, X) | one function per opcode and mode, `DoInterrupt`, `PowerOn`, `Reset`, save states | the bus, the loop |
| NES PPU (`system/nes/2c02.cc`) | scroll registers, OAM, flags, dot and scanline | register reads and writes, `CatchUpToCpu` | raises NMI; is run lazily up to the CPU's cycle |
| NES board, mappers, iNES (`system/nes/`, `rom_ines.h`) | banks, controller shift registers, DMA | I/O reads and writes, `Run`, `LoadRom` | loop, PPU, bus |
| C256 board (`system/c256/`) | math coprocessor registers | I/O reads and writes | loop, bus |
| libretro front end, command line, JIT, host layer | | | outside: external API, unfinished code, system calls |

One thread runs the loop.  Other threads reach it through two locks: the
queue's, taken by `Schedule` and held by `Expire` while callbacks run, and
`pause_lock`, held by the debugger's calls and released in its two waits.  The
loop reads `event_cycle` with no lock, so every change of the queue has to be
visible in that one word.

What is hard to get right:

* the loop's unlocked read of `event_cycle` against posts from other threads,
  posts from callbacks, and `Start`, which takes no lock;
* `Pause` and `SingleStep` handing one counter back and forth between client
  and run thread, over two condition variables, with breakpoints that add and
  drop a pause of their own;
* two locks taken in both orders (below);
* the 65C816's mode changes, where one opcode changes register widths, the
  instruction table and the stack's wrapping together;
* one interpreter lock around scripts that wait for the run thread, and around
  the breakpoint functions the run thread itself calls;
* operands of one and two bytes that wrap in a page, in a bank or not at all, by
  mode, instruction, opcode table and the low byte of D;
* the PPU being run up to the CPU's cycle only when somebody looks.

`PROJECT.json` lists the hazards at their lines with the properties that watch
them.

## Modules

| Module | Models | Used by |
|---|---|---|
| `EventSchedule` | what the loop and the queue promise together, without lock, heap or `event_cycle` | `RunLoop` (`Abstract`) |
| `RunLoop` | the three loops, `EventQueue`, interrupt request bits | `MCRunLoop`, `RunLoopProofs` |
| `DebugInterface` | the debugger, its clients and as much of the run thread as they can tell | `MCDebugInterface`, `DebugInterfaceProofs` |
| `Cpu65816Modes` | E, M, X, the opcode table, P, the stack, RESET, interrupts and RTI, opcode by opcode | its `.cfg` files, `Cpu65816ModesProofs` |
| `LuaDebug` | `LuaState`'s lock and ownership, pauses and peeks from Lua, the Lua function of a breakpoint | its `.cfg` file, `LuaDebugProofs` |
| `Alu65816` | results and flags of the arithmetic, binary and decimal | `MCDatapath`, `DatapathProofs` |
| `Addressing65816` | the bytes each addressing mode reads and writes, block moves | `MCDatapath`, `DatapathProofs` |
| `C256Board` | `SystemBus`, the C256's page table and devices, the coprocessor, the debugger's accesses | `MCDatapath`, `C256BoardProofs` |
| `Ppu2c02` | the picture unit, dot by dot, and its registers | `EagerPpu`, `NesClock`, `Ppu2c02Proofs` |
| `EagerPpu` | what a program is promised of the unit: it keeps step with the CPU | `NesClock` (`Eager`) |
| `NesClock` | the unit run behind a CPU that executes whole instructions, with accesses, DMA and NMI | `MCNesClock`, `NesClockProofs` |
| `MCRunLoop`, `MCDebugInterface`, `MCDatapath`, `MCNesClock` | finite instances for TLC | the `.cfg` files |
| `RunLoopProofs`, `DebugInterfaceProofs`, `Cpu65816ModesProofs`, `LuaDebugProofs`, `DatapathProofs`, `C256BoardProofs`, `Ppu2c02Proofs`, `NesClockProofs` | theorems; `NesClockProofs` builds on the lemmas of `Ppu2c02Proofs` | |

Definitions whose comment begins with "Variant" are the code with one plausible
slip (`<` for `<=`, a notification forgotten, a counter not raised).  No
specification uses them; substituted for the definition they are named after
they make a property fail, which shows that the property constrains the code.

### RunLoop

Actions follow the code at the grain at which threads can interleave.  `Start`
is three steps because it holds no lock; `Schedule` is three steps (push, read
of the front, store through `*cycle`) because the loop reads `event_cycle`
while the lock is held; `Expire` is one step to take the lock, one per popped
event, one per callback and one to store and release.  An instruction is `Emu`:
it takes some cycles and may change the interrupt flag.  `LoopHead` makes the
decision of one round (`cycle < event_cycle`, then one load of
`pending_interrupts`), and `Interrupt` or `Emu` carries it out, so that sources
raised in between are seen to wait.

`pc` is the program point of the run thread, `tpc[t]` that of a posting thread,
`entries[e]` the time of event `e` or `Idle` when it is not in the heap.  Equal
times may leave the heap in any order, as from `std::pop_heap`.

`EmulateWithCycleProcessing` keeps `event_cycle` on its stack, so
`EventQueue::cycle` dangles once it has returned.  `cycle_ptr` says what it
points to; a store through the dangling pointer is taken to be one nothing reads
again (`PointsToLimit`).  What else it overwrites is not modelled.

Assumptions about the environment, in guards: callbacks post into the future
(one that reposted for a time already due would keep `Expire` busy for ever);
nobody uses the queue before its first `Start` (its pointer is uninitialised);
`SingleStep` is called with a queue only when `CpuState::event_cycle` is what the
queue points to; an interrupt's source is deasserted by the device that is told
of it; an event has one entry in the heap at a time.

`MaxCycle` bounds the cycles for which events are posted and frames end.  It is
a bound of the model, named in the guards of `NewFrame`, `StepEnter` and (through
`Times`) the posts.

### DebugInterface

The run thread is reduced to the head of its loop, an instruction, `Expire` with
the three kinds of event this component posts, `PausedFunc`, `SingleStepFunc` and
the breakpoint closure.  The queue is used by the contract `RunLoop` is shown to
keep: a due event is fired before the next instruction.  `pause_lock` is a
variable only where it is held across steps (`Pause` keeps it while it waits for
the queue's lock); every other critical section is one action guarded by
`pause_lock = "free"`.  A wait is leaving the lock and entering `waiters`
(clients, on `pause_wait_var`) or `pc = "paused"` (the run thread, on
`pause_var`); a notification empties the wait set; `SpuriousWakeup` takes anyone
out of it.

`holders` and `stepped` are ghosts: the pauses that are open, by whom, and the
one a `SingleStep` has handed to the run thread.  Clients resume only what is
open, their own or a breakpoint's.  Parameters choose which calls the clients
make and whether they call one at a time (`Serialized`), as Lua clients do under
`LuaState::exec_lock`.

### Cpu65816Modes

The one variable, `cpu`, is a record, because the code's functions call each
other: each is an operator from record to record (`OnUpdateMode`,
`SetStatusRegister`, `Pushed`, `DoInterrupt`, `RtiTo`, `ResetOf`), and each opcode,
or family of opcodes that does the same to this state, is an action built from
them.

| Field | Code |
|---|---|
| `on` | which of `mode_native_6502`, `mode_emulation`, `mode_long_a`, `mode_long_xy` are true |
| `table` | `cpu_state.mode`, the index of `current_instruction_set` |
| `flags` | the bits of P that are 1, M and X excepted: the code keeps them in `other_flags`, `zero`, `carry`, `negative` and `interrupts` (1 when I is clear) |
| `high` | which of X and Y have a high byte that is not 0 |
| `sp` | its two bytes |
| `bank` | `code_segment_base >> 16` |

An opcode is decoded by `table` and its pushes and pulls wrap by `mode_emulation`,
as in the code; that the two agree is `ModeConsistent`, not an assumption.  What
an instruction pulls, loads or transfers is any value, since anybody may have
written the memory and the registers that are left out: A, D, the data bank, IP,
cycles and memory.  `DataOp` and `IndexWrite` each stand for the many opcodes that
only set flags from a result, or load X or Y.  Of the stack the model keeps which
address each push writes and each pull reads (`PushAt`, `PopAt`, `PopOldAt`), which
is enough to say that one reads what the other wrote.

`InterruptReturns` is about all handlers at once.  From each reachable state it
builds the state `DoInterrupt` makes, lets the handler change flags and widths as
it likes (`Handled`), and runs RTI on the frame.  `Recoverable` names the exceptions, which are
what the code does: in emulation mode the bank is not pushed; IRQ and COP push M
or X as 0 so that RTI refreshes the mode, which clears a high byte that MVN left
in an 8-bit X or Y; and Pop does not wrap where Push does.

Differences from the chip that no document of the repository denies, modelled as
the code has them: XCE copies C to E but not E to C; XCE and Reset leave the high
byte of the stack pointer; IRQ is the interrupt that pushes bit 4 as 1 and bit 5
as 0; MVN and MVP carry into the high byte of an 8-bit X or Y.

`PLD`, `PHD` and the other opcodes the 6502 does not have are null in its table
and have no step there.

### LuaDebug

`LuaState` has two locks in effect: `exec_lock`, and `owning_thread`, which is read
without it and tells a thread whether it holds it already.  Each access to
either is a step.  `nested[t]` counts the calls of a thread that found it
the owner, so that only the outermost gives ownership back.  The console's
`fgets` is three steps: it drops `exec_lock` but not the ownership, and takes the
lock back without asking who owned it last.

Of `DebugInterface` the module keeps what its own module shows of it: `Pause` and
`Resume` up to the wait they may make, `PausedFunc`, and the breakpoint closure.
`Pause` is two steps, the counter and then, with `pause_lock` still held,
`Schedule`, which waits for the queue's lock; `Expire` pops an event, and `Fire`
runs its `PausedFunc` with the queue's lock held, waiting for `pause_lock`.  Who
holds either lock shows from where the threads are (`PauseLockFree`,
`EventsLockFree`).  Single steps are left out.
`holders` says who has a pause open, as in `DebugInterface`; a script resumes its
own pause or a breakpoint's stop, from the breakpoint's function too.

A pause can hang, and `Deadlocked` names the ways: the function of a breakpoint
pauses the thread it runs on; such a function waits for `exec_lock`, which a script
holds while it waits for the run thread to answer its pause; and a `PausedFunc` that
outlived the pause it was posted for waits for `pause_lock`, which the next `Pause`
holds while it waits for the queue's lock.  The last takes a breakpoint's stop, from
which the first pause returns before its event has fired.  `PauseEndsOrDeadlocks` says
that a pause of a script that makes no single steps hangs in no other way.  `luaL_ref(L, 3)` (`lua_cpu.cc:150`) stores the
function in another table than the one `CallRefFunction` reads; the model takes
the call as meant.  Nothing in `src/` constructs a `LuaCpu` or a `LuaState`: the
threads are those their interface allows.

### Alu65816, Addressing65816, C256Board

Three parts an instruction's data goes through.  They share no state, and
`MCDatapath` explores each with the others at rest.  In each the actions are the
program's instructions or accesses, and the states those reach are the ones the
properties are evaluated in.

`Alu65816` has A, one memory operand and the flags N, V, Z, C, D.  A word has
`Digits` hexadecimal digits; the operators take the width as a parameter, so that
`DecimalAddExact` can put one more digit before A and before the operand, and look at
two-digit numbers from the one-digit states TLC visits.  Powers, bitwise operators and
decimal notation are recursive functions, and `\div` by a power stands for a shift.
Reference definitions are integer arithmetic with signs (`BinaryExact`), decimal
notation (`DecimalAddExact`) and inverse operations (`ShiftsUndone`).

`Addressing65816` has the registers that take part in an address and a memory of
`ByteSize` banks of `ByteSize` pages of `ByteSize` bytes.  `EffectiveAddress` is
`CalcEffectiveAddress` of every template; `ReadCell` and `WriteCell` say where the
next byte of an operand is, which the code does with one pair of functions for
bank 0 and another for the rest.  Each entry of an opcode table says for itself whether
its direct page wraps: an access is of a mode and of a kind of instruction (`Kinds`), and
`KindModes` is the modes in which a table has each kind.  `DirectPageRule` states the rule
of the comments by kind, and `DepartsFromRule` names the instructions that break it:
dropped in either half, it leaves a property TLC refutes.  Values fetched from the instruction stream are
any values.

`C256Board` uses the program's own addresses, of which a behaviour accesses those
in one of the sets `Probes`, and bytes of `DataSize` values.  The choice over the bank in `Ptr`
stands for the table the constructor fills.  `gavin_low_regs` is not initialised
by the constructor: registers start with any one value.  `EveryWriteRecomputes` asks of
the units the code calls signed the signed product and quotient; `SignIgnored` is where
they do not give it, an operand that is negative.

### Ppu2c02, EagerPpu, NesClock

The unit is a record and `PpuStep` an operator on it, because the program itself
runs it in two ways: `CatchUpToCpu` calls it in bursts, and what programs rely on
is that it seems to run all the time.  `EagerPpu` is the latter: `Clock` advances it by `DotsPerClock`,
and an access to a register meets it at the dot of the access.  `NesClock` is the
former: the CPU's clock runs `lag` dots ahead within an instruction, `Access` and
`Dma` catch up first, `PostCpuCycle` catches up at the end of an instruction, and an
interrupt sequence does not.  A DMA is the last access of its instruction, whose
remaining clocks are a phase of their own.  `LazyIsEager` is refinement under
`beam <- Dots(ppu, lag)`.  The NMI is part of the unit's record: an NMI the unit
has not raised yet because it lags is one the CPU does not see yet, in both;
what the refinement excludes is an access that meets an older or a newer unit, and
an NMI taken twice or dropped.

Kept are the fetch state machine of a line with its dots, `vram_addr` and
`reg_t` bit by bit, the flags of `status`, the NMI enable, `rendering_enabled`, the
parity of the frame and the hit of sprite 0.  Left out are pixels and everything
read from memory: the background is opaque, and sprite 0 is in the last column.
`steady` is a ghost: line 0 was rendered and the program has left the scroll alone
since, which is when `ScrollFollowsLine` has something to say.

## Runs

| Run | Instance | Shows |
|---|---|---|
| `run_loop` | 2 threads, 2 events, costs 1-2, `MaxCycle` 4, no post during `Start`; 180 100 states | types; `event_cycle` at or below every posted event; no instruction at or after `cycle_stop`; masked IRQs held; `EventSchedule` implemented |
| `run_loop_race` | 1 thread, 1 event, `MaxCycle` 4, posts free to overlap `Start`; 80 384 states; fairness | frames still end, due events still fire, NMIs are still taken |
| `run_loop_no_queue` | no queue | **violation**: `Emulate()` calls `Expire` through null |
| `debug_step` | 2 serialised clients, 2 pauses each, steps of 1-2 cycles; 479 states; fairness | the counter counts, the CPU is stopped exactly while held, a step returns on its own stop, every call returns |
| `debug_break` | 1 client, 1 address, breakpoints of both kinds; 1 944 states; fairness | the counter counts across breakpoints and premature Resumes; calls return |
| `debug_step_break` | steps and breakpoints together; fairness | **violation**: `SingleStep` onto a breakpoint never returns |
| `debug_unserialized` | 2 clients at once | **violation**: "The CPU is paused here", when only the counter of a `Pause` still in progress says so |
| `cpu_modes` | bytes of 4 values, one flag for N, V and Z, 2 banks; 10 368 states | widths, opcode table and P agree; P survives a round trip; RTI undoes every interrupt; pulls read what pushes wrote; X, Y and the stack stay where the mode puts them |
| `lua_debug` | 2 scripts or consoles, 1 nested call each, 2 events; 10 676 states; fairness | `owning_thread` read unlocked is right about the reader; peeks meet a stopped CPU; a pause returns or the threads wait for each other in one of three named ways |
| `datapath` | 1 digit (decimal: 2); bytes of 2 values in 2 banks; the C256's units and page kinds with bytes of 2 values; 25 418 states | arithmetic is exact but for the exceptions its properties name; addresses wrap as the comments say but for the instructions named; loads find stores; the two block moves agree; the coprocessor is right after every byte, but for the signed units' negative operands; pokes spare devices |
| `nes_clock` | lines of 37 dots, frames of 5 lines, instructions of 3 clocks, 3 accesses; 2 426 350 states | the lazy unit implements the eager one; a vblank interrupts once; the scroll address follows the line |
| `cpu_stack_wrap` | bytes of 8 values | **violation**: `RTS` reads at $0200 what `JSR` wrote at $0100 |

Why the bounds are enough.  Two posting threads are what it takes for one to wait
for the lock while the other, or `Expire`, holds it; two events for one to be
earlier than the other, to tie with it, and to be posted from the other's
callback.  Four cycles with frames of 1 and 3 and instructions of 1 and 2 let
an instruction overrun both an event and the end of a frame, and let a second
frame follow.  Costs of one client and one address suffice in `debug_break`
because breakpoints of different addresses share everything but the table.  In
`debug_step`, two clients with two pauses each reach a counter of 4.

A frame has at most four bytes, so with bytes of four values (`cpu_modes`) a frame
begins at every offset of a page and crosses from one page to the next at every
point.  N, V and Z are written together and
only ever copied, so that one of them stands for all; the second bank is the one
an interrupt has to bring back.  The state space is explored in full: nothing is
bounded by a guard.

In `lua_debug` two clients are what it takes for one to hold `exec_lock` while the
other and the run thread wait for it, and for one to be at its prompt while the
other runs.  One nested call shows every path of `was_owner`; two events let a
`PausedFunc` event outlive its pause while the next one is posted, which is what the
deadlock of `pause_lock` and the queue's lock takes.  Deadlock is not
checked, since the system may really stop (`Deadlocked`).

In `datapath`, one digit has both signs, a carry out of every bit and a
half-carry; what only longer words could show, a carry between digits, is in the
decimal property (and, for all of them, in the proofs), which adds every pair of high digits to the state's low ones.  With
bytes of two values a page is two bytes and a bank two pages, so that every
operand of two bytes and every pointer of three crosses a page or a bank at some
address, and an index can leave a bank.  `Ram` leaves bytes of both banks read-only.  A probe of the C256
has all registers of a unit, or one address of each kind of page with the
trapped byte that shares its page with devices and the image `PowerOn` copies over it.

`nes_clock` scales the picture: one tile and one sprite fetch on a line, which
keeps all states of the machine and makes a line of 37 dots, three visible lines
and a frame of five.  Line 0, the first line (one dot short on odd frames), a
line after another, the line before vblank and vblank are all there; the rows of
a tile are as in the program, and the scrolls written are ones where the picture
crosses rows 29 and 31.  A frame of 185 dots is two more than a multiple of three, as the
program's of 89 342 is, so that frames and clocks meet in every phase.  Three
accesses (`MaxAccesses`) are enough to switch rendering and the NMI on and then do
one thing more, or to write both bytes of an address and move on.  Instructions of
three clocks have an access before, at and after every dot; the DMA takes six
clocks in place of 512, both even.

Symmetry (`run_loop`) permutes the threads and the events, which the
specification treats alike; the run checks no liveness.

Fairness.  `WF(RunThread)`: the operating system schedules the run thread and the
host keeps calling the loop.  `WF` of each client's, or posting thread's, steps
inside a call: it is scheduled until it returns (in `LuaDebug`, `InCall`; a script
that holds the interpreter is not assumed ever to leave it).  No call is ever assumed to be
begun, with one exception: `NmiTaken` and `DueFires` need the host to ask for
frames that have cycles in them, again and again (`SF` on such a `NewFrame`: a
host may also ask for empty ones).  A mutex is not assumed fair.  `NmiTaken` is
conditional on the other threads' posts ending: each post for a time already
past sends the loop back to `Expire` before it looks at `pending_interrupts`,
and an endless stream of them starves it; TLC shows that behaviour when the
condition is dropped.

## What the runs found

* `Emulate` tests its queue before `Start` and not before `Expire`
  (`cpu.cc:128`).  `Nes::Step` and `C256::Emulate` call it with no queue.
* A breakpoint met during a single step decrements a counter it did not
  increment (`debug_interface.cc:95`).  The pending step's own increment then
  yields 0 and nothing stops.  Without steps `debug_break` shows the counter right,
  and `BreakpointsCountHoldersAlways` proves it.
* `Pause` raises the counter (`debug_interface.cc:38`) before it has posted its event
  and before the CPU has stopped.  `LuaCpu::SingleStep` takes the raised counter for the
  stop, with no lock (`lua_cpu.cc:239-242`), and so reaches "The CPU is paused here"
  (`debug_interface.cc:60`) with the run thread in its loop.  Under `exec_lock` it cannot
  happen, and `debug_step` shows the call sound there.
* `Pop` does not wrap (`cpu_65c816.h:192`), and RTS and RTI use it in emulation mode,
  where `Push` wraps and where the opcode table's comment has the stack wrap.
  After a JSR with the stack pointer at $0100, RTS takes half of its address from
  $0200.
* `Pause` holds `pause_lock` while it waits for the queue's lock, and `PausedFunc`, run
  by `Expire`, holds the queue's while it waits for `pause_lock`.  Serialised scripts
  with breakpoints reach the deadlock: `lua_debug` allows it by name (`Deadlocked`), and
  in `DebugInterface` TLC finds it with `CanPause` and `CanBreak` both TRUE, or with
  unserialised clients.  No document says it cannot happen, so no run claims it;
  `debug_step` and `debug_break` keep deadlock checking on, and have none.

* Against a comment of the code, and stated as the exception of a property that holds:
  * "Instruction must be "old" - extant on a 6502" (`cpu_65c816_ops.inl:38`), but TSB,
    TRB, STZ and BIT dp,X wrap in the direct page in emulation mode too, and BIT dp,X,
    which no 6502 has, is in the 6502's table and wraps there (`DirectPageRule`,
    `DepartsFromRule`).
  * "Emulate a 6502 exactly, including 6502-exclusive illegal instructions"
    (`cpu_65c816.h:259`), but LAX and SAX on the zero page do not wrap (the same).
  * "16x16 Unsigned & signed multiplier, 16/16 unsigned & signed divider"
    (`c256.cc:183`), but the signed units work without sign (`EveryWriteRecomputes`,
    `SignIgnored`).

* Met while modelling, and modelled as the code has them.  No document speaks of any of
  these in particular, though SBC's Z, ALR and ANC are the 6502's too, which is to be
  emulated "exactly":
  * Decimal ADC corrects all digits in one addition and is wrong exactly where a
    correction carries into a column of 9: $99 + $01 gives $A0 (`MissedCarry`).
    Decimal SBC takes the top digit's carry inverted with respect to the others,
    and 5 - 3 gives $62 (`SubDec`).
  * SBC takes Z from 32 bits: 0 - $FF with a borrow leaves 0 in A and Z clear.
  * ALR and ANC take the byte at `ip`, their own opcode, for their operand.
  * MVN with A = $FFFF, 65 536 bytes, moves nothing.
  * IncrVert switches the vertical nametable after row 29 and then copies both
    nametable bits from `reg_t`, so that it never does.
  * Line 0 does not reset the horizontal scroll, and evaluates no sprites: line 1 is
    fetched from wherever the last frame ended, with the sprites line 240 had.
  * After an interrupt sequence the PPU is not caught up until the next
    instruction ends.
  * `main_pages[16].io_mask` is assigned twice (`nes.cc:69-70`).
  * `Mapper0::Setup` does not end when a ROM region has size 0.
  * A Lua breakpoint function that resumes the CPU and then peeks waits for itself.

## Proofs

For every set of threads, events, clients and costs, every nesting of Lua calls and
every amount of memory, for bytes of any size from 4 up (from 2 up in addresses and on
the C256), words of any number of digits, and for every geometry of the picture and ratio of the NES's clocks:

| Theorem | States |
|---|---|
| `RunLoopProofs!TypeCorrect` | types |
| `RunLoopProofs!TargetTracksFrontAlways` | `event_cycle` is at or below every posted event while the queue is unlocked |
| `RunLoopProofs!StopsAtFrameEndAlways` | no instruction of a loop begins at or after `cycle_stop`, with or without the race |
| `RunLoopProofs!MaskedIrqHeldAlways` | a masked IRQ is not delivered and stays pending |
| `RunLoopProofs!LoopImplementsSchedule` | the loop implements `EventSchedule`, given `QuietStart` |
| `DebugInterfaceProofs!TypeCorrect` | types, whatever the clients do |
| `DebugInterfaceProofs!PauseCountsHoldersAlways`, `StoppedWhileHeldAlways`, `CpuPausedAtStepAlways`, `StepIsOverAlways` | the debugger's promises, for serialised clients without breakpoints |
| `DebugInterfaceProofs!BreakpointsCountHoldersAlways` | the counter counts, for any clients with breakpoints and without steps |
| `Cpu65816ModesProofs!TypeCorrect`, `ModeConsistentAlways`, `Stack6502InPageOneAlways` | types; widths and opcode table agree; a 6502's stack is in page 1 |
| `Cpu65816ModesProofs!StatusRoundTripAlways`, `InterruptReturnsAlways`, `StackIsLifoAlways` | P, interrupts and the stack undo themselves, from every reachable state |
| `Cpu65816ModesProofs!IndexHighOnlyByBlockMoveAlways`, `EmulationKeepsStackPageAlways` | what no step does to X, Y and the stack pointer |
| `LuaDebugProofs!TypeCorrect` | types |
| `LuaDebugProofs!OwnershipIsKnownAlways` | a thread's unlocked look at `owning_thread` tells it the truth about itself |
| `LuaDebugProofs!PeekOnStoppedCpuAlways` | a peek or poke of a client meets a CPU that executes nothing |
| `DatapathProofs!DirectPageRuleAlways` | the direct page wraps for the 6502's instructions with D at the start of a page and for no others, but that the six of `DepartsFromRule` do the opposite |
| `DatapathProofs!StoredIsLoadedAlways` | a load finds what a store in the same mode wrote |
| `DatapathProofs!BlockMoveAgreesAlways` | a move byte by byte ends as the one that moves all at once, and between banks it is a copy |
| `DatapathProofs!BinaryExactAlways` | binary ADC and SBC are integer arithmetic, and their flags say what they should |
| `DatapathProofs!ShiftsUndoneAlways` | a rotate the other way undoes a shift or a rotate |
| `DatapathProofs!DecimalAddExactAlways` | decimal ADC is right unless a correction carries into a column of 9, and then wrong |
| `C256BoardProofs!DebuggerSparesDevicesAlways` | a poke changes no device register and reaches the memory beside the devices |
| `C256BoardProofs!EveryWriteRecomputesAlways` | after every write to a unit of the coprocessor its results are those of its operands, with their sign in the signed units unless one is negative |
| `NesClockProofs!UnitsAreSound` | fetch state, dot, line, scroll address and NMI of the unit agree, wherever the CPU leaves it |
| `NesClockProofs!NmiOncePerVblankAlways` | a vblank interrupts once |
| `NesClockProofs!ScrollFollowsLineAlways` | each line is fetched from under the one before it |
| `NesClockProofs!CatchUpIsEager` | the unit run behind the CPU implements `EagerPpu` |

`RunLoopProofs` proves one invariant of five parts.  `TargetTracksFront` alone is
not inductive: a thread may be about to store a minimum it read earlier.
`MinimaCurrent` adds that every such minimum is still one, which holds because
`LockDiscipline` ties the lock to the program points: nobody else pushes
meanwhile.  `PointerDiscipline` says that between `Start` and return a store
through the queue's pointer reaches the current loop's limit.  `WithinFrame`
bounds every value on its way to `event_cycle` by `cycle_stop`.  Refinement is
then a case per action; the two that matter are `LoopHead` and `ExpireReturn`,
where an instruction begins and nothing may be due.
`MaskedIrqHeldAlways` needs one fact more, `NmiIfMasked`: from the load of
`pending_interrupts` to the delivery, an interrupt about to be taken with interrupts
disabled is an NMI.

`DebugInterfaceProofs` describes, for the one client inside a call, where the run
thread can be at each point of that call (`CallInv`).  The difficult points are
the waits after a step: the run thread is either still ahead of its step event
with the counter at 0 (`StepAhead`), or has fired it and stopped (`StepOver`);
`StepIsOver` follows since only the second has `pause_response` set at
`step_wait`.  `Counted` ties the counter to the ghost set by cardinality lemmas.
`BreakpointsCountHoldersAlways` has an invariant of its own (`CountInv`), since with
breakpoints the run thread can be anywhere: what it keeps is which pauses are open at
each point of the closure.  It cannot hold for steps and breakpoints together: TLC
finds a step that resumes a CPU nobody holds and leaves -1.

`Cpu65816ModesProofs` proves one invariant, `Good`: the type, `ModeConsistent` and the
6502's page 1 together, each of which needs the others (the table decides which
form of TXS runs, the mode which bytes a push moves).  The lemmas follow the code's
call graph: each operator from record to record preserves `Good`, and an action is
an application of them.  `StackIsLifo` rests on `PopReadsPush`, arithmetic on two
bytes for every n up to 4; `InterruptReturns` joins it, for the frame, with
`StatusReturns`, for P and the modes.

`LuaDebugProofs` proves `LuaInv`, two parts in turn.  `LockHeld` ties `exec_lock` to
the program points and `Owner` says who can be `owning_thread`; the console, which
gives up the lock and stays the owner, is why neither alone is inductive.  The
second part is about pauses: `Counted` (the counter is the number of open pauses),
`PeekOpen` (a peek holds one of them) and `Halted`: while one is open the run thread
executes nothing, or a client that holds `exec_lock` is inside `Pause`, about to post its
event or waiting for the answer.  Nobody else
is in Lua then (`NobodyElseWaits`), so whoever finds a pause open there, its own or
another's, finds the run thread stopped; that is what lets `Pause` return at once.

`DatapathProofs` has an invariant that is types (`AddressingType`), but the types say
where arithmetic wraps, and the size of a byte is a constant: nothing is known of
`\div` and `%` by it but that there is one quotient and one remainder (`Division`,
`Quotient`).  The properties then hold of any registers and any memory of those types.
`DirectPageRule` compares two ways of computing an address: the code splits D into page
and low byte and adds to one half, the rule takes the sum apart.  Which of the two
an instruction asks for is a matter of its kind alone: the rule and the departures from it
together are `Wraps`.  `LowOfSum` and
`PageOfSum` say that whole pages do not touch the low byte and a byte does not leave its
page.  `StoredIsLoaded` comes down to `Cells`, that the two bytes of an operand are two
different places in every mode, wrapped or not; with ROM under one of them, or a store
into its own pointer, there is nothing to prove, as the property says.

What the recursive functions of the two modules compute is proved once for all of them
(`ChainExists`, `ChainsAgree`): a chain of values, each made from the one before it,
exists and is unique, again by `SetInduction`.  A block move's measure is the number of
bytes left.  `MovesAgree` is an induction over it in which the move at once, begun one byte
later, is the same move (`FastMove`), whatever the data bank is by then (`FastMoveBank`).
That it is a copy needs that no byte is met twice: `CellsDiffer` in each bank,
since no move is longer than one, and `BanksDiffer` between them (`CopiedOne`).

`Alu65816` is split where the provers' arithmetic ends.  A word is known by its
size, twice `Half`; `TopBits` and `CutToWord` turn its top bit and its width into
comparisons with `Half`, and what is left is linear (`SumOfWords`, `DifferenceOfWords`,
`ShiftArithmetic`).  `AluType`, that A and the operand stay words, takes that bits make a
word (`WordOfBits`).

`DecimalAddExact` goes column by column.  In column i there are two digits, the carry of
the binary addition, which decides about the correction (`AdjustedSum`), and the carry of
the corrected one, which is at least as great and decides about the result
(`ColumnArithmetic`).  `OneColumn` shows that after columns that are right the two
differ in effect only over a sum of 9: the digit is then $A, and it is the column that
`MissedCarry` describes; in any other column digit and carry are the decimal ones.  So
either all columns are right, or the first that is missed is a digit $A in the result
(`AllColumns`).

In `C256BoardProofs` the debugger's theorem needs one invariant, that no access adds a
cell or takes one away (`Wired`).  A poke passes three tests of an address: the page's
`io_mask`, `IsIoDeviceAddress` and the one in `IoWrite`.  `TrappedMemory` shows that where
the first says yes and the second no, the third finds the byte the page table has;
`UntrappedMemory` that without the first no device is behind the page.  The coprocessor's
needs that cells hold bytes (`CellsHoldBytes`).  A write to any register of a unit starts
that unit and no other (`OwnUnit`), so that the operands stay as written and the result's
registers hold the bytes of a result of four bytes (`WrittenUnit`, `ResultIsLong`); put
together again (`BytesOfLong`) they are the result, and a quotient can be told from its
remainder because both are words (`QuotientIsLong`).  A number that is not negative is
its own unsigned reading, so the unsigned results are the signed units' too where
`SignIgnored` does not hold (`UnsignedIsComputed`).

`Ppu2c02Proofs` is about the unit as an operator.  `Dots` is a recursive function, and
what it computes rests on an induction over *sets* of numbers (`SetInduction`, from
the well-foundedness of `<`): `DotsZero`, `DotsNext` and
`Dots(Dots(p, m), n) = Dots(p, m + n)` (`DotsAdd`).  From there on an induction is over one dot.
`Sound` is what every dot and every register keeps: `Placed` gives for each fetch
state the dots of a line it can be met at, `Steered` where the scroll address is at
that dot if the program has left it alone, `Counted` that at most one NMI was raised
since the last vblank and none where it is too early.  `ScrollFollowsLine` speaks of
one dot of a line; `Steered` says for every other how far the address is on its
way there (tiles still to come, row still to be left, copy still to be made).

`NesClockProofs` then shows that an access that meets the unit early cannot be told
from one that meets it late.  `PostCpuCycle`, `Access` and `Dma` advance the unit, and
`DotsAdd` says that the dots are the same ones.  `IrqTaken` does not advance it, and
clears `nmi` in a unit that is behind: that commutes with the dots to come
(`TakenDots`) only if none of them raises an NMI.  `RestInv` says that there are not
enough: an NMI that is held was raised by a vblank so recent that the next
(`Ahead` dots on) is beyond the end of the interrupt (`Rest`).  The invariant
starts at the end of the instruction in which the NMI is raised, and
`FrameAssumption` is what it needs: an instruction with its DMA and the interrupts
around it is shorter than a frame, 1593 dots of 89 342 in the program.

The assumptions are those of the `ASSUME`s in the modules, and `QuietStart`
or `Serialized /\ ~CanBreak` where a theorem says so.

Only model-checked: liveness and fairness (`DueFires`, `NmiTaken`, `CallsReturn`,
`ResumedRuns`, `PauseEndsOrDeadlocks`), which is beyond TLAPS, and the debugger's waits
with breakpoints.

## Not modelled

* The same-thread form of the debugger (`cross_thread = false`).
* Lifetimes of C++ objects: the closure a `ClearBreakpoint` destroys while it
  runs, the hash table edited while it is searched.
* The JIT (an unfinished generator nothing calls successfully), the host layer,
  the libretro glue and the command line: external interfaces and I/O.
* Assembler and disassembler text.
* IP, jumps, branches, the fetch of operands and the cycles of an instruction.
* Pixels, palettes, the bytes of pattern tables and sprites other than 0; the open-bus
  latch of the PPU; writes to OAMADDR and OAMDATA.
* The controllers' shift registers, `Nes::LoadRom`, the one mapper, which maps fixed
  banks once, and the iNES header: sequential code without a state to keep.
* In the Lua bindings, arguments and results; `GetState`, `Assemble`, `Disassemble`.
* Save states: nothing calls `SaveState` or `LoadState`, and `SaveState` uses a byte
  of its buffer as the address it writes to (`cpu_65c816.cc:508`).
* Opcodes that are null in the 6502 table, whose execution ends the program.

## Plan

Done: `EventSchedule`, `RunLoop`, `DebugInterface`, `Cpu65816Modes` and their proofs;
`LuaDebug`, `C256Board` and proofs about both; `Alu65816`, `Addressing65816`;
`Ppu2c02`, `EagerPpu`, `NesClock` and their proofs; proofs about `Addressing65816` and
`Alu65816`.

Next: what the debugger's clients may rely on while breakpoints come and go, beyond the
counter, as a theorem; controllers and the cartridge's page tables, if either gains a second
form.
