------------------------------ MODULE NesClock ------------------------------
(***************************************************************************)
(* The NES board's clock (src/system/nes/nes.cc with 2c02.cc and the loop  *)
(* of cpu.h): the CPU runs ahead by whole instructions, and the picture    *)
(* unit is advanced only when an instruction is over, when one of its      *)
(* registers is accessed in the middle of one, or at a DMA.                *)
(***************************************************************************)
EXTENDS Ppu2c02

CONSTANTS
  DotsPerClock,   \* cpu_clock_size / ppu_clock_size: 3 in the program
  Lengths,        \* clocks an instruction takes
  InterruptClocks,\* clocks the interrupt sequence takes: 5 in the program
  DmaClocks,      \* clocks a DMA takes: 512 in the program
  SpriteLines,    \* lines a program may put sprite 0 on
  MaxAccesses     \* bound: accesses to registers, DMAs included

ASSUME ClockAssumption ==
  /\ DotsPerClock \in Nat \ {0}
  /\ Lengths \subseteq Nat \ {0} /\ InterruptClocks \in Nat \ {0}
  /\ DmaClocks \in Nat /\ DmaClocks % 2 = 0
  /\ SpriteLines \subseteq 0 .. 255
  /\ MaxAccesses \in Nat

\* An instruction, with a DMA and the interrupts around it, is shorter than a
\* frame: 1593 dots of 89342 in the program.
ASSUME FrameAssumption ==
  \A n \in Lengths :
    (2 * InterruptClocks + n + 1 + DmaClocks) * DotsPerClock
      < TotalLines * LineDots

VARIABLES
  ppu,        \* the unit
  lag,        \* dots from last_ppu_cycle to the CPU's cycle
  at,         \* "head" of the loop, in an "instruction", in the "dma" that
              \* ends one, or in an "interrupt"
  left,       \* clocks left of it
  second,     \* 1 on the odd clocks of the CPU
  accesses    \* accesses made

vars == <<ppu, lag, at, left, second, accesses>>

CatchUpNever == ppu   \* Variant: a register is accessed as the unit is
CatchUpToCpu == Dots(ppu, lag)

\* n clocks of the CPU pass.
Passes(n) == second' = (second + n) % 2

Init ==
  /\ ppu = PowerOn /\ lag = 0
  /\ at = "head" /\ left = 0
  /\ second = 0 /\ accesses = 0

\* The loop takes an NMI before anything else.
Interrupt ==
  /\ at = "head" /\ ppu.nmi = 1
  /\ at' = "interrupt" /\ left' = InterruptClocks
  /\ UNCHANGED <<ppu, lag, second, accesses>>

Emulate ==
  /\ at = "head" /\ ppu.nmi = 0
  /\ at' = "instruction" /\ left' \in Lengths
  /\ UNCHANGED <<ppu, lag, second, accesses>>

\* A clock with no access to the unit.
Clock ==
  /\ left > 0
  /\ left' = left - 1 /\ lag' = lag + DotsPerClock /\ Passes(1)
  /\ UNCHANGED <<ppu, at, accesses>>

\* IoRead and IoWrite of a register, and the clock of the access.
Access ==
  /\ at = "instruction" /\ left > 0
  /\ accesses < MaxAccesses
  /\ ppu' \in Accesses(CatchUpToCpu)
  /\ left' = left - 1 /\ lag' = DotsPerClock /\ Passes(1)
  /\ accesses' = accesses + 1
  /\ UNCHANGED at

\* WriteReg($4014), the last access of an instruction: the extra clock passes
\* before the DMA, its own clocks after it; the clock of the write is still to
\* come.
Dma ==
  /\ at = "instruction" /\ left = 1
  /\ accesses < MaxAccesses
  /\ \E line \in SpriteLines :
       ppu' = LoadSprites(Dots(ppu, lag + ((1 - second) * DotsPerClock)), line)
  /\ left' = left + DmaClocks /\ lag' = 0 /\ Passes(1 - second)
  /\ at' = "dma" /\ accesses' = accesses + 1

\* PostCpuCycle.
PostCpuCycle ==
  /\ at \in {"instruction", "dma"} /\ left = 0
  /\ ppu' = CatchUpToCpu /\ lag' = 0
  /\ at' = "head"
  /\ UNCHANGED <<left, second, accesses>>

\* The interrupt sequence ends with irq_taken, and without PostCpuCycle.
IrqTaken ==
  /\ at = "interrupt" /\ left = 0
  /\ ppu' = [ppu EXCEPT !.nmi = 0]
  /\ at' = "head"
  /\ UNCHANGED <<lag, left, second, accesses>>

Next ==
  \/ Interrupt \/ Emulate \/ Clock \/ Access \/ Dma
  \/ PostCpuCycle \/ IrqTaken

Spec == Init /\ [][Next]_vars

-----------------------------------------------------------------------------
(* Properties *)

Eager == INSTANCE EagerPpu WITH beam <- Dots(ppu, lag)

\* A unit that is advanced now and then is as good as one that is never behind:
\* brought up to the CPU's clock it is at every moment where the promised one
\* is, wherever in an instruction an access or a DMA falls (2c02.cc:448-455,
\* nes.cc:151-158).
LazyIsEager == Eager!Spec

\* The CPU is interrupted at most once for a vblank, however often the program
\* reads the status or switches the NMI off and on during it (2c02.cc:291-303).
NmiOncePerVblank == ppu.nmis <= 1

\* Below the first line, as long as the program leaves the scroll alone, each
\* line is fetched from the line under the one before it, two tiles in, from
\* where reg_t says the picture begins -- line 0 and the lines between them
\* having been rendered with whatever was in vram_addr (2c02.cc:166-168,
\* 206-215, 259-269, 360-387).
ScrollFollowsLine ==
  (ppu.state = "FETCH_SCANLINE_START" /\ ppu.line >= 2 /\ ppu.steady = 1)
    => /\ PictureLine(ppu.v) = Below(PictureLine(ppu.t), ppu.line - 1)
       /\ ppu.v.x = (ppu.t.x + 2) % 32
       /\ ppu.v.ntx = (IF ppu.t.x >= 30 THEN 1 - ppu.t.ntx ELSE ppu.t.ntx)
       /\ ppu.v.nty = ppu.t.nty
=============================================================================
