--------------------------- MODULE Cpu65816Modes ---------------------------
(***************************************************************************)
(* The modes, the status register, the stack pointer and the interrupts of *)
(* the 65C816 core (src/cpu/65816/), which is also the 6502 of the NES     *)
(* when mode_native_6502 is set.                                           *)
(*                                                                         *)
(* The width of a register is held three times: by mode_emulation,         *)
(* mode_long_a and mode_long_xy; by the opcode table in force, whose       *)
(* functions are compiled for one width each; and by the convention that   *)
(* the high bytes of X and Y are 0 while the index registers are 8 bits    *)
(* wide.  OnUpdateMode brings the three together.                          *)
(*                                                                         *)
(* Left out: addresses, A, cycles and memory.  The values an instruction   *)
(* pulls or reads are any values; what is kept of the stack is which       *)
(* addresses are written and read.                                         *)
(***************************************************************************)
EXTENDS Naturals

CONSTANTS
  ByteSize,   \* number of values of a byte: 256
  DataFlags,  \* the flags set from results only: N, V and Z
  Banks       \* values of code_segment_base >> 16

ASSUME ModesAssumption ==
  /\ ByteSize \in Nat /\ ByteSize >= 4
  /\ DataFlags \cap {"C", "D", "I", "M", "X"} = {}
  /\ 0 \in Banks

VARIABLE cpu   \* the modes, the flags and the registers below

-----------------------------------------------------------------------------
(* The state *)

\* P is kept as the set of its bits that are 1; M (0x20) and X (0x10) are
\* not stored: they are derived from the modes.
Flags == DataFlags \cup {"C", "D", "I"}
Status == Flags \cup {"M", "X"}

\* mode_native_6502, mode_emulation, mode_long_a and mode_long_xy, as the set
\* of those that are true.
Long == {"long_a", "long_xy"}
Modes == {"native_6502", "emulation"} \cup Long

Byte == 0 .. ByteSize - 1
Word == [hi : Byte, lo : Byte]

\* table is CpuState::mode, the index of the opcode table: 0 to 3 for native
\* mode with A, then X and Y, 16 bits wide; 4 for emulation; 5 for the 6502.
\* high holds the index registers whose high byte is not 0.
CpuStates == [on : SUBSET Modes, table : 0 .. 5, flags : SUBSET Flags,
              high : SUBSET {"x", "y"}, sp : Word, bank : Banks]

Emulated(c) == "emulation" \in c.on

\* Which opcodes exist and how wide they are is settled by the table.
Has65816Opcodes(c) == c.table # 5
WideA(c) == c.table \in {1, 3}
WideXY(c) == c.table \in {2, 3}

-----------------------------------------------------------------------------
(* Mode changes *)

TableOf(on) ==
  IF "native_6502" \in on THEN 5
  ELSE IF "emulation" \in on THEN 4
  ELSE (IF "long_a" \in on THEN 1 ELSE 0) + (IF "long_xy" \in on THEN 2 ELSE 0)

\* The modes OnUpdateMode lets stand: a 6502 is always in emulation mode, and
\* in emulation mode every register is 8 bits wide.
Settled(on) ==
  IF "native_6502" \in on THEN {"native_6502", "emulation"}
  ELSE IF "emulation" \in on THEN {"emulation"}
  ELSE on

OnUpdateModeKeepsHigh(c) ==   \* Variant: X and Y keep their high bytes
  [c EXCEPT !.on = Settled(c.on), !.table = TableOf(c.on)]

OnUpdateMode(c) ==
  [c EXCEPT !.on = Settled(c.on),
            !.table = TableOf(c.on),
            !.high = IF "long_xy" \in Settled(c.on) THEN @ ELSE {}]

\* The width modes a set bit M or X names; the modes are the bits' opposites.
LongOf(v) == {w \in Long : (w = "long_a" /\ "M" \in v) \/ (w = "long_xy" /\ "X" \in v)}

GetStatusRegisterSwapped(c) ==   \* Variant: M and X the wrong way round
  c.flags \cup
    (IF Emulated(c) THEN {"M", "X"}
     ELSE {b \in {"M", "X"} : \/ b = "X" /\ "long_a" \notin c.on
                              \/ b = "M" /\ "long_xy" \notin c.on})

GetStatusRegister(c) ==
  c.flags \cup
    (IF Emulated(c) THEN {"M", "X"}
     ELSE {b \in {"M", "X"} : \/ b = "M" /\ "long_a" \notin c.on
                              \/ b = "X" /\ "long_xy" \notin c.on})

SetStatusRegisterAOnly(c, v) ==   \* Variant: a change of X alone goes unseen
  LET d == [c EXCEPT !.flags = v \cap Flags, !.on = (@ \ Long) \cup (Long \ LongOf(v))]
  IN  IF ("long_a" \in d.on) = ("long_a" \in c.on) THEN d ELSE OnUpdateMode(d)

\* M and X are obeyed in emulation mode too, until OnUpdateMode takes the
\* widths back.
SetStatusRegister(c, v) ==
  LET d == [c EXCEPT !.flags = v \cap Flags, !.on = (@ \ Long) \cup (Long \ LongOf(v))]
  IN  IF d.on = c.on THEN d ELSE OnUpdateMode(d)

-----------------------------------------------------------------------------
(* The stack *)

DownSigned(b, n) == b - n   \* Variant: a byte that does not wrap

Down(b, n) == IF b >= n THEN b - n ELSE b + ByteSize - n
Up(b, n) == IF b + n < ByteSize THEN b + n ELSE b + n - ByteSize

\* 16-bit arithmetic on the two bytes of a word, n being at most ByteSize.
Minus(w, n) == [hi |-> IF w.lo >= n THEN w.hi ELSE Down(w.hi, 1), lo |-> Down(w.lo, n)]
Plus(w, n) == [hi |-> IF w.lo + n < ByteSize THEN w.hi ELSE Up(w.hi, 1), lo |-> Up(w.lo, n)]

PushAt16(c, n) == Minus(c.sp, n)   \* Variant: all 16 bits in every mode

\* The stack pointer after n one-byte Pushes, which is also the address the
\* next one writes.  In emulation mode only its low byte counts down.
PushAt(c, n) == IF Emulated(c) THEN [c.sp EXCEPT !.lo = Down(@, n)] ELSE Minus(c.sp, n)

\* The stack pointer after n Pops.
SpUp(c, n) == IF Emulated(c) THEN [c.sp EXCEPT !.lo = Up(@, n)] ELSE Plus(c.sp, n)

\* PopOld moves the pointer first and reads there.  Pop reads at sp + 1 over
\* all 16 bits, and only then moves the pointer: PopAt(c, i) is where the i-th
\* of consecutive Pops reads.
PopOldAt(c) == SpUp(c, 1)
PopAt(c, i) == Plus(SpUp(c, i - 1), 1)

Pushed(c, n) == [c EXCEPT !.sp = PushAt(c, n)]
Pulled(c, n) == [c EXCEPT !.sp = SpUp(c, n)]

-----------------------------------------------------------------------------
(* Interrupts *)

Interrupts == {"BRK", "COP", "IRQ", "NMI"}

\* What DoInterrupt pushes, by the number of bytes below the old stack
\* pointer, and what RTI pulls, by the number of bytes above the new one.
PushDepth(c) ==
  IF Emulated(c) THEN [pch |-> 0, pcl |-> 1, status |-> 2]
  ELSE [bank |-> 0, pch |-> 1, pcl |-> 2, status |-> 3]

PullHeight(c) ==
  IF Emulated(c) THEN [status |-> 1, pcl |-> 2, pch |-> 3]
  ELSE [status |-> 1, pcl |-> 2, pch |-> 3, bank |-> 4]

FrameSize(c) == IF Emulated(c) THEN 3 ELSE 4

Frame(c) == [part \in DOMAIN PushDepth(c) |-> PushAt(c, PushDepth(c)[part])]
RtiReads(c) == [part \in DOMAIN PullHeight(c) |-> PopAt(c, PullHeight(c)[part])]

PushedStatusLate(c, type) ==   \* Variant: P is read after I has been set
  IF ~Emulated(c) THEN GetStatusRegister(c) \cup {"I"}
  ELSE (c.flags \cup {"I"}) \cup
    (CASE type = "IRQ" -> {"X"} [] type = "COP" -> {"M"} [] OTHER -> {"M", "X"})

\* In emulation mode the bits of M and X tell the kinds of interrupt apart.
PushedStatus(c, type) ==
  IF ~Emulated(c) THEN GetStatusRegister(c)
  ELSE c.flags \cup
    (CASE type = "IRQ" -> {"X"} [] type = "COP" -> {"M"} [] OTHER -> {"M", "X"})

\* A 6502 does not clear D.
DoInterrupt(c) ==
  [Pushed(c, FrameSize(c)) EXCEPT
     !.bank = 0,
     !.flags = (@ \cup {"I"}) \ (IF "native_6502" \in c.on THEN {} ELSE {"D"})]

RtiTo(c, status, bank) ==
  LET d == SetStatusRegister(c, status)
  IN  [Pulled(d, FrameSize(d)) EXCEPT !.bank = IF Emulated(d) THEN @ ELSE bank]

-----------------------------------------------------------------------------
(* Power on and reset *)

\* Reset lowers the low byte of the stack pointer and leaves its high byte.
ResetOf(c) ==
  OnUpdateMode([c EXCEPT !.sp.lo = Down(@, 3), !.bank = 0, !.flags = @ \cup {"I"},
                         !.on = (@ \ Long) \cup {"emulation"}])

\* The constructor's flags are all 0 and PowerOn clears the registers and Z.
Init ==
  \E native \in SUBSET {"native_6502"} :
    cpu = ResetOf([on |-> {"emulation"} \cup native, table |-> 4, flags |-> {},
                   high |-> {}, sp |-> [hi |-> 1, lo |-> 0], bank |-> 0])

Reset == cpu' = ResetOf(cpu)

-----------------------------------------------------------------------------
(* Instructions: what the function of an opcode changes of the state above.  *)

\* The flags after an instruction that sets those of fs from its result.
ResultFlags(c, fs) == {(c.flags \ fs) \cup s : s \in SUBSET fs}

\* SetNZ; V and C are set by ADC, SBC, compares, shifts and BIT only.
NZ == DataFlags \ {"V"}

\* ADC, SBC, CMP, shifts, BIT, CLC, SEC, CLV, loads of A, ...
DataOp ==
  \E f \in ResultFlags(cpu, DataFlags \cup {"C"}) : cpu' = [cpu EXCEPT !.flags = f]

CLI == cpu' = [cpu EXCEPT !.flags = @ \ {"I"}]
SEI == cpu' = [cpu EXCEPT !.flags = @ \cup {"I"}]
CLD == cpu' = [cpu EXCEPT !.flags = @ \ {"D"}]
SED == cpu' = [cpu EXCEPT !.flags = @ \cup {"D"}]

\* REP and SEP clear and set bits of P, and refresh the mode if a width that
\* is not in force yet is asked for.
REP(v) ==
  /\ Has65816Opcodes(cpu)
  /\ LET d == [cpu EXCEPT !.flags = @ \ v]
     IN  cpu' = IF LongOf(v) \subseteq cpu.on THEN d
                ELSE OnUpdateMode([d EXCEPT !.on = @ \cup LongOf(v)])

SEP(v) ==
  /\ Has65816Opcodes(cpu)
  /\ LET d == [cpu EXCEPT !.flags = @ \cup (v \cap Flags)]
     IN  cpu' = IF LongOf(v) \cap cpu.on = {} THEN d
                ELSE OnUpdateMode([d EXCEPT !.on = @ \ LongOf(v)])

\* XCE makes E what C is; C stays, and so does the stack pointer.
XCE ==
  /\ Has65816Opcodes(cpu)
  /\ cpu' = IF ("C" \in cpu.flags) = Emulated(cpu) THEN cpu
            ELSE OnUpdateMode([cpu EXCEPT
                   !.on = IF Emulated(cpu) THEN @ \ {"emulation"} ELSE @ \cup {"emulation"}])

\* LDX, LDY, TAX, TSX, INX, ...: an 8-bit form writes the low byte alone.
IndexWrite ==
  \E f \in ResultFlags(cpu, NZ), h \in SUBSET {"x", "y"} :
    cpu' = [cpu EXCEPT !.flags = f, !.high = IF WideXY(cpu) THEN h ELSE @]

\* MVN and MVP step X and Y by 16 bits whatever their width is: the low byte
\* may carry into the high one.  (A at 0xFFFF stops the move and changes
\* nothing.)
BlockMove ==
  /\ Has65816Opcodes(cpu)
  /\ \E h \in SUBSET {"x", "y"} : cpu' = [cpu EXCEPT !.high = h]

TransferToSpNative ==   \* Variant: the native template in every table
  \E w \in Word : cpu' = [cpu EXCEPT !.sp = w]

\* TXS and TCS; the tables of emulation mode and of the 6502 hold the form that
\* stays in page 1.
TransferToSp ==
  \E w \in Word :
    cpu' = [cpu EXCEPT !.sp = IF cpu.table \in {4, 5} THEN [w EXCEPT !.hi = 1] ELSE w]

\* PHP, PHA, PHX, PHY, PHB, PHK, PHD, PEA, PEI, PER, JSR: one byte or two.
Push ==
  \E n \in 1 .. 2 : cpu' = Pushed(cpu, n)

\* JSR_LONG pushes the bank and the address and enters another bank.
JSL ==
  /\ Has65816Opcodes(cpu)
  /\ \E b \in Banks : cpu' = [Pushed(cpu, 3) EXCEPT !.bank = b]

JML ==
  /\ Has65816Opcodes(cpu)
  /\ \E b \in Banks : cpu' = [cpu EXCEPT !.bank = b]

PLP ==
  \E v \in SUBSET Status : cpu' = SetStatusRegister(Pulled(cpu, 1), v)

\* PopOld of 16 bits is two Pops.
PLA ==
  \E f \in ResultFlags(cpu, NZ) :
    cpu' = [Pulled(cpu, IF WideA(cpu) THEN 2 ELSE 1) EXCEPT !.flags = f]

PullIndex ==   \* PLX and PLY
  LET n == IF WideXY(cpu) THEN 2 ELSE 1
  IN  /\ Has65816Opcodes(cpu)
      /\ \E f \in ResultFlags(cpu, NZ), h \in SUBSET {"x", "y"} :
           cpu' = [Pulled(cpu, n) EXCEPT !.flags = f,
                                         !.high = IF WideXY(cpu) THEN h ELSE @]

PullBase ==   \* PLB (1 byte) and PLD (2)
  /\ Has65816Opcodes(cpu)
  /\ \E n \in 1 .. 2, f \in ResultFlags(cpu, NZ) :
       cpu' = [Pulled(cpu, n) EXCEPT !.flags = f]

RTS == cpu' = Pulled(cpu, 2)

RTL ==
  /\ Has65816Opcodes(cpu)
  /\ \E b \in Banks : cpu' = [Pulled(cpu, 3) EXCEPT !.bank = b]

RTI ==
  \E v \in SUBSET Status, b \in Banks : cpu' = RtiTo(cpu, v, b)

\* BRK and COP are opcodes; the loop asks for NMI at any time and for IRQ only
\* while the interrupts field is 1, that is while I is clear.
Interrupt(type) ==
  /\ type = "IRQ" => "I" \notin cpu.flags
  /\ type = "COP" => Has65816Opcodes(cpu)
  /\ cpu' = DoInterrupt(cpu)

\* SetRegister of sp, p, x, y and pc or pb, from the Lua console while the CPU
\* is stopped.
SetRegister ==
  \/ \E w \in Word :
       cpu' = [cpu EXCEPT !.sp = IF Emulated(cpu) THEN [w EXCEPT !.hi = 1] ELSE w]
  \/ \E v \in SUBSET Status : cpu' = SetStatusRegister(cpu, v)
  \/ \E h \in SUBSET {"x", "y"} : "long_xy" \in cpu.on /\ cpu' = [cpu EXCEPT !.high = h]
  \/ \E b \in Banks : cpu' = [cpu EXCEPT !.bank = b]

Next ==
  \/ Reset
  \/ DataOp
  \/ CLI \/ SEI \/ CLD \/ SED
  \/ \E v \in SUBSET Status : REP(v) \/ SEP(v)
  \/ XCE
  \/ IndexWrite \/ BlockMove
  \/ TransferToSp \/ Push \/ JSL \/ JML
  \/ PLP \/ PLA \/ PullIndex \/ PullBase \/ RTS \/ RTL \/ RTI
  \/ \E type \in Interrupts : Interrupt(type)
  \/ SetRegister

Spec == Init /\ [][Next]_cpu

-----------------------------------------------------------------------------
(* Properties *)

\* The state keeps its shape; every byte of the stack pointer wraps.
TypeOK == cpu \in CpuStates

\* After every step the opcode table in force is the one the mode flags call
\* for, emulation mode has every register 8 bits wide and a 6502 never leaves
\* it: REP, SEP, PLP, RTI, XCE, Reset and SetRegister each change a mode, and
\* none of them may leave the next opcode to be decoded for another width.
ModeConsistent == cpu.table = TableOf(cpu.on) /\ Settled(cpu.on) = cpu.on

\* PHP followed by PLP, or the console writing P back as it reads it, changes
\* nothing at all: no mode, no flag and no index register.
StatusRoundTrip == SetStatusRegister(cpu, GetStatusRegister(cpu)) = cpu

\* An interrupt of this kind leaves the interrupted program a state RTI can
\* restore.  In emulation mode there are three exceptions: the bank is not
\* pushed; IRQ and COP push M or X as 0, so that RTI refreshes the mode and
\* clears high bytes a block move has left in X or Y; and Pop reads beyond page
\* 1 what Push wrote at $0100.
Recoverable(type) ==
  Emulated(cpu) =>
    /\ cpu.bank = 0
    /\ type \in {"IRQ", "COP"} => cpu.high = {}
    /\ \A part \in DOMAIN Frame(cpu) : Frame(cpu)[part].lo # 0

\* The CPU as an interrupt handler leaves it that has run with the widths on
\* and flags f of its choice and has put the stack pointer back.
Handled(on, f) ==
  LET d == [DoInterrupt(cpu) EXCEPT !.flags = f]
  IN  IF on = cpu.on \cap Long THEN d
      ELSE OnUpdateMode([d EXCEPT !.on = (@ \ Long) \cup on])

\* From every reachable state, an interrupt is invisible to the program it
\* interrupts: RTI reads each part of the frame where DoInterrupt wrote it, and
\* brings back flags, modes, opcode table, bank and stack pointer, whatever
\* widths the handler ran with; a handler that kept the widths leaves the
\* index registers alone too.
InterruptReturns ==
  \A type \in Interrupts : Recoverable(type) =>
    \A on \in SUBSET Long, f \in SUBSET Flags :
      LET h == Handled(on, f)
          r == RtiTo(h, PushedStatus(cpu, type), cpu.bank)
      IN  /\ RtiReads(h) = Frame(cpu)
          /\ [r EXCEPT !.high = cpu.high] = cpu
          /\ on = cpu.on \cap Long => r.high = cpu.high

\* While X and Y are 8 bits wide their high bytes stay 0, whatever mode changes
\* happen in between: only MVN and MVP can break this.
IndexHighOnlyByBlockMove ==
  [][ ("long_xy" \in cpu.on \/ cpu.high = {}) /\ ~BlockMove
        => ("long_xy" \in cpu'.on \/ cpu'.high = {}) ]_cpu

\* In emulation mode no instruction takes the stack pointer out of the page it
\* is in, except into page 1.
EmulationKeepsStackPage ==
  [][ Emulated(cpu) /\ Emulated(cpu') => cpu'.sp.hi \in {1, cpu.sp.hi} ]_cpu

\* The stack pointer of a 6502 is always in page 1.
Stack6502InPageOne == "native_6502" \in cpu.on => cpu.sp.hi = 1

\* What the next n Pushes write, the n Pops after them read back, last byte
\* first, and the stack pointer is where it was: PHP and PLP, JSR and RTS, PHX
\* and PLX, JSL and RTL.  In emulation mode a byte written at $0100 is the
\* exception for Pop, but not for PopOld.
StackIsLifo ==
  \A n \in 1 .. 3 :
    LET d == Pushed(cpu, n)
    IN  /\ Pulled(d, n) = cpu
        /\ n = 1 => PopOldAt(d) = PushAt(cpu, 0)
        /\ \A i \in 1 .. n : (Emulated(cpu) => PushAt(cpu, n - i).lo # 0)
                              => PopAt(d, i) = PushAt(cpu, n - i)

\* "Emulation mode / Wrapping rules: / Stack wraps to be 0x0001XX"
\* (cpu_65c816_ops.inl:33-35): in emulation mode, with the stack in page 1, RTS
\* reads in page 1 what JSR wrote there.
StackWrapsInPageOne ==
  cpu.table = 4 /\ cpu.sp.hi = 1 =>
    \A i \in 1 .. 2 : PushAt(cpu, 2 - i).hi = 1 /\ PopAt(Pushed(cpu, 2), i).hi = 1
=============================================================================
