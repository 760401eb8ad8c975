------------------------ MODULE Cpu65816ModesProofs ------------------------
(***************************************************************************)
(* Theorems about Cpu65816Modes, for every size of byte (of 4 values or    *)
(* more), set of banks and set of data flags.                              *)
(***************************************************************************)
EXTENDS Cpu65816Modes, TLAPS

\* The opcode table and the mode flags of c agree.
Consistent(c) == c.table = TableOf(c.on) /\ Settled(c.on) = c.on

\* The pointer of a 6502 is in page 1.
InPageOne(c) == "native_6502" \in c.on => c.sp.hi = 1

\* The inductive invariant.
Good(c) == c \in CpuStates /\ Consistent(c) /\ InPageOne(c)

-----------------------------------------------------------------------------
(* The operators *)

\* A byte that counts up or down stays a byte.
LEMMA ByteWraps ==
  ASSUME NEW b \in Byte, NEW n \in 0 .. 4
  PROVE  /\ Down(b, n) \in Byte
         /\ Up(b, n) \in Byte
BY ModesAssumption DEF Down, Up, Byte

\* Stack operations move the pointer only, and leave the pointer of a 6502 in
\* page 1.
LEMMA PushedGood ==
  ASSUME NEW c, Good(c), NEW n \in 0 .. 4
  PROVE  /\ PushAt(c, n) \in Word
         /\ Emulated(c) => PushAt(c, n).hi = c.sp.hi
         /\ Good(Pushed(c, n))
<1>1. c.sp \in Word /\ c.sp.hi \in Byte /\ c.sp.lo \in Byte
  BY DEF Good, CpuStates, Word
<1>2. 1 \in 0 .. 4
  OBVIOUS
<1>3. /\ Down(c.sp.lo, n) \in Byte
      /\ Down(c.sp.hi, 1) \in Byte
  BY <1>1, <1>2, ByteWraps
<1>4. PushAt(c, n) \in Word /\ (Emulated(c) => PushAt(c, n).hi = c.sp.hi)
  BY <1>1, <1>3 DEF PushAt, Minus, Word
<1>5. Pushed(c, n) = [c EXCEPT !.sp = PushAt(c, n)]
  BY DEF Pushed
<1>6. "native_6502" \in c.on => Emulated(c)
  BY DEF Good, Consistent, Settled, Emulated
<1>7. Pushed(c, n) \in CpuStates
  BY <1>4, <1>5 DEF Good, CpuStates
<1>8. Consistent(Pushed(c, n)) /\ InPageOne(Pushed(c, n))
  BY <1>4, <1>5, <1>6 DEF Good, Consistent, InPageOne, CpuStates
<1> QED
  BY <1>4, <1>7, <1>8 DEF Good

LEMMA PulledGood ==
  ASSUME NEW c, Good(c), NEW n \in 0 .. 4
  PROVE  /\ SpUp(c, n) \in Word
         /\ Emulated(c) => SpUp(c, n).hi = c.sp.hi
         /\ Good(Pulled(c, n))
<1>1. c.sp \in Word /\ c.sp.hi \in Byte /\ c.sp.lo \in Byte
  BY DEF Good, CpuStates, Word
<1>2. 1 \in 0 .. 4
  OBVIOUS
<1>3. /\ Up(c.sp.lo, n) \in Byte
      /\ Up(c.sp.hi, 1) \in Byte
  BY <1>1, <1>2, ByteWraps
<1>4. SpUp(c, n) \in Word /\ (Emulated(c) => SpUp(c, n).hi = c.sp.hi)
  BY <1>1, <1>3 DEF SpUp, Plus, Word
<1>5. Pulled(c, n) = [c EXCEPT !.sp = SpUp(c, n)]
  BY DEF Pulled
<1>6. "native_6502" \in c.on => Emulated(c)
  BY DEF Good, Consistent, Settled, Emulated
<1>7. Pulled(c, n) \in CpuStates
  BY <1>4, <1>5 DEF Good, CpuStates
<1>8. Consistent(Pulled(c, n)) /\ InPageOne(Pulled(c, n))
  BY <1>4, <1>5, <1>6 DEF Good, Consistent, InPageOne, CpuStates
<1> QED
  BY <1>4, <1>7, <1>8 DEF Good

\* OnUpdateMode makes any state consistent.
LEMMA OnUpdateModeGood ==
  ASSUME NEW c \in CpuStates, InPageOne(c)
  PROVE  Good(OnUpdateMode(c))
<1>1. Settled(c.on) \in SUBSET Modes /\ Settled(Settled(c.on)) = Settled(c.on)
  BY DEF Settled, CpuStates, Modes
<1>2. TableOf(Settled(c.on)) = TableOf(c.on) /\ TableOf(c.on) \in 0 .. 5
  BY DEF Settled, TableOf
<1>3. "native_6502" \in Settled(c.on) => "native_6502" \in c.on
  BY DEF Settled
<1> QED
  BY <1>1, <1>2, <1>3 DEF OnUpdateMode, Good, Consistent, InPageOne, CpuStates

\* SetStatusRegister keeps a good state good, and the emulation mode with it.
LEMMA SetStatusRegisterGood ==
  ASSUME NEW c, Good(c), NEW v
  PROVE  /\ Good(SetStatusRegister(c, v))
         /\ SetStatusRegister(c, v).sp = c.sp
         /\ Emulated(SetStatusRegister(c, v)) <=> Emulated(c)
<1> DEFINE d == [c EXCEPT !.flags = v \cap Flags, !.on = (@ \ Long) \cup (Long \ LongOf(v))]
<1>1. d \in CpuStates /\ InPageOne(d) /\ d.sp = c.sp
  BY DEF Good, CpuStates, InPageOne, Long, Modes
<1>2. Emulated(d) <=> Emulated(c)
  BY DEF Good, CpuStates, Emulated, Long
<1>3. d.on = c.on => Good(d)
  BY <1>1 DEF Good, Consistent, CpuStates
<1>4. Good(OnUpdateMode(d))
  BY <1>1, OnUpdateModeGood
<1>5. OnUpdateMode(d).sp = d.sp /\ (Emulated(OnUpdateMode(d)) <=> Emulated(d))
  <2>1. "native_6502" \in d.on => "emulation" \in d.on
    BY DEF Good, Consistent, Settled, CpuStates, Long
  <2> QED
    BY <1>1, <2>1 DEF OnUpdateMode, Settled, Emulated, CpuStates
<1>6. SetStatusRegister(c, v) = IF d.on = c.on THEN d ELSE OnUpdateMode(d)
  BY DEF SetStatusRegister
<1> QED
  BY <1>1, <1>2, <1>3, <1>4, <1>5, <1>6

\* RTI keeps a good state good.
LEMMA RtiToGood ==
  ASSUME NEW c, Good(c), NEW v, NEW b \in Banks
  PROVE  Good(RtiTo(c, v, b)) /\ (Emulated(RtiTo(c, v, b)) => RtiTo(c, v, b).sp.hi = c.sp.hi)
<1> DEFINE d == SetStatusRegister(c, v)
           e == Pulled(d, FrameSize(d))
<1>1. Good(d) /\ d.sp = c.sp /\ (Emulated(d) <=> Emulated(c))
  BY SetStatusRegisterGood
<1>2. FrameSize(d) \in 0 .. 4
  BY DEF FrameSize
<1>3. Good(e) /\ SpUp(d, FrameSize(d)) \in Word
              /\ (Emulated(d) => SpUp(d, FrameSize(d)).hi = d.sp.hi)
  BY <1>1, <1>2, PulledGood
<1> HIDE DEF d
<1>4. RtiTo(c, v, b) = [e EXCEPT !.bank = IF Emulated(d) THEN @ ELSE b]
  BY DEF RtiTo, d
<1>5. Good(RtiTo(c, v, b))
  BY <1>3, <1>4 DEF Good, Consistent, InPageOne, CpuStates
<1>6. RtiTo(c, v, b).on = d.on /\ RtiTo(c, v, b).sp = SpUp(d, FrameSize(d))
  BY <1>1, <1>4 DEF Pulled, Good, CpuStates
<1> QED
  BY <1>1, <1>3, <1>5, <1>6 DEF Emulated

\* So does taking an interrupt.
LEMMA DoInterruptGood ==
  ASSUME NEW c, Good(c)
  PROVE  Good(DoInterrupt(c)) /\ (Emulated(c) => DoInterrupt(c).sp.hi = c.sp.hi)
<1> DEFINE e == Pushed(c, FrameSize(c))
<1>1. FrameSize(c) \in 0 .. 4
  BY DEF FrameSize
<1>2. Good(e) /\ (Emulated(c) => e.sp.hi = c.sp.hi)
  BY <1>1, PushedGood DEF Pushed, Good, CpuStates
<1> HIDE DEF e
<1>3. DoInterrupt(c) = [e EXCEPT !.bank = 0,
          !.flags = (@ \cup {"I"}) \ (IF "native_6502" \in c.on THEN {} ELSE {"D"})]
  BY DEF DoInterrupt, e
<1> QED
  BY <1>2, <1>3, ModesAssumption, ZenonT(60) DEF Good, Consistent, InPageOne, CpuStates, Flags

\* Reset makes a state good that has the right shape.
LEMMA ResetOfGood ==
  ASSUME NEW c \in CpuStates, InPageOne(c)
  PROVE  Good(ResetOf(c)) /\ ResetOf(c).sp.hi = c.sp.hi
<1> DEFINE d == [c EXCEPT !.sp.lo = Down(@, 3), !.bank = 0, !.flags = @ \cup {"I"},
                          !.on = (@ \ Long) \cup {"emulation"}]
<1>1. Down(c.sp.lo, 3) \in Byte
  BY ByteWraps DEF CpuStates, Word
<1>2. d \in CpuStates /\ InPageOne(d) /\ d.sp.hi = c.sp.hi
  BY <1>1, ModesAssumption DEF CpuStates, Word, InPageOne, Flags, Modes, Long
<1>3. ResetOf(c) = OnUpdateMode(d)
  BY DEF ResetOf
<1> HIDE DEF d
<1>4. OnUpdateMode(d).sp = d.sp
  BY <1>2 DEF OnUpdateMode, CpuStates
<1> QED
  BY <1>2, <1>3, <1>4, OnUpdateModeGood

-----------------------------------------------------------------------------
(* The invariant *)

LEMMA InitGood == Init => Good(cpu)
<1> SUFFICES ASSUME NEW native \in SUBSET {"native_6502"},
               cpu = ResetOf([on |-> {"emulation"} \cup native, table |-> 4, flags |-> {},
                              high |-> {}, sp |-> [hi |-> 1, lo |-> 0], bank |-> 0])
             PROVE  Good(cpu)
  BY DEF Init
<1> DEFINE c == [on |-> {"emulation"} \cup native, table |-> 4, flags |-> {},
                 high |-> {}, sp |-> [hi |-> 1, lo |-> 0], bank |-> 0]
<1>1. c \in CpuStates /\ InPageOne(c)
  BY ModesAssumption DEF CpuStates, Word, Byte, Modes, InPageOne
<1> QED
  BY <1>1, ResetOfGood

\* What a step does to the rest of the proof: it keeps the state good, and in
\* emulation mode it keeps the stack pointer in its page or takes it to page 1.
Safe(c, d) == Good(d) /\ (Emulated(c) /\ Emulated(d) => d.sp.hi \in {1, c.sp.hi})

\* A step that changes only flags, index registers and bank is safe.
LEMMA DataSafe ==
  ASSUME NEW c, Good(c), NEW f \in SUBSET Flags, NEW h \in SUBSET {"x", "y"},
         NEW b \in Banks
  PROVE  /\ Safe(c, [c EXCEPT !.flags = f])
         /\ Safe(c, [c EXCEPT !.high = h])
         /\ Safe(c, [c EXCEPT !.flags = f, !.high = h])
         /\ Safe(c, [c EXCEPT !.bank = b])
BY DEF Safe, Good, Consistent, InPageOne, CpuStates

\* A mode change that leaves the 6502 flag and the stack pointer alone is safe.
LEMMA ModeChangeSafe ==
  ASSUME NEW c, Good(c), NEW f \in SUBSET Flags, NEW on \in SUBSET Modes,
         "native_6502" \in on => "native_6502" \in c.on
  PROVE  Safe(c, OnUpdateMode([c EXCEPT !.flags = f, !.on = on]))
<1> DEFINE d == [c EXCEPT !.flags = f, !.on = on]
<1>1. d \in CpuStates /\ InPageOne(d) /\ d.sp = c.sp
  BY DEF Good, CpuStates, InPageOne
<1> HIDE DEF d
<1>2. OnUpdateMode(d).sp = d.sp
  BY <1>1 DEF OnUpdateMode, CpuStates
<1>3. Good(OnUpdateMode(d))
  BY <1>1, OnUpdateModeGood
<1>4. Safe(c, OnUpdateMode(d))
  BY <1>1, <1>2, <1>3 DEF Safe
<1> QED
  BY <1>4 DEF d

\* A write of the stack pointer is safe if it takes the code's care of page 1.
LEMMA SpSetSafe ==
  ASSUME NEW c, Good(c), NEW w \in Word, NEW paged \in {0, 1},
         Emulated(c) => paged = 1
  PROVE  Safe(c, [c EXCEPT !.sp = IF paged = 1 THEN [w EXCEPT !.hi = 1] ELSE w])
<1> DEFINE u == IF paged = 1 THEN [w EXCEPT !.hi = 1] ELSE w
<1>1. u \in Word /\ (Emulated(c) => u.hi = 1)
  BY ModesAssumption DEF Word, Byte
<1>2. "native_6502" \in c.on => Emulated(c)
  BY DEF Good, Consistent, Settled, Emulated
<1> HIDE DEF u
<1>3. Safe(c, [c EXCEPT !.sp = u])
  BY <1>1, <1>2 DEF Safe, Good, Consistent, InPageOne, CpuStates
<1> QED
  BY <1>3 DEF u

\* A step that pushes, and enters another bank or not, is safe.
LEMMA PushedSafe ==
  ASSUME NEW c, Good(c), NEW n \in 0 .. 4, NEW b \in Banks
  PROVE  /\ Safe(c, Pushed(c, n))
         /\ Safe(c, [Pushed(c, n) EXCEPT !.bank = b])
<1>1. Good(Pushed(c, n))
  BY PushedGood
<1>2. Emulated(c) => Pushed(c, n).sp.hi = c.sp.hi
  BY PushedGood DEF Pushed, Good, CpuStates
<1> QED
  BY <1>1, <1>2 DEF Safe, Good, Consistent, InPageOne, CpuStates, Emulated

\* A step that pulls, and changes flags, index registers or bank, is safe.
LEMMA PulledSafe ==
  ASSUME NEW c, Good(c), NEW n \in 0 .. 4, NEW f \in SUBSET Flags,
         NEW h \in SUBSET {"x", "y"}, NEW b \in Banks
  PROVE  /\ Safe(c, Pulled(c, n))
         /\ Safe(c, [Pulled(c, n) EXCEPT !.flags = f])
         /\ Safe(c, [Pulled(c, n) EXCEPT !.flags = f, !.high = h])
         /\ Safe(c, [Pulled(c, n) EXCEPT !.bank = b])
<1>1. Good(Pulled(c, n))
  BY PulledGood
<1>2. Emulated(c) => Pulled(c, n).sp.hi = c.sp.hi
  BY PulledGood DEF Pulled, Good, CpuStates
<1> QED
  BY <1>1, <1>2 DEF Safe, Good, Consistent, InPageOne, CpuStates, Emulated

\* Every step of the CPU is safe: one case per action.
LEMMA StepSafe ==
  ASSUME Good(cpu), Next
  PROVE  Safe(cpu, cpu')
<1> USE DEF NZ
<1>0. /\ cpu \in CpuStates /\ cpu.flags \in SUBSET Flags /\ cpu.on \in SUBSET Modes
      /\ cpu.high \in SUBSET {"x", "y"} /\ cpu.bank \in Banks /\ InPageOne(cpu)
  BY DEF Good, CpuStates
<1>1. CASE Reset
  BY <1>0, <1>1, ResetOfGood DEF Reset, Safe
<1>2. CASE DataOp
  <2>1. PICK f \in ResultFlags(cpu, DataFlags \cup {"C"}) : cpu' = [cpu EXCEPT !.flags = f]
    BY <1>2 DEF DataOp
  <2>2. f \in SUBSET Flags
    BY <1>0 DEF ResultFlags, Flags
  <2> QED
    BY <1>0, <2>1, <2>2, DataSafe
<1>3. CASE CLI \/ SEI \/ CLD \/ SED
  <2>1. PICK f \in SUBSET Flags : cpu' = [cpu EXCEPT !.flags = f]
    BY <1>0, <1>3 DEF CLI, SEI, CLD, SED, Flags
  <2> QED
    BY <1>0, <2>1, DataSafe
<1>4. CASE \E v \in SUBSET Status : REP(v) \/ SEP(v)
  <2>1. PICK v \in SUBSET Status : REP(v) \/ SEP(v)
    BY <1>4
  <2>2. CASE REP(v)
    <3> DEFINE f == cpu.flags \ v
               on == cpu.on \cup LongOf(v)
    <3>1. f \in SUBSET Flags /\ on \in SUBSET Modes
          /\ ("native_6502" \in on => "native_6502" \in cpu.on)
      BY <1>0 DEF LongOf, Long, Modes
    <3>2. \/ cpu' = [cpu EXCEPT !.flags = f]
          \/ cpu' = OnUpdateMode([[cpu EXCEPT !.flags = f] EXCEPT !.on = on])
      BY <1>0, <2>2 DEF REP, CpuStates
    <3>3. [[cpu EXCEPT !.flags = f] EXCEPT !.on = on] = [cpu EXCEPT !.flags = f, !.on = on]
      BY <1>0 DEF CpuStates
    <3> HIDE DEF f, on
    <3>4. /\ Safe(cpu, [cpu EXCEPT !.flags = f])
          /\ Safe(cpu, OnUpdateMode([cpu EXCEPT !.flags = f, !.on = on]))
      BY <1>0, <3>1, DataSafe, ModeChangeSafe
    <3> QED
      BY <3>2, <3>3, <3>4
  <2>3. CASE SEP(v)
    <3> DEFINE f == cpu.flags \cup (v \cap Flags)
               on == cpu.on \ LongOf(v)
    <3>1. f \in SUBSET Flags /\ on \in SUBSET Modes
          /\ ("native_6502" \in on => "native_6502" \in cpu.on)
      BY <1>0
    <3>2. \/ cpu' = [cpu EXCEPT !.flags = f]
          \/ cpu' = OnUpdateMode([[cpu EXCEPT !.flags = f] EXCEPT !.on = on])
      BY <1>0, <2>3 DEF SEP, CpuStates
    <3>3. [[cpu EXCEPT !.flags = f] EXCEPT !.on = on] = [cpu EXCEPT !.flags = f, !.on = on]
      BY <1>0 DEF CpuStates
    <3> HIDE DEF f, on
    <3>4. /\ Safe(cpu, [cpu EXCEPT !.flags = f])
          /\ Safe(cpu, OnUpdateMode([cpu EXCEPT !.flags = f, !.on = on]))
      BY <1>0, <3>1, DataSafe, ModeChangeSafe
    <3> QED
      BY <3>2, <3>3, <3>4
  <2> QED
    BY <2>1, <2>2, <2>3
<1>5. CASE XCE
  <2> DEFINE on == IF Emulated(cpu) THEN cpu.on \ {"emulation"} ELSE cpu.on \cup {"emulation"}
  <2>1. on \in SUBSET Modes /\ ("native_6502" \in on => "native_6502" \in cpu.on)
    BY <1>0 DEF Modes
  <2>2. cpu' = cpu \/ cpu' = OnUpdateMode([cpu EXCEPT !.flags = cpu.flags, !.on = on])
    BY <1>0, <1>5 DEF XCE, CpuStates
  <2>3. Safe(cpu, cpu)
    BY DEF Safe
  <2> HIDE DEF on
  <2> QED
    BY <1>0, <2>1, <2>2, <2>3, ModeChangeSafe
<1>6. CASE IndexWrite
  <2>1. PICK f \in ResultFlags(cpu, NZ), h \in SUBSET {"x", "y"} :
          cpu' = [cpu EXCEPT !.flags = f, !.high = IF WideXY(cpu) THEN h ELSE @]
    BY <1>6 DEF IndexWrite
  <2>2. f \in SUBSET Flags
    BY <1>0 DEF ResultFlags, Flags
  <2>3. PICK g \in SUBSET {"x", "y"} : cpu' = [cpu EXCEPT !.flags = f, !.high = g]
    BY <1>0, <2>1
  <2> QED
    BY <1>0, <2>2, <2>3, DataSafe
<1>7. CASE BlockMove
  <2>1. PICK h \in SUBSET {"x", "y"} : cpu' = [cpu EXCEPT !.high = h]
    BY <1>7 DEF BlockMove
  <2>2. Safe(cpu, [cpu EXCEPT !.high = h])
    BY <1>0, DataSafe
  <2> QED
    BY <2>1, <2>2
<1>8. CASE TransferToSp
  <2>1. PICK w \in Word :
          cpu' = [cpu EXCEPT !.sp = IF cpu.table \in {4, 5} THEN [w EXCEPT !.hi = 1] ELSE w]
    BY <1>8 DEF TransferToSp
  <2>2. Emulated(cpu) => cpu.table \in {4, 5}
    BY DEF Good, Consistent, TableOf, Emulated
  <2>3. PICK paged \in {0, 1} : paged = 1 <=> cpu.table \in {4, 5}
    OBVIOUS
  <2>4. cpu' = [cpu EXCEPT !.sp = IF paged = 1 THEN [w EXCEPT !.hi = 1] ELSE w]
    BY <2>1, <2>3
  <2> QED
    BY <2>2, <2>3, <2>4, SpSetSafe
<1>9. CASE Push
  <2>1. PICK n \in 1 .. 2 : cpu' = Pushed(cpu, n)
    BY <1>9 DEF Push
  <2>2. n \in 0 .. 4
    OBVIOUS
  <2>3. Safe(cpu, Pushed(cpu, n))
    BY <1>0, <2>2, PushedSafe
  <2> QED
    BY <2>1, <2>3
<1>10. CASE JSL
  <2>1. PICK b \in Banks : cpu' = [Pushed(cpu, 3) EXCEPT !.bank = b]
    BY <1>10 DEF JSL
  <2>2. 3 \in 0 .. 4
    OBVIOUS
  <2>3. Safe(cpu, [Pushed(cpu, 3) EXCEPT !.bank = b])
    BY <2>2, PushedSafe
  <2> QED
    BY <2>1, <2>3
<1>11. CASE JML
  <2>1. PICK b \in Banks : cpu' = [cpu EXCEPT !.bank = b]
    BY <1>11 DEF JML
  <2>2. Safe(cpu, [cpu EXCEPT !.bank = b])
    BY <1>0, DataSafe
  <2> QED
    BY <2>1, <2>2
<1>12. CASE PLP
  <2>1. PICK v \in SUBSET Status : cpu' = SetStatusRegister(Pulled(cpu, 1), v)
    BY <1>12 DEF PLP
  <2>2. 1 \in 0 .. 4
    OBVIOUS
  <2>3. Good(Pulled(cpu, 1)) /\ Safe(cpu, Pulled(cpu, 1))
    BY <1>0, <2>2, PulledSafe DEF Safe
  <2>4. Emulated(Pulled(cpu, 1)) <=> Emulated(cpu)
    BY <1>0 DEF Emulated, Pulled, CpuStates
  <2> DEFINE d == Pulled(cpu, 1)
  <2>5. Good(SetStatusRegister(d, v)) /\ SetStatusRegister(d, v).sp = d.sp
        /\ (Emulated(SetStatusRegister(d, v)) <=> Emulated(d))
    BY <2>3, SetStatusRegisterGood
  <2>6. Safe(cpu, SetStatusRegister(d, v))
    BY <2>3, <2>4, <2>5 DEF Safe
  <2> QED
    BY <2>1, <2>6
<1>13. CASE PLA
  <2>1. PICK f \in ResultFlags(cpu, NZ) :
          cpu' = [Pulled(cpu, IF WideA(cpu) THEN 2 ELSE 1) EXCEPT !.flags = f]
    BY <1>13 DEF PLA
  <2> DEFINE n == IF WideA(cpu) THEN 2 ELSE 1
  <2>2. f \in SUBSET Flags /\ n \in 0 .. 4
    BY <1>0 DEF ResultFlags, Flags
  <2>3. Safe(cpu, [Pulled(cpu, n) EXCEPT !.flags = f])
    <3> HIDE DEF n
    <3> QED
      BY <1>0, <2>2, PulledSafe
  <2> QED
    BY <2>1, <2>3
<1>14. CASE PullIndex
  <2> DEFINE n == IF WideXY(cpu) THEN 2 ELSE 1
  <2>1. PICK f \in ResultFlags(cpu, NZ), h \in SUBSET {"x", "y"} :
          cpu' = [Pulled(cpu, n) EXCEPT !.flags = f, !.high = IF WideXY(cpu) THEN h ELSE @]
    BY <1>14 DEF PullIndex
  <2>2. f \in SUBSET Flags /\ n \in 0 .. 4
    BY <1>0 DEF ResultFlags, Flags
  <2> HIDE DEF n
  <2>3. Pulled(cpu, n) \in CpuStates
    BY <2>2, PulledGood DEF Good
  <2>4. PICK g \in SUBSET {"x", "y"} : cpu' = [Pulled(cpu, n) EXCEPT !.flags = f, !.high = g]
    <3>1. CASE WideXY(cpu)
      BY <2>1, <3>1
    <3>2. CASE ~WideXY(cpu)
      <4>1. cpu' = [Pulled(cpu, n) EXCEPT !.flags = f, !.high = Pulled(cpu, n).high]
        BY <2>1, <2>3, <3>2 DEF CpuStates
      <4>2. Pulled(cpu, n).high \in SUBSET {"x", "y"}
        BY <2>3 DEF CpuStates
      <4> QED
        BY <4>1, <4>2
    <3> QED
      BY <3>1, <3>2
  <2>5. Safe(cpu, [Pulled(cpu, n) EXCEPT !.flags = f, !.high = g])
    BY <1>0, <2>2, PulledSafe
  <2> QED
    BY <2>4, <2>5
<1>15. CASE PullBase
  <2>1. PICK n \in 1 .. 2, f \in ResultFlags(cpu, NZ) : cpu' = [Pulled(cpu, n) EXCEPT !.flags = f]
    BY <1>15 DEF PullBase
  <2>2. f \in SUBSET Flags /\ n \in 0 .. 4
    BY <1>0 DEF ResultFlags, Flags
  <2>3. Safe(cpu, [Pulled(cpu, n) EXCEPT !.flags = f])
    BY <1>0, <2>2, PulledSafe
  <2> QED
    BY <2>1, <2>3
<1>16. CASE RTS
  <2>1. 2 \in 0 .. 4
    OBVIOUS
  <2>2. Safe(cpu, Pulled(cpu, 2))
    BY <1>0, <2>1, PulledSafe
  <2> QED
    BY <1>16, <2>2 DEF RTS
<1>17. CASE RTL
  <2>1. PICK b \in Banks : cpu' = [Pulled(cpu, 3) EXCEPT !.bank = b]
    BY <1>17 DEF RTL
  <2>2. 3 \in 0 .. 4
    OBVIOUS
  <2>3. Safe(cpu, [Pulled(cpu, 3) EXCEPT !.bank = b])
    BY <1>0, <2>2, PulledSafe
  <2> QED
    BY <2>1, <2>3
<1>18. CASE RTI
  <2>1. PICK v \in SUBSET Status, b \in Banks : cpu' = RtiTo(cpu, v, b)
    BY <1>18 DEF RTI
  <2> QED
    BY <2>1, RtiToGood DEF Safe
<1>19. CASE \E type \in Interrupts : Interrupt(type)
  BY <1>19, DoInterruptGood DEF Interrupt, Safe
<1>20. CASE SetRegister
  <2>1. CASE \E w \in Word :
               cpu' = [cpu EXCEPT !.sp = IF Emulated(cpu) THEN [w EXCEPT !.hi = 1] ELSE w]
    <3>1. PICK w \in Word :
            cpu' = [cpu EXCEPT !.sp = IF Emulated(cpu) THEN [w EXCEPT !.hi = 1] ELSE w]
      BY <2>1
    <3>2. PICK paged \in {0, 1} : paged = 1 <=> Emulated(cpu)
      OBVIOUS
    <3>3. cpu' = [cpu EXCEPT !.sp = IF paged = 1 THEN [w EXCEPT !.hi = 1] ELSE w]
      BY <3>1, <3>2
    <3> QED
      BY <3>2, <3>3, SpSetSafe
  <2>2. CASE \E v \in SUBSET Status : cpu' = SetStatusRegister(cpu, v)
    BY <2>2, SetStatusRegisterGood DEF Safe
  <2>3. CASE \E h \in SUBSET {"x", "y"} : "long_xy" \in cpu.on /\ cpu' = [cpu EXCEPT !.high = h]
    <3>1. PICK h \in SUBSET {"x", "y"} : cpu' = [cpu EXCEPT !.high = h]
      BY <2>3
    <3>2. Safe(cpu, [cpu EXCEPT !.high = h])
      BY <1>0, DataSafe
    <3> QED
      BY <3>1, <3>2
  <2>4. CASE \E b \in Banks : cpu' = [cpu EXCEPT !.bank = b]
    <3>1. PICK b \in Banks : cpu' = [cpu EXCEPT !.bank = b]
      BY <2>4
    <3>2. Safe(cpu, [cpu EXCEPT !.bank = b])
      BY <1>0, DataSafe
    <3> QED
      BY <3>1, <3>2
  <2> QED
    BY <1>20, <2>1, <2>2, <2>3, <2>4 DEF SetRegister
<1> QED
  BY <1>1, <1>2, <1>3, <1>4, <1>5, <1>6, <1>7, <1>8, <1>9, <1>10, <1>11, <1>12, <1>13,
     <1>14, <1>15, <1>16, <1>17, <1>18, <1>19, <1>20 DEF Next

\* The invariant holds throughout.
LEMMA AlwaysGood == Spec => []Good(cpu)
<1>1. Good(cpu) /\ [Next]_cpu => Good(cpu)'
  <2>1. SUFFICES ASSUME Good(cpu), Next
                 PROVE  Good(cpu)'
    BY DEF Good, Consistent, InPageOne, TableOf, Settled, CpuStates
  <2>2. Safe(cpu, cpu')
    BY <2>1, StepSafe
  <2> QED
    BY <2>2 DEF Safe, Good, Consistent, InPageOne, TableOf, Settled, CpuStates
<1> QED
  BY <1>1, InitGood, PTL DEF Spec

\* The state of the CPU keeps its shape: above all, the stack pointer's bytes
\* wrap.
THEOREM TypeCorrect == Spec => []TypeOK
<1>1. Good(cpu) => TypeOK
  BY DEF Good, TypeOK
<1> QED
  BY <1>1, AlwaysGood, PTL

\* OnUpdateMode is called wherever it is needed: after every instruction,
\* interrupt, reset and console command the opcode table in force is the one
\* for the widths in force.
THEOREM ModeConsistentAlways == Spec => []ModeConsistent
<1>1. Good(cpu) => ModeConsistent
  BY DEF Good, Consistent, ModeConsistent
<1> QED
  BY <1>1, AlwaysGood, PTL

\* The stack pointer of a 6502 never leaves page 1.
THEOREM Stack6502InPageOneAlways == Spec => []Stack6502InPageOne
<1>1. Good(cpu) => Stack6502InPageOne
  BY DEF Good, InPageOne, Stack6502InPageOne
<1> QED
  BY <1>1, AlwaysGood, PTL

\* Emulation mode keeps the stack pointer's page, whatever instruction runs.
THEOREM EmulationKeepsStackPageAlways == Spec => EmulationKeepsStackPage
<1>1. Good(cpu) /\ [Next]_cpu
        => [Emulated(cpu) /\ Emulated(cpu') => cpu'.sp.hi \in {1, cpu.sp.hi}]_cpu
  BY StepSafe DEF Safe
<1> QED
  BY <1>1, AlwaysGood, PTL DEF Spec, EmulationKeepsStackPage

-----------------------------------------------------------------------------
(* Index registers *)

\* No high byte is set while X and Y are 8 bits wide.
Narrow(c) == "long_xy" \in c.on \/ c.high = {}

LEMMA OnUpdateModeNarrow ==
  ASSUME NEW c \in CpuStates
  PROVE  Narrow(OnUpdateMode(c))
BY DEF Narrow, OnUpdateMode, CpuStates

LEMMA SetStatusRegisterNarrow ==
  ASSUME NEW c \in CpuStates, Narrow(c), NEW v
  PROVE  Narrow(SetStatusRegister(c, v))
<1> DEFINE d == [c EXCEPT !.flags = v \cap Flags, !.on = (@ \ Long) \cup (Long \ LongOf(v))]
<1>1. d \in CpuStates
  BY DEF CpuStates, Long, Modes
<1>2. Narrow(OnUpdateMode(d))
  BY <1>1, OnUpdateModeNarrow
<1>3. d.on = c.on => Narrow(d)
  BY DEF Narrow, CpuStates
<1>4. SetStatusRegister(c, v) = IF d.on = c.on THEN d ELSE OnUpdateMode(d)
  BY DEF SetStatusRegister
<1> QED
  BY <1>2, <1>3, <1>4

\* Only a block move sets a high byte while X and Y are 8 bits wide.
LEMMA StepNarrow ==
  ASSUME Good(cpu), Narrow(cpu), Next, ~BlockMove
  PROVE  Narrow(cpu')
<1>0. cpu \in CpuStates /\ (WideXY(cpu) => "long_xy" \in cpu.on)
  BY DEF Good, Consistent, TableOf, WideXY
<1>1. CASE Reset
  <2> DEFINE d == [cpu EXCEPT !.sp.lo = Down(@, 3), !.bank = 0, !.flags = @ \cup {"I"},
                              !.on = (@ \ Long) \cup {"emulation"}]
  <2>1. Down(cpu.sp.lo, 3) \in Byte
    BY <1>0, ByteWraps DEF CpuStates, Word
  <2>2. d \in CpuStates
    BY <1>0, <2>1, ModesAssumption DEF CpuStates, Word, Flags, Modes, Long
  <2>3. cpu' = OnUpdateMode(d)
    BY <1>1 DEF Reset, ResetOf
  <2> QED
    BY <2>2, <2>3, OnUpdateModeNarrow
<1>2. CASE DataOp \/ CLI \/ SEI \/ CLD \/ SED
  BY <1>0, <1>2 DEF DataOp, CLI, SEI, CLD, SED, Narrow, CpuStates
<1>3. CASE \E v \in SUBSET Status : REP(v) \/ SEP(v)
  <2>1. PICK v \in SUBSET Status : REP(v) \/ SEP(v)
    BY <1>3
  <2>2. PICK f \in SUBSET Flags, on \in SUBSET Modes :
           \/ cpu' = [cpu EXCEPT !.flags = f]
           \/ cpu' = OnUpdateMode([[cpu EXCEPT !.flags = f] EXCEPT !.on = on])
    <3>1. cpu.flags \ v \in SUBSET Flags /\ cpu.flags \cup (v \cap Flags) \in SUBSET Flags
          /\ cpu.on \cup LongOf(v) \in SUBSET Modes /\ cpu.on \ LongOf(v) \in SUBSET Modes
      BY <1>0 DEF CpuStates, LongOf, Long, Modes
    <3>2. CASE REP(v)
      <4> DEFINE f == cpu.flags \ v
                 on == cpu.on \cup LongOf(v)
      <4>1. \/ cpu' = [cpu EXCEPT !.flags = f]
            \/ cpu' = OnUpdateMode([[cpu EXCEPT !.flags = f] EXCEPT !.on = on])
        BY <1>0, <3>2 DEF REP, CpuStates
      <4> QED
        BY <3>1, <4>1
    <3>3. CASE SEP(v)
      <4> DEFINE f == cpu.flags \cup (v \cap Flags)
                 on == cpu.on \ LongOf(v)
      <4>1. \/ cpu' = [cpu EXCEPT !.flags = f]
            \/ cpu' = OnUpdateMode([[cpu EXCEPT !.flags = f] EXCEPT !.on = on])
        BY <1>0, <3>3 DEF SEP, CpuStates
      <4> QED
        BY <3>1, <4>1
    <3> QED
      BY <2>1, <3>2, <3>3
  <2>3. [[cpu EXCEPT !.flags = f] EXCEPT !.on = on] \in CpuStates
    BY <1>0 DEF CpuStates
  <2>4. Narrow(OnUpdateMode([[cpu EXCEPT !.flags = f] EXCEPT !.on = on]))
    BY <2>3, OnUpdateModeNarrow
  <2>5. Narrow([cpu EXCEPT !.flags = f])
    BY <1>0 DEF Narrow, CpuStates
  <2> QED
    BY <2>2, <2>4, <2>5
<1>4. CASE XCE
  <2> DEFINE on == IF Emulated(cpu) THEN cpu.on \ {"emulation"} ELSE cpu.on \cup {"emulation"}
  <2>1. [cpu EXCEPT !.on = on] \in CpuStates
    BY <1>0 DEF CpuStates, Modes
  <2>2. cpu' = cpu \/ cpu' = OnUpdateMode([cpu EXCEPT !.on = on])
    BY <1>0, <1>4 DEF XCE, CpuStates
  <2> HIDE DEF on
  <2>3. Narrow(OnUpdateMode([cpu EXCEPT !.on = on]))
    BY <2>1, OnUpdateModeNarrow
  <2> QED
    BY <2>2, <2>3
<1>5. CASE IndexWrite
  BY <1>0, <1>5 DEF IndexWrite, Narrow, CpuStates
<1>6. CASE TransferToSp \/ Push \/ JSL \/ JML
  BY <1>0, <1>6 DEF TransferToSp, Push, JSL, JML, Pushed, Narrow, CpuStates
<1>7. CASE PLA \/ PullIndex \/ PullBase \/ RTS \/ RTL
  BY <1>0, <1>7 DEF PLA, PullIndex, PullBase, RTS, RTL, Pulled, Narrow, CpuStates
<1>8. CASE PLP
  <2>1. PICK v \in SUBSET Status : cpu' = SetStatusRegister(Pulled(cpu, 1), v)
    BY <1>8 DEF PLP
  <2>2. 1 \in 0 .. 4
    OBVIOUS
  <2>3. Pulled(cpu, 1) \in CpuStates
    BY <2>2, PulledGood DEF Good
  <2>4. Narrow(Pulled(cpu, 1))
    BY <1>0 DEF Pulled, Narrow, CpuStates
  <2>5. Narrow(SetStatusRegister(Pulled(cpu, 1), v))
    BY <2>3, <2>4, SetStatusRegisterNarrow
  <2> QED
    BY <2>1, <2>5
<1>9. CASE RTI
  <2>1. PICK v \in SUBSET Status, b \in Banks : cpu' = RtiTo(cpu, v, b)
    BY <1>9 DEF RTI
  <2> DEFINE d == SetStatusRegister(cpu, v)
  <2>2. d \in CpuStates /\ Narrow(d)
    BY <1>0, SetStatusRegisterGood, SetStatusRegisterNarrow DEF Good
  <2>3. cpu' = [Pulled(d, FrameSize(d)) EXCEPT !.bank = IF Emulated(d) THEN @ ELSE b]
    BY <2>1 DEF RtiTo
  <2> HIDE DEF d
  <2> QED
    BY <2>2, <2>3 DEF Pulled, Narrow, CpuStates
<1>10. CASE \E type \in Interrupts : Interrupt(type)
  BY <1>0, <1>10 DEF Interrupt, DoInterrupt, Pushed, Narrow, CpuStates
<1>11. CASE SetRegister
  <2>1. CASE \E v \in SUBSET Status : cpu' = SetStatusRegister(cpu, v)
    BY <1>0, <2>1, SetStatusRegisterNarrow
  <2>2. CASE ~ \E v \in SUBSET Status : cpu' = SetStatusRegister(cpu, v)
    BY <1>0, <1>11, <2>2 DEF SetRegister, Narrow, CpuStates
  <2> QED
    BY <2>1, <2>2
<1> QED
  BY <1>1, <1>2, <1>3, <1>4, <1>5, <1>6, <1>7, <1>8, <1>9, <1>10, <1>11 DEF Next

\* Block moves apart, the high bytes of X and Y stay 0 while X and Y are 8 bits
\* wide, through every mode change.
THEOREM IndexHighOnlyByBlockMoveAlways == Spec => IndexHighOnlyByBlockMove
<1>1. Good(cpu) /\ [Next]_cpu
        => [ ("long_xy" \in cpu.on \/ cpu.high = {}) /\ ~BlockMove
               => ("long_xy" \in cpu'.on \/ cpu'.high = {}) ]_cpu
  BY StepNarrow DEF Narrow
<1> QED
  BY <1>1, AlwaysGood, PTL DEF Spec, IndexHighOnlyByBlockMove

-----------------------------------------------------------------------------
(* The stack and interrupts *)

\* Bytes that count down and up again come back.
LEMMA DownUp ==
  ASSUME NEW b \in Byte, NEW n \in 0 .. 4
  PROVE  /\ Up(Down(b, n), n) = b
         /\ n = 0 => Down(b, n) = b /\ Up(b, n) = b
BY ModesAssumption DEF Down, Up, Byte

\* n Pops undo n Pushes of the stack pointer.
LEMMA PulledPushed ==
  ASSUME NEW c, Good(c), NEW n \in 0 .. 4, NEW d, Good(d), d.sp = PushAt(c, n),
         Emulated(d) <=> Emulated(c)
  PROVE  SpUp(d, n) = c.sp
<1>1. c.sp \in Word /\ c.sp.hi \in Byte /\ c.sp.lo \in Byte
  BY DEF Good, CpuStates, Word
<1>2. 1 \in 0 .. 4
  OBVIOUS
<1>3. /\ Up(Down(c.sp.lo, n), n) = c.sp.lo /\ Up(Down(c.sp.hi, 1), 1) = c.sp.hi
      /\ Down(c.sp.lo, n) \in Byte /\ Down(c.sp.hi, 1) \in Byte
  BY <1>1, <1>2, DownUp, ByteWraps
<1>4. CASE Emulated(c)
  BY <1>1, <1>3, <1>4 DEF SpUp, PushAt, Word
<1>5. CASE ~Emulated(c)
  <2>1. d.sp = [hi |-> IF c.sp.lo >= n THEN c.sp.hi ELSE Down(c.sp.hi, 1), lo |-> Down(c.sp.lo, n)]
    BY <1>5 DEF PushAt, Minus
  <2>2. c.sp.lo >= n <=> Down(c.sp.lo, n) + n < ByteSize
    BY <1>1, ModesAssumption DEF Down, Byte
  <2>3. SpUp(d, n) = [hi |-> IF d.sp.lo + n < ByteSize THEN d.sp.hi ELSE Up(d.sp.hi, 1),
                      lo |-> Up(d.sp.lo, n)]
    BY <1>5 DEF SpUp, Plus
  <2>4. SpUp(d, n).hi = c.sp.hi /\ SpUp(d, n).lo = c.sp.lo
    BY <1>3, <2>1, <2>2, <2>3
  <2> QED
    BY <1>1, <2>3, <2>4 DEF Word
<1> QED
  BY <1>4, <1>5

\* The i-th of the Pops after n Pushes reads what the last but i - 1 wrote,
\* unless in emulation mode that was at the start of the page.
LEMMA PopReadsPush ==
  ASSUME NEW c, Good(c), NEW n \in 1 .. 4, NEW i \in 1 .. n,
         NEW d, Good(d), d.sp = PushAt(c, n), Emulated(d) <=> Emulated(c),
         Emulated(c) => PushAt(c, n - i).lo # 0
  PROVE  PopAt(d, i) = PushAt(c, n - i)
<1>1. c.sp \in Word /\ c.sp.hi \in Byte /\ c.sp.lo \in Byte
  BY DEF Good, CpuStates, Word
<1> DEFINE l == c.sp.lo
           h == c.sp.hi
<1>2. /\ n \in 0 .. 4 /\ i - 1 \in 0 .. 4 /\ n - i \in 0 .. 4 /\ 1 \in 0 .. 4
      /\ n \in Nat /\ i \in Nat
  OBVIOUS
<1>3. /\ Down(l, n) \in Byte /\ Down(l, n - i) \in Byte
      /\ Up(Down(l, n), i - 1) \in Byte
      /\ Down(h, 1) \in Byte /\ Up(Down(h, 1), 1) = h
  BY <1>1, <1>2, ByteWraps, DownUp
\* Where the low byte is, and on which side of the page boundary.
<1>4. Up(Up(Down(l, n), i - 1), 1) = Down(l, n - i)
  BY <1>1, <1>2, ModesAssumption DEF Up, Down, Byte
<1>5. Down(l, n - i) # 0 => Up(Down(l, n), i - 1) + 1 < ByteSize
  BY <1>1, <1>2, ModesAssumption DEF Up, Down, Byte
<1>6. CASE Emulated(c)
  <2>1. PushAt(c, n - i) = [c.sp EXCEPT !.lo = Down(l, n - i)]
        /\ PushAt(c, n) = [c.sp EXCEPT !.lo = Down(l, n)]
    BY <1>6 DEF PushAt
  <2>2. SpUp(d, i - 1) = [d.sp EXCEPT !.lo = Up(Down(l, n), i - 1)]
    BY <1>1, <1>6, <2>1 DEF SpUp, Word
  <2>3. Down(l, n - i) # 0
    BY <1>1, <1>6, <2>1 DEF Word
  <2>4. SpUp(d, i - 1).hi = h /\ SpUp(d, i - 1).lo = Up(Down(l, n), i - 1)
    BY <1>1, <2>1, <2>2 DEF Word
  <2>5. PopAt(d, i) = [hi |-> h, lo |-> Down(l, n - i)]
    BY <1>4, <1>5, <2>3, <2>4 DEF PopAt, Plus
  <2> QED
    BY <1>1, <2>1, <2>5 DEF Word
<1>7. CASE ~Emulated(c)
  <2>1. PushAt(c, n) = [hi |-> IF l >= n THEN h ELSE Down(h, 1), lo |-> Down(l, n)]
        /\ PushAt(c, n - i) = [hi |-> IF l >= n - i THEN h ELSE Down(h, 1), lo |-> Down(l, n - i)]
    BY <1>7 DEF PushAt, Minus
  <2> DEFINE m == Down(l, n)
             g == IF l >= n THEN h ELSE Down(h, 1)
  <2>2. SpUp(d, i - 1) = [hi |-> IF m + (i - 1) < ByteSize THEN g ELSE Up(g, 1), lo |-> Up(m, i - 1)]
    BY <1>7, <2>1 DEF SpUp, Plus
  <2> DEFINE p == Up(m, i - 1)
             q == IF m + (i - 1) < ByteSize THEN g ELSE Up(g, 1)
  <2>3. PopAt(d, i) = [hi |-> IF p + 1 < ByteSize THEN q ELSE Up(q, 1), lo |-> Up(p, 1)]
    BY <2>2 DEF PopAt, Plus
  \* At most one of the three borrows and carries is not undone by another.
  <2>4. CASE l >= n
    <3>1. m = l - n /\ g = h /\ m + (i - 1) < ByteSize /\ p = l - n + (i - 1)
          /\ p + 1 < ByteSize /\ l >= n - i
      BY <1>1, <1>2, <2>4, ModesAssumption DEF Down, Up, Byte
    <3> QED
      BY <1>4, <2>1, <2>3, <3>1
  <2>5. CASE ~(l >= n)
    <3>1. m = l + ByteSize - n /\ g = Down(h, 1)
      BY <1>1, <1>2, <2>5, ModesAssumption DEF Down, Byte
    <3>2. CASE l >= n - i
      <4>1. m + (i - 1) < ByteSize <=> i - 1 < n - l
        BY <1>1, <1>2, <3>1, ModesAssumption DEF Byte
      <4>2. CASE i - 1 < n - l
        <5>1. m + (i - 1) < ByteSize /\ p = m + (i - 1) /\ ~(p + 1 < ByteSize)
          BY <1>1, <1>2, <3>1, <3>2, <4>1, <4>2, ModesAssumption DEF Up, Byte
        <5> QED
          BY <1>3, <1>4, <2>1, <2>3, <3>1, <3>2, <5>1
      <4>3. CASE ~(i - 1 < n - l)
        <5>1. ~(m + (i - 1) < ByteSize) /\ p = m + (i - 1) - ByteSize /\ p + 1 < ByteSize
          BY <1>1, <1>2, <3>1, <3>2, <4>1, <4>3, ModesAssumption DEF Up, Byte
        <5> QED
          BY <1>3, <1>4, <2>1, <2>3, <3>1, <3>2, <5>1
      <4> QED
        BY <4>2, <4>3
    <3>3. CASE ~(l >= n - i)
      <4>1. m + (i - 1) < ByteSize /\ p = m + (i - 1) /\ p + 1 < ByteSize
        BY <1>1, <1>2, <3>1, <3>3, ModesAssumption DEF Up, Byte
      <4> QED
        BY <1>4, <2>1, <2>3, <3>1, <3>3, <4>1
    <3> QED
      BY <3>2, <3>3
  <2> QED
    BY <2>4, <2>5
<1> QED
  BY <1>6, <1>7

\* In every mode, Pops read back what Pushes wrote.
THEOREM StackIsLifoAlways == Spec => []StackIsLifo
<1>1. Good(cpu) => StackIsLifo
  <2> SUFFICES ASSUME Good(cpu), NEW n \in 1 .. 3
               PROVE  LET d == Pushed(cpu, n)
                      IN  /\ Pulled(d, n) = cpu
                          /\ n = 1 => PopOldAt(d) = PushAt(cpu, 0)
                          /\ \A i \in 1 .. n : (Emulated(cpu) => PushAt(cpu, n - i).lo # 0)
                                                => PopAt(d, i) = PushAt(cpu, n - i)
    BY DEF StackIsLifo
  <2> DEFINE d == Pushed(cpu, n)
  <2>0. cpu \in CpuStates
    BY DEF Good
  <2>1. n \in 0 .. 4 /\ n \in 1 .. 4
    OBVIOUS
  <2>2. Good(d) /\ d.sp = PushAt(cpu, n) /\ (Emulated(d) <=> Emulated(cpu))
    BY <2>0, <2>1, PushedGood DEF Pushed, CpuStates, Emulated
  <2>3. SpUp(d, n) = cpu.sp
    BY <2>1, <2>2, PulledPushed
  <2>4. Pulled(d, n) = cpu
    <3>1. Pulled(d, n) = [d EXCEPT !.sp = cpu.sp]
      BY <2>3 DEF Pulled
    <3> QED
      BY <2>0, <3>1 DEF Pushed, CpuStates
  <2>5. PushAt(cpu, 0) = cpu.sp
    <3>1. 0 \in 0 .. 4
      OBVIOUS
    <3>2. cpu.sp \in Word /\ cpu.sp.lo \in Byte /\ Down(cpu.sp.lo, 0) = cpu.sp.lo
      BY <2>0, <3>1, DownUp DEF CpuStates, Word
    <3>3. cpu.sp.lo >= 0
      BY <3>2, ModesAssumption DEF Byte
    <3> QED
      BY <3>2, <3>3 DEF PushAt, Minus, Word
  <2>6. n = 1 => PopOldAt(d) = PushAt(cpu, 0)
    BY <2>3, <2>5 DEF PopOldAt
  <2>7. ASSUME NEW i \in 1 .. n, Emulated(cpu) => PushAt(cpu, n - i).lo # 0
        PROVE  PopAt(d, i) = PushAt(cpu, n - i)
    BY <2>1, <2>2, <2>7, PopReadsPush
  <2> QED
    BY <2>4, <2>6, <2>7
<1> QED
  BY <1>1, AlwaysGood, PTL

\* Reading P and writing it back changes nothing.
LEMMA StatusRestored ==
  ASSUME NEW c, Good(c)
  PROVE  SetStatusRegister(c, GetStatusRegister(c)) = c
<1> DEFINE v == GetStatusRegister(c)
           d == [c EXCEPT !.flags = v \cap Flags, !.on = (@ \ Long) \cup (Long \ LongOf(v))]
<1>1. c \in CpuStates /\ c.flags \in SUBSET Flags /\ c.on \in SUBSET Modes
      /\ (Emulated(c) => c.on \cap Long = {})
  BY DEF Good, CpuStates, Consistent, Settled, Emulated, Long
<1>2. v \cap Flags = c.flags
  BY <1>1, ModesAssumption DEF GetStatusRegister, Flags
<1>3. "M" \notin c.flags /\ "X" \notin c.flags
  BY <1>1, ModesAssumption DEF Flags
<1>4. LongOf(v) = Long \ c.on
  BY <1>1, <1>3 DEF GetStatusRegister, LongOf, Long, Emulated
<1>5. (c.on \ Long) \cup (Long \ LongOf(v)) = c.on
  BY <1>1, <1>4 DEF Long
<1>6. d = c
  BY <1>1, <1>2, <1>5 DEF CpuStates
<1> QED
  BY <1>6 DEF SetStatusRegister

\* PHP and PLP are inverse in every reachable state.
THEOREM StatusRoundTripAlways == Spec => []StatusRoundTrip
<1>1. Good(cpu) => StatusRoundTrip
  BY StatusRestored DEF StatusRoundTrip
<1> QED
  BY <1>1, AlwaysGood, PTL

\* The state a handler leaves differs from the interrupted one in flags and
\* widths only, and has the stack pointer just below the frame.
LEMMA HandledState ==
  ASSUME Good(cpu), NEW on \in SUBSET Long, NEW f \in SUBSET Flags
  PROVE  LET h == Handled(on, f)
         IN  /\ Good(h) /\ h.sp = PushAt(cpu, FrameSize(cpu)) /\ h.bank = 0
             /\ Emulated(h) <=> Emulated(cpu)
             /\ h.on \ Long = cpu.on \ Long
             /\ Emulated(cpu) => h.on = cpu.on
             /\ on = cpu.on \cap Long => h.on = cpu.on /\ h.high = cpu.high
<1> DEFINE e == Pushed(cpu, FrameSize(cpu))
           d == [DoInterrupt(cpu) EXCEPT !.flags = f]
           u == [d EXCEPT !.on = (@ \ Long) \cup on]
           h == Handled(on, f)
<1>1. cpu \in CpuStates
  BY DEF Good
<1>2. Good(DoInterrupt(cpu))
  BY DoInterruptGood
<1>3. /\ DoInterrupt(cpu).sp = PushAt(cpu, FrameSize(cpu))
      /\ DoInterrupt(cpu).on = cpu.on
      /\ DoInterrupt(cpu).high = cpu.high
      /\ DoInterrupt(cpu).bank = 0
  BY <1>1 DEF DoInterrupt, Pushed, CpuStates
<1>4. /\ Good(d) /\ d.sp = PushAt(cpu, FrameSize(cpu)) /\ d.on = cpu.on
      /\ d.high = cpu.high /\ d.bank = 0
  BY <1>2, <1>3 DEF Good, Consistent, InPageOne, CpuStates
<1>5. h = IF on = cpu.on \cap Long THEN d ELSE OnUpdateMode(u)
  BY DEF Handled
<1> HIDE DEF d, h
<1>6. CASE on = cpu.on \cap Long
  BY <1>4, <1>5, <1>6 DEF Emulated, h
<1>7. CASE ~(on = cpu.on \cap Long)
  <2>1. u \in CpuStates /\ InPageOne(u) /\ u.sp = d.sp /\ u.bank = d.bank
        /\ u.on = (cpu.on \ Long) \cup on
    BY <1>4 DEF Good, CpuStates, InPageOne, Long, Modes
  <2> HIDE DEF u
  <2>2. Good(OnUpdateMode(u))
    BY <2>1, OnUpdateModeGood
  <2>3. /\ OnUpdateMode(u).sp = u.sp /\ OnUpdateMode(u).bank = u.bank
        /\ OnUpdateMode(u).on = Settled(u.on)
    BY <2>1 DEF OnUpdateMode, CpuStates
  <2>4. Settled(cpu.on) = cpu.on
    BY DEF Good, Consistent
  <2>5. /\ Settled(u.on) \ Long = cpu.on \ Long
        /\ Emulated(cpu) => Settled(u.on) = cpu.on
    BY <1>1, <2>1, <2>4 DEF Settled, Long, Modes, Emulated, CpuStates
  <2>6. "emulation" \in Settled(u.on) <=> Emulated(cpu)
    BY <2>5 DEF Long, Emulated
  <2> QED
    BY <1>4, <1>5, <1>7, <2>1, <2>2, <2>3, <2>5, <2>6 DEF Emulated, h
<1> QED
  BY <1>6, <1>7 DEF h

\* Pulling P gives the interrupted program its flags and modes back, whatever
\* widths are in force before.
LEMMA StatusReturns ==
  ASSUME Good(cpu), NEW type \in Interrupts, Recoverable(type),
         NEW h, Good(h), h.on \ Long = cpu.on \ Long,
         Emulated(cpu) => h.on = cpu.on
  PROVE  LET e == SetStatusRegister(h, PushedStatus(cpu, type))
         IN  /\ e.on = cpu.on /\ e.table = cpu.table /\ e.flags = cpu.flags
             /\ e.sp = h.sp /\ e.bank = h.bank
             /\ h.on = cpu.on /\ h.high = cpu.high => e.high = cpu.high
<1> DEFINE v == PushedStatus(cpu, type)
           d == [h EXCEPT !.flags = v \cap Flags, !.on = (@ \ Long) \cup (Long \ LongOf(v))]
           e == SetStatusRegister(h, v)
<1>1. /\ cpu \in CpuStates /\ cpu.flags \in SUBSET Flags /\ cpu.on \in SUBSET Modes
      /\ Settled(cpu.on) = cpu.on /\ cpu.table = TableOf(cpu.on)
      /\ h \in CpuStates /\ h.table = TableOf(h.on)
  BY DEF Good, Consistent, CpuStates
<1>2. v \cap Flags = cpu.flags
  BY <1>1, ModesAssumption DEF PushedStatus, GetStatusRegister, Flags
<1>3. "M" \notin cpu.flags /\ "X" \notin cpu.flags
  BY <1>1, ModesAssumption DEF Flags
<1>4. ~Emulated(cpu) => LongOf(v) = Long \ cpu.on
  BY <1>1, <1>3 DEF PushedStatus, GetStatusRegister, LongOf, Long, Emulated
<1>5. Emulated(cpu) /\ type \in {"BRK", "NMI"} => LongOf(v) = Long
  BY DEF PushedStatus, LongOf, Long
<1>6. /\ d \in CpuStates /\ d.flags = cpu.flags /\ d.sp = h.sp /\ d.bank = h.bank
      /\ d.high = h.high /\ d.table = h.table
      /\ d.on = (cpu.on \ Long) \cup (Long \ LongOf(v))
  BY <1>1, <1>2 DEF CpuStates, Long, Modes
<1>7. e = IF d.on = h.on THEN d ELSE OnUpdateMode(d)
  BY DEF SetStatusRegister
<1> HIDE DEF d, v, e
<1>8. /\ OnUpdateMode(d).on = Settled(d.on) /\ OnUpdateMode(d).table = TableOf(d.on)
      /\ OnUpdateMode(d).flags = d.flags /\ OnUpdateMode(d).sp = d.sp
      /\ OnUpdateMode(d).bank = d.bank
      /\ OnUpdateMode(d).high = IF "long_xy" \in Settled(d.on) THEN d.high ELSE {}
  BY <1>6 DEF OnUpdateMode, CpuStates
<1>9. CASE ~Emulated(cpu)
  <2>1. d.on = cpu.on
    BY <1>1, <1>4, <1>6, <1>9 DEF Long
  <2> QED
    BY <1>1, <1>6, <1>7, <1>8, <2>1 DEF e, v
<1>10. CASE Emulated(cpu)
  <2>1. h.on = cpu.on
    BY <1>10
  <2>2. Settled(d.on) = cpu.on /\ TableOf(d.on) = cpu.table
    BY <1>1, <1>6, <1>10 DEF Settled, TableOf, Long, Modes, Emulated
  <2>3. "long_xy" \notin cpu.on
    BY <1>1, <1>10 DEF Settled, Emulated
  <2>4. CASE d.on = h.on
    BY <1>1, <1>6, <1>7, <2>1, <2>4 DEF e, v
  <2>5. CASE d.on # h.on
    <3>1. ~(type \in {"BRK", "NMI"})
      <4>1. SUFFICES ASSUME type \in {"BRK", "NMI"}
                     PROVE  d.on = h.on
        BY <2>5
      <4>2. cpu.on \cap Long = {}
        BY <1>1, <1>10 DEF Settled, Emulated, Long
      <4> QED
        BY <1>5, <1>6, <1>10, <2>1, <4>1, <4>2
    <3>2. type \in {"IRQ", "COP"}
      BY <3>1 DEF Interrupts
    <3>3. cpu.high = {}
      BY <1>10, <3>2 DEF Recoverable
    <3> QED
      BY <1>6, <1>7, <1>8, <2>2, <2>3, <2>5, <3>3 DEF e, v
  <2> QED
    BY <2>4, <2>5
<1> QED
  BY <1>9, <1>10

\* RTI reads each part of the frame where DoInterrupt wrote it.
LEMMA FrameReadBack ==
  ASSUME Good(cpu), NEW type, Recoverable(type),
         NEW h, Good(h), h.sp = PushAt(cpu, FrameSize(cpu)), Emulated(h) <=> Emulated(cpu)
  PROVE  RtiReads(h) = Frame(cpu)
<1>1. CASE Emulated(cpu)
  <2>1. PushDepth(cpu) = [pch |-> 0, pcl |-> 1, status |-> 2]
        /\ PullHeight(h) = [status |-> 1, pcl |-> 2, pch |-> 3] /\ FrameSize(cpu) = 3
    BY <1>1 DEF PushDepth, PullHeight, FrameSize
  <2>2. Frame(cpu) = [part \in {"pch", "pcl", "status"} |-> PushAt(cpu, PushDepth(cpu)[part])]
    BY <2>1 DEF Frame
  <2>3. \A i \in 1 .. 3 : PushAt(cpu, 3 - i).lo # 0
    <3>1. \A part \in {"pch", "pcl", "status"} : PushAt(cpu, PushDepth(cpu)[part]).lo # 0
      BY <1>1, <2>2 DEF Recoverable
    <3>2. PushAt(cpu, 0).lo # 0 /\ PushAt(cpu, 1).lo # 0 /\ PushAt(cpu, 2).lo # 0
      BY <2>1, <3>1
    <3> QED
      BY <3>2
  <2>4. \A i \in 1 .. 3 : PopAt(h, i) = PushAt(cpu, 3 - i)
    <3> TAKE i \in 1 .. 3
    <3>1. 3 \in 1 .. 4
      OBVIOUS
    <3> QED
      BY <2>1, <2>3, <3>1, PopReadsPush
  <2>5. PopAt(h, 1) = PushAt(cpu, 2) /\ PopAt(h, 2) = PushAt(cpu, 1) /\ PopAt(h, 3) = PushAt(cpu, 0)
    BY <2>4
  <2>6. RtiReads(h) = [part \in {"pch", "pcl", "status"} |-> PopAt(h, PullHeight(h)[part])]
    BY <2>1 DEF RtiReads
  <2> QED
    BY <2>1, <2>2, <2>5, <2>6
<1>2. CASE ~Emulated(cpu)
  <2>1. PushDepth(cpu) = [bank |-> 0, pch |-> 1, pcl |-> 2, status |-> 3]
        /\ PullHeight(h) = [status |-> 1, pcl |-> 2, pch |-> 3, bank |-> 4] /\ FrameSize(cpu) = 4
    BY <1>2 DEF PushDepth, PullHeight, FrameSize
  <2>2. Frame(cpu) = [part \in {"bank", "pch", "pcl", "status"} |-> PushAt(cpu, PushDepth(cpu)[part])]
    BY <2>1 DEF Frame
  <2>3. \A i \in 1 .. 4 : PopAt(h, i) = PushAt(cpu, 4 - i)
    <3> TAKE i \in 1 .. 4
    <3>1. 4 \in 1 .. 4
      OBVIOUS
    <3> QED
      BY <1>2, <2>1, <3>1, PopReadsPush
  <2>4. /\ PopAt(h, 1) = PushAt(cpu, 3) /\ PopAt(h, 2) = PushAt(cpu, 2)
        /\ PopAt(h, 3) = PushAt(cpu, 1) /\ PopAt(h, 4) = PushAt(cpu, 0)
    BY <2>3
  <2>5. RtiReads(h) = [part \in {"bank", "pch", "pcl", "status"} |-> PopAt(h, PullHeight(h)[part])]
    BY <2>1 DEF RtiReads
  <2> QED
    BY <2>1, <2>2, <2>4, <2>5
<1> QED
  BY <1>1, <1>2

\* An interrupt and its RTI give the program back what it had.
THEOREM InterruptReturnsAlways == Spec => []InterruptReturns
<1>1. Good(cpu) => InterruptReturns
  <2> SUFFICES ASSUME Good(cpu), NEW type \in Interrupts, Recoverable(type),
                      NEW on \in SUBSET Long, NEW f \in SUBSET Flags
               PROVE  LET h == Handled(on, f)
                          r == RtiTo(h, PushedStatus(cpu, type), cpu.bank)
                      IN  /\ RtiReads(h) = Frame(cpu)
                          /\ [r EXCEPT !.high = cpu.high] = cpu
                          /\ on = cpu.on \cap Long => r.high = cpu.high
    BY DEF InterruptReturns
  <2> DEFINE h == Handled(on, f)
             v == PushedStatus(cpu, type)
             e == SetStatusRegister(h, v)
             p == Pulled(e, FrameSize(e))
             r == RtiTo(h, v, cpu.bank)
  <2>1. cpu \in CpuStates
    BY DEF Good
  <2>2. /\ Good(h) /\ h.sp = PushAt(cpu, FrameSize(cpu)) /\ h.bank = 0
        /\ Emulated(h) <=> Emulated(cpu)
        /\ h.on \ Long = cpu.on \ Long
        /\ Emulated(cpu) => h.on = cpu.on
        /\ on = cpu.on \cap Long => h.on = cpu.on /\ h.high = cpu.high
    BY HandledState
  <2> HIDE DEF h
  <2>3. /\ e.on = cpu.on /\ e.table = cpu.table /\ e.flags = cpu.flags
        /\ e.sp = h.sp /\ e.bank = h.bank
        /\ h.on = cpu.on /\ h.high = cpu.high => e.high = cpu.high
    BY <2>2, StatusReturns
  <2>4. Good(e)
    BY <2>2, SetStatusRegisterGood
  <2>5. r = [p EXCEPT !.bank = IF Emulated(e) THEN @ ELSE cpu.bank]
    BY DEF RtiTo
  <2> HIDE DEF e, v, r
  <2>6. (Emulated(e) <=> Emulated(cpu)) /\ FrameSize(e) = FrameSize(cpu)
        /\ FrameSize(cpu) \in 0 .. 4
    BY <2>3 DEF Emulated, FrameSize
  <2>7. SpUp(e, FrameSize(e)) = cpu.sp
    BY <2>2, <2>3, <2>4, <2>6, PulledPushed
  <2>8. p = [e EXCEPT !.sp = cpu.sp]
    BY <2>7 DEF Pulled
  <2>9. Emulated(cpu) => cpu.bank = 0
    BY DEF Recoverable
  <2>10. [r EXCEPT !.high = cpu.high] = cpu /\ r.high = e.high
    <3>1. e \in CpuStates
      BY <2>4 DEF Good
    <3>2. /\ r = [on |-> cpu.on, table |-> cpu.table, flags |-> cpu.flags,
                  high |-> e.high, sp |-> cpu.sp, bank |-> cpu.bank]
      BY <2>1, <2>2, <2>3, <2>5, <2>6, <2>8, <2>9, <3>1 DEF CpuStates
    <3> QED
      BY <2>1, <3>2 DEF CpuStates
  <2>11. RtiReads(h) = Frame(cpu)
    BY <2>2, FrameReadBack
  <2> QED
    BY <2>2, <2>3, <2>10, <2>11 DEF h, r, v
<1> QED
  BY <1>1, AlwaysGood, PTL
=============================================================================
