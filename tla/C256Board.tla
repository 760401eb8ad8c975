----------------------------- MODULE C256Board -----------------------------
(***************************************************************************)
(* The C256 board on its bus (src/system/c256/c256.cc, src/cpu.cc): the    *)
(* page table the constructor fills, the dispatch of an access to memory   *)
(* or to a device, the math coprocessor that recomputes a result at every  *)
(* byte written to it, and the debugger's peeks and pokes, which must      *)
(* leave devices alone (src/lua_interface/lua_cpu.cc).                     *)
(*                                                                         *)
(* Addresses are the program's.  A byte of data has DataSize values, 256   *)
(* in the program.                                                         *)
(***************************************************************************)
EXTENDS Integers

CONSTANTS
  DataSize,   \* number of values of a byte of data
  RamSize,    \* ram_size
  Probes      \* sets of addresses; a behaviour accesses those of one set

BankOf(a) == a \div 65536
BusAddresses == {a \in Nat : BankOf(a) < 256}

ASSUME BoardAssumption ==
  /\ DataSize \in Nat /\ DataSize >= 2
  /\ RamSize \in Nat /\ RamSize % 4096 = 0
  /\ \A probe \in Probes : probe \subseteq BusAddresses

VARIABLES
  probe,     \* the addresses accessed in this behaviour
  cell,      \* the bytes behind them
  open_bus   \* the last byte on the data lines

boardVars == <<probe, cell, open_bus>>

DataByte == 0 .. DataSize - 1

-----------------------------------------------------------------------------
(* The page table *)

PageSize == 4096
At(array, offset) == [array |-> array, offset |-> offset]
Nowhere == At("none", 0)

\* Page 0 traps $0100-$01FF, and every page of bank $AF all of its bytes.
TrapsIo(a) ==
  \/ a \div PageSize = 0 /\ (a \div 256) % 256 = 1
  \/ BankOf(a) = 175

ReadOnly(a) == BankOf(a) >= 240

\* The host memory a page points to: the array mapped there last.
Ptr(a) ==
  IF BankOf(a) = 175 THEN At("io", a % 65536)
  ELSE IF BankOf(a) >= 248 THEN At("userflash", a - 248 * 65536)
  ELSE IF BankOf(a) \in 240 .. 247 THEN At("sysflash", a - 240 * 65536)
  ELSE IF BankOf(a) \in 176 .. 239 THEN At("vram", a - 176 * 65536)
  ELSE IF a < RamSize THEN At("ram", a)
  ELSE Nowhere

-----------------------------------------------------------------------------
(* Devices *)

IsGavin(a) == a >= 256 /\ a < 416
IsIoDeviceAddressShort(a) == BankOf(a) = 175 \/ (a >= 256 /\ a < 288)   \* Variant: only four units
IsIoDeviceAddress(a) == BankOf(a) = 175 \/ IsGavin(a)

\* What IoRead and IoWrite reach: a device, or the memory that was trapped.
Behind(a) ==
  IF BankOf(a) = 175 THEN At("io", a % 65536)
  ELSE IF IsGavin(a) THEN At("gavin", a - 256)
  ELSE At("ram", a)

\* Numbers of two and of four bytes in registers from reg on, least significant
\* first, and the i-th byte of one.
WordSize == DataSize * DataSize
WordAt(g, reg) == g[At("gavin", reg)] + DataSize * g[At("gavin", reg + 1)]
LongAt(g, reg) == WordAt(g, reg) + WordSize * WordAt(g, reg + 2)
ByteAt(v, i) ==
  LET w == IF i < 2 THEN v ELSE v \div WordSize
  IN  (IF i \in {0, 2} THEN w ELSE w \div DataSize) % DataSize

\* The multipliers and the dividers work without sign, the "signed" ones too.
Multiplied(g, base) == WordAt(g, base) * WordAt(g, base + 2)
Divided(g, base) ==
  LET a == WordAt(g, base)
      b == WordAt(g, base + 2)
  IN  IF b = 0 THEN 0 ELSE (a \div b) + WordSize * (a % b)
Added(g, base) == (LongAt(g, base) + LongAt(g, base + 4)) % (WordSize * WordSize)

\* The unit at registers base on, and the register its result starts at.
Units == {[base |-> 0, result |-> 4], [base |-> 8, result |-> 12],
          [base |-> 16, result |-> 20], [base |-> 24, result |-> 28],
          [base |-> 32, result |-> 40]}
ResultOf(g, unit) ==
  CASE unit.base \in {0, 8} -> Multiplied(g, unit.base)
    [] unit.base \in {16, 24} -> Divided(g, unit.base)
    [] unit.base = 32 -> Added(g, unit.base)

\* The unit a write to a register starts: cases 0 to 3 of reg >> 3 have one
\* each, cases 4 and 5 the adder.
StartedFirstHalf(reg) == {unit \in Units : unit.base = 8 * (reg \div 8)}   \* Variant: no case 5
Started(reg) ==
  {unit \in Units : unit.base = 8 * (reg \div 8) \/ (unit.base = 32 /\ reg \div 8 = 5)}

\* The registers after one was written.  Only those behind probe are kept.
GavinIoWrite(c, reg, v) ==
  LET g == [c EXCEPT ![At("gavin", reg)] = v]
      writes(unit) == unit.result .. unit.result + 3
      kept == {unit \in Started(reg) : At("gavin", unit.base) \in DOMAIN c}
  IN  [k \in DOMAIN c |->
         IF k.array = "gavin" /\ \E unit \in kept : k.offset \in writes(unit)
         THEN LET unit == CHOOSE u \in kept : k.offset \in writes(u)
              IN  ByteAt(ResultOf(g, unit), k.offset - unit.result)
         ELSE g[k]]

-----------------------------------------------------------------------------
(* The bus *)

QueryIo(a) == TrapsIo(a) /\ IsIoDeviceAddress(a)

\* The byte ReadByte leaves in open_bus.  A read of $AFxxxx gives 0 whatever was
\* written there.
ReadByte(a) ==
  IF TrapsIo(a)
  THEN IF Behind(a).array = "io" THEN 0 ELSE cell[Behind(a)]
  ELSE IF Ptr(a) # Nowhere THEN cell[Ptr(a)] ELSE open_bus

\* The cells after WriteByte.
WriteByte(a, v) ==
  IF TrapsIo(a)
  THEN IF Behind(a).array = "gavin" THEN GavinIoWrite(cell, Behind(a).offset, v)
       ELSE [cell EXCEPT ![Behind(a)] = v]
  ELSE IF ReadOnly(a) \/ Ptr(a) = Nowhere THEN cell ELSE [cell EXCEPT ![Ptr(a)] = v]

-----------------------------------------------------------------------------
(* Steps *)

CellOf(a) == IF TrapsIo(a) THEN Behind(a) ELSE Ptr(a)
CellsOf(p) == {CellOf(a) : a \in p} \ {Nowhere}

\* A behaviour that accesses the first register of a unit accesses them all.
ASSUME WholeUnits ==
  \A p \in Probes, unit \in Units :
    At("gavin", unit.base) \in CellsOf(p)
      => \A i \in unit.base .. unit.result + 3 : At("gavin", i) \in CellsOf(p)

\* Memory starts as zeros; the constructor leaves gavin_low_regs as it finds
\* them, all alike here.
BoardInit ==
  /\ probe \in Probes
  /\ \E junk \in DataByte :
       cell = [k \in CellsOf(probe) |-> IF k.array = "gavin" THEN junk ELSE 0]
  /\ open_bus = 0

CpuRead(a) ==
  /\ open_bus' = ReadByte(a)
  /\ UNCHANGED <<probe, cell>>

CpuWrite(a, v) ==
  /\ cell' = WriteByte(a, v)
  /\ open_bus' = v
  /\ UNCHANGED probe

\* The debugger's accesses are the CPU's, but at a device's address they do
\* nothing.
Peek(a) == ~QueryIo(a) /\ CpuRead(a)
Poke(a, v) == ~QueryIo(a) /\ CpuWrite(a, v)

\* Bank $18 is copied to bank 0, under the devices too.
PowerOn ==
  /\ cell' = [k \in DOMAIN cell |->
       LET image == At("ram", k.offset + 24 * 65536)
       IN  IF k.array = "ram" /\ k.offset < 65536 /\ image \in DOMAIN cell
           THEN cell[image] ELSE cell[k]]
  /\ UNCHANGED <<probe, open_bus>>

BoardNext ==
  \/ \E a \in probe : CpuRead(a) \/ Peek(a)
  \/ \E a \in probe, v \in DataByte : CpuWrite(a, v) \/ Poke(a, v)
  \/ PowerOn

BoardSpec == BoardInit /\ [][BoardNext]_boardVars

-----------------------------------------------------------------------------
(* Properties *)

Held(unit) == \A i \in unit.base .. unit.result + 3 : At("gavin", i) \in DOMAIN cell

\* "16x16 Unsigned & signed multiplier, 16/16 unsigned & signed divider"
\* (c256.cc:183): the second of each takes its operands with their sign.
SignedUnit(unit) == unit.base \in {8, 24}
Negative(w) == 2 * w >= WordSize
Value(w, signed) == IF signed /\ Negative(w) THEN w - WordSize ELSE w
Magnitude(n) == IF n < 0 THEN -n ELSE n

\* The result registers hold what the operand registers ask for: the product, the
\* quotient towards 0 with its remainder, the sum.
Computed(g, unit, signed) ==
  LET word(reg) == Value(WordAt(g, reg), signed)
      a == word(unit.base)
      b == word(unit.base + 2)
      quotient == word(unit.result)
      remainder == word(unit.result + 2)
      out == LongAt(g, unit.result)
  IN  CASE unit.base \in {0, 8} -> out = (a * b) % (WordSize * WordSize)
        [] unit.base \in {16, 24} ->
             IF b = 0 THEN out = 0
             ELSE /\ a = quotient * b + remainder
                  /\ Magnitude(remainder) < Magnitude(b)
                  /\ IF a < 0 THEN remainder <= 0 ELSE remainder >= 0
        [] unit.base = 32 ->
             out = (LongAt(g, 32) + LongAt(g, 36)) % (WordSize * WordSize)

\* Where the code contradicts that comment: MathCoproSMul and MathCoproSDiv widen
\* their operands from uint16_t, which leaves them no sign (c256.cc:20, 48-49).
SignIgnored(g, unit) ==
  SignedUnit(unit) /\ \E reg \in {unit.base, unit.base + 2} : Negative(WordAt(g, reg))

Right(g, unit) ==
  IF SignIgnored(g, unit) THEN Computed(g, unit, FALSE)
  ELSE Computed(g, unit, SignedUnit(unit))

\* An operand is written a byte at a time, and results can be written over:
\* after every single write to a unit, a write to a result register included, its
\* results are what its name says of the operands as they stand -- unless a signed
\* unit has a negative operand, which it takes for the unsigned number of the same
\* bits.
EveryWriteRecomputes ==
  [][\A unit \in Units :
       Held(unit) /\ (\E a \in probe, v \in DataByte :
                        CpuWrite(a, v) /\ a - 256 \in unit.base .. unit.result + 3)
         => Right(cell', unit)]_boardVars

\* A poke never reaches a device -- every register of $0100-$019F and the whole
\* of bank $AF keep their values -- and still reaches the memory that shares the
\* trapped page with them: the page test, the address test of QueryIo and the
\* one of IoWrite agree.
DebuggerSparesDevices ==
  [][\A a \in probe, v \in DataByte :
       Poke(a, v) =>
         /\ \A k \in DOMAIN cell : k.array \in {"gavin", "io"} => cell'[k] = cell[k]
         /\ Ptr(a) \in DOMAIN cell /\ ~ReadOnly(a) => cell'[Ptr(a)] = v]_boardVars
=============================================================================
