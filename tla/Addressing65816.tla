-------------------------- MODULE Addressing65816 --------------------------
(***************************************************************************)
(* The addressing modes of the 65C816 core and of the 6502 of the NES, and *)
(* the block moves (src/cpu/65816/cpu_65c816_instructions.inl and          *)
(* cpu_65c816.h): which bytes of memory an instruction reads and writes,   *)
(* and where each mode wraps -- in a page, in a bank, or not at all.       *)
(*                                                                         *)
(* A byte has ByteSize values, so that a page has ByteSize bytes and a     *)
(* bank ByteSize pages; all three are 256 in the program.  Cycles, flags   *)
(* and the fetch of the operand are left out.                              *)
(***************************************************************************)
EXTENDS Naturals

CONSTANTS
  ByteSize,   \* number of values of a byte
  Ram,        \* the addresses of writable memory; a store elsewhere is lost
  Rom         \* the bytes memory starts with

ASSUME AddressingAssumption ==
  /\ ByteSize \in Nat /\ ByteSize >= 2
  /\ Ram \subseteq 0 .. ByteSize * ByteSize * ByteSize - 1
  /\ Rom \in [0 .. ByteSize * ByteSize * ByteSize - 1 -> 0 .. ByteSize - 1]

VARIABLES
  core,   \* the registers
  mem     \* memory, by 24-bit address

-----------------------------------------------------------------------------
(* State *)

Byte == 0 .. ByteSize - 1
BankSize == ByteSize * ByteSize
Offset == 0 .. BankSize - 1
Addresses == 0 .. ByteSize * BankSize - 1

\* c is A with its high byte, whatever the width of A is; dbr is the bank in
\* data_segment_base.  "native" stands for the four native tables: an access is
\* of one or two bytes.
Cores == [c : Offset, x : Offset, y : Offset, d : Offset, s : Offset, dbr : Byte,
          table : {"native", "emulation", "6502"}]

Low(w) == w % ByteSize
PageOf(w) == w \div ByteSize

-----------------------------------------------------------------------------
(* Reading *)

\* ReadZero and ReadU16NoCrossBank: bank 0, where the second byte of a word
\* after $FFFF is at 0.
ZeroByte(m, a) == m[a % BankSize]
ZeroWord(m, a) == ZeroByte(m, a) + ByteSize * ZeroByte(m, a + 1)

\* The two bytes of a word in bank 0 that wraps at the end of its page.
PageWord(m, a) ==
  ZeroByte(m, a) + ByteSize * ZeroByte(m, PageOf(a) * ByteSize + Low(a + 1))

-----------------------------------------------------------------------------
(* Addressing modes *)

DirectModes == {"direct", "direct,x", "direct,y"}
BankZeroModes == DirectModes \cup {"stack"}
IndirectModes == {"(direct)", "(direct,x)", "(direct),y", "[direct]", "[direct],y", "(stack),y"}
AbsoluteModes == {"abs", "abs,x", "abs,y"}
LongModes == {"long", "long,x"}

\* The modes whose template takes the argument emulation, and the modes of the
\* 6502 opcodes.
WrappingModes == DirectModes \cup {"(direct,x)", "(direct),y"}
AllModes == BankZeroModes \cup IndirectModes \cup AbsoluteModes \cup LongModes
ModesOf(table) == IF table = "6502" THEN WrappingModes \cup AbsoluteModes ELSE AllModes

\* Instructions are extant on every 6502, or later than it (STZ, TSB, TRB and
\* BIT dp,X), or extant there undocumented (LAX and SAX); and the modes in which
\* a table has each kind.
Kinds == {"old", "later", "undocumented"}
KindModes(table, kind) ==
  CASE kind = "old" -> ModesOf(table)
    [] kind = "later" ->
         IF table = "6502" THEN {"direct,x"} ELSE {"direct", "direct,x", "abs", "abs,x"}
    [] kind = "undocumented" /\ table = "6502" -> ModesOf(table) \ {"direct,x", "abs,x"}
    [] OTHER -> {}

Operands(mode) ==
  IF mode \in AbsoluteModes THEN Offset ELSE IF mode \in LongModes THEN Addresses ELSE Byte

Index(c, mode) ==
  CASE mode \in {"direct,x", "(direct,x)", "abs,x", "long,x"} -> c.x
    [] mode \in {"direct,y", "(direct),y", "[direct],y", "(stack),y", "abs,y"} -> c.y
    [] OTHER -> 0

\* The tables of emulation mode and of the 6502 ask for the page wrap, but for
\* the undocumented LAX and SAX.
Wraps(c, mode, kind) ==
  c.table # "native" /\ mode \in WrappingModes /\ kind # "undocumented"

DirectAddressNoWrap(c, v, index, wraps) ==   \* Variant: only the 16-bit sum
  [at |-> c.d + v + index, inPage |-> FALSE]

\* AddrDirectBase: the address, and whether a word there wraps in its page,
\* which the code says with the top bit of the address.
DirectAddress(c, v, index, wraps) ==
  IF wraps /\ Low(c.d) = 0
  THEN [at |-> c.d + Low(Low(index) + v), inPage |-> TRUE]
  ELSE [at |-> c.d + v + index, inPage |-> FALSE]

\* The pointer of (direct,x), indexed before it is read, and of (direct),y,
\* indexed after.
DirectPointer(c, m, v, index, wraps) ==
  LET e == DirectAddress(c, v, index, wraps)
  IN  IF e.inPage THEN PageWord(m, e.at) ELSE ZeroWord(m, e.at)

LongPointer(m, a) == ZeroWord(m, a) + BankSize * ZeroByte(m, a + 2)

\* CalcEffectiveAddress, for every mode but the immediate and the implied ones.
\* Indexing an absolute address may leave its bank.
EffectiveAddress(c, m, mode, v, kind) ==
  LET wraps == Wraps(c, mode, kind)
      index == Index(c, mode)
      data == c.dbr * BankSize
  IN  CASE mode \in DirectModes -> DirectAddress(c, v, index, wraps).at
        [] mode = "stack" -> c.s + v
        [] mode = "(direct)" -> data + ZeroWord(m, c.d + v)
        [] mode = "(direct,x)" -> data + DirectPointer(c, m, v, index, wraps)
        [] mode = "(direct),y" -> data + DirectPointer(c, m, v, 0, wraps) + index
        [] mode \in {"[direct]", "[direct],y"} -> LongPointer(m, c.d + v) + index
        [] mode = "(stack),y" -> data + ZeroWord(m, c.s + v) + index
        [] mode \in AbsoluteModes -> data + v + index
        [] mode \in LongModes -> v + index

\* The k-th byte of an operand at a, read and written: Addr16bitZeroOp stays in
\* bank 0, Addr24bitOp goes on in the next bank and, with mem_mask, after the
\* last one in bank 0.
ReadCell(mode, a, k) ==
  (a + k) % (IF mode \in BankZeroModes THEN BankSize ELSE ByteSize * BankSize)

WriteCellInBank(mode, a, k) ==   \* Variant: the bank never changes
  IF mode \in BankZeroModes THEN (a + k) % BankSize
  ELSE (((a \div BankSize) % ByteSize) * BankSize) + ((a + k) % BankSize)

WriteCell(mode, a, k) ==
  (a + k) % (IF mode \in BankZeroModes THEN BankSize ELSE ByteSize * BankSize)

-----------------------------------------------------------------------------
(* Loads and stores of n bytes: 1, or 2 in the native tables for 16-bit A. *)

Widths(c) == IF c.table = "native" THEN 1 .. 2 ELSE {1}

SetLow(w, n, v) == IF n = 2 THEN v ELSE w - Low(w) + v

ReadAt(m, mode, a, n) ==
  m[ReadCell(mode, a, 0)] + (IF n = 2 THEN ByteSize * m[ReadCell(mode, a, 1)] ELSE 0)

\* A byte reaches Ram only: WriteByte drops it on a read-only page and on a page
\* without memory.
Put(m, a, v) == IF a \in Ram THEN [m EXCEPT ![a] = v] ELSE m
WriteAt(m, mode, a, n, v) ==
  LET low == Put(m, WriteCell(mode, a, 0), Low(v))
  IN  IF n = 2 THEN Put(low, WriteCell(mode, a, 1), PageOf(v)) ELSE low

Loaded(c, m, mode, v, n, kind) ==
  ReadAt(m, mode, EffectiveAddress(c, m, mode, v, kind), n)
Stored(c, m, mode, v, n, kind, value) ==
  WriteAt(m, mode, EffectiveAddress(c, m, mode, v, kind), n, value)

-----------------------------------------------------------------------------
(* Block moves *)

\* One byte, and the registers after it; increment is 1 or 0xFFFF.  C passes 0:
\* C + 1 bytes are moved.
MoveByte(s, src, dst, increment) ==
  [c |-> (s.c + BankSize - 1) % BankSize,
   x |-> (s.x + increment) % BankSize,
   y |-> (s.y + increment) % BankSize,
   dbr |-> s.dbr,
   mem |-> Put(s.mem, dst * BankSize + s.y, s.mem[src * BankSize + s.x])]

Done(s) == s.c = BankSize - 1

MoveStates == [c : Offset, x : Offset, y : Offset, dbr : Byte, mem : [Addresses -> Byte]]

\* The whole move at once (fast_block_moves), when there is one to make.
FastBlockMove(s, src, dst, increment) ==
  LET rest[t \in MoveStates] ==
        IF Done(t) THEN [t EXCEPT !.dbr = dst] ELSE rest[MoveByte(t, src, dst, increment)]
  IN  rest[s]

BlockMoveKeepsBank(s, src, dst, increment) ==   \* Variant: the data bank is left alone
  IF Done(s) THEN s ELSE MoveByte(s, src, dst, increment)

\* One execution of MVN or MVP; until Done, ip stays at the instruction.
BlockMove(s, src, dst, increment) ==
  IF Done(s) THEN s ELSE [MoveByte(s, src, dst, increment) EXCEPT !.dbr = dst]

Moving == [c |-> core.c, x |-> core.x, y |-> core.y, dbr |-> core.dbr, mem |-> mem]
Increments == {1, BankSize - 1}

-----------------------------------------------------------------------------
(* The machine *)

\* After PowerOn and Reset: S is $100, less 3 in its low byte.
AddressingInit ==
  /\ \E table \in {"emulation", "6502"} :
       core = [c |-> 0, x |-> 0, y |-> 0, d |-> 0,
               s |-> ByteSize + ((2 * ByteSize - 3) % ByteSize), dbr |-> 0, table |-> table]
  /\ mem = Rom

\* LDA and STA stand for every instruction that reads or writes an operand.
LoadA ==
  /\ \E mode \in ModesOf(core.table) : \E v \in Operands(mode), n \in Widths(core) :
       core' = [core EXCEPT !.c = SetLow(@, n, Loaded(core, mem, mode, v, n, "old"))]
  /\ UNCHANGED mem

StoreA ==
  /\ \E mode \in ModesOf(core.table) : \E v \in Operands(mode), n \in Widths(core) :
       mem' = Stored(core, mem, mode, v, n, "old", core.c)
  /\ UNCHANGED core

\* LDA, LDX and LDY #v: an 8-bit register keeps its high byte.
LoadImmediate ==
  /\ \E n \in Widths(core) : \E v \in IF n = 2 THEN Offset ELSE Byte :
       \/ core' = [core EXCEPT !.c = SetLow(@, n, v)]
       \/ core' = [core EXCEPT !.x = SetLow(@, n, v)]
       \/ core' = [core EXCEPT !.y = SetLow(@, n, v)]
  /\ UNCHANGED mem

\* LAX loads X as well.
LoadAX ==
  /\ core.table = "6502"
  /\ \E mode \in KindModes("6502", "undocumented") :
       \E v \in Operands(mode) :
         LET b == Loaded(core, mem, mode, v, 1, "undocumented")
         IN  core' = [core EXCEPT !.c = SetLow(@, 1, b), !.x = SetLow(@, 1, b)]
  /\ UNCHANGED mem

\* SAX stores A AND X: any byte here.
StoreAX ==
  /\ core.table = "6502"
  /\ \E mode \in {"direct", "direct,y", "(direct,x)", "abs"}, b \in Byte :
       \E v \in Operands(mode) : mem' = Stored(core, mem, mode, v, 1, "undocumented", b)
  /\ UNCHANGED core

\* STZ stands for the instructions later than the 6502 that store.  The 6502
\* table has BIT dp,X alone of them, which changes no more than flags.
StoreZero ==
  /\ core.table # "6502"
  /\ \E mode \in KindModes(core.table, "later") : \E v \in Operands(mode), n \in Widths(core) :
       mem' = Stored(core, mem, mode, v, n, "later", 0)
  /\ UNCHANGED core

TCD ==
  /\ core.table # "6502"
  /\ core' = [core EXCEPT !.d = core.c]
  /\ UNCHANGED mem

PLB ==
  /\ core.table # "6502"
  /\ \E b \in Byte : core' = [core EXCEPT !.dbr = b]
  /\ UNCHANGED mem

\* XCE with C not equal to E; OnUpdateMode clears the high bytes of X and Y both
\* ways.
ChangeMode ==
  /\ core.table # "6502"
  /\ core' = [core EXCEPT !.table = IF @ = "native" THEN "emulation" ELSE "native",
                          !.x = Low(@), !.y = Low(@)]
  /\ UNCHANGED mem

MoveBlock ==
  /\ core.table # "6502"
  /\ \E src \in Byte, dst \in Byte, increment \in Increments :
       LET s == BlockMove(Moving, src, dst, increment)
       IN  /\ core' = [core EXCEPT !.c = s.c, !.x = s.x, !.y = s.y, !.dbr = s.dbr]
           /\ mem' = s.mem

AddressingNext ==
  \/ LoadA \/ StoreA \/ LoadImmediate \/ LoadAX \/ StoreAX \/ StoreZero
  \/ TCD \/ PLB \/ ChangeMode \/ MoveBlock

AddressingSpec == AddressingInit /\ [][AddressingNext]_<<core, mem>>

-----------------------------------------------------------------------------
(* Properties *)

\* The direct page wraps with D at the start of a page if the instruction is
\* "extant on a 6502" (cpu_65c816_ops.inl:38), ...
WrapsByRule(c, kind) == c.table # "native" /\ kind # "later"

\* ... but STZ, TSB, TRB and BIT dp,X are not and wrap in emulation mode, BIT dp,X
\* in the 6502 table too, and LAX and SAX are and do not in this table, which is
\* to emulate a 6502 "exactly" (cpu_65c816.h:259).
DepartsFromRule(c, kind) == c.table # "native" /\ kind # "old"

\* "Iff DL == 0, direct page accesses wrap at 0x00DDXX" (cpu_65c816_ops.inl:36):
\* where the rule has an instruction wrap every byte, of the operand or of the
\* pointer to it, is taken from the page of D, and where it has not the bytes
\* follow each other in bank 0 -- except precisely for the instructions that
\* depart from the rule, which do the one in place of the other.
DirectPageRule ==
  \A kind \in Kinds :
    \A mode \in KindModes(core.table, kind) \cap WrappingModes, v \in Byte :
      LET wrapped == /\ WrapsByRule(core, kind) <=> ~DepartsFromRule(core, kind)
                     /\ Low(core.d) = 0
          index == IF mode = "(direct),y" THEN 0 ELSE Index(core, mode)
          cell(k) == LET a == core.d + v + index + k
                     IN  (IF wrapped THEN PageOf(core.d) * ByteSize + Low(a) ELSE a) % BankSize
          at == EffectiveAddress(core, mem, mode, v, kind)
      IN  IF mode \in DirectModes THEN ReadCell(mode, at, 0) = cell(0)
          ELSE at = core.dbr * BankSize + mem[cell(0)] + ByteSize * mem[cell(1)]
                    + IF mode = "(direct),y" THEN core.y ELSE 0

\* A load finds what a store in the same mode wrote, in every mode and width,
\* if all of it reached Ram and the store has not moved the pointer it went
\* through: 16-bit data across the end of a page or of a bank is split alike by
\* both (ReadRaw and WriteRaw, ReadZero and WriteZero).
StoredIsLoaded ==
  \A mode \in ModesOf(core.table) : \A v \in Operands(mode), n \in Widths(core) :
    LET at(m) == EffectiveAddress(core, m, mode, v, "old")
        after == Stored(core, mem, mode, v, n, "old", core.c)
    IN  /\ \A k \in 0 .. n - 1 : ReadCell(mode, at(mem), k) \in Ram
        /\ at(after) = at(mem)
        => Loaded(core, after, mode, v, n, "old") = IF n = 2 THEN core.c ELSE Low(core.c)

\* A block move executed byte by byte, with the loop free to take an interrupt
\* between two bytes, ends as the fast one does, having copied C + 1 bytes.
BlockMoveAgrees ==
  ~Done(Moving) =>
    \A src \in Byte, dst \in Byte, increment \in Increments :
      LET once == BlockMove(Moving, src, dst, increment)
          all == FastBlockMove(Moving, src, dst, increment)
          from(k) == (src * BankSize) + ((core.x + k * increment) % BankSize)
          to(k) == (dst * BankSize) + ((core.y + k * increment) % BankSize)
      IN  /\ all = IF Done(once) THEN once ELSE FastBlockMove(once, src, dst, increment)
          /\ src # dst =>
               \A a \in Addresses :
                 LET hits == {k \in 0 .. core.c : to(k) = a}
                 IN  all.mem[a] = IF a \in Ram /\ hits # {}
                                  THEN mem[from(CHOOSE k \in hits : TRUE)] ELSE mem[a]
=============================================================================
