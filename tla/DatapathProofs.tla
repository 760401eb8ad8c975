--------------------------- MODULE DatapathProofs ---------------------------
(***************************************************************************)
(* Proofs about Addressing65816, for bytes, pages and banks of any size:   *)
(* that registers and memory keep their widths, that the old addressing    *)
(* modes wrap in the direct page and nowhere else, that a load finds what  *)
(* a store wrote, and that the two block moves agree.  And about Alu65816, *)
(* for words of any number of digits: that binary addition and subtraction *)
(* are exact, that shifts and rotates lose no bit, and which decimal sums  *)
(* are right.                                                              *)
(***************************************************************************)
EXTENDS Addressing65816, Alu65816, Integers, WellFoundedInduction, TLAPS

-----------------------------------------------------------------------------
(* Division with remainder, by a divisor that is not a literal.             *)

(* What \div and % give for numbers.                                        *)
LEMMA Division ==
  ASSUME NEW a \in Nat, NEW n \in Nat, n >= 1
  PROVE  /\ a % n \in Nat /\ a % n < n
         /\ a \div n \in Nat
         /\ a = n * (a \div n) + (a % n)
<1>1. a % n \in Nat /\ a % n < n
  BY SMT
<1>2. a \div n \in Nat
  BY SMT
<1>3. a = n * (a \div n) + (a % n)
  BY <1>1, <1>2, SMT
<1> QED
  BY <1>1, <1>2, <1>3

(* There is one quotient and one remainder.                                 *)
LEMMA Quotient ==
  ASSUME NEW a \in Nat, NEW n \in Nat, n >= 1,
         NEW q \in Nat, NEW r \in Nat, r < n, a = n * q + r
  PROVE  a \div n = q /\ a % n = r
BY SMT

(* A remainder may be taken early.                                          *)
LEMMA Residue ==
  ASSUME NEW a \in Nat, NEW b \in Nat, NEW n \in Nat, n >= 1
  PROVE  ((a % n) + b) % n = (a + b) % n
<1> DEFINE c == (a % n) + b
           q == a \div n
<1>1. a % n \in Nat /\ q \in Nat /\ a = n * q + (a % n)
  BY Division
<1>2. c \in Nat
  BY <1>1
<1>3. c % n \in Nat /\ c % n < n /\ c \div n \in Nat /\ c = n * (c \div n) + (c % n)
  BY <1>2, Division
<1>4. a + b = n * (q + (c \div n)) + (c % n)
  <2> HIDE DEF q
  <2>1. a + b = n * q + c
    BY <1>1
  <2> HIDE DEF c
  <2>2. n * (q + (c \div n)) = n * q + n * (c \div n)
    BY <1>1, <1>3
  <2>3. n * q \in Nat /\ n * (c \div n) \in Nat
    BY <1>1, <1>3
  <2> QED
    BY <1>2, <1>3, <2>1, <2>2, <2>3
<1>5. q + (c \div n) \in Nat /\ a + b \in Nat
  BY <1>1, <1>3
<1> HIDE DEF q
<1> QED
  BY <1>3, <1>4, <1>5, Quotient

(* The high half of a number of two digits is a digit.                      *)
LEMMA LowHigh ==
  ASSUME NEW w \in Nat, NEW n \in Nat, n >= 1, w < n * n
  PROVE  w \div n < n
BY SMT

(* Two digits are a number of two digits.                                   *)
LEMMA TwoDigits ==
  ASSUME NEW n \in Nat, NEW h \in 0 .. n - 1, NEW l \in 0 .. n - 1
  PROVE  l + n * h \in 0 .. n * n - 1
<1>1. n * h <= n * (n - 1)
  BY SMT
<1>2. n * (n - 1) = n * n - n
  BY SMT
<1>3. n * h \in Nat /\ n * n \in Nat
  BY SMT
<1> QED
  BY <1>1, <1>2, <1>3

(* The byte after one is another.                                           *)
LEMMA NextByte ==
  ASSUME NEW a \in Nat, NEW n \in Nat, n >= 2
  PROVE  (a + 1) % n # a % n
<1> DEFINE q == a \div n
           r == a % n
<1>0. q \in Nat /\ r \in Nat /\ r < n /\ a = n * q + r /\ a + 1 \in Nat
  BY Division
<1> HIDE DEF q, r
<1>1. CASE r = n - 1
  <2>1. a + 1 = n * (q + 1) + 0
    BY <1>0, <1>1
  <2>2. (a + 1) % n = 0
    BY <1>0, <2>1, Quotient
  <2> QED
    BY <1>0, <1>1, <2>2 DEF r
<1>2. CASE r # n - 1
  <2> DEFINE u == r + 1
  <2>1. a + 1 = n * q + u /\ u \in Nat /\ u < n
    <3>1. r < n - 1 /\ n * q \in Nat
      BY <1>0, <1>2
    <3> QED
      BY <1>0, <3>1
  <2>2. (a + 1) % n = u
    <3> HIDE DEF u
    <3> QED
      BY <1>0, <2>1, Quotient
  <2> QED
    BY <1>0, <2>2 DEF r
<1> QED
  BY <1>1, <1>2 DEF r

-----------------------------------------------------------------------------
(* Sizes                                                                    *)

(* The sizes of a byte, a bank and memory.                                  *)
LEMMA Sizes ==
  /\ ByteSize \in Nat /\ ByteSize >= 2
  /\ BankSize \in Nat /\ BankSize >= ByteSize /\ BankSize = ByteSize * ByteSize
  /\ ByteSize * BankSize \in Nat /\ ByteSize * BankSize >= BankSize
  /\ Ram \subseteq Addresses /\ Rom \in [Addresses -> Byte]
  /\ Byte = 0 .. ByteSize - 1 /\ Offset = 0 .. BankSize - 1
  /\ Addresses = 0 .. (ByteSize * BankSize) - 1
<1>1. ByteSize \in Nat /\ ByteSize >= 2
  BY AddressingAssumption DEF AddressingAssumption
<1>2. BankSize = ByteSize * ByteSize
  BY DEF BankSize
<1>3. BankSize \in Nat /\ BankSize >= ByteSize
  BY <1>1, <1>2, SMT
<1>4. ByteSize * BankSize \in Nat /\ ByteSize * BankSize >= BankSize
  BY <1>1, <1>3, SMT
<1>5. ByteSize * ByteSize * ByteSize = ByteSize * BankSize
  BY <1>1, <1>2, SMT
<1>6. Ram \subseteq Addresses /\ Rom \in [Addresses -> Byte]
  BY <1>5, AddressingAssumption, Zenon DEF AddressingAssumption, Addresses, Byte
<1> QED
  BY <1>1, <1>2, <1>3, <1>4, <1>6 DEF Byte, Offset, Addresses

(* A word has a low byte and a high one.                                    *)
LEMMA Halves ==
  ASSUME NEW w \in Offset
  PROVE  /\ Low(w) \in Byte /\ PageOf(w) \in Byte
         /\ w = Low(w) + ByteSize * PageOf(w)
<1>1. w \in Nat /\ w < ByteSize * ByteSize /\ ByteSize \in Nat /\ ByteSize >= 1
  BY Sizes
<1>2. w \div ByteSize < ByteSize
  BY <1>1, LowHigh
<1>3. /\ w % ByteSize \in Nat /\ w % ByteSize < ByteSize
      /\ w \div ByteSize \in Nat
      /\ w = ByteSize * (w \div ByteSize) + (w % ByteSize)
  BY <1>1, Division
<1> QED
  BY <1>1, <1>2, <1>3 DEF Low, PageOf, Byte

(* Any number has a low byte and a page.                                    *)
LEMMA LowAndPage ==
  \A w \in Nat :
    /\ Low(w) \in Byte /\ Low(w) \in Nat /\ Low(w) < ByteSize /\ PageOf(w) \in Nat
    /\ w = ByteSize * PageOf(w) + Low(w)
<1> TAKE w \in Nat
<1>1. ByteSize \in Nat /\ ByteSize >= 1
  BY Sizes
<1>2. /\ w % ByteSize \in Nat /\ w % ByteSize < ByteSize
      /\ w \div ByteSize \in Nat
      /\ w = ByteSize * (w \div ByteSize) + (w % ByteSize)
  BY <1>1, Division
<1> QED
  BY <1>1, <1>2 DEF Low, PageOf, Byte

(* Bytes, words and addresses are numbers.                                  *)
LEMMA Numbers ==
  /\ Byte \subseteq Nat /\ Offset \subseteq Nat /\ Addresses \subseteq Nat
  /\ Byte \subseteq Offset
BY Sizes

(* Two bytes make a word.                                                   *)
LEMMA Joined == \A h \in Byte, l \in Byte : l + ByteSize * h \in Offset
BY Sizes, TwoDigits

-----------------------------------------------------------------------------
(* Registers keep their widths, and memory its bytes.                       *)

Memory == [Addresses -> Byte]
AddressingType == core \in Cores /\ mem \in Memory

(* Every address of bank 0 is one of memory.                                *)
LEMMA ZeroTypes ==
  ASSUME NEW m \in Memory, NEW a \in Nat
  PROVE  /\ a % BankSize \in Addresses /\ ZeroByte(m, a) \in Byte
         /\ ZeroWord(m, a) \in Offset /\ PageWord(m, a) \in Offset
<1>1. \A b \in Nat : b % BankSize \in Addresses
  <2> TAKE b \in Nat
  <2>1. b % BankSize \in Nat /\ b % BankSize < BankSize
    BY Sizes, Division
  <2> QED
    BY <2>1, Sizes
<1>2. \A b \in Nat : ZeroByte(m, b) \in Byte
  BY <1>1 DEF ZeroByte, Memory
<1>3. a + 1 \in Nat /\ (PageOf(a) * ByteSize) + Low(a + 1) \in Nat
  <2>1. PageOf(a) \in Nat /\ Low(a + 1) \in Nat
    <3>1. a + 1 \in Nat
      OBVIOUS
    <3> QED
      BY <3>1, LowAndPage, Zenon
  <2>2. PageOf(a) * ByteSize \in Nat
    BY <2>1, Sizes
  <2> QED
    BY <2>1, <2>2
<1>4. ZeroWord(m, a) \in Offset
  BY <1>2, <1>3, Joined, Zenon DEF ZeroWord
<1>5. PageWord(m, a) \in Offset
  BY <1>2, <1>3, Joined, Zenon DEF PageWord
<1> QED
  BY <1>1, <1>2, <1>4, <1>5

(* The fields of the registers.                                             *)
LEMMA CoreTypes ==
  ASSUME NEW c \in Cores
  PROVE  /\ c.c \in Offset /\ c.x \in Offset /\ c.y \in Offset /\ c.d \in Offset
         /\ c.s \in Offset /\ c.dbr \in Byte
         /\ c.c \in Nat /\ c.x \in Nat /\ c.y \in Nat /\ c.d \in Nat
         /\ c.s \in Nat /\ c.dbr \in Nat /\ c.dbr * BankSize \in Nat
<1>1. /\ c.c \in Offset /\ c.x \in Offset /\ c.y \in Offset /\ c.d \in Offset
      /\ c.s \in Offset /\ c.dbr \in Byte
  BY DEF Cores
<1>2. c.dbr * BankSize \in Nat
  BY <1>1, Sizes
<1> QED
  BY <1>1, <1>2, Sizes

(* An index is a number.                                                    *)
LEMMA IndexType == ASSUME NEW c \in Cores, NEW mode PROVE Index(c, mode) \in Nat
<1>1. c.x \in Nat /\ c.y \in Nat /\ 0 \in Nat
  BY CoreTypes
<1> QED
  BY <1>1, Zenon DEF Index

(* So is an operand.                                                        *)
LEMMA OperandType ==
  ASSUME NEW mode, NEW v \in Operands(mode) PROVE v \in Nat
BY Sizes DEF Operands

(* The address in the direct page, and a pointer found there.               *)
LEMMA DirectTypes ==
  ASSUME NEW c \in Cores, NEW m \in Memory, NEW v \in Nat, NEW index \in Nat,
         NEW wraps
  PROVE  /\ DirectAddress(c, v, index, wraps).at \in Nat
         /\ DirectPointer(c, m, v, index, wraps) \in Nat
<1>1. DirectAddress(c, v, index, wraps).at \in Nat
  <2>1. Low(index) \in Nat /\ Low(Low(index) + v) \in Nat /\ c.d \in Nat
    BY Sizes, Division, CoreTypes DEF Low
  <2>2. c.d + Low(Low(index) + v) \in Nat /\ c.d + v + index \in Nat
    BY <2>1
  <2> QED
    BY <2>2 DEF DirectAddress
<1>2. DirectPointer(c, m, v, index, wraps) \in Offset
  BY <1>1, ZeroTypes, Zenon DEF DirectPointer
<1> QED
  BY <1>1, <1>2, Sizes

(* And so is every effective address.                                       *)
LEMMA EffectiveType ==
  ASSUME NEW c \in Cores, NEW m \in Memory, NEW mode \in AllModes, NEW v \in Nat,
         NEW kind
  PROVE  EffectiveAddress(c, m, mode, v, kind) \in Nat
<1> DEFINE index == Index(c, mode)
           wraps == Wraps(c, mode, kind)
           data == c.dbr * BankSize
           e == EffectiveAddress(c, m, mode, v, kind)
<1>1. index \in Nat /\ data \in Nat /\ c.d + v \in Nat /\ c.s + v \in Nat
  <2>1. c.d + v \in Nat /\ c.s + v \in Nat
    BY CoreTypes
  <2> QED
    BY <2>1, IndexType, CoreTypes, Zenon
<1>2. ZeroWord(m, c.d + v) \in Nat /\ ZeroWord(m, c.s + v) \in Nat
  BY <1>1, ZeroTypes, Numbers, Zenon
<1>3. LongPointer(m, c.d + v) \in Nat
  <2>1. c.d + v + 2 \in Nat
    BY <1>1
  <2>2. ZeroByte(m, c.d + v + 2) \in Nat
    BY <2>1, ZeroTypes, Numbers, Zenon
  <2>3. BankSize * ZeroByte(m, c.d + v + 2) \in Nat
    BY <2>2, Sizes
  <2> QED
    BY <1>2, <2>3 DEF LongPointer
<1>4. /\ DirectAddress(c, v, index, wraps).at \in Nat
      /\ DirectPointer(c, m, v, index, wraps) \in Nat
      /\ DirectPointer(c, m, v, 0, wraps) \in Nat
  BY <1>1, DirectTypes
<1> DEFINE a1 == DirectAddress(c, v, index, wraps).at
           a2 == c.s + v
           a3 == data + ZeroWord(m, c.d + v)
           a4 == data + DirectPointer(c, m, v, index, wraps)
           a5 == data + DirectPointer(c, m, v, 0, wraps) + index
           a6 == LongPointer(m, c.d + v) + index
           a7 == data + ZeroWord(m, c.s + v) + index
           a8 == data + v + index
           a9 == v + index
<1>5. /\ a1 \in Nat /\ a2 \in Nat /\ a3 \in Nat /\ a4 \in Nat /\ a5 \in Nat
      /\ a6 \in Nat /\ a7 \in Nat /\ a8 \in Nat /\ a9 \in Nat
  BY <1>1, <1>2, <1>3, <1>4
<1> QED
  BY <1>5, Zenon DEF EffectiveAddress, AllModes, BankZeroModes, IndirectModes

-----------------------------------------------------------------------------
(* The direct page                                                          *)

(* Whole pages do not change the low byte.                                  *)
LEMMA LowOfSum ==
  ASSUME NEW p \in Nat, NEW b \in Nat
  PROVE  Low(ByteSize * p + b) = Low(b)
<1> DEFINE q == p + PageOf(b)
           l == Low(b)
           w == ByteSize * p + b
<1>0. ByteSize \in Nat /\ ByteSize >= 1
  BY Sizes
<1>1. /\ ByteSize \in Nat /\ ByteSize >= 1 /\ PageOf(b) \in Nat /\ l \in Nat
      /\ l < ByteSize /\ b = ByteSize * PageOf(b) + l
  BY <1>0, LowAndPage, Zenon
<1>2. w = ByteSize * q + l /\ w \in Nat /\ q \in Nat
  <2> HIDE DEF l
  <2>1. ByteSize * q = ByteSize * p + ByteSize * PageOf(b)
    BY <1>1
  <2>2. ByteSize * p \in Nat /\ ByteSize * PageOf(b) \in Nat
    BY <1>1
  <2> QED
    BY <1>1, <2>1, <2>2
<1> HIDE DEF w, q, l
<1>3. w % ByteSize = l
  BY <1>1, <1>2, Quotient
<1> QED
  BY <1>3 DEF w, l, Low

(* A byte within a page is on that page.                                    *)
LEMMA PageOfSum ==
  ASSUME NEW p \in Nat, NEW l \in Byte
  PROVE  PageOf(ByteSize * p + l) = p
<1> DEFINE w == ByteSize * p + l
<1>1. ByteSize \in Nat /\ ByteSize >= 1 /\ l \in Nat /\ l < ByteSize
  BY Sizes
<1>2. w \in Nat /\ w = ByteSize * p + l
  BY <1>1
<1> HIDE DEF w
<1>3. w \div ByteSize = p
  BY <1>1, <1>2, Quotient
<1> QED
  BY <1>3 DEF w, PageOf

(* Where the k-th byte of what an old mode addresses in the direct page is. *)
DirectCell(c, v, i, wraps, k) ==
  LET a == c.d + v + i + k
  IN  (IF wraps /\ Low(c.d) = 0 THEN PageOf(c.d) * ByteSize + Low(a) ELSE a) % BankSize

(* AddrDirectBase addresses it, and a pointer is read from it, across the   *)
(* end of the page or not (cpu_65c816_instructions.inl, AddrDirectBase).    *)
LEMMA DirectCells ==
  ASSUME NEW c \in Cores, NEW m \in Memory, NEW v \in Nat, NEW i \in Nat, NEW wraps
  PROVE  /\ DirectAddress(c, v, i, wraps).at % BankSize = DirectCell(c, v, i, wraps, 0)
         /\ DirectPointer(c, m, v, i, wraps)
              = m[DirectCell(c, v, i, wraps, 0)]
                  + ByteSize * m[DirectCell(c, v, i, wraps, 1)]
<1> DEFINE p == PageOf(c.d)
           a == c.d + v + i
           at == DirectAddress(c, v, i, wraps).at
<1>1. c.d \in Nat /\ p \in Nat /\ a \in Nat /\ a + 1 \in Nat
  BY CoreTypes, LowAndPage
<1>2. CASE ~(wraps /\ Low(c.d) = 0)
  <2>1. DirectAddress(c, v, i, wraps) = [at |-> a, inPage |-> FALSE]
    BY <1>2, Zenon DEF DirectAddress
  <2>2. /\ DirectCell(c, v, i, wraps, 0) = (a + 0) % BankSize
        /\ DirectCell(c, v, i, wraps, 1) = (a + 1) % BankSize
    BY <1>2, Zenon DEF DirectCell
  <2>3. a + 0 = a
    BY <1>1
  <2>4. DirectPointer(c, m, v, i, wraps) = ZeroWord(m, a)
    BY <2>1 DEF DirectPointer
  <2> QED
    BY <2>1, <2>2, <2>3, <2>4 DEF ZeroWord, ZeroByte
<1>3. CASE wraps /\ Low(c.d) = 0
  <2> DEFINE l == Low(Low(i) + v)
  <2>1. DirectAddress(c, v, i, wraps) = [at |-> c.d + l, inPage |-> TRUE]
    BY <1>3, Zenon DEF DirectAddress
  <2>2. c.d = ByteSize * p /\ p * ByteSize = ByteSize * p
    <3>1. c.d = ByteSize * p + Low(c.d)
      BY <1>1, LowAndPage, Zenon
    <3> QED
      BY <1>1, <1>3, <3>1, Sizes
  <2>3. \A k \in {0, 1} : Low(a + k) = Low((v + i) + k)
    <3> TAKE k \in {0, 1}
    <3>1. (v + i) + k \in Nat
      OBVIOUS
    <3>2. a + k = ByteSize * p + ((v + i) + k)
      <4> HIDE DEF p
      <4> QED
        BY <1>1, <2>2
    <3> QED
      BY <1>1, <3>1, <3>2, LowOfSum
  <2>4. l = Low(v + i)
    <3>1. ByteSize \in Nat /\ ByteSize >= 1 /\ i + v = v + i
      BY Sizes
    <3>2. ((i % ByteSize) + v) % ByteSize = (i + v) % ByteSize
      BY <3>1, Residue
    <3> QED
      BY <3>1, <3>2 DEF Low
  <2>5. l \in Byte /\ l \in Nat
    <3>1. v + i \in Nat
      OBVIOUS
    <3> QED
      BY <2>4, <3>1, LowAndPage, Zenon
  <2>6. DirectCell(c, v, i, wraps, 0) = (c.d + l) % BankSize
    <3>1. DirectCell(c, v, i, wraps, 0) = (p * ByteSize + Low(a + 0)) % BankSize
      BY <1>3, Zenon DEF DirectCell
    <3>2. (v + i) + 0 = v + i
      OBVIOUS
    <3>3. Low(a + 0) = l
      BY <2>3, <2>4, <3>2, Zenon
    <3> QED
      BY <2>2, <3>1, <3>3, Zenon
  <2>7. DirectCell(c, v, i, wraps, 1)
          = (PageOf(c.d + l) * ByteSize + Low((c.d + l) + 1)) % BankSize
    <3>1. DirectCell(c, v, i, wraps, 1) = (p * ByteSize + Low(a + 1)) % BankSize
      BY <1>3, Zenon DEF DirectCell
    <3>2. PageOf(c.d + l) = p
      BY <1>1, <2>2, <2>5, PageOfSum, Zenon
    <3>3. Low((c.d + l) + 1) = Low(l + 1)
      <4>1. (c.d + l) + 1 = c.d + (l + 1) /\ l + 1 \in Nat
        <5> HIDE DEF l
        <5> QED
          BY <1>1, <2>5
      <4>2. Low(ByteSize * p + (l + 1)) = Low(l + 1)
        BY <1>1, <4>1, LowOfSum, Zenon
      <4> QED
        BY <2>2, <4>1, <4>2, Zenon
    <3>4. Low(l + 1) = Low((v + i) + 1)
      <4>1. ByteSize \in Nat /\ ByteSize >= 1 /\ v + i \in Nat /\ 1 \in Nat
        BY Sizes
      <4>2. (((v + i) % ByteSize) + 1) % ByteSize = ((v + i) + 1) % ByteSize
        BY <4>1, Residue, Zenon
      <4> QED
        BY <2>4, <4>2, Zenon DEF Low
    <3>5. Low(a + 1) = Low((v + i) + 1)
      BY <2>3, Zenon
    <3> QED
      BY <3>1, <3>2, <3>3, <3>4, <3>5, Zenon
  <2>8. DirectPointer(c, m, v, i, wraps) = PageWord(m, c.d + l)
    BY <2>1 DEF DirectPointer
  <2>9. at = c.d + l
    BY <2>1
  <2> QED
    BY <2>6, <2>7, <2>8, <2>9, Zenon DEF PageWord, ZeroByte
<1> QED
  BY <1>2, <1>3

(* It is one of memory's.                                                   *)
LEMMA DirectCellType ==
  ASSUME NEW c \in Cores, NEW v \in Nat, NEW i \in Nat, NEW wraps, NEW k \in {0, 1}
  PROVE  DirectCell(c, v, i, wraps, k) \in Addresses
<1> DEFINE a == c.d + v + i + k
<1>1. c.d \in Nat
  BY CoreTypes
<1>2. a \in Nat
  BY <1>1
<1>3. PageOf(c.d) \in Nat /\ Low(a) \in Nat
  BY <1>1, <1>2, LowAndPage, Zenon
<1>4. PageOf(c.d) * ByteSize \in Nat
  BY <1>3, Sizes
<1>5. PageOf(c.d) * ByteSize + Low(a) \in Nat
  <2> HIDE DEF a
  <2> QED
    BY <1>3, <1>4
<1>6. \A b \in Nat : b % BankSize \in Addresses
  <2> TAKE b \in Nat
  <2>1. b % BankSize \in Nat /\ b % BankSize < BankSize
    BY Sizes, Division
  <2> QED
    BY <2>1, Sizes
<1> QED
  BY <1>2, <1>5, <1>6, Zenon DEF DirectCell

(* Of the index, what is added in the direct page.                          *)
IndexWithin(c, mode) == IF mode = "(direct),y" THEN 0 ELSE Index(c, mode)

(* What the old modes make of it.                                           *)
LEMMA OldModes ==
  ASSUME NEW c \in Cores, NEW m \in Memory, NEW v \in Nat, NEW mode \in WrappingModes,
         NEW kind
  PROVE  LET at == EffectiveAddress(c, m, mode, v, kind)
             cell(k) == DirectCell(c, v, IndexWithin(c, mode), Wraps(c, mode, kind), k)
         IN  IF mode \in DirectModes
             THEN ReadCell(mode, at, 0) = cell(0)
             ELSE at = c.dbr * BankSize + m[cell(0)] + ByteSize * m[cell(1)]
                       + IF mode = "(direct),y" THEN c.y ELSE 0
<1> DEFINE i == IndexWithin(c, mode)
           wraps == Wraps(c, mode, kind)
           at == EffectiveAddress(c, m, mode, v, kind)
           data == c.dbr * BankSize
           pointer == DirectPointer(c, m, v, i, wraps)
           m0 == m[DirectCell(c, v, i, wraps, 0)]
           m1 == ByteSize * m[DirectCell(c, v, i, wraps, 1)]
<1>1. i \in Nat /\ c.y \in Nat /\ data \in Nat
  BY IndexType, CoreTypes DEF IndexWithin
<1>2. /\ DirectAddress(c, v, i, wraps).at % BankSize = DirectCell(c, v, i, wraps, 0)
      /\ pointer = m0 + m1
  <2>1. \A j \in Nat : \A w :
          /\ DirectAddress(c, v, j, w).at % BankSize = DirectCell(c, v, j, w, 0)
          /\ DirectPointer(c, m, v, j, w)
               = m[DirectCell(c, v, j, w, 0)] + ByteSize * m[DirectCell(c, v, j, w, 1)]
    BY DirectCells
  <2> QED
    BY <1>1, <2>1, Zenon
<1>3. m0 \in Nat /\ m1 \in Nat
  <2>1. \A k \in {0, 1} : m[DirectCell(c, v, i, wraps, k)] \in Byte
    BY <1>1, DirectCellType DEF Memory
  <2>2. \A k \in {0, 1} : m[DirectCell(c, v, i, wraps, k)] \in Nat
    BY <2>1, Numbers, Zenon
  <2> DEFINE b0 == m[DirectCell(c, v, i, wraps, 0)]
             b1 == m[DirectCell(c, v, i, wraps, 1)]
  <2>3. b0 \in Nat /\ b1 \in Nat
    BY <2>2, Zenon
  <2>4. ByteSize * b1 \in Nat
    <3> HIDE DEF b1
    <3> QED
      BY <2>3, Sizes
  <2> QED
    BY <2>3, <2>4, Zenon
<1>4. CASE mode \in DirectModes
  <2>1. at = DirectAddress(c, v, i, wraps).at
    <3>1. i = Index(c, mode)
      BY <1>4 DEF DirectModes, IndexWithin
    <3>2. at = DirectAddress(c, v, Index(c, mode), Wraps(c, mode, kind)).at
      BY <1>4, Zenon DEF EffectiveAddress, DirectModes, AbsoluteModes, LongModes
    <3> QED
      BY <3>1, <3>2, Zenon
  <2>2. at \in Nat
    BY <1>1, <2>1, DirectTypes, Zenon
  <2> HIDE DEF at
  <2>3. ReadCell(mode, at, 0) = (at + 0) % BankSize
    BY <1>4, Zenon DEF ReadCell, BankZeroModes
  <2>4. at + 0 = at
    BY <2>2
  <2> QED
    BY <1>2, <1>4, <2>1, <2>3, <2>4, Zenon DEF at
<1>5. CASE mode = "(direct,x)"
  <2>1. i = Index(c, mode)
    BY <1>5 DEF IndexWithin
  <2>2. at = data + DirectPointer(c, m, v, Index(c, mode), Wraps(c, mode, kind))
    BY <1>5, Zenon DEF EffectiveAddress, DirectModes, AbsoluteModes, LongModes
  <2>3. at = data + pointer
    BY <2>1, <2>2, Zenon
  <2> HIDE DEF at, data, pointer, m0, m1
  <2>4. at = data + m0 + m1 + 0
    BY <1>1, <1>2, <1>3, <2>3
  <2> QED
    BY <1>5, <2>4 DEF at, data, m0, m1, DirectModes
<1>6. CASE mode = "(direct),y"
  <2>1. i = 0 /\ Index(c, mode) = c.y
    BY <1>6, Zenon DEF Index, IndexWithin
  <2>2. at = data + DirectPointer(c, m, v, 0, Wraps(c, mode, kind)) + Index(c, mode)
    BY <1>6, Zenon DEF EffectiveAddress, DirectModes, AbsoluteModes, LongModes
  <2>3. at = data + pointer + c.y
    BY <2>1, <2>2, Zenon
  <2> HIDE DEF at, data, pointer, m0, m1
  <2>4. at = data + m0 + m1 + c.y
    BY <1>1, <1>2, <1>3, <2>3
  <2> QED
    BY <1>6, <2>4 DEF at, data, m0, m1, DirectModes
<1> QED
  BY <1>4, <1>5, <1>6 DEF WrappingModes

(* So the rule, and what departs from it, hold of any registers and any     *)
(* memory.                                                                  *)
LEMMA DirectPage == AddressingType => DirectPageRule
<1> SUFFICES ASSUME AddressingType, NEW kind \in Kinds,
                    NEW mode \in KindModes(core.table, kind) \cap WrappingModes, NEW v \in Byte
             PROVE  LET wrapped == /\ WrapsByRule(core, kind) <=> ~DepartsFromRule(core, kind)
                                   /\ Low(core.d) = 0
                        index == IF mode = "(direct),y" THEN 0 ELSE Index(core, mode)
                        cell(k) == LET a == core.d + v + index + k
                                   IN  (IF wrapped THEN PageOf(core.d) * ByteSize + Low(a)
                                        ELSE a) % BankSize
                        at == EffectiveAddress(core, mem, mode, v, kind)
                    IN  IF mode \in DirectModes THEN ReadCell(mode, at, 0) = cell(0)
                        ELSE at = core.dbr * BankSize + mem[cell(0)] + ByteSize * mem[cell(1)]
                                  + IF mode = "(direct),y" THEN core.y ELSE 0
  BY Zenon DEF DirectPageRule
<1>1. core \in Cores /\ mem \in Memory /\ v \in Nat /\ mode \in WrappingModes
  BY Numbers, Zenon DEF AddressingType
<1> DEFINE w == WrapsByRule(core, kind) <=> ~DepartsFromRule(core, kind)
           i == IndexWithin(core, mode)
           cell(k) == LET a == core.d + v + i + k
                      IN  (IF w /\ Low(core.d) = 0 THEN PageOf(core.d) * ByteSize + Low(a)
                           ELSE a) % BankSize
<1>2. w = Wraps(core, mode, kind)
  BY <1>1 DEF Wraps, WrapsByRule, DepartsFromRule, Kinds
<1>3. \A k : cell(k) = DirectCell(core, v, i, Wraps(core, mode, kind), k)
  <2> HIDE DEF w
  <2> QED
    BY <1>2, Zenon DEF DirectCell
<1>4. LET at == EffectiveAddress(core, mem, mode, v, kind)
      IN  IF mode \in DirectModes THEN ReadCell(mode, at, 0) = cell(0)
          ELSE at = core.dbr * BankSize + mem[cell(0)] + ByteSize * mem[cell(1)]
                    + IF mode = "(direct),y" THEN core.y ELSE 0
  <2> DEFINE at == EffectiveAddress(core, mem, mode, v, kind)
             d(k) == DirectCell(core, v, i, Wraps(core, mode, kind), k)
  <2>1. IF mode \in DirectModes THEN ReadCell(mode, at, 0) = d(0)
        ELSE at = core.dbr * BankSize + mem[d(0)] + ByteSize * mem[d(1)]
                  + IF mode = "(direct),y" THEN core.y ELSE 0
    BY <1>1, OldModes, ZenonT(40)
  <2>2. cell(0) = d(0) /\ cell(1) = d(1)
    BY <1>3, Zenon
  <2> HIDE DEF cell, d
  <2> QED
    BY <2>1, <2>2, Zenon
<1> QED
  BY <1>4, Zenon DEF IndexWithin

-----------------------------------------------------------------------------
(* Loads and stores                                                         *)

(* Where the bytes of an operand are, two different places for two bytes.   *)
LEMMA Cells ==
  ASSUME NEW mode, NEW a \in Nat
  PROVE  /\ ReadCell(mode, a, 0) \in Addresses /\ ReadCell(mode, a, 1) \in Addresses
         /\ ReadCell(mode, a, 0) # ReadCell(mode, a, 1)
         /\ \A k : WriteCell(mode, a, k) = ReadCell(mode, a, k)
<1> DEFINE M == IF mode \in BankZeroModes THEN BankSize ELSE ByteSize * BankSize
<1>1. M \in Nat /\ M >= 2 /\ M >= 1 /\ M <= ByteSize * BankSize
  BY Sizes
<1>2. \A k : ReadCell(mode, a, k) = (a + k) % M /\ WriteCell(mode, a, k) = (a + k) % M
  BY Zenon DEF ReadCell, WriteCell
<1> HIDE DEF M
<1>3. \A b \in Nat : b % M \in Addresses
  <2> TAKE b \in Nat
  <2>1. b % M \in Nat /\ b % M < M
    BY <1>1, Division
  <2> QED
    BY <1>1, <2>1, Sizes
<1>4. a + 0 = a /\ a + 1 \in Nat
  OBVIOUS
<1>5. (a + 1) % M # a % M
  BY <1>1, NextByte
<1> QED
  BY <1>2, <1>3, <1>4, <1>5, Zenon

(* An operand is as wide as it is read.                                     *)
LEMMA ReadType ==
  ASSUME NEW m \in Memory, NEW mode, NEW a \in Nat, NEW n \in 1 .. 2
  PROVE  ReadAt(m, mode, a, n) \in IF n = 2 THEN Offset ELSE Byte
<1>1. m[ReadCell(mode, a, 0)] \in Byte /\ m[ReadCell(mode, a, 1)] \in Byte
  BY Cells, Zenon DEF Memory
<1>2. CASE n = 2
  <2>1. ReadAt(m, mode, a, n)
          = m[ReadCell(mode, a, 0)] + ByteSize * m[ReadCell(mode, a, 1)]
    BY <1>2, Zenon DEF ReadAt
  <2> QED
    BY <1>1, <1>2, <2>1, Joined, Zenon
<1>3. CASE n # 2
  <2>1. ReadAt(m, mode, a, n) = m[ReadCell(mode, a, 0)] + 0
    BY <1>3, Zenon DEF ReadAt
  <2>2. m[ReadCell(mode, a, 0)] \in Nat
    BY <1>1, Numbers, Zenon
  <2>3. m[ReadCell(mode, a, 0)] + 0 = m[ReadCell(mode, a, 0)]
    BY <2>2
  <2> QED
    BY <1>1, <1>3, <2>1, <2>3, Zenon
<1> QED
  BY <1>2, <1>3

(* A store leaves bytes in memory.                                          *)
LEMMA PutType ==
  ASSUME NEW m \in Memory, NEW a, NEW b \in Byte
  PROVE  Put(m, a, b) \in Memory
BY Sizes DEF Put, Memory

(* Of an operand of one byte or two.                                        *)
LEMMA WriteType ==
  ASSUME NEW m \in Memory, NEW mode, NEW a, NEW n, NEW w \in Offset
  PROVE  WriteAt(m, mode, a, n, w) \in Memory
<1>1. Low(w) \in Byte /\ PageOf(w) \in Byte
  BY Halves
<1>2. Put(m, WriteCell(mode, a, 0), Low(w)) \in Memory
  BY <1>1, PutType
<1> QED
  BY <1>1, <1>2, PutType, Zenon DEF WriteAt

(* An 8-bit register keeps its high byte.                                   *)
LEMMA SetLowType ==
  ASSUME NEW w \in Offset, NEW n, NEW b \in IF n = 2 THEN Offset ELSE Byte
  PROVE  SetLow(w, n, b) \in Offset
<1>1. CASE n = 2
  BY <1>1 DEF SetLow
<1>2. CASE n # 2
  <2> DEFINE l == Low(w)
             h == ByteSize * PageOf(w)
  <2>1. l \in Nat /\ PageOf(w) \in Byte /\ w = l + h
    BY Halves, Numbers, Zenon
  <2>2. h \in Nat
    BY <2>1, Sizes
  <2>3. b \in Byte /\ b \in Nat
    BY <1>2, Numbers
  <2>4. SetLow(w, n, b) = w - l + b
    BY <1>2, Zenon DEF SetLow
  <2>5. b + h \in Offset
    BY <2>1, <2>3, Joined, Zenon
  <2> HIDE DEF l, h
  <2> QED
    BY <2>1, <2>2, <2>3, <2>4, <2>5
<1> QED
  BY <1>1, <1>2

(* What a store put into Ram a load of the same bytes finds.                *)
LEMMA WrittenIsRead ==
  ASSUME NEW m \in Memory, NEW mode, NEW a \in Nat, NEW n \in 1 .. 2, NEW w \in Offset,
         \A k \in 0 .. n - 1 : ReadCell(mode, a, k) \in Ram
  PROVE  ReadAt(WriteAt(m, mode, a, n, w), mode, a, n) = IF n = 2 THEN w ELSE Low(w)
<1> DEFINE r0 == ReadCell(mode, a, 0)
           r1 == ReadCell(mode, a, 1)
           low == Put(m, r0, Low(w))
           after == WriteAt(m, mode, a, n, w)
<1>1. /\ r0 \in Addresses /\ r1 \in Addresses /\ r0 # r1
      /\ WriteCell(mode, a, 0) = r0 /\ WriteCell(mode, a, 1) = r1
  BY Cells, Zenon
<1>2. r0 \in Ram /\ (n = 2 => r1 \in Ram)
  <2>1. 0 \in 0 .. n - 1 /\ (n = 2 => 1 \in 0 .. n - 1)
    OBVIOUS
  <2> QED
    BY <2>1, Zenon
<1>3. Low(w) \in Byte /\ Low(w) \in Nat /\ PageOf(w) \in Byte
      /\ w = Low(w) + ByteSize * PageOf(w)
  BY Halves, Numbers, Zenon
<1>4. low = [m EXCEPT ![r0] = Low(w)]
  BY <1>2, Zenon DEF Put
<1>5. CASE n = 2
  <2>1. after = Put(low, r1, PageOf(w))
    BY <1>1, <1>5, Zenon DEF WriteAt
  <2>2. after = [low EXCEPT ![r1] = PageOf(w)]
    BY <1>2, <1>5, <2>1, Zenon DEF Put
  <2>3. after[r0] = Low(w) /\ after[r1] = PageOf(w)
    <3> HIDE DEF low, after, r0, r1
    <3> QED
      BY <1>1, <1>4, <2>2 DEF Memory
  <2>4. ReadAt(after, mode, a, n) = after[r0] + ByteSize * after[r1]
    BY <1>5, Zenon DEF ReadAt
  <2> QED
    BY <1>3, <1>5, <2>3, <2>4, Zenon
<1>6. CASE n # 2
  <2>1. after = low
    BY <1>1, <1>6, Zenon DEF WriteAt
  <2>2. after[r0] = Low(w)
    <3> HIDE DEF low, after, r0, r1
    <3> QED
      BY <1>1, <1>4, <2>1 DEF Memory
  <2>3. ReadAt(after, mode, a, n) = after[r0] + 0
    BY <1>6, Zenon DEF ReadAt
  <2>4. Low(w) + 0 = Low(w)
    BY <1>3
  <2> QED
    BY <1>6, <2>2, <2>3, <2>4, Zenon
<1> QED
  BY <1>5, <1>6

(* The modes of an opcode table are modes, for instructions of any kind.    *)
LEMMA TableModes ==
  /\ \A table : ModesOf(table) \subseteq AllModes
  /\ \A table, kind : KindModes(table, kind) \subseteq AllModes
<1>1. \A table : ModesOf(table) \subseteq AllModes
  BY DEF ModesOf, AllModes, WrappingModes, BankZeroModes, IndirectModes
<1> QED
  BY <1>1 DEF KindModes, AllModes, BankZeroModes, DirectModes, AbsoluteModes

(* In every mode, for any registers and any memory.                         *)
LEMMA LoadFindsStore == AddressingType => StoredIsLoaded
<1> SUFFICES ASSUME AddressingType,
                    NEW mode \in ModesOf(core.table), NEW v \in Operands(mode),
                    NEW n \in Widths(core),
                    \A k \in 0 .. n - 1 :
                      ReadCell(mode, EffectiveAddress(core, mem, mode, v, "old"), k) \in Ram,
                    EffectiveAddress(core, Stored(core, mem, mode, v, n, "old", core.c),
                                     mode, v, "old")
                      = EffectiveAddress(core, mem, mode, v, "old")
             PROVE  Loaded(core, Stored(core, mem, mode, v, n, "old", core.c), mode, v, n, "old")
                      = IF n = 2 THEN core.c ELSE Low(core.c)
  BY Zenon DEF StoredIsLoaded
<1> DEFINE at == EffectiveAddress(core, mem, mode, v, "old")
           after == Stored(core, mem, mode, v, n, "old", core.c)
<1>1. core \in Cores /\ mem \in Memory /\ core.c \in Offset
  BY CoreTypes DEF AddressingType
<1>2. n \in 1 .. 2
  BY DEF Widths
<1>3. mode \in AllModes
  BY TableModes
<1>4. v \in Nat
  BY OperandType
<1>5. at \in Nat
  BY <1>1, <1>3, <1>4, EffectiveType, Zenon
<1>6. after = WriteAt(mem, mode, at, n, core.c)
  BY Zenon DEF Stored
<1>7. Loaded(core, after, mode, v, n, "old") = ReadAt(after, mode, at, n)
  BY Zenon DEF Loaded
<1>8. \A k \in 0 .. n - 1 : ReadCell(mode, at, k) \in Ram
  OBVIOUS
<1>9. ReadAt(WriteAt(mem, mode, at, n, core.c), mode, at, n)
        = IF n = 2 THEN core.c ELSE Low(core.c)
  <2> HIDE DEF at
  <2> QED
    BY <1>1, <1>2, <1>5, <1>8, WrittenIsRead
<1> QED
  BY <1>6, <1>7, <1>9, Zenon

-----------------------------------------------------------------------------
(* Steps                                                                    *)

(* A bank and an offset in it are an address.                               *)
LEMMA BankedAddress ==
  ASSUME NEW b \in Byte, NEW w \in Offset
  PROVE  b * BankSize + w \in Addresses
<1>1. b \in Nat /\ b <= ByteSize - 1 /\ w \in Nat /\ w <= BankSize - 1
      /\ ByteSize \in Nat /\ BankSize \in Nat
  BY Sizes
<1>2. b * BankSize <= (ByteSize - 1) * BankSize
  BY <1>1
<1>3. (ByteSize - 1) * BankSize = ByteSize * BankSize - BankSize
  BY <1>1
<1>4. b * BankSize \in Nat /\ ByteSize * BankSize \in Nat
  BY <1>1
<1>5. b * BankSize + w <= (ByteSize * BankSize) - 1 /\ b * BankSize + w \in Nat
  BY <1>1, <1>2, <1>3, <1>4
<1> QED
  BY <1>4, <1>5, Sizes

(* What LDA loads and LAX is as wide as it is read.                         *)
LEMMA LoadedType ==
  ASSUME AddressingType, NEW mode \in AllModes, NEW v \in Operands(mode),
         NEW n \in 1 .. 2, NEW kind
  PROVE  Loaded(core, mem, mode, v, n, kind) \in IF n = 2 THEN Offset ELSE Byte
<1>1. EffectiveAddress(core, mem, mode, v, kind) \in Nat
  BY OperandType, EffectiveType DEF AddressingType
<1> QED
  BY <1>1, ReadType, Zenon DEF AddressingType, Loaded

(* Counting an offset up or down stays in its bank.                         *)
LEMMA MovedOffset ==
  ASSUME NEW w \in Nat, NEW i \in Nat PROVE (w + i) % BankSize \in Offset
<1>1. w + i \in Nat /\ BankSize \in Nat /\ BankSize >= 1
  BY Sizes
<1> DEFINE a == w + i
<1>2. a % BankSize \in Nat /\ a % BankSize < BankSize
  <2> HIDE DEF a
  <2> QED
    BY <1>1, Division DEF a
<1> QED
  BY <1>1, <1>2, Sizes

(* The fields of a move in progress.                                        *)
LEMMA MoveFields ==
  ASSUME NEW t \in MoveStates
  PROVE  /\ t.c \in Offset /\ t.x \in Offset /\ t.y \in Offset /\ t.dbr \in Byte /\ t.mem \in Memory
         /\ t.c \in Nat /\ t.x \in Nat /\ t.y \in Nat
         /\ \A b \in Byte : [t EXCEPT !.dbr = b] \in MoveStates
<1>1. /\ t.c \in Offset /\ t.x \in Offset /\ t.y \in Offset /\ t.dbr \in Byte /\ t.mem \in Memory
      /\ \A b \in Byte : [t EXCEPT !.dbr = b] \in MoveStates
  BY DEF MoveStates, Memory
<1> QED
  BY <1>1, Numbers

(* Moving a byte leaves a move in progress.                                 *)
LEMMA ByteMoved ==
  ASSUME NEW t \in MoveStates, NEW src \in Byte, NEW dst \in Byte, NEW increment \in Increments
  PROVE  MoveByte(t, src, dst, increment) \in MoveStates
<1>1. BankSize - 1 \in Nat /\ increment \in Nat
  BY Sizes DEF Increments
<1>2. (t.c + BankSize - 1) % BankSize \in Offset
  <2>1. t.c + BankSize - 1 = t.c + (BankSize - 1)
    BY MoveFields, Sizes
  <2> QED
    BY <1>1, <2>1, MoveFields, MovedOffset
<1>3. (t.x + increment) % BankSize \in Offset /\ (t.y + increment) % BankSize \in Offset
  BY <1>1, MoveFields, MovedOffset, Zenon
<1>4. Put(t.mem, dst * BankSize + t.y, t.mem[src * BankSize + t.x]) \in Memory
  <2>1. t.mem[src * BankSize + t.x] \in Byte
    BY MoveFields, BankedAddress, Zenon DEF Memory
  <2> QED
    BY <2>1, MoveFields, PutType, Zenon
<1> QED
  BY <1>2, <1>3, <1>4, MoveFields, Zenon DEF MoveByte, MoveStates, Memory

(* One step of a block move.                                                *)
LEMMA MoveType ==
  ASSUME AddressingType, NEW src \in Byte, NEW dst \in Byte, NEW increment \in Increments
  PROVE  Moving \in MoveStates /\ BlockMove(Moving, src, dst, increment) \in MoveStates
<1> DEFINE s == Moving
           next == MoveByte(s, src, dst, increment)
<1>1. s \in MoveStates
  BY CoreTypes DEF AddressingType, Moving, MoveStates, Memory
<1>2. next \in MoveStates
  BY <1>1, ByteMoved
<1>3. [next EXCEPT !.dbr = dst] \in MoveStates
  <2> HIDE DEF next
  <2> QED
    BY <1>2, MoveFields
<1> QED
  BY <1>1, <1>3, Zenon DEF BlockMove

(* At the start.                                                            *)
LEMMA AddressingTypeInit == AddressingInit => AddressingType
<1> SUFFICES ASSUME AddressingInit PROVE AddressingType
  OBVIOUS
<1> DEFINE start == ByteSize + ((2 * ByteSize - 3) % ByteSize)
<1>1. start \in Offset /\ 0 \in Offset /\ 0 \in Byte
  <2>1. 2 * ByteSize - 3 \in Nat /\ ByteSize \in Nat /\ ByteSize >= 1
    BY Sizes
  <2> DEFINE a == 2 * ByteSize - 3
  <2>2. a % ByteSize \in Nat /\ a % ByteSize < ByteSize
    <3> HIDE DEF a
    <3> QED
      BY <2>1, Division DEF a
  <2>3. 2 * ByteSize <= ByteSize * ByteSize /\ ByteSize * ByteSize \in Nat
    BY Sizes
  <2> HIDE DEF a
  <2>4. start = ByteSize + (a % ByteSize)
    BY DEF a
  <2>5. start \in Nat /\ start < ByteSize * ByteSize
    BY <2>1, <2>2, <2>3, <2>4
  <2> HIDE DEF start
  <2> QED
    BY <2>1, <2>5, Sizes
<1> HIDE DEF start
<1>2. PICK table \in {"emulation", "6502"} :
        core = [c |-> 0, x |-> 0, y |-> 0, d |-> 0, s |-> start, dbr |-> 0, table |-> table]
  BY DEF AddressingInit, start
<1>3. core \in Cores
  BY <1>1, <1>2 DEF Cores
<1> QED
  BY <1>3, Sizes DEF AddressingInit, AddressingType, Memory

(* And after every instruction.                                             *)
LEMMA AddressingTypeNext ==
  AddressingType /\ [AddressingNext]_<<core, mem>> => AddressingType'
<1> SUFFICES ASSUME AddressingType, [AddressingNext]_<<core, mem>>
             PROVE  AddressingType'
  OBVIOUS
<1>0. /\ core \in Cores /\ mem \in Memory /\ core.c \in Offset /\ core.x \in Offset
      /\ core.y \in Offset
  BY CoreTypes DEF AddressingType
<1>1. CASE LoadA
  <2>1. PICK mode \in ModesOf(core.table) : \E v \in Operands(mode), n \in Widths(core) :
          core' = [core EXCEPT !.c = SetLow(@, n, Loaded(core, mem, mode, v, n, "old"))]
    BY <1>1, Zenon DEF LoadA
  <2>2. PICK v \in Operands(mode), n \in Widths(core) :
          core' = [core EXCEPT !.c = SetLow(@, n, Loaded(core, mem, mode, v, n, "old"))]
    BY <2>1, Zenon
  <2> DEFINE r == SetLow(core.c, n, Loaded(core, mem, mode, v, n, "old"))
  <2>3. mode \in AllModes
    BY TableModes
  <2>6. n \in 1 .. 2
    BY DEF Widths
  <2>4. r \in Offset
    BY <1>0, <2>3, <2>6, LoadedType, SetLowType, Zenon
  <2>5. core' = [core EXCEPT !.c = r]
    BY <2>2, Zenon
  <2> HIDE DEF r
  <2> QED
    BY <1>0, <1>1, <2>4, <2>5 DEF LoadA, AddressingType, Cores
<1>2. CASE StoreA
  <2>1. PICK mode \in ModesOf(core.table) : \E v \in Operands(mode), n \in Widths(core) :
          mem' = Stored(core, mem, mode, v, n, "old", core.c)
    BY <1>2, Zenon DEF StoreA
  <2>2. mem' \in Memory
    BY <1>0, <2>1, WriteType, Zenon DEF Stored
  <2> QED
    BY <1>0, <1>2, <2>2 DEF StoreA, AddressingType
<1>3. CASE LoadImmediate
  <2>0. PICK n \in Widths(core) : \E v \in IF n = 2 THEN Offset ELSE Byte :
          \/ core' = [core EXCEPT !.c = SetLow(@, n, v)]
          \/ core' = [core EXCEPT !.x = SetLow(@, n, v)]
          \/ core' = [core EXCEPT !.y = SetLow(@, n, v)]
    BY <1>3, Zenon DEF LoadImmediate
  <2>1. PICK v \in IF n = 2 THEN Offset ELSE Byte :
          \/ core' = [core EXCEPT !.c = SetLow(@, n, v)]
          \/ core' = [core EXCEPT !.x = SetLow(@, n, v)]
          \/ core' = [core EXCEPT !.y = SetLow(@, n, v)]
    BY <2>0, Zenon
  <2>2. /\ SetLow(core.c, n, v) \in Offset /\ SetLow(core.x, n, v) \in Offset
        /\ SetLow(core.y, n, v) \in Offset
    BY <1>0, SetLowType, Zenon
  <2> QED
    BY <1>0, <1>3, <2>1, <2>2 DEF LoadImmediate, AddressingType, Cores
<1>4. CASE LoadAX
  <2>6. 1 \in 1 .. 2 /\ 1 # 2
    OBVIOUS
  <2>0. PICK mode \in KindModes("6502", "undocumented") :
          \E v \in Operands(mode) :
            LET b == Loaded(core, mem, mode, v, 1, "undocumented")
            IN  core' = [core EXCEPT !.c = SetLow(@, 1, b), !.x = SetLow(@, 1, b)]
    BY <1>4, Zenon DEF LoadAX
  <2>1. PICK v \in Operands(mode) :
          LET b == Loaded(core, mem, mode, v, 1, "undocumented")
          IN  core' = [core EXCEPT !.c = SetLow(@, 1, b), !.x = SetLow(@, 1, b)]
    BY <2>0, Zenon
  <2> DEFINE b == Loaded(core, mem, mode, v, 1, "undocumented")
  <2>2. mode \in AllModes
    BY TableModes, Zenon
  <2>3. b \in Byte
    BY <2>2, <2>6, LoadedType, Zenon
  <2>4. SetLow(core.c, 1, b) \in Offset /\ SetLow(core.x, 1, b) \in Offset
    <3> HIDE DEF b
    <3> QED
      BY <1>0, <2>6, <2>3, SetLowType, Zenon
  <2>5. core' = [core EXCEPT !.c = SetLow(core.c, 1, b), !.x = SetLow(core.x, 1, b)]
    BY <2>1, Zenon
  <2> HIDE DEF b
  <2> QED
    BY <1>0, <1>4, <2>4, <2>5 DEF LoadAX, AddressingType, Cores
<1>5. CASE StoreAX
  <2>1. PICK mode \in {"direct", "direct,y", "(direct,x)", "abs"}, b \in Byte :
          \E v \in Operands(mode) : mem' = Stored(core, mem, mode, v, 1, "undocumented", b)
    BY <1>5, Zenon DEF StoreAX
  <2>2. b \in Offset
    BY Numbers, Zenon
  <2>3. mem' \in Memory
    BY <1>0, <2>1, <2>2, WriteType, Zenon DEF Stored
  <2> QED
    BY <1>0, <1>5, <2>3 DEF StoreAX, AddressingType
<1>6. CASE TCD
  BY <1>0, <1>6 DEF TCD, AddressingType, Cores
<1>7. CASE PLB
  BY <1>0, <1>7 DEF PLB, AddressingType, Cores
<1>8. CASE ChangeMode
  <2>1. Low(core.x) \in Offset /\ Low(core.y) \in Offset
    <3>1. Low(core.x) \in Byte /\ Low(core.y) \in Byte
      BY <1>0, Halves
    <3> QED
      BY <3>1, Sizes
  <2> QED
    BY <1>0, <1>8, <2>1 DEF ChangeMode, AddressingType, Cores
<1>9. CASE MoveBlock
  <2>1. PICK src \in Byte, dst \in Byte, increment \in Increments :
          LET s == BlockMove(Moving, src, dst, increment)
          IN  /\ core' = [core EXCEPT !.c = s.c, !.x = s.x, !.y = s.y, !.dbr = s.dbr]
              /\ mem' = s.mem
    BY <1>9, Zenon DEF MoveBlock
  <2> DEFINE s == BlockMove(Moving, src, dst, increment)
  <2>2. s \in MoveStates
    BY MoveType
  <2>3. /\ core' = [core EXCEPT !.c = s.c, !.x = s.x, !.y = s.y, !.dbr = s.dbr]
        /\ mem' = s.mem
    BY <2>1
  <2> HIDE DEF s
  <2> QED
    BY <1>0, <2>2, <2>3 DEF MoveStates, AddressingType, Cores, Memory
<1>10. CASE StoreZero
  <2>1. PICK mode \in KindModes(core.table, "later") :
          \E v \in Operands(mode), n \in Widths(core) :
            mem' = Stored(core, mem, mode, v, n, "later", 0)
    BY <1>10, Zenon DEF StoreZero
  <2>2. 0 \in Offset
    BY Sizes
  <2>3. mem' \in Memory
    BY <1>0, <2>1, <2>2, WriteType, Zenon DEF Stored
  <2> QED
    BY <1>0, <1>10, <2>3 DEF StoreZero, AddressingType
<1>11. CASE UNCHANGED <<core, mem>>
  BY <1>0, <1>11 DEF AddressingType
<1> QED
  BY <1>1, <1>2, <1>3, <1>4, <1>5, <1>6, <1>7, <1>8, <1>9, <1>10, <1>11 DEF AddressingNext

(* Registers, operands and addresses keep their widths, whatever page or    *)
(* bank an instruction crosses.                                             *)
LEMMA AddressingTypeAlways == AddressingSpec => []AddressingType
BY AddressingTypeInit, AddressingTypeNext, PTL DEF AddressingSpec

-----------------------------------------------------------------------------
(* Recursive functions                                                      *)

(* Every set of numbers that is not empty has a least one.                  *)
LEMMA Least ==
  ASSUME NEW S \in SUBSET Nat, S # {}
  PROVE  \E x \in S : \A y \in S : x <= y
<1>1. PICK R : /\ IsWellFoundedOn(R, Nat)
               /\ \A x, y \in Nat : <<y, x>> \in R <=> y < x
  <2>1. \A x, y \in Nat : <<y, x>> \in OpToRel(<, Nat) <=> y < x
    BY DEF OpToRel
  <2> QED
    BY <2>1, NatLessThanWellFounded
<1>2. PICK x \in S : \A y \in S : ~(<<y, x>> \in R)
  BY <1>1, WFMin, Zenon
<1>3. ASSUME NEW y \in S PROVE x <= y
  <2>1. ~(y < x)
    BY <1>1, <1>2, Zenon
  <2> QED
    BY <2>1
<1> QED
  BY <1>3

(* Induction, about a set and not an operator: no least number is left out. *)
LEMMA SetInduction ==
  ASSUME NEW S \in SUBSET Nat, 0 \in S, \A n \in S : n + 1 \in S
  PROVE  \A n \in Nat : n \in S
<1> SUFFICES ASSUME Nat \ S # {} PROVE FALSE
  OBVIOUS
<1>1. PICK n \in Nat \ S : \A y \in Nat \ S : n <= y
  BY Least, Zenon
<1>2. n - 1 \in Nat \ S
  BY <1>1
<1> QED
  BY <1>1, <1>2

(* Functions with the same domain and the same values are the same.         *)
LEMMA Extensional ==
  ASSUME NEW D, NEW f, NEW g, f = [x \in D |-> f[x]], g = [x \in D |-> g[x]],
         \A x \in D : f[x] = g[x]
  PROVE  f = g
OBVIOUS

(* f starts with a in T, and h gives the next of each.                      *)
Chain(f, n, T, a, h) ==
  /\ f \in [0 .. n -> T]
  /\ f[0] = a
  /\ \A i \in 0 .. n - 1 : f[i + 1] = h[i][f[i]]

(* There is such a function of any length.                                  *)
LEMMA ChainExists ==
  ASSUME NEW T, NEW a \in T, NEW h \in [Nat -> [T -> T]]
  PROVE  \A n \in Nat : \E f : Chain(f, n, T, a, h)
<1> DEFINE S == {n \in Nat : \E f : Chain(f, n, T, a, h)}
<1>1. 0 \in S
  <2>1. Chain([i \in 0 .. 0 |-> a], 0, T, a, h)
    BY DEF Chain
  <2> QED
    BY <2>1
<1>2. ASSUME NEW n \in S PROVE n + 1 \in S
  <2>1. n \in Nat
    OBVIOUS
  <2>2. PICK f : Chain(f, n, T, a, h)
    OBVIOUS
  <2>3. f \in [0 .. n -> T] /\ f[0] = a /\ \A i \in 0 .. n - 1 : f[i + 1] = h[i][f[i]]
    BY <2>2 DEF Chain
  <2>4. f[n] \in T
    BY <2>1, <2>3
  <2> DEFINE next == h[n][f[n]]
             g == [i \in 0 .. n + 1 |-> IF i = n + 1 THEN next ELSE f[i]]
  <2>5. next \in T
    BY <2>1, <2>4
  <2>6. ASSUME NEW i \in 0 .. (n + 1) - 1 PROVE g[i + 1] = h[i][g[i]]
    <3>1. CASE i = n
      <4>1. g[i + 1] = next /\ g[i] = f[n]
        BY <2>1, <3>1
      <4> QED
        BY <3>1, <4>1
    <3>2. CASE i # n
      <4> HIDE DEF next
      <4>1. i \in 0 .. n - 1
        BY <2>1, <3>2
      <4>2. g[i + 1] = f[i + 1]
        BY <2>1, <4>1
      <4>3. g[i] = f[i]
        BY <2>1, <4>1
      <4> HIDE DEF g
      <4> QED
        BY <2>3, <4>1, <4>2, <4>3
    <3> QED
      BY <3>1, <3>2
  <2>7. g \in [0 .. n + 1 -> T] /\ g[0] = a
    <3> HIDE DEF next
    <3>1. ASSUME NEW i \in 0 .. n + 1 PROVE g[i] \in T
      <4>1. CASE i = n + 1
        <5>1. g[i] = next
          BY <4>1
        <5> QED
          BY <2>5, <5>1
      <4>2. CASE i # n + 1
        <5>1. i \in 0 .. n /\ g[i] = f[i]
          BY <2>1, <4>2
        <5>2. f \in [0 .. n -> T]
          BY <2>3
        <5> HIDE DEF g
        <5> QED
          BY <5>1, <5>2
      <4> QED
        BY <4>1, <4>2
    <3>2. g[0] = f[0]
      BY <2>1
    <3>3. g \in [0 .. n + 1 -> T]
      BY <3>1
    <3> QED
      BY <2>3, <3>2, <3>3
  <2>8. Chain(g, n + 1, T, a, h)
    BY <2>6, <2>7, Zenon DEF Chain
  <2> QED
    BY <2>1, <2>8
<1>3. S \in SUBSET Nat
  OBVIOUS
<1> HIDE DEF S
<1>4. \A n \in Nat : n \in S
  BY <1>1, <1>2, <1>3, SetInduction, Zenon
<1> QED
  BY <1>4, Zenon DEF S

(* f and g have the same values as far as both go.                          *)
Agree(f, g, n, m) == \A i \in Nat : i <= n /\ i <= m => f[i] = g[i]

(* Two of them have the same values as far as both go.                      *)
LEMMA ChainsAgree ==
  \A n, m \in Nat : \A T, a, h, f, g :
    Chain(f, n, T, a, h) /\ Chain(g, m, T, a, h) => Agree(f, g, n, m)
<1> SUFFICES ASSUME NEW n \in Nat, NEW m \in Nat, NEW T, NEW a, NEW h, NEW f, NEW g,
                    Chain(f, n, T, a, h), Chain(g, m, T, a, h)
             PROVE  Agree(f, g, n, m)
  BY Zenon
<1> DEFINE S == {i \in Nat : i <= n /\ i <= m => f[i] = g[i]}
<1>1. 0 \in S
  BY DEF Chain
<1>2. ASSUME NEW i \in S PROVE i + 1 \in S
  <2> SUFFICES ASSUME i + 1 <= n, i + 1 <= m PROVE f[i + 1] = g[i + 1]
    OBVIOUS
  <2>1. i \in 0 .. n - 1 /\ i \in 0 .. m - 1 /\ f[i] = g[i]
    OBVIOUS
  <2> QED
    BY <2>1, Zenon DEF Chain
<1>3. S \in SUBSET Nat
  OBVIOUS
<1> HIDE DEF S
<1>4. \A i \in Nat : i \in S
  BY <1>1, <1>2, <1>3, SetInduction, Zenon
<1> QED
  BY <1>4, Zenon DEF S, Agree

(* The number before one that is not above n.                               *)
LEMMA BelowNext ==
  \A n, i \in Nat : i + 1 \in Nat /\ (i + 1 <= n => i \in 0 .. n - 1 /\ i <= n)
OBVIOUS

(* It is enough that h does so for numbers.                                 *)
LEMMA ChainOfNumbers ==
  ASSUME NEW n \in Nat, NEW a \in Nat, NEW h \in [Nat -> [Nat -> Nat]], NEW f,
         f = [i \in 0 .. n |-> f[i]], f[0] = a,
         \A i \in 0 .. n - 1 : f[i] \in Nat => f[i + 1] = h[i][f[i]]
  PROVE  Chain(f, n, Nat, a, h)
<1> DEFINE S == {i \in Nat : i <= n => f[i] \in Nat}
<1>1. 0 \in S
  OBVIOUS
<1>2. ASSUME NEW i \in S PROVE i + 1 \in S
  <2>0. i \in Nat /\ (i <= n => f[i] \in Nat)
    BY Zenon
  <2>a. i + 1 \in Nat /\ (i + 1 <= n => i \in 0 .. n - 1 /\ i <= n)
    <3>1. i \in Nat
      BY <2>0, Zenon
    <3> QED
      BY <3>1, BelowNext, Zenon
  <2> SUFFICES ASSUME i + 1 <= n PROVE f[i + 1] \in Nat
    BY <2>a, Zenon
  <2>1. i \in 0 .. n - 1 /\ f[i] \in Nat
    BY <2>0, <2>a, Zenon
  <2>2. h[i][f[i]] \in Nat
    BY <2>0, <2>1
  <2>3. f[i + 1] = h[i][f[i]]
    BY <2>1, Zenon
  <2> QED
    BY <2>2, <2>3, Zenon
<1>3. S \in SUBSET Nat
  OBVIOUS
<1> HIDE DEF S
<1>4. \A i \in Nat : i \in S
  BY <1>1, <1>2, <1>3, SetInduction, Zenon
<1>5. \A i \in 0 .. n : f[i] \in Nat
  <2>1. \A i \in 0 .. n : i \in Nat /\ i <= n
    OBVIOUS
  <2> QED
    BY <1>4, <2>1, Zenon DEF S
<1>6. f \in [0 .. n -> Nat]
  BY <1>5, Zenon
<1>7. \A i \in 0 .. n - 1 : i \in 0 .. n
  OBVIOUS
<1> QED
  BY <1>5, <1>6, <1>7, Zenon DEF Chain

-----------------------------------------------------------------------------
(* Block moves                                                              *)

(* The bytes that are still to be moved.                                    *)
Steps(t) == IF Done(t) THEN 0 ELSE t.c + 1

(* Each byte moved is one less.                                             *)
LEMMA StepsLeft ==
  ASSUME NEW t \in MoveStates, NEW src, NEW dst, NEW increment
  PROVE  /\ Steps(t) \in 0 .. BankSize - 1 /\ Steps(t) \in Nat
         /\ Done(t) <=> Steps(t) = 0
         /\ ~Done(t) => Steps(t) = Steps(MoveByte(t, src, dst, increment)) + 1
<1>1. t.c \in Nat /\ t.c <= BankSize - 1 /\ BankSize \in Nat /\ BankSize >= 2
  BY MoveFields, Sizes
<1>2. /\ Steps(t) \in 0 .. BankSize - 1 /\ Steps(t) \in Nat
      /\ Done(t) <=> Steps(t) = 0
  BY <1>1 DEF Steps, Done
<1> DEFINE u == MoveByte(t, src, dst, increment)
<1>3. u.c = (t.c + BankSize - 1) % BankSize
  BY Zenon DEF MoveByte
<1> HIDE DEF u
<1>4. ASSUME ~Done(t) PROVE Steps(t) = Steps(u) + 1
  <2>1. t.c # BankSize - 1
    BY <1>4 DEF Done
  <2>2. CASE t.c = 0
    <3>1. u.c = BankSize - 1
      <4>1. t.c + BankSize - 1 = BankSize * 0 + (BankSize - 1) /\ BankSize - 1 \in Nat
        BY <1>1, <2>2
      <4>2. (t.c + BankSize - 1) % BankSize = BankSize - 1
        <5> DEFINE a == t.c + BankSize - 1
                   r == BankSize - 1
        <5>1. a \in Nat /\ r \in Nat /\ r < BankSize /\ a = BankSize * 0 + r
          BY <1>1, <4>1
        <5> HIDE DEF a, r
        <5>2. a % BankSize = r
          BY <1>1, <5>1, Quotient
        <5> QED
          BY <5>2 DEF a, r
      <4> QED
        BY <1>3, <4>2
    <3> QED
      BY <1>1, <2>1, <2>2, <3>1 DEF Steps, Done
  <2>3. CASE t.c # 0
    <3>1. u.c = t.c - 1
      <4> DEFINE a == t.c + BankSize - 1
                 r == t.c - 1
      <4>1. a \in Nat /\ r \in Nat /\ r < BankSize /\ a = BankSize * 1 + r
        BY <1>1, <2>3
      <4> HIDE DEF a, r
      <4>2. a % BankSize = r
        BY <1>1, <4>1, Quotient
      <4> QED
        BY <1>3, <4>2 DEF a, r
    <3> QED
      BY <1>1, <2>1, <2>3, <3>1 DEF Steps, Done
  <2> QED
    BY <2>2, <2>3
<1> QED
  BY <1>2, <1>4 DEF u

(* r is what FastBlockMove defines.                                         *)
RestTable(r, src, dst, increment) ==
  r = [t \in MoveStates |-> IF Done(t) THEN [t EXCEPT !.dbr = dst]
                            ELSE r[MoveByte(t, src, dst, increment)]]

(* The move is a function: it ends for every state there is.                *)
LEMMA RestExists ==
  ASSUME NEW src \in Byte, NEW dst \in Byte, NEW increment \in Increments
  PROVE  \E r : RestTable(r, src, dst, increment)
<1> DEFINE move == [t \in MoveStates |-> MoveByte(t, src, dst, increment)]
           h == [i \in Nat |-> move]
           Trace(t) == CHOOSE f : Chain(f, BankSize, MoveStates, t, h)
           r == [t \in MoveStates |-> [Trace(t)[Steps(t)] EXCEPT !.dbr = dst]]
<1>1. h \in [Nat -> [MoveStates -> MoveStates]]
  BY ByteMoved
<1>2. \A i \in Nat : \A t \in MoveStates : h[i][t] = MoveByte(t, src, dst, increment)
  BY Zenon
<1>a. BankSize \in Nat /\ BankSize >= 2
  BY Sizes
<1> HIDE DEF h
<1>3. ASSUME NEW t \in MoveStates PROVE Chain(Trace(t), BankSize, MoveStates, t, h)
  BY <1>1, <1>a, ChainExists, Zenon
<1> HIDE DEF Trace
<1>4. ASSUME NEW t \in MoveStates, ~Done(t)
      PROVE  LET u == MoveByte(t, src, dst, increment)
             IN  Trace(t)[Steps(t)] = Trace(u)[Steps(u)]
  <2> DEFINE u == MoveByte(t, src, dst, increment)
             m == BankSize - 1
             f == Trace(t)
             g == [i \in 0 .. m |-> f[i + 1]]
  <2>1. u \in MoveStates
    BY ByteMoved
  <2>2. /\ f \in [0 .. BankSize -> MoveStates] /\ f[0] = t
        /\ \A i \in 0 .. BankSize - 1 : f[i + 1] = h[i][f[i]]
    BY <1>3, Zenon DEF Chain
  <2>3. m \in Nat /\ Steps(u) \in Nat /\ Steps(u) <= m /\ Steps(u) <= BankSize
        /\ Steps(t) = Steps(u) + 1 /\ Steps(u) \in 0 .. m
    BY <1>4, <1>a, <2>1, StepsLeft
  <2>4. Chain(g, m, MoveStates, u, h)
    <3>1. g \in [0 .. m -> MoveStates]
      <4>1. \A i \in 0 .. m : i + 1 \in 0 .. BankSize
        BY <1>a
      <4> HIDE DEF f
      <4> QED
        BY <2>2, <4>1, Zenon
    <3>2. g[0] = u
      <4>1. 0 \in 0 .. m /\ 0 \in 0 .. BankSize - 1 /\ 0 \in Nat /\ 0 + 1 = 1
        BY <1>a
      <4>2. g[0] = f[0 + 1]
        BY <4>1, Zenon
      <4> HIDE DEF f, g
      <4> QED
        BY <1>2, <2>2, <4>1, <4>2, Zenon
    <3>3. ASSUME NEW i \in 0 .. m - 1 PROVE g[i + 1] = h[i][g[i]]
      <4>1. i \in Nat /\ i + 1 \in 0 .. m /\ i \in 0 .. m /\ i + 1 \in 0 .. BankSize - 1
            /\ i + 1 \in Nat /\ i + 1 \in 0 .. BankSize
        BY <1>a
      <4>2. g[i + 1] = f[(i + 1) + 1] /\ g[i] = f[i + 1]
        BY <4>1, Zenon
      <4> HIDE DEF f, g
      <4>3. f[(i + 1) + 1] = h[i + 1][f[i + 1]] /\ f[i + 1] \in MoveStates
        BY <2>2, <4>1, Zenon
      <4> QED
        BY <1>2, <4>1, <4>2, <4>3, Zenon
    <3> HIDE DEF g
    <3> QED
      BY <3>1, <3>2, <3>3, Zenon DEF Chain
  <2>5. Agree(g, Trace(u), m, BankSize)
    <3> HIDE DEF u, m, g
    <3>1. Chain(Trace(u), BankSize, MoveStates, u, h)
      BY <1>3, <2>1, Zenon
    <3> QED
      BY <1>a, <2>3, <2>4, <3>1, ChainsAgree, Zenon
  <2>6. g[Steps(u)] = Trace(u)[Steps(u)]
    BY <2>3, <2>5, Zenon DEF Agree
  <2>7. g[Steps(u)] = f[Steps(u) + 1]
    BY <2>3, Zenon
  <2> QED
    BY <2>3, <2>6, <2>7, Zenon
<1>5. \A t \in MoveStates : MoveByte(t, src, dst, increment) \in MoveStates
  BY ByteMoved, Zenon
<1>6. ASSUME NEW t \in MoveStates
      PROVE  r[t] = IF Done(t) THEN [t EXCEPT !.dbr = dst]
                    ELSE r[MoveByte(t, src, dst, increment)]
  <2>1. CASE Done(t)
    <3>1. Steps(t) = 0
      BY <2>1, Zenon DEF Steps
    <3>2. Trace(t)[0] = t
      BY <1>3, Zenon DEF Chain
    <3> QED
      BY <2>1, <3>1, <3>2, Zenon
  <2>2. CASE ~Done(t)
    BY <1>4, <1>5, <2>2, Zenon
  <2> QED
    BY <2>1, <2>2, Zenon
<1> DEFINE q == [t \in MoveStates |-> IF Done(t) THEN [t EXCEPT !.dbr = dst]
                                      ELSE r[MoveByte(t, src, dst, increment)]]
<1>7. q = [t \in MoveStates |-> q[t]] /\ r = [t \in MoveStates |-> r[t]]
      /\ \A t \in MoveStates : r[t] = q[t]
  <2>1. \A t \in MoveStates : q[t] = IF Done(t) THEN [t EXCEPT !.dbr = dst]
                                      ELSE r[MoveByte(t, src, dst, increment)]
    <3> HIDE DEF r
    <3> QED
      BY Zenon
  <2>2. q = [t \in MoveStates |-> q[t]]
    <3> HIDE DEF r
    <3> QED
      BY Zenon
  <2>3. r = [t \in MoveStates |-> r[t]]
    BY Zenon
  <2> HIDE DEF q, r
  <2> QED
    BY <1>6, <2>1, <2>2, <2>3, Zenon
<1>8. r = q
  <2> HIDE DEF q, r
  <2> QED
    BY <1>7, Extensional, Zenon
<1> QED
  BY <1>8, Zenon DEF RestTable

(* So it does what its recursive definition says.                           *)
LEMMA FastMove ==
  ASSUME NEW src \in Byte, NEW dst \in Byte, NEW increment \in Increments,
         NEW t \in MoveStates
  PROVE  FastBlockMove(t, src, dst, increment)
           = IF Done(t) THEN [t EXCEPT !.dbr = dst]
             ELSE FastBlockMove(MoveByte(t, src, dst, increment), src, dst, increment)
<1> DEFINE rest == CHOOSE r : RestTable(r, src, dst, increment)
<1>1. RestTable(rest, src, dst, increment)
  BY RestExists, Zenon
<1>2. \A u : FastBlockMove(u, src, dst, increment) = rest[u]
  BY Zenon DEF FastBlockMove, RestTable
<1> HIDE DEF rest
<1>3. rest[t] = IF Done(t) THEN [t EXCEPT !.dbr = dst]
                ELSE rest[MoveByte(t, src, dst, increment)]
  BY <1>1, Zenon DEF RestTable
<1> QED
  BY <1>2, <1>3, Zenon

(* Which bank was the data bank makes no difference.                        *)
LEMMA FastMoveBank ==
  ASSUME NEW src \in Byte, NEW dst \in Byte, NEW increment \in Increments,
         NEW t \in MoveStates, NEW b \in Byte
  PROVE  FastBlockMove([t EXCEPT !.dbr = b], src, dst, increment)
           = FastBlockMove(t, src, dst, increment)
<1> DEFINE fast(u) == FastBlockMove(u, src, dst, increment)
           move(u) == MoveByte(u, src, dst, increment)
           in(u) == [u EXCEPT !.dbr = b]
           S == {n \in Nat : \A u \in MoveStates : Steps(u) = n => fast(in(u)) = fast(u)}
<1>1. ASSUME NEW u \in MoveStates
      PROVE  /\ in(u) \in MoveStates /\ move(u) \in MoveStates
             /\ Done(in(u)) <=> Done(u)
             /\ [in(u) EXCEPT !.dbr = dst] = [u EXCEPT !.dbr = dst]
             /\ move(in(u)) = in(move(u))
  <2>1. in(u) \in MoveStates /\ move(u) \in MoveStates
    BY MoveFields, ByteMoved
  <2>2. /\ in(u).c = u.c /\ in(u).x = u.x /\ in(u).y = u.y /\ in(u).mem = u.mem
        /\ [in(u) EXCEPT !.dbr = dst] = [u EXCEPT !.dbr = dst]
        /\ in(u).dbr = b
    BY DEF MoveStates
  <2>3. Done(in(u)) <=> Done(u)
    BY <2>2 DEF Done
  <2>4. move(in(u)) = in(move(u))
    BY <2>2 DEF MoveByte
  <2> QED
    BY <2>1, <2>2, <2>3, <2>4
<1>2. ASSUME NEW u \in MoveStates
      PROVE  fast(u) = IF Done(u) THEN [u EXCEPT !.dbr = dst] ELSE fast(move(u))
  BY FastMove, Zenon
<1>3. ASSUME NEW u \in MoveStates
      PROVE  /\ Steps(u) \in Nat /\ (Done(u) <=> Steps(u) = 0)
             /\ Steps(move(u)) \in Nat
             /\ ~Done(u) => Steps(u) = Steps(move(u)) + 1
  <2>1. move(u) \in MoveStates
    BY <1>1, Zenon
  <2>2. Steps(move(u)) \in Nat
    <3> HIDE DEF move
    <3> QED
      BY <2>1, StepsLeft, Zenon
  <2> QED
    BY <2>2, StepsLeft, Zenon
<1> HIDE DEF fast, move, in
<1>4. 0 \in S
  <2>1. ASSUME NEW u \in MoveStates, Steps(u) = 0 PROVE fast(in(u)) = fast(u)
    BY <1>1, <1>2, <1>3, <2>1, Zenon
  <2> QED
    BY <2>1
<1>5. ASSUME NEW n \in S PROVE n + 1 \in S
  <2>1. n \in Nat /\ n + 1 # 0 /\ n + 1 \in Nat
    OBVIOUS
  <2>2. ASSUME NEW u \in MoveStates, Steps(u) = n + 1 PROVE fast(in(u)) = fast(u)
    <3>1. ~Done(u) /\ ~Done(in(u))
      BY <1>1, <1>3, <2>1, <2>2, Zenon
    <3>2. Steps(move(u)) = n
      BY <1>3, <2>1, <2>2, <3>1
    <3>3. fast(in(move(u))) = fast(move(u))
      BY <1>1, <3>2, Zenon
    <3> QED
      BY <1>1, <1>2, <3>1, <3>3, Zenon
  <2> QED
    BY <2>1, <2>2, Zenon
<1>6. S \in SUBSET Nat
  OBVIOUS
<1>7. \A n \in Nat : n \in S
  <2> HIDE DEF S
  <2> QED
    BY <1>4, <1>5, <1>6, SetInduction, Zenon
<1> QED
  BY <1>3, <1>7, Zenon DEF fast, in

(* Where the k-th byte of a move is, of a bank and an offset.               *)
Cell(b, x, k, increment) == (b * BankSize) + ((x + k * increment) % BankSize)

(* Moving on by one byte.                                                   *)
LEMMA NextCell ==
  ASSUME NEW b, NEW x \in Nat, NEW k \in Nat, NEW increment \in Nat
  PROVE  Cell(b, (x + increment) % BankSize, k, increment) = Cell(b, x, k + 1, increment)
<1> DEFINE m == k * increment
           a == x + increment
<1>1. m \in Nat /\ a \in Nat /\ x + (k + 1) * increment = a + m
  <2>1. (k + 1) * increment = k * increment + increment /\ k * increment \in Nat
    BY SMT
  <2> QED
    BY <2>1
<1>2. BankSize \in Nat /\ BankSize >= 1
  BY Sizes
<1>3. ((a % BankSize) + m) % BankSize = (a + m) % BankSize
  <2> HIDE DEF a, m
  <2> QED
    BY <1>1, <1>2, Residue
<1> QED
  BY <1>1, <1>3 DEF Cell

(* The first byte of a move is where the registers point.                   *)
LEMMA FirstCell ==
  ASSUME NEW b, NEW x \in Offset, NEW increment \in Nat
  PROVE  Cell(b, x, 0, increment) = b * BankSize + x
<1>1. x \in Nat /\ x < BankSize /\ BankSize \in Nat /\ BankSize >= 1
      /\ x + 0 * increment = x /\ x = BankSize * 0 + x
  BY Sizes
<1>2. x % BankSize = x
  BY <1>1, Quotient
<1> QED
  BY <1>1, <1>2 DEF Cell

(* A move of less than a bank meets no byte twice.                          *)
LEMMA CellsDiffer ==
  ASSUME NEW b \in Byte, NEW x \in Offset, NEW increment \in Increments,
         NEW k \in 1 .. BankSize - 1
  PROVE  Cell(b, x, k, increment) # b * BankSize + x
<1> DEFINE n == BankSize
           r == (x + k * increment) % n
<1>1. /\ x \in Nat /\ x < n /\ n \in Nat /\ n >= 2 /\ k \in Nat /\ k >= 1 /\ k < n
      /\ b * n \in Nat /\ (increment = 1 \/ increment = n - 1)
  BY Sizes DEF Increments
<1>2. r # x
  <2> HIDE DEF n, r
  <2>1. CASE increment = 1
    <3> DEFINE a == x + k
    <3>1. x + k * increment = a /\ a \in Nat
      BY <1>1, <2>1
    <3>2. CASE a < n
      <4>1. a = n * 0 + a /\ n >= 1
        BY <1>1, <3>1
      <4> HIDE DEF a
      <4>2. a % n = a
        BY <1>1, <3>1, <3>2, <4>1, Quotient
      <4>3. r = a
        BY <3>1, <4>2 DEF r
      <4> QED
        BY <1>1, <4>3 DEF a
    <3>3. CASE ~(a < n)
      <4> DEFINE q == a - n
      <4>1. a = n * 1 + q /\ n >= 1 /\ q \in Nat /\ q < n
        BY <1>1, <3>1, <3>3
      <4>a. 1 \in Nat
        OBVIOUS
      <4> HIDE DEF a, q
      <4>2. a % n = q
        BY <1>1, <3>1, <4>1, <4>a, Quotient
      <4>3. r = q
        BY <3>1, <4>2 DEF r
      <4> QED
        BY <1>1, <4>3 DEF a, q
    <3> QED
      BY <3>2, <3>3
  <2>2. CASE increment = n - 1
    <3> DEFINE a == x + k * (n - 1)
               j == k - 1
    <3>1. a \in Nat /\ a = n * j + (x + n - k) /\ j \in Nat
      <4>1. k * (n - 1) = n * (k - 1) + (n - k) /\ n * (k - 1) \in Nat
        BY <1>1, SMT
      <4> DEFINE w == n * (k - 1)
      <4>2. w \in Nat
        BY <4>1
      <4>3. a = x + (w + (n - k))
        BY <4>1
      <4> HIDE DEF w
      <4>4. a \in Nat /\ a = w + (x + n - k)
        BY <1>1, <4>2, <4>3
      <4>5. j \in Nat
        BY <1>1
      <4> QED
        BY <4>4, <4>5 DEF w
    <3>2. CASE x < k
      <4> DEFINE q == x + n - k
      <4>1. q \in Nat /\ q < n /\ n >= 1 /\ a = n * j + q
        BY <1>1, <3>1, <3>2
      <4> HIDE DEF a, q, j
      <4>2. a % n = q
        BY <1>1, <3>1, <4>1, Quotient
      <4>3. r = q
        BY <2>2, <4>2 DEF r, a
      <4> QED
        BY <1>1, <4>3 DEF q
    <3>3. CASE ~(x < k)
      <4> DEFINE q == x - k
      <4>1. q \in Nat /\ q < n /\ n >= 1 /\ k \in Nat
        BY <1>1, <3>3
      <4>2. a = n * k + q
        <5>1. n * j = n * k - n /\ n * k \in Nat
          BY <1>1
        <5> HIDE DEF j, a
        <5> QED
          BY <1>1, <3>1, <5>1
      <4> HIDE DEF a, q, j
      <4>3. a % n = q
        BY <1>1, <3>1, <4>1, <4>2, Quotient
      <4>4. r = q
        BY <2>2, <4>3 DEF r, a
      <4> QED
        BY <1>1, <4>4 DEF q
    <3> QED
      BY <3>2, <3>3
  <2> QED
    BY <1>1, <2>1, <2>2
<1>3. r \in Nat
  <2>1. x + k * increment \in Nat /\ n >= 1
    BY <1>1
  <2> QED
    BY <1>1, <2>1, Division
<1> QED
  <2> HIDE DEF n, r
  <2>1. Cell(b, x, k, increment) = b * n + r
    BY DEF Cell, n, r
  <2>2. b * BankSize + x = b * n + x
    BY DEF n
  <2> QED
    BY <1>1, <1>2, <1>3, <2>1, <2>2

(* It is in memory.                                                         *)
LEMMA CellType ==
  ASSUME NEW b \in Byte, NEW x \in Nat, NEW k \in Nat, NEW increment \in Nat
  PROVE  Cell(b, x, k, increment) \in Addresses
<1>1. k * increment \in Nat
  OBVIOUS
<1>2. (x + k * increment) % BankSize \in Offset
  BY <1>1, MovedOffset
<1> QED
  BY <1>2, BankedAddress, Zenon DEF Cell

(* No byte is in two banks.                                                 *)
LEMMA BanksDiffer ==
  ASSUME NEW b \in Byte, NEW d \in Byte, b # d, NEW x \in Offset, NEW y \in Offset
  PROVE  b * BankSize + x # d * BankSize + y
<1> DEFINE n == BankSize
           v == b * n + x
           w == d * n + y
<1>1. /\ x \in Nat /\ x < n /\ y \in Nat /\ y < n /\ n \in Nat /\ n >= 1
      /\ b \in Nat /\ d \in Nat
  BY Sizes
<1>2. v \in Nat /\ v = n * b + x /\ w \in Nat /\ w = n * d + y
  <2> HIDE DEF n
  <2> QED
    BY <1>1, SMT
<1> HIDE DEF n, v, w
<1>3. v \div n = b
  BY <1>1, <1>2, Quotient
<1>4. w \div n = d
  BY <1>1, <1>2, Quotient
<1> QED
  BY <1>3, <1>4 DEF v, w, n

(* m is t's memory after the bytes left were moved.                         *)
Copied(t, m, src, dst, increment) ==
  LET from(k) == Cell(src, t.x, k, increment)
      to(k) == Cell(dst, t.y, k, increment)
  IN  /\ \A k \in 0 .. Steps(t) - 1 : to(k) \in Ram => m[to(k)] = t.mem[from(k)]
      /\ \A a \in Addresses :
           a \notin Ram \/ (\A k \in 0 .. Steps(t) - 1 : to(k) # a) => m[a] = t.mem[a]

(* What moving one byte leaves to the rest.                                 *)
LEMMA CopiedOne ==
  ASSUME NEW src \in Byte, NEW dst \in Byte, src # dst, NEW increment \in Increments,
         NEW t \in MoveStates, ~Done(t), NEW m,
         Copied(MoveByte(t, src, dst, increment), m, src, dst, increment)
  PROVE  Copied(t, m, src, dst, increment)
<1> DEFINE u == MoveByte(t, src, dst, increment)
           from(k) == Cell(src, t.x, k, increment)
           to(k) == Cell(dst, t.y, k, increment)
<1>1. /\ t.x \in Offset /\ t.y \in Offset /\ t.x \in Nat /\ t.y \in Nat /\ t.mem \in Memory
      /\ increment \in Nat /\ 0 \in Nat /\ BankSize \in Nat
  BY MoveFields, Sizes DEF Increments
<1>2. /\ Steps(u) \in Nat /\ Steps(t) \in Nat /\ Steps(t) = Steps(u) + 1
      /\ Steps(t) <= BankSize - 1
  <2>1. u \in MoveStates
    BY ByteMoved
  <2>2. Steps(u) \in Nat
    <3> HIDE DEF u
    <3> QED
      BY <2>1, StepsLeft, Zenon
  <2>3. Steps(t) = Steps(u) + 1 /\ Steps(t) \in 0 .. BankSize - 1 /\ Steps(t) \in Nat
    BY StepsLeft, Zenon
  <2> HIDE DEF u
  <2> QED
    BY <1>1, <2>2, <2>3
<1>3. \A k \in Nat : /\ Cell(src, u.x, k, increment) = from(k + 1)
                     /\ Cell(dst, u.y, k, increment) = to(k + 1)
  <2>1. u.x = (t.x + increment) % BankSize /\ u.y = (t.y + increment) % BankSize
    BY Zenon DEF MoveByte
  <2> HIDE DEF u
  <2> TAKE k \in Nat
  <2>2. /\ Cell(src, (t.x + increment) % BankSize, k, increment) = from(k + 1)
        /\ Cell(dst, (t.y + increment) % BankSize, k, increment) = to(k + 1)
    BY <1>1, NextCell
  <2> QED
    BY <2>1, <2>2, Zenon
<1>4. \A k \in Nat : from(k) \in Addresses /\ to(k) \in Addresses
  BY <1>1, CellType, Zenon
<1>5. \A a \in Addresses : u.mem[a] = IF a = to(0) /\ a \in Ram THEN t.mem[from(0)] ELSE t.mem[a]
  <2>1. from(0) = src * BankSize + t.x /\ to(0) = dst * BankSize + t.y
    BY <1>1, FirstCell, Zenon
  <2>2. u.mem = Put(t.mem, to(0), t.mem[from(0)])
    BY <2>1, Zenon DEF MoveByte
  <2> HIDE DEF u, from, to
  <2> QED
    BY <1>1, <2>2 DEF Put, Memory
<1>6. \A k \in 1 .. BankSize - 1 : to(k) # to(0)
  <2>1. to(0) = dst * BankSize + t.y
    BY <1>1, FirstCell, Zenon
  <2> QED
    BY <1>1, <2>1, CellsDiffer, Zenon
<1>7. \A k \in Nat : from(k) # to(0)
  <2>1. \A k \in Nat : (t.x + k * increment) % BankSize \in Offset
    <3> TAKE k \in Nat
    <3>1. k * increment \in Nat
      BY <1>1
    <3> QED
      BY <1>1, <3>1, MovedOffset
  <2>2. to(0) = dst * BankSize + t.y
    BY <1>1, FirstCell, Zenon
  <2> QED
    BY <1>1, <2>1, <2>2, BanksDiffer, Zenon DEF Cell
<1>8. /\ \A k \in 0 .. Steps(u) - 1 : to(k + 1) \in Ram => m[to(k + 1)] = u.mem[from(k + 1)]
      /\ \A a \in Addresses :
           a \notin Ram \/ (\A k \in 0 .. Steps(u) - 1 : to(k + 1) # a) => m[a] = u.mem[a]
  <2>1. \A k \in 0 .. Steps(u) - 1 : k \in Nat
    BY <1>2
  <2>2. Copied(u, m, src, dst, increment)
    OBVIOUS
  <2> HIDE DEF u
  <2>3. /\ \A k \in 0 .. Steps(u) - 1 :
             Cell(dst, u.y, k, increment) \in Ram
               => m[Cell(dst, u.y, k, increment)] = u.mem[Cell(src, u.x, k, increment)]
        /\ \A a \in Addresses :
             a \notin Ram \/ (\A k \in 0 .. Steps(u) - 1 : Cell(dst, u.y, k, increment) # a)
               => m[a] = u.mem[a]
    BY <2>2, Zenon DEF Copied
  <2> HIDE DEF from, to
  <2> QED
    BY <1>3, <2>1, <2>3, Zenon
<1>9. /\ \A k \in 0 .. Steps(t) - 1 : k # 0 => k - 1 \in 0 .. Steps(u) - 1 /\ (k - 1) + 1 = k
      /\ \A k \in 0 .. Steps(u) - 1 : k + 1 \in 0 .. Steps(t) - 1 /\ k + 1 \in 1 .. BankSize - 1
      /\ \A k \in 0 .. Steps(t) - 1 : k \in Nat
      /\ 0 \in 0 .. Steps(t) - 1
  <2> HIDE DEF u
  <2> QED
    BY <1>1, <1>2
<1> HIDE DEF u, from, to
<1>10. ASSUME NEW k \in 0 .. Steps(t) - 1, to(k) \in Ram PROVE m[to(k)] = t.mem[from(k)]
  <2>1. CASE k = 0
    <3>1. \A j \in 0 .. Steps(u) - 1 : to(j + 1) # to(0)
      BY <1>6, <1>9, Zenon
    <3>2. m[to(0)] = u.mem[to(0)]
      BY <1>1, <1>4, <1>8, <3>1, Zenon
    <3> QED
      BY <1>1, <1>4, <1>5, <1>10, <2>1, <3>2, Zenon
  <2>2. CASE k # 0
    <3>1. m[to(k)] = u.mem[from(k)]
      BY <1>8, <1>9, <1>10, <2>2, Zenon
    <3>2. u.mem[from(k)] = t.mem[from(k)]
      BY <1>4, <1>5, <1>7, <1>9, Zenon
    <3> QED
      BY <3>1, <3>2
  <2> QED
    BY <2>1, <2>2
<1>11. ASSUME NEW a \in Addresses,
              a \notin Ram \/ (\A k \in 0 .. Steps(t) - 1 : to(k) # a)
       PROVE  m[a] = t.mem[a]
  <2>1. m[a] = u.mem[a]
    BY <1>8, <1>9, <1>11, Zenon
  <2>2. u.mem[a] = t.mem[a]
    BY <1>5, <1>9, <1>11, Zenon
  <2> QED
    BY <2>1, <2>2
<1> QED
  BY <1>10, <1>11, Zenon DEF Copied, from, to

(* From one bank to another, the whole move copies what it found.           *)
LEMMA FastMoveCopies ==
  ASSUME NEW src \in Byte, NEW dst \in Byte, src # dst, NEW increment \in Increments,
         NEW t \in MoveStates
  PROVE  Copied(t, FastBlockMove(t, src, dst, increment).mem, src, dst, increment)
<1> DEFINE fast(u) == FastBlockMove(u, src, dst, increment)
           move(u) == MoveByte(u, src, dst, increment)
           good(u) == Copied(u, fast(u).mem, src, dst, increment)
           S == {n \in Nat : \A u \in MoveStates : Steps(u) = n => good(u)}
<1>1. ASSUME NEW u \in MoveStates
      PROVE  fast(u) = IF Done(u) THEN [u EXCEPT !.dbr = dst] ELSE fast(move(u))
  BY FastMove, Zenon
<1>2. ASSUME NEW u \in MoveStates
      PROVE  /\ move(u) \in MoveStates
             /\ Steps(u) \in Nat /\ (Done(u) <=> Steps(u) = 0) /\ Steps(move(u)) \in Nat
             /\ ~Done(u) => Steps(u) = Steps(move(u)) + 1
  <2>1. move(u) \in MoveStates
    BY ByteMoved, Zenon
  <2>2. Steps(move(u)) \in Nat
    <3> HIDE DEF move
    <3> QED
      BY <2>1, StepsLeft, Zenon
  <2> QED
    BY <2>1, <2>2, StepsLeft, Zenon
<1>3. ASSUME NEW u \in MoveStates, ~Done(u), good(move(u)) PROVE good(u)
  <2>1. fast(u) = fast(move(u))
    BY <1>1, <1>3, Zenon
  <2> HIDE DEF fast
  <2> QED
    BY <1>3, <2>1, CopiedOne, Zenon
<1>4. 0 \in S
  <2>1. ASSUME NEW u \in MoveStates, Steps(u) = 0 PROVE good(u)
    <3>1. fast(u) = [u EXCEPT !.dbr = dst]
      BY <1>1, <1>2, <2>1, Zenon
    <3>2. fast(u).mem = u.mem
      <4> HIDE DEF fast
      <4> QED
        BY <3>1 DEF MoveStates
    <3>3. 0 .. Steps(u) - 1 = {}
      BY <2>1
    <3> HIDE DEF fast
    <3> QED
      BY <3>2, <3>3, Zenon DEF Copied
  <2> HIDE DEF good
  <2> QED
    BY <2>1
<1> HIDE DEF good, fast, move
<1>5. ASSUME NEW n \in S PROVE n + 1 \in S
  <2>1. n \in Nat /\ n + 1 # 0 /\ n + 1 \in Nat
    OBVIOUS
  <2>2. ASSUME NEW u \in MoveStates, Steps(u) = n + 1 PROVE good(u)
    <3>1. ~Done(u)
      BY <1>2, <2>1, <2>2, Zenon
    <3>2. Steps(move(u)) = n
      BY <1>2, <2>1, <2>2, <3>1
    <3>3. good(move(u))
      BY <1>2, <3>2, Zenon
    <3> QED
      BY <1>3, <3>1, <3>3, Zenon
  <2> QED
    BY <2>1, <2>2, Zenon
<1>6. S \in SUBSET Nat
  OBVIOUS
<1>7. \A n \in Nat : n \in S
  <2> HIDE DEF S
  <2> QED
    BY <1>4, <1>5, <1>6, SetInduction, Zenon
<1> QED
  BY <1>2, <1>7, Zenon DEF good, fast

(* Of any registers and any memory.                                         *)
LEMMA MovesAgree == AddressingType => BlockMoveAgrees
<1> SUFFICES ASSUME AddressingType, ~Done(Moving),
                    NEW src \in Byte, NEW dst \in Byte, NEW increment \in Increments
             PROVE  LET once == BlockMove(Moving, src, dst, increment)
                        all == FastBlockMove(Moving, src, dst, increment)
                        from(k) == (src * BankSize) + ((core.x + k * increment) % BankSize)
                        to(k) == (dst * BankSize) + ((core.y + k * increment) % BankSize)
                    IN  /\ all = IF Done(once) THEN once
                                 ELSE FastBlockMove(once, src, dst, increment)
                        /\ src # dst =>
                             \A a \in Addresses :
                               LET hits == {k \in 0 .. core.c : to(k) = a}
                               IN  all.mem[a] = IF a \in Ram /\ hits # {}
                                                THEN mem[from(CHOOSE k \in hits : TRUE)]
                                                ELSE mem[a]
  BY Zenon DEF BlockMoveAgrees
<1> DEFINE s == Moving
           u == MoveByte(s, src, dst, increment)
           once == BlockMove(s, src, dst, increment)
           all == FastBlockMove(s, src, dst, increment)
           from(k) == (src * BankSize) + ((core.x + k * increment) % BankSize)
           to(k) == (dst * BankSize) + ((core.y + k * increment) % BankSize)
<1>1. s \in MoveStates /\ u \in MoveStates
  <2>1. s \in MoveStates
    BY MoveType
  <2> HIDE DEF s
  <2> QED
    BY <2>1, ByteMoved
<1>2. s.c = core.c /\ s.x = core.x /\ s.y = core.y /\ s.mem = mem
  BY DEF Moving
<1>3. all = IF Done(once) THEN once ELSE FastBlockMove(once, src, dst, increment)
  <2>1. once = [u EXCEPT !.dbr = dst]
    BY Zenon DEF BlockMove
  <2>2. all = FastBlockMove(u, src, dst, increment)
    BY <1>1, FastMove, Zenon
  <2>3. Done(once) <=> Done(u)
    <3> HIDE DEF u, once
    <3> QED
      BY <1>1, <2>1 DEF Done, MoveStates
  <2> HIDE DEF u, once, all
  <2>4. CASE Done(u)
    <3>1. FastBlockMove(u, src, dst, increment) = [u EXCEPT !.dbr = dst]
      BY <1>1, <2>4, FastMove, Zenon
    <3> QED
      BY <2>1, <2>2, <2>3, <2>4, <3>1
  <2>5. CASE ~Done(u)
    BY <1>1, <2>1, <2>2, <2>3, <2>5, FastMoveBank, Zenon
  <2> QED
    BY <2>4, <2>5
<1>4. ASSUME src # dst, NEW a \in Addresses
      PROVE  LET hits == {k \in 0 .. core.c : to(k) = a}
             IN  all.mem[a] = IF a \in Ram /\ hits # {}
                              THEN mem[from(CHOOSE k \in hits : TRUE)]
                              ELSE mem[a]
  <2> DEFINE hits == {k \in 0 .. core.c : to(k) = a}
             j == CHOOSE k \in hits : TRUE
  <2>1. Copied(s, all.mem, src, dst, increment)
    BY <1>1, <1>4, FastMoveCopies, Zenon
  <2>2. 0 .. Steps(s) - 1 = 0 .. core.c
    <3>1. Steps(s) = core.c + 1
      BY <1>2, Zenon DEF Steps
    <3>2. core.c \in Nat
      BY CoreTypes DEF AddressingType
    <3> QED
      BY <3>1, <3>2
  <2> HIDE DEF all, s
  <2>3. /\ \A k \in 0 .. core.c : to(k) \in Ram => all.mem[to(k)] = mem[from(k)]
        /\ a \notin Ram \/ (\A k \in 0 .. core.c : to(k) # a) => all.mem[a] = mem[a]
    BY <1>2, <2>1, <2>2, Zenon DEF Copied, Cell
  <2>4. hits # {} => j \in hits
    BY Zenon
  <2>5. \A k \in hits : k \in 0 .. core.c /\ to(k) = a
    BY Zenon
  <2>6. hits = {} => \A k \in 0 .. core.c : to(k) # a
    BY Zenon
  <2> HIDE DEF hits, j, to, from
  <2>7. all.mem[a] = IF a \in Ram /\ hits # {} THEN mem[from(j)] ELSE mem[a]
    BY <2>3, <2>4, <2>5, <2>6, Zenon
  <2> QED
    BY <2>7 DEF hits, j, to, from
<1> QED
  BY <1>3, <1>4, Zenon

-----------------------------------------------------------------------------
(* Theorems about addressing                                                *)

(* For pages of any size: with D at the start of a page an instruction old  *)
(* enough takes every byte, of the operand or of the pointer to it, from    *)
(* the page of D, and any other from where they follow each other in bank 0 *)
(* (cpu_65c816_instructions.inl, AddrDirectBase and its callers) -- and     *)
(* those that depart from that rule, and no others, the other way round.    *)
THEOREM DirectPageRuleAlways == AddressingSpec => []DirectPageRule
BY AddressingTypeAlways, DirectPage, PTL

(* For pages and banks of any size, in every mode and width: a load finds   *)
(* what a store in the same mode put into Ram, across the end of a page, of *)
(* a bank or of memory (ReadRaw and WriteRaw, ReadZero and WriteZero).      *)
THEOREM StoredIsLoadedAlways == AddressingSpec => []StoredIsLoaded
BY AddressingTypeAlways, LoadFindsStore, PTL

(* For banks of any size, any length, direction and overlap: a move whose   *)
(* bytes are instructions of their own ends as the move at once does, and   *)
(* from one bank to another it has copied C + 1 bytes to the places counted *)
(* from the registers, those in ROM excepted (BlockMove and FastBlockMove   *)
(* of cpu_65c816.h).                                                        *)
THEOREM BlockMoveAgreesAlways == AddressingSpec => []BlockMoveAgrees
BY AddressingTypeAlways, MovesAgree, PTL

-----------------------------------------------------------------------------
(* Arithmetic: powers and words                                             *)

(* Powers.                                                                  *)
Times(b) == [i \in Nat |-> [x \in Nat |-> b * x]]

(* p is the function Power defines.                                         *)
PowerTable(p, b, k) == p = [i \in 0 .. k |-> IF i = 0 THEN 1 ELSE b * p[i - 1]]

(* Powers are the last value of a chain of products.                        *)
LEMMA PowerChain ==
  ASSUME NEW b \in Nat, NEW k \in Nat
  PROVE  \E p : Chain(p, k, Nat, 1, Times(b)) /\ Power(b, k) = p[k]
<1>1. Times(b) \in [Nat -> [Nat -> Nat]] /\ 1 \in Nat
  BY DEF Times
<1>2. \A i, x \in Nat : Times(b)[i][x] = b * x
  BY DEF Times
<1>3. ASSUME NEW p, PowerTable(p, b, k) PROVE Chain(p, k, Nat, 1, Times(b))
  <2>1. \A i \in 0 .. k : p[i] = IF i = 0 THEN 1 ELSE b * p[i - 1]
    BY <1>3, Zenon DEF PowerTable
  <2>2. p[0] = 1
    <3>1. 0 \in 0 .. k
      OBVIOUS
    <3> QED
      BY <2>1, <3>1, Zenon
  <2>3. ASSUME NEW i \in 0 .. k - 1, p[i] \in Nat PROVE p[i + 1] = Times(b)[i][p[i]]
    <3>1. i + 1 \in 0 .. k /\ i + 1 # 0 /\ (i + 1) - 1 = i /\ i \in Nat
      OBVIOUS
    <3>2. p[i + 1] = b * p[i]
      BY <2>1, <3>1, Zenon
    <3> QED
      BY <1>2, <2>3, <3>1, <3>2, Zenon
  <2>4. p = [i \in 0 .. k |-> p[i]]
    BY <1>3 DEF PowerTable
  <2> HIDE DEF PowerTable
  <2> QED
    BY <1>1, <2>2, <2>3, <2>4, ChainOfNumbers, Zenon
<1>4. \E p : PowerTable(p, b, k)
  <2>1. PICK p : Chain(p, k, Nat, 1, Times(b))
    BY <1>1, ChainExists, Zenon
  <2> DEFINE q == [i \in 0 .. k |-> IF i = 0 THEN 1 ELSE b * p[i - 1]]
  <2>2. p \in [0 .. k -> Nat] /\ p[0] = 1
        /\ \A i \in 0 .. k - 1 : p[i + 1] = Times(b)[i][p[i]]
    BY <2>1, Zenon DEF Chain
  <2>3. ASSUME NEW i \in 0 .. k PROVE p[i] = q[i]
    <3>1. CASE i = 0
      BY <2>2, <3>1
    <3>2. CASE i # 0
      <4>1. i - 1 \in 0 .. k - 1 /\ (i - 1) + 1 = i /\ i - 1 \in Nat /\ i - 1 \in 0 .. k
        BY <3>2
      <4>2. p[i - 1] \in Nat
        BY <2>2, <4>1, Zenon
      <4>3. p[(i - 1) + 1] = b * p[i - 1]
        BY <1>2, <2>2, <4>1, <4>2, Zenon
      <4> QED
        BY <3>2, <4>1, <4>3, Zenon
    <3> QED
      BY <3>1, <3>2
  <2>4. p = [i \in 0 .. k |-> p[i]] /\ q = [i \in 0 .. k |-> q[i]]
    BY <2>2
  <2> HIDE DEF q
  <2>5. p = q
    BY <2>3, <2>4, Extensional, Zenon
  <2> QED
    BY <2>5, Zenon DEF PowerTable, q
<1> DEFINE p == CHOOSE f : PowerTable(f, b, k)
<1>5. PowerTable(p, b, k)
  BY <1>4, Zenon
<1>6. Power(b, k) = p[k]
  BY Zenon DEF Power, PowerTable
<1> QED
  BY <1>3, <1>5, <1>6, Zenon

(* Each is b times the one before it.                                       *)
LEMMA PowerNext ==
  ASSUME NEW b \in Nat, NEW k \in Nat
  PROVE  /\ Power(b, 0) = 1
         /\ Power(b, k) \in Nat
         /\ Power(b, k + 1) = b * Power(b, k)
<1>1. k + 1 \in Nat /\ 0 \in Nat /\ k \in 0 .. k /\ k <= k /\ k <= k + 1 /\ k \in 0 .. (k + 1) - 1
  OBVIOUS
<1>2. PICK z : Chain(z, 0, Nat, 1, Times(b)) /\ Power(b, 0) = z[0]
  BY <1>1, PowerChain, Zenon
<1>3. PICK p : Chain(p, k, Nat, 1, Times(b)) /\ Power(b, k) = p[k]
  BY <1>1, PowerChain, Zenon
<1>4. PICK q : Chain(q, k + 1, Nat, 1, Times(b)) /\ Power(b, k + 1) = q[k + 1]
  BY <1>1, PowerChain, Zenon
<1>5. p[k] \in Nat
  BY <1>1, <1>3, Zenon DEF Chain
<1>6. q[k] = p[k]
  <2>1. Agree(p, q, k, k + 1)
    BY <1>1, <1>3, <1>4, ChainsAgree, Zenon
  <2> QED
    BY <1>1, <2>1, Zenon DEF Agree
<1>7. q[k + 1] = Times(b)[k][q[k]]
  BY <1>1, <1>4, Zenon DEF Chain
<1>8. \A i, x \in Nat : Times(b)[i][x] = b * x
  BY Zenon DEF Times
<1>9. q[k + 1] = b * p[k]
  BY <1>5, <1>6, <1>7, <1>8, Zenon
<1>10. z[0] = 1
  BY <1>2, Zenon DEF Chain
<1> QED
  BY <1>2, <1>3, <1>4, <1>5, <1>9, <1>10, Zenon

(* The sums of a function's first values.                                   *)
Adding(g) == [i \in Nat |-> [x \in Nat |-> x + g[i]]]
(* low is the function the first k sums define.                             *)
SumTable(low, g, k) == low = [i \in 0 .. k |-> IF i = 0 THEN 0 ELSE low[i - 1] + g[i - 1]]
Total(g, k) == LET low == CHOOSE f : SumTable(f, g, k) IN low[k]

(* They are the last values of chains.                                      *)
LEMMA TotalChain ==
  ASSUME NEW g \in [Nat -> Nat], NEW k \in Nat
  PROVE  \E p : Chain(p, k, Nat, 0, Adding(g)) /\ Total(g, k) = p[k]
<1>0. 0 \in Nat
  OBVIOUS
<1>1. Adding(g) \in [Nat -> [Nat -> Nat]]
  <2>1. \A i, x \in Nat : x + g[i] \in Nat
    OBVIOUS
  <2> QED
    BY <2>1, Zenon DEF Adding
<1>2. \A i, x \in Nat : Adding(g)[i][x] = x + g[i]
  BY Zenon DEF Adding
<1>3. ASSUME NEW p, SumTable(p, g, k) PROVE Chain(p, k, Nat, 0, Adding(g))
  <2>1. \A i \in 0 .. k : p[i] = IF i = 0 THEN 0 ELSE p[i - 1] + g[i - 1]
    BY <1>3, Zenon DEF SumTable
  <2>2. p[0] = 0
    <3>1. 0 \in 0 .. k
      BY <1>0
    <3> QED
      BY <2>1, <3>1, Zenon
  <2>3. ASSUME NEW i \in 0 .. k - 1, p[i] \in Nat PROVE p[i + 1] = Adding(g)[i][p[i]]
    <3>1. i + 1 \in 0 .. k /\ i + 1 # 0 /\ (i + 1) - 1 = i /\ i \in Nat
      BY <1>0
    <3>2. p[i + 1] = p[i] + g[i]
      BY <2>1, <3>1, Zenon
    <3> QED
      BY <1>2, <2>3, <3>1, <3>2, Zenon
  <2>4. p = [i \in 0 .. k |-> p[i]]
    BY <1>3 DEF SumTable
  <2> QED
    BY <1>0, <1>1, <2>2, <2>3, <2>4, ChainOfNumbers, Zenon
<1>4. \E p : SumTable(p, g, k)
  <2>1. PICK p : Chain(p, k, Nat, 0, Adding(g))
    BY <1>0, <1>1, ChainExists, Zenon
  <2> DEFINE q == [i \in 0 .. k |-> IF i = 0 THEN 0 ELSE p[i - 1] + g[i - 1]]
  <2>2. p \in [0 .. k -> Nat] /\ p[0] = 0
        /\ \A i \in 0 .. k - 1 : p[i + 1] = Adding(g)[i][p[i]]
    BY <2>1, Zenon DEF Chain
  <2>3. ASSUME NEW i \in 0 .. k PROVE p[i] = q[i]
    <3>1. CASE i = 0
      BY <2>2, <3>1
    <3>2. CASE i # 0
      <4>1. i - 1 \in 0 .. k - 1 /\ (i - 1) + 1 = i /\ i - 1 \in Nat /\ i - 1 \in 0 .. k
        BY <1>0, <3>2
      <4>2. p[i - 1] \in Nat
        BY <2>2, <4>1, Zenon
      <4>3. p[(i - 1) + 1] = p[i - 1] + g[i - 1]
        BY <1>2, <2>2, <4>1, <4>2, Zenon
      <4> QED
        BY <3>2, <4>1, <4>3, Zenon
    <3> QED
      BY <3>1, <3>2
  <2>4. p = [i \in 0 .. k |-> p[i]] /\ q = [i \in 0 .. k |-> q[i]]
    BY <2>2
  <2> HIDE DEF q
  <2>5. p = q
    BY <2>3, <2>4, Extensional, Zenon
  <2> QED
    BY <2>5, Zenon DEF SumTable, q
<1> DEFINE p == CHOOSE f : SumTable(f, g, k)
<1>5. SumTable(p, g, k)
  BY <1>4, Zenon
<1>6. Total(g, k) = p[k]
  BY Zenon DEF Total
<1> QED
  BY <1>3, <1>5, <1>6, Zenon

(* Each is the one before it and the next value.                            *)
LEMMA TotalNext ==
  ASSUME NEW g \in [Nat -> Nat], NEW k \in Nat
  PROVE  /\ Total(g, 0) = 0
         /\ Total(g, k) \in Nat
         /\ Total(g, k + 1) = Total(g, k) + g[k]
<1>1. k + 1 \in Nat /\ 0 \in Nat /\ k \in 0 .. k /\ k <= k /\ k <= k + 1 /\ k \in 0 .. (k + 1) - 1
  OBVIOUS
<1>2. PICK z : Chain(z, 0, Nat, 0, Adding(g)) /\ Total(g, 0) = z[0]
  BY <1>1, TotalChain, Zenon
<1>3. PICK p : Chain(p, k, Nat, 0, Adding(g)) /\ Total(g, k) = p[k]
  BY <1>1, TotalChain, Zenon
<1>4. PICK q : Chain(q, k + 1, Nat, 0, Adding(g)) /\ Total(g, k + 1) = q[k + 1]
  BY <1>1, TotalChain, Zenon
<1>5. p[k] \in Nat
  BY <1>1, <1>3, Zenon DEF Chain
<1>6. q[k] = p[k]
  <2>1. Agree(p, q, k, k + 1)
    BY <1>1, <1>3, <1>4, ChainsAgree, Zenon
  <2> QED
    BY <1>1, <2>1, Zenon DEF Agree
<1>7. q[k + 1] = Adding(g)[k][q[k]]
  BY <1>1, <1>4, Zenon DEF Chain
<1>8. \A i, x \in Nat : Adding(g)[i][x] = x + g[i]
  BY Zenon DEF Adding
<1>9. q[k + 1] = p[k] + g[k]
  BY <1>1, <1>5, <1>6, <1>7, <1>8, Zenon
<1>10. z[0] = 0
  BY <1>2, Zenon DEF Chain
<1> QED
  BY <1>2, <1>3, <1>4, <1>5, <1>9, <1>10, Zenon

(* A word is such a sum, of what its bits are worth.                        *)
BitValues(bits) == [i \in Nat |-> IF i \in bits THEN Power(2, i) ELSE 0]

LEMMA WordSum ==
  ASSUME NEW bits, NEW n, 4 * n \in Nat
  PROVE  BitValues(bits) \in [Nat -> Nat] /\ WordOf(n, bits) = Total(BitValues(bits), 4 * n)
<1> DEFINE k == 4 * n
           g == BitValues(bits)
           IsLow(low) == low = [i \in 0 .. k |-> IF i = 0 THEN 0
                           ELSE low[i - 1] + (IF i - 1 \in bits THEN Power(2, i - 1) ELSE 0)]
<1>0. 0 \in Nat /\ 2 \in Nat /\ k \in Nat
  OBVIOUS
<1>1. g \in [Nat -> Nat]
  <2>1. \A i \in Nat : Power(2, i) \in Nat
    BY <1>0, PowerNext, Zenon
  <2> QED
    BY <1>0, <2>1, Zenon DEF BitValues
<1>2. ASSUME NEW low PROVE IsLow(low) <=> SumTable(low, g, k)
  <2>1. \A i \in 0 .. k : i # 0 => i - 1 \in Nat
    BY <1>0
  <2>2. \A i \in Nat : g[i] = IF i \in bits THEN Power(2, i) ELSE 0
    BY Zenon DEF BitValues
  <2> HIDE DEF g, k
  <2>3. [i \in 0 .. k |-> IF i = 0 THEN 0
                          ELSE low[i - 1] + (IF i - 1 \in bits THEN Power(2, i - 1) ELSE 0)]
          = [i \in 0 .. k |-> IF i = 0 THEN 0 ELSE low[i - 1] + g[i - 1]]
    BY <2>1, <2>2, Zenon
  <2> QED
    BY <2>3, Zenon DEF SumTable
<1>3. (CHOOSE low : IsLow(low)) = CHOOSE low : SumTable(low, g, k)
  <2> HIDE DEF g, k, IsLow
  <2> QED
    BY <1>2, Zenon
<1>4. WordOf(n, bits) = Total(g, k)
  <2>1. WordOf(n, bits) = (CHOOSE low : IsLow(low))[k]
    BY Zenon DEF WordOf
  <2>2. Total(g, k) = (CHOOSE low : SumTable(low, g, k))[k]
    BY Zenon DEF Total
  <2> HIDE DEF g, k, IsLow
  <2> QED
    BY <1>3, <2>1, <2>2, Zenon
<1> QED
  BY <1>1, <1>4

(* A word of bits is a number of as many digits.                            *)
LEMMA WordOfBits ==
  ASSUME NEW bits, NEW n, 4 * n \in Nat
  PROVE  WordOf(n, bits) \in Nat /\ WordOf(n, bits) < Size(n)
<1> DEFINE g == BitValues(bits)
           S == {i \in Nat : Total(g, i) < Power(2, i)}
<1>1. g \in [Nat -> Nat] /\ WordOf(n, bits) = Total(g, 4 * n) /\ Size(n) = Power(2, 4 * n)
  BY WordSum, Zenon DEF Size
<1>2. 0 \in Nat /\ 2 \in Nat
  OBVIOUS
<1>3. ASSUME NEW i \in Nat
      PROVE  /\ Total(g, 0) = 0 /\ Power(2, 0) = 1
             /\ Total(g, i) \in Nat /\ Total(g, i + 1) = Total(g, i) + g[i]
             /\ Power(2, i) \in Nat /\ Power(2, i + 1) = 2 * Power(2, i)
             /\ g[i] = 0 \/ g[i] = Power(2, i)
  <2>1. g[i] = 0 \/ g[i] = Power(2, i)
    BY Zenon DEF BitValues
  <2> HIDE DEF g
  <2> QED
    BY <1>1, <1>2, <2>1, TotalNext, PowerNext, Zenon
<1> HIDE DEF g
<1>4. 0 \in S
  BY <1>2, <1>3
<1>5. ASSUME NEW i \in S PROVE i + 1 \in S
  <2> DEFINE t == Total(g, i)
             b == Power(2, i)
             v == g[i]
  <2>1. i \in Nat /\ t < b
    BY Zenon
  <2>2. /\ t \in Nat /\ Total(g, i + 1) = t + v
        /\ b \in Nat /\ Power(2, i + 1) = 2 * b
        /\ v = 0 \/ v = b
    BY <1>3, <2>1, Zenon
  <2>3. i + 1 \in Nat
    BY <2>1
  <2> HIDE DEF t, b, v
  <2>4. t + v < 2 * b
    BY <2>1, <2>2
  <2> QED
    BY <2>2, <2>3, <2>4, Zenon
<1>6. S \in SUBSET Nat
  OBVIOUS
<1>7. \A i \in Nat : i \in S
  <2> HIDE DEF S
  <2> QED
    BY <1>4, <1>5, <1>6, SetInduction, Zenon
<1>8. \A i \in Nat : Total(g, i) \in Nat /\ Total(g, i) < Power(2, i)
  BY <1>3, <1>7, Zenon
<1> QED
  BY <1>1, <1>8, Zenon

(* No power is 0.                                                           *)
LEMMA PowerPositive ==
  ASSUME NEW b \in Nat, b >= 1
  PROVE  \A k \in Nat : Power(b, k) >= 1
<1> DEFINE S == {k \in Nat : Power(b, k) >= 1}
<1>1. 0 \in S
  <2>1. 0 \in Nat
    OBVIOUS
  <2>2. Power(b, 0) = 1
    BY <2>1, PowerNext, Zenon
  <2> QED
    BY <2>2
<1>2. ASSUME NEW k \in S PROVE k + 1 \in S
  <2>1. k \in Nat /\ Power(b, k) >= 1
    BY Zenon
  <2>2. Power(b, k) \in Nat /\ Power(b, k + 1) = b * Power(b, k)
    BY <2>1, PowerNext, Zenon
  <2>3. Power(b, k + 1) >= 1
    BY <2>1, <2>2
  <2> QED
    BY <2>1, <2>3
<1>3. S \in SUBSET Nat
  OBVIOUS
<1> HIDE DEF S
<1>4. \A k \in Nat : k \in S
  BY <1>1, <1>2, <1>3, SetInduction, Zenon
<1> QED
  BY <1>4, Zenon DEF S

-----------------------------------------------------------------------------
(* Words                                                                    *)

(* Half a word's values have the top bit, and half have not.                *)
Half == Power(2, 4 * Digits - 1)

(* Words are the numbers below twice that.                                  *)
LEMMA Halving ==
  /\ Half \in Nat /\ Half >= 1
  /\ Size(Digits) = 2 * Half /\ Size(Digits) \in Nat
  /\ Size(Digits) \div 2 = Half
  /\ \A v : v \in Word <=> v \in Nat /\ v < 2 * Half
<1>1. 4 * Digits - 1 \in Nat /\ (4 * Digits - 1) + 1 = 4 * Digits /\ 2 \in Nat /\ 2 >= 1
  BY AluAssumption
<1>2. Half \in Nat /\ Half >= 1
  <2>1. Half \in Nat
    BY <1>1, PowerNext, Zenon DEF Half
  <2>2. Half >= 1
    BY <1>1, PowerPositive, Zenon DEF Half
  <2> QED
    BY <2>1, <2>2
<1>3. Size(Digits) = 2 * Half
  BY <1>1, PowerNext, Zenon DEF Half, Size
<1>4. Size(Digits) \in Nat /\ Size(Digits) \div 2 = Half
  BY <1>2, <1>3
<1>5. \A v : v \in Word <=> v \in Nat /\ v < 2 * Half
  BY <1>2, <1>3 DEF Word
<1> QED
  BY <1>2, <1>3, <1>4, <1>5

(* There is one quotient and one remainder of a number below 0 too.         *)
LEMMA IntQuotient ==
  ASSUME NEW a \in Int, NEW n \in Nat, n >= 1,
         NEW q \in Int, NEW r \in Nat, r < n, a = n * q + r
  PROVE  a \div n = q /\ a % n = r
BY SMT

(* The top bit alternates.                                                  *)
LEMMA TopBits ==
  ASSUME NEW v \in Nat, v < 4 * Half
  PROVE  /\ TopBit(Digits, v) = 1 <=> v >= Half /\ (v < 2 * Half \/ v >= 3 * Half)
         /\ TopBit(Digits, v) \in {0, 1}
<1> DEFINE h == Half
           n == 2 * h
<1>1. h \in Nat /\ h >= 1 /\ n \in Nat /\ n >= 1 /\ TopBit(Digits, v) = ((2 * v) \div n) % 2
  BY Halving DEF TopBit
<1> HIDE DEF h
<1>2. ASSUME NEW k \in 0 .. 3, k * h <= v, v < k * h + h
      PROVE  (2 * v) \div n = k
  <2>1. 2 * v = n * k + (2 * v - n * k) /\ n * k = 2 * (k * h) /\ k * h \in Nat
    BY <1>1
  <2>2. 2 * v - n * k \in Nat /\ 2 * v - n * k < n
    BY <1>1, <1>2, <2>1
  <2>3. 2 * v \in Int /\ k \in Int
    OBVIOUS
  <2> HIDE DEF n
  <2> QED
    BY <1>1, <2>1, <2>2, <2>3, IntQuotient
<1>3. \/ v < h \/ (h <= v /\ v < 2 * h)
      \/ (2 * h <= v /\ v < 3 * h) \/ (3 * h <= v /\ v < 4 * h)
  BY <1>1 DEF h
<1>4. CASE v < h
  <2>1. (2 * v) \div n = 0
    BY <1>1, <1>2, <1>4
  <2> HIDE DEF n
  <2> QED
    BY <1>1, <1>4, <2>1 DEF h
<1>5. CASE h <= v /\ v < 2 * h
  <2>1. (2 * v) \div n = 1
    BY <1>1, <1>2, <1>5
  <2> HIDE DEF n
  <2> QED
    BY <1>1, <1>5, <2>1 DEF h
<1>6. CASE 2 * h <= v /\ v < 3 * h
  <2>1. (2 * v) \div n = 2
    BY <1>1, <1>2, <1>6
  <2> HIDE DEF n
  <2> QED
    BY <1>1, <1>6, <2>1 DEF h
<1>7. CASE 3 * h <= v /\ v < 4 * h
  <2>1. (2 * v) \div n = 3
    BY <1>1, <1>2, <1>7
  <2> HIDE DEF n
  <2> QED
    BY <1>1, <1>7, <2>1 DEF h
<1> QED
  BY <1>3, <1>4, <1>5, <1>6, <1>7

(* Of what no longer fits a word, or is below 0, a word is kept.            *)
LEMMA CutToWord ==
  ASSUME NEW r \in Int, -(2 * Half) <= r, r < 4 * Half
  PROVE  r % Size(Digits) = IF r < 0 THEN r + 2 * Half
                            ELSE IF r < 2 * Half THEN r ELSE r - 2 * Half
<1> DEFINE n == Size(Digits)
<1>1. n = 2 * Half /\ n \in Nat /\ n >= 1 /\ Half \in Nat
  BY Halving
<1> HIDE DEF n
<1>2. CASE r < 0
  <2>1. r = n * (-1) + (r + n) /\ r + n \in Nat /\ r + n < n
    BY <1>1, <1>2
  <2>2. r % n = r + n
    BY <1>1, <2>1, IntQuotient
  <2> QED
    BY <1>1, <1>2, <2>2 DEF n
<1>3. CASE 0 <= r /\ r < n
  <2>1. r = n * 0 + r /\ r \in Nat
    BY <1>1, <1>3
  <2>2. r % n = r
    BY <1>1, <1>3, <2>1, IntQuotient
  <2> QED
    BY <1>1, <1>3, <2>2 DEF n
<1>4. CASE n <= r
  <2>1. r = n * 1 + (r - n) /\ r - n \in Nat /\ r - n < n
    BY <1>1, <1>4
  <2>2. r % n = r - n
    BY <1>1, <2>1, IntQuotient
  <2> QED
    BY <1>1, <1>4, <2>2 DEF n
<1> QED
  BY <1>1, <1>2, <1>3, <1>4

(* Flags that are set from conditions are read back as those.               *)
LEMMA AddBinFlags ==
  ASSUME NEW n, NEW a, NEW data, NEW p
  PROVE  LET r == a + data + CarryIn(p)
             sum == AddBin(n, a, data, p)
         IN  /\ sum.a = r % Size(n)
             /\ "N" \in sum.p <=> TopBit(n, r) = 1
             /\ "Z" \in sum.p <=> r % Size(n) = 0
             /\ "C" \in sum.p <=> r >= Size(n)
             /\ "V" \in sum.p <=> TopBit(n, a) = TopBit(n, data) /\ TopBit(n, a) # TopBit(n, r)
<1> DEFINE r == a + data + CarryIn(p)
           sum == AddBin(n, a, data, p)
           NN == TopBit(n, r) = 1
           ZZ == r % Size(n) = 0
           CC == r >= Size(n)
           VV == TopBit(n, a) = TopBit(n, data) /\ TopBit(n, a) # TopBit(n, r)
<1>1. sum.a = r % Size(n)
  BY Zenon DEF AddBin
<1>2. sum.p = (p \ {"N", "V", "Z", "C"}) \cup (Flag("N", NN) \cup Flag("Z", ZZ))
                \cup Flag("C", CC) \cup Flag("V", VV)
  BY Zenon DEF AddBin, SetNZ
<1>3. /\ "N" \in sum.p <=> NN
      /\ "Z" \in sum.p <=> ZZ
      /\ "C" \in sum.p <=> CC
      /\ "V" \in sum.p <=> VV
  <2> HIDE DEF sum, NN, ZZ, CC, VV
  <2>1. /\ "N" # "V" /\ "N" # "Z" /\ "N" # "C" /\ "V" # "Z" /\ "V" # "C" /\ "Z" # "C"
    OBVIOUS
  <2> QED
    BY <1>2, <2>1, Zenon DEF Flag
<1> QED
  BY <1>1, <1>3

(* The same of subtraction.                                                 *)
LEMMA SubBinFlags ==
  ASSUME NEW n, NEW a, NEW data, NEW p
  PROVE  LET r == a - data - 1 + CarryIn(p)
             diff == SubBin(n, a, data, p)
         IN  /\ diff.a = r % Size(n)
             /\ "N" \in diff.p <=> TopBit(n, r % Size(n)) = 1
             /\ "Z" \in diff.p <=> r = 0
             /\ "C" \in diff.p <=> r >= 0
             /\ "V" \in diff.p <=> /\ TopBit(n, a) # TopBit(n, data)
                                   /\ TopBit(n, a) # TopBit(n, r % Size(n))
<1> DEFINE r == a - data - 1 + CarryIn(p)
           diff == SubBin(n, a, data, p)
           NN == TopBit(n, r % Size(n)) = 1
           ZZ == r = 0
           CC == r >= 0
           VV == TopBit(n, a) # TopBit(n, data) /\ TopBit(n, a) # TopBit(n, r % Size(n))
<1>1. diff.a = r % Size(n)
  BY Zenon DEF SubBin
<1>2. diff.p = (p \ {"N", "V", "Z", "C"}) \cup Flag("N", NN) \cup Flag("Z", ZZ)
                 \cup Flag("C", CC) \cup Flag("V", VV)
  BY Zenon DEF SubBin
<1>3. /\ "N" \in diff.p <=> NN
      /\ "Z" \in diff.p <=> ZZ
      /\ "C" \in diff.p <=> CC
      /\ "V" \in diff.p <=> VV
  <2> HIDE DEF diff, NN, ZZ, CC, VV
  <2>1. /\ "N" # "V" /\ "N" # "Z" /\ "N" # "C" /\ "V" # "Z" /\ "V" # "C" /\ "Z" # "C"
    OBVIOUS
  <2> QED
    BY <1>2, <2>1, Zenon DEF Flag
<1> QED
  BY <1>1, <1>3

(* The carry is 0 or 1.                                                     *)
LEMMA CarryBit ==
  \A p : /\ CarryIn(p) \in {0, 1}
         /\ CarryIn(p) = 1 <=> "C" \in p
BY DEF CarryIn

(* A word as a signed number.                                               *)
LEMMA SignedWord ==
  ASSUME NEW v \in Word
  PROVE  /\ v \in Nat /\ v < 2 * Half
         /\ TopBit(Digits, v) = (IF v < Half THEN 0 ELSE 1)
         /\ Signed(Digits, v) = IF v < Half THEN v ELSE v - 2 * Half
<1>1. v \in Nat /\ v < 2 * Half /\ Half \in Nat /\ Half >= 1
  BY Halving
<1>2. TopBit(Digits, v) = (IF v < Half THEN 0 ELSE 1)
  <2>1. v < 4 * Half
    BY <1>1
  <2>2. /\ TopBit(Digits, v) = 1 <=> v >= Half /\ (v < 2 * Half \/ v >= 3 * Half)
        /\ TopBit(Digits, v) \in {0, 1}
    BY <1>1, <2>1, TopBits
  <2> QED
    BY <1>1, <2>2
<1>3. Signed(Digits, v) = IF v < Half THEN v ELSE v - 2 * Half
  BY <1>1, <1>2, Halving DEF Signed
<1> QED
  BY <1>1, <1>2, <1>3

(* The signed numbers of a word.                                            *)
LEMMA FitsWord ==
  ASSUME NEW v \in Int
  PROVE  Fits(Digits, v) <=> -Half <= v /\ v < Half
BY Halving DEF Fits

(* Addition, of words with a carry, without the flags' names.               *)
LEMMA SumOfWords ==
  ASSUME NEW h \in Nat, h >= 1, NEW a \in Nat, a < 2 * h, NEW m \in Nat, m < 2 * h,
         NEW c \in {0, 1}
  PROVE  LET r == a + m + c
             cut == IF r < 2 * h THEN r ELSE r - 2 * h
             signed(v) == IF v < h THEN v ELSE v - 2 * h
             top(v) == v >= h /\ (v < 2 * h \/ v >= 3 * h)
             total == signed(a) + signed(m) + c
         IN  /\ r \in Nat /\ r < 4 * h /\ cut \in Nat /\ cut < 2 * h
             /\ cut + 2 * h * (IF r >= 2 * h THEN 1 ELSE 0) = r
             /\ (top(a) <=> top(m)) /\ ~(top(a) <=> top(r)) <=> ~(-h <= total /\ total < h)
             /\ top(r) <=> signed(cut) < 0
OBVIOUS

(* So is binary addition.                                                   *)
LEMMA AddExact ==
  ASSUME NEW a \in Word, NEW m \in Word, NEW p
  PROVE  LET c == CarryIn(p)
             sum == AddBin(Digits, a, m, p)
         IN  /\ sum.a + Size(Digits) * CarryIn(sum.p) = a + m + c
             /\ "V" \in sum.p <=> ~Fits(Digits, Signed(Digits, a) + Signed(Digits, m) + c)
             /\ IsNZ(Digits, sum)
             /\ sum.a \in Word
<1> DEFINE h == Half
           c == CarryIn(p)
           r == a + m + c
           sum == AddBin(Digits, a, m, p)
           cut == IF r < 2 * h THEN r ELSE r - 2 * h
           signed(v) == IF v < h THEN v ELSE v - 2 * h
           top(v) == v >= h /\ (v < 2 * h \/ v >= 3 * h)
           total == signed(a) + signed(m) + c
<1>1. h \in Nat /\ h >= 1 /\ Size(Digits) = 2 * h
  BY Halving
<1>2. c \in {0, 1}
  BY CarryBit
<1>3. /\ a \in Nat /\ a < 2 * h /\ m \in Nat /\ m < 2 * h
      /\ Signed(Digits, a) = signed(a) /\ Signed(Digits, m) = signed(m)
  BY SignedWord
<1>4. /\ r \in Nat /\ r < 4 * h /\ cut \in Nat /\ cut < 2 * h
      /\ cut + 2 * h * (IF r >= 2 * h THEN 1 ELSE 0) = r
      /\ (top(a) <=> top(m)) /\ ~(top(a) <=> top(r)) <=> ~(-h <= total /\ total < h)
      /\ top(r) <=> signed(cut) < 0
  <2> HIDE DEF h, c
  <2> QED
    BY <1>1, <1>2, <1>3, SumOfWords
<1>5. /\ sum.a = r % Size(Digits)
      /\ "N" \in sum.p <=> TopBit(Digits, r) = 1
      /\ "Z" \in sum.p <=> r % Size(Digits) = 0
      /\ "C" \in sum.p <=> r >= Size(Digits)
      /\ "V" \in sum.p <=> /\ TopBit(Digits, a) = TopBit(Digits, m)
                           /\ TopBit(Digits, a) # TopBit(Digits, r)
  BY AddBinFlags
<1>6. r % Size(Digits) = cut
  <2>1. r \in Int /\ -(2 * h) <= r /\ ~(r < 0)
    BY <1>1, <1>4
  <2> QED
    BY <1>4, <2>1, CutToWord
<1>7. /\ TopBit(Digits, a) = 1 <=> top(a)
      /\ TopBit(Digits, m) = 1 <=> top(m)
      /\ TopBit(Digits, r) = 1 <=> top(r)
      /\ TopBit(Digits, a) \in {0, 1} /\ TopBit(Digits, m) \in {0, 1} /\ TopBit(Digits, r) \in {0, 1}
  <2>1. a < 4 * h /\ m < 4 * h
    BY <1>1, <1>3
  <2> QED
    BY <1>3, <1>4, <2>1, TopBits
<1>8. cut \in Word /\ Signed(Digits, cut) = signed(cut)
  BY <1>4, Halving, SignedWord
<1>9. total \in Int
  BY <1>1, <1>2, <1>3
<1> HIDE DEF r, sum, cut, signed, top, total, c, h
<1>10. CarryIn(sum.p) = IF r >= 2 * h THEN 1 ELSE 0
  BY <1>1, <1>5, Zenon DEF CarryIn
<1>11. sum.a + Size(Digits) * CarryIn(sum.p) = a + m + c
  BY <1>1, <1>4, <1>5, <1>6, <1>10, Zenon DEF r
<1>12. "V" \in sum.p <=> ~Fits(Digits, Signed(Digits, a) + Signed(Digits, m) + c)
  <2>1. Signed(Digits, a) + Signed(Digits, m) + c = total
    BY <1>3, Zenon DEF total
  <2>2. Fits(Digits, total) <=> -h <= total /\ total < h
    BY <1>9, FitsWord, Zenon DEF h
  <2>3. "V" \in sum.p <=> (top(a) <=> top(m)) /\ ~(top(a) <=> top(r))
    BY <1>5, <1>7
  <2> QED
    BY <1>4, <2>1, <2>2, <2>3, Zenon
<1>13. IsNZ(Digits, sum)
  <2>1. "N" \in sum.p <=> Signed(Digits, sum.a) < 0
    BY <1>4, <1>5, <1>6, <1>7, <1>8, Zenon
  <2>2. "Z" \in sum.p <=> sum.a = 0
    BY <1>5, Zenon
  <2> QED
    BY <2>1, <2>2 DEF IsNZ
<1> QED
  BY <1>5, <1>6, <1>8, <1>11, <1>12, <1>13, Zenon DEF c, sum

(* The same of subtraction, where what is below 0 borrows.                  *)
LEMMA DifferenceOfWords ==
  ASSUME NEW h \in Nat, h >= 1, NEW a \in Nat, a < 2 * h, NEW m \in Nat, m < 2 * h,
         NEW c \in {0, 1}
  PROVE  LET r == a - m - 1 + c
             cut == IF r < 0 THEN r + 2 * h ELSE r
             signed(v) == IF v < h THEN v ELSE v - 2 * h
             total == signed(a) - signed(m) - 1 + c
         IN  /\ r \in Int /\ -(2 * h) <= r /\ r < 2 * h /\ cut \in Nat /\ cut < 2 * h
             /\ cut - 2 * h * (1 - (IF r >= 0 THEN 1 ELSE 0)) = r
             /\ ~(a >= h <=> m >= h) /\ ~(a >= h <=> cut >= h) <=> ~(-h <= total /\ total < h)
             /\ cut >= h <=> signed(cut) < 0
             /\ r # -(2 * h) => (r = 0 <=> cut = 0)
OBVIOUS

(* So is binary subtraction, but for Z over the one zero below 0.           *)
LEMMA SubExact ==
  ASSUME NEW a \in Word, NEW m \in Word, NEW p
  PROVE  LET c == CarryIn(p)
             diff == SubBin(Digits, a, m, p)
         IN  /\ diff.a - Size(Digits) * (1 - CarryIn(diff.p)) = a - m - 1 + c
             /\ "V" \in diff.p <=> ~Fits(Digits, Signed(Digits, a) - Signed(Digits, m) - 1 + c)
             /\ a - m - 1 + c # -Size(Digits) => IsNZ(Digits, diff)
             /\ diff.a \in Word
<1> DEFINE h == Half
           c == CarryIn(p)
           r == a - m - 1 + c
           diff == SubBin(Digits, a, m, p)
           cut == IF r < 0 THEN r + 2 * h ELSE r
           signed(v) == IF v < h THEN v ELSE v - 2 * h
           total == signed(a) - signed(m) - 1 + c
<1>1. h \in Nat /\ h >= 1 /\ Size(Digits) = 2 * h
  BY Halving
<1>2. c \in {0, 1}
  BY CarryBit
<1>3. /\ a \in Nat /\ a < 2 * h /\ m \in Nat /\ m < 2 * h
      /\ Signed(Digits, a) = signed(a) /\ Signed(Digits, m) = signed(m)
      /\ TopBit(Digits, a) = (IF a < h THEN 0 ELSE 1)
      /\ TopBit(Digits, m) = (IF m < h THEN 0 ELSE 1)
  BY SignedWord
<1>4. /\ r \in Int /\ -(2 * h) <= r /\ r < 2 * h /\ cut \in Nat /\ cut < 2 * h
      /\ cut - 2 * h * (1 - (IF r >= 0 THEN 1 ELSE 0)) = r
      /\ ~(a >= h <=> m >= h) /\ ~(a >= h <=> cut >= h) <=> ~(-h <= total /\ total < h)
      /\ cut >= h <=> signed(cut) < 0
      /\ r # -(2 * h) => (r = 0 <=> cut = 0)
  <2> HIDE DEF h, c
  <2> QED
    BY <1>1, <1>2, <1>3, DifferenceOfWords
<1>5. /\ diff.a = r % Size(Digits)
      /\ "N" \in diff.p <=> TopBit(Digits, r % Size(Digits)) = 1
      /\ "Z" \in diff.p <=> r = 0
      /\ "C" \in diff.p <=> r >= 0
      /\ "V" \in diff.p <=> /\ TopBit(Digits, a) # TopBit(Digits, m)
                            /\ TopBit(Digits, a) # TopBit(Digits, r % Size(Digits))
  BY SubBinFlags
<1>6. r % Size(Digits) = cut
  <2>1. r < 4 * h /\ ~(r >= 2 * h)
    BY <1>1, <1>4
  <2> QED
    BY <1>4, <2>1, CutToWord
<1>7. /\ cut \in Word /\ Signed(Digits, cut) = signed(cut)
      /\ TopBit(Digits, cut) = (IF cut < h THEN 0 ELSE 1)
  BY <1>4, Halving, SignedWord
<1>8. total \in Int
  BY <1>1, <1>2, <1>3
<1> HIDE DEF r, diff, cut, signed, total, c, h
<1>9. CarryIn(diff.p) = IF r >= 0 THEN 1 ELSE 0
  BY <1>5, Zenon DEF CarryIn
<1>10. diff.a - Size(Digits) * (1 - CarryIn(diff.p)) = a - m - 1 + c
  BY <1>1, <1>4, <1>5, <1>6, <1>9, Zenon DEF r
<1>11. /\ TopBit(Digits, a) = 1 <=> a >= h
       /\ TopBit(Digits, m) = 1 <=> m >= h
       /\ TopBit(Digits, cut) = 1 <=> cut >= h
       /\ TopBit(Digits, a) \in {0, 1} /\ TopBit(Digits, m) \in {0, 1} /\ TopBit(Digits, cut) \in {0, 1}
  BY <1>1, <1>3, <1>4, <1>7
<1>12. "V" \in diff.p <=> ~Fits(Digits, Signed(Digits, a) - Signed(Digits, m) - 1 + c)
  <2>1. Signed(Digits, a) - Signed(Digits, m) - 1 + c = total
    BY <1>3, Zenon DEF total
  <2>2. Fits(Digits, total) <=> -h <= total /\ total < h
    BY <1>8, FitsWord, Zenon DEF h
  <2>3. "V" \in diff.p <=> ~(a >= h <=> m >= h) /\ ~(a >= h <=> cut >= h)
    BY <1>5, <1>6, <1>11
  <2> QED
    BY <1>4, <2>1, <2>2, <2>3, Zenon
<1>13. a - m - 1 + c # -Size(Digits) => IsNZ(Digits, diff)
  <2> SUFFICES ASSUME r # -(2 * h) PROVE IsNZ(Digits, diff)
    BY <1>1, Zenon DEF r
  <2>1. "N" \in diff.p <=> Signed(Digits, diff.a) < 0
    BY <1>4, <1>5, <1>6, <1>7, <1>11, Zenon
  <2>2. "Z" \in diff.p <=> diff.a = 0
    BY <1>4, <1>5, <1>6, Zenon
  <2> QED
    BY <2>1, <2>2 DEF IsNZ
<1> QED
  BY <1>5, <1>6, <1>7, <1>10, <1>12, <1>13, Zenon DEF c, diff

(* The accumulator and the operand are words.                               *)
AluType == alu \in [a : Word, m : Word, p : SUBSET Flags]

(* Whatever the accumulator, the operand and the flags are.                 *)
LEMMA BinaryIsExact == AluType => BinaryExact
<1> SUFFICES ASSUME AluType PROVE BinaryExact
  OBVIOUS
<1>1. alu.a \in Word /\ alu.m \in Word
  BY DEF AluType
<1>2. LET c == CarryIn(alu.p)
          sum == AddBin(Digits, alu.a, alu.m, alu.p)
      IN  /\ sum.a + Size(Digits) * CarryIn(sum.p) = alu.a + alu.m + c
          /\ "V" \in sum.p <=> ~Fits(Digits, Signed(Digits, alu.a) + Signed(Digits, alu.m) + c)
          /\ IsNZ(Digits, sum)
  BY <1>1, AddExact, Zenon
<1>3. LET c == CarryIn(alu.p)
          diff == SubBin(Digits, alu.a, alu.m, alu.p)
      IN  /\ diff.a - Size(Digits) * (1 - CarryIn(diff.p)) = alu.a - alu.m - 1 + c
          /\ "V" \in diff.p <=> ~Fits(Digits, Signed(Digits, alu.a) - Signed(Digits, alu.m) - 1 + c)
          /\ alu.a - alu.m - 1 + c # -Size(Digits) => IsNZ(Digits, diff)
  BY <1>1, SubExact, Zenon
<1> QED
  BY <1>2, <1>3 DEF BinaryExact

(* What is cut to the width of a word is one.                               *)
LEMMA ResidueIsWord ==
  ASSUME NEW r \in Int
  PROVE  r % Size(Digits) \in Word
<1> DEFINE n == Size(Digits)
<1>1. n \in Nat /\ n >= 1
  BY Halving
<1> HIDE DEF n
<1>2. r % n \in Nat /\ r % n < n
  BY <1>1
<1> QED
  BY <1>1, <1>2 DEF Word, n

(* What shifts leave in C.                                                  *)
LEMMA ShiftCarry ==
  ASSUME NEW n, NEW v, NEW p
  PROVE  /\ "C" \in AslOf(n, v, p).p <=> TopBit(n, v) = 1
         /\ "C" \in RolOf(n, v, p).p <=> TopBit(n, v) = 1
         /\ "C" \in LsrOf(n, v, p).p <=> v % 2 = 1
         /\ "C" \in RorOf(n, v, p).p <=> v % 2 = 1
<1>1. \A f, g : "C" \notin Flag("N", f) /\ "C" \notin Flag("Z", g)
  BY DEF Flag
<1>2. \A m, w : "C" \notin SetNZ(m, w)
  BY <1>1, Zenon DEF SetNZ
<1>3. \A m, w : "C" \in Flag("C", m = w) <=> m = w
  BY Zenon DEF Flag
<1>4. "C" \in AslOf(n, v, p).p <=> TopBit(n, v) = 1
  BY <1>2, <1>3, Zenon DEF AslOf
<1>5. "C" \in RolOf(n, v, p).p <=> TopBit(n, v) = 1
  BY <1>2, <1>3, Zenon DEF RolOf
<1>6. "C" \in LsrOf(n, v, p).p <=> v % 2 = 1
  <2>1. "C" \notin Flag("Z", v \div 2 = 0)
    BY <1>1, Zenon
  <2> QED
    BY <1>3, <2>1, Zenon DEF LsrOf
<1>7. "C" \in RorOf(n, v, p).p <=> v % 2 = 1
  BY <1>2, <1>3, Zenon DEF RorOf
<1> QED
  BY <1>4, <1>5, <1>6, <1>7

(* The shifts and rotates without cutting, by what the top bit was.         *)
LEMMA Shifted ==
  ASSUME NEW v \in Word, NEW p
  PROVE  /\ AslOf(Digits, v, p).a = 2 * v - (IF v < Half THEN 0 ELSE 2 * Half)
         /\ CarryIn(AslOf(Digits, v, p).p) = IF v < Half THEN 0 ELSE 1
         /\ LsrOf(Digits, v, p).a = v \div 2
         /\ CarryIn(LsrOf(Digits, v, p).p) = v % 2
         /\ RolOf(Digits, v, p).a = 2 * v + CarryIn(p) - (IF v < Half THEN 0 ELSE 2 * Half)
         /\ CarryIn(RolOf(Digits, v, p).p) = IF v < Half THEN 0 ELSE 1
         /\ RorOf(Digits, v, p).a = (v \div 2) + CarryIn(p) * Half
         /\ CarryIn(RorOf(Digits, v, p).p) = v % 2
<1>1. /\ v \in Nat /\ v < 2 * Half /\ Half \in Nat /\ Half >= 1
      /\ TopBit(Digits, v) = IF v < Half THEN 0 ELSE 1
      /\ Size(Digits) \div 2 = Half
  BY SignedWord, Halving
<1>2. CarryIn(p) \in {0, 1} /\ v % 2 \in {0, 1}
  BY <1>1, CarryBit
<1>3. /\ (2 * v) % Size(Digits) = 2 * v - (IF v < Half THEN 0 ELSE 2 * Half)
      /\ (2 * v + CarryIn(p)) % Size(Digits) = 2 * v + CarryIn(p) - (IF v < Half THEN 0 ELSE 2 * Half)
  <2> DEFINE over == IF v < Half THEN 0 ELSE 2 * Half
  <2>1. ASSUME NEW r, r = 2 * v \/ r = 2 * v + CarryIn(p)
        PROVE  r % Size(Digits) = r - over
    <3>1. r \in Int /\ -(2 * Half) <= r /\ r < 4 * Half /\ ~(r < 0) /\ (r < 2 * Half <=> v < Half)
      BY <1>1, <1>2, <2>1
    <3>2. r % Size(Digits) = IF r < 2 * Half THEN r ELSE r - 2 * Half
      BY <3>1, CutToWord
    <3> QED
      BY <1>1, <3>1, <3>2
  <2> HIDE DEF over
  <2>2. (2 * v) % Size(Digits) = 2 * v - over
    BY <2>1, Zenon
  <2>3. (2 * v + CarryIn(p)) % Size(Digits) = (2 * v + CarryIn(p)) - over
    BY <2>1, Zenon
  <2> QED
    BY <1>1, <1>2, <2>2, <2>3 DEF over
<1>4. /\ CarryIn(AslOf(Digits, v, p).p) = IF v < Half THEN 0 ELSE 1
      /\ CarryIn(RolOf(Digits, v, p).p) = IF v < Half THEN 0 ELSE 1
  <2>1. /\ CarryIn(AslOf(Digits, v, p).p) = IF TopBit(Digits, v) = 1 THEN 1 ELSE 0
        /\ CarryIn(RolOf(Digits, v, p).p) = IF TopBit(Digits, v) = 1 THEN 1 ELSE 0
    BY ShiftCarry, Zenon DEF CarryIn
  <2> QED
    BY <1>1, <2>1
<1>5. /\ CarryIn(LsrOf(Digits, v, p).p) = v % 2
      /\ CarryIn(RorOf(Digits, v, p).p) = v % 2
  <2>1. /\ CarryIn(LsrOf(Digits, v, p).p) = IF v % 2 = 1 THEN 1 ELSE 0
        /\ CarryIn(RorOf(Digits, v, p).p) = IF v % 2 = 1 THEN 1 ELSE 0
    BY ShiftCarry, Zenon DEF CarryIn
  <2> QED
    BY <1>2, <2>1
<1>6. /\ AslOf(Digits, v, p).a = (2 * v) % Size(Digits)
      /\ RolOf(Digits, v, p).a = (2 * v + CarryIn(p)) % Size(Digits)
      /\ LsrOf(Digits, v, p).a = v \div 2
      /\ RorOf(Digits, v, p).a = (v \div 2) + CarryIn(p) * Half
  BY <1>1, Zenon DEF AslOf, RolOf, LsrOf, RorOf
<1> QED
  BY <1>3, <1>4, <1>5, <1>6, Zenon

(* Halves and doubles, without the operators' names.                        *)
LEMMA ShiftArithmetic ==
  ASSUME NEW h \in Nat, h >= 1, NEW v \in Nat, v < 2 * h, NEW c \in {0, 1}
  PROVE  LET t == IF v < h THEN 0 ELSE 1
             rol == 2 * v + c - (IF v < h THEN 0 ELSE 2 * h)
             asl == 2 * v - (IF v < h THEN 0 ELSE 2 * h)
             lsr == v \div 2
             ror == lsr + c * h
         IN  /\ rol \in Nat /\ rol < 2 * h /\ (rol \div 2) + t * h = v /\ rol % 2 = c
             /\ asl \in Nat /\ asl < 2 * h /\ (asl \div 2) + t * h = v
             /\ lsr \in Nat /\ lsr < h
             /\ 2 * lsr + (v % 2) - (IF lsr < h THEN 0 ELSE 2 * h) = v
             /\ ror \in Nat /\ ror < 2 * h /\ (ror < h <=> c = 0)
             /\ 2 * ror + (v % 2) - (IF ror < h THEN 0 ELSE 2 * h) = v
<1>1. c = 0 \/ c = 1
  OBVIOUS
<1>2. CASE c = 0
  BY <1>2
<1>3. CASE c = 1
  BY <1>3
<1> QED
  BY <1>1, <1>2, <1>3

(* Each rotate gives back what the other one, or a shift, made of a word.   *)
LEMMA ShiftsAreUndone == AluType => ShiftsUndone
<1> SUFFICES ASSUME AluType PROVE ShiftsUndone
  OBVIOUS
<1> DEFINE h == Half
           v == alu.m
           c == CarryIn(alu.p)
           rol == RolOf(Digits, v, alu.p)
           ror == RorOf(Digits, v, alu.p)
           asl == AslOf(Digits, v, alu.p)
           lsr == LsrOf(Digits, v, alu.p)
<1>1. /\ v \in Word /\ v \in Nat /\ v < 2 * h /\ h \in Nat /\ h >= 1 /\ c \in {0, 1}
      /\ \A w : w \in Word <=> w \in Nat /\ w < 2 * h
  BY Halving, SignedWord, CarryBit DEF AluType
<1>2. /\ asl.a = 2 * v - (IF v < h THEN 0 ELSE 2 * h) /\ CarryIn(asl.p) = IF v < h THEN 0 ELSE 1
      /\ lsr.a = v \div 2 /\ CarryIn(lsr.p) = v % 2
      /\ rol.a = 2 * v + c - (IF v < h THEN 0 ELSE 2 * h) /\ CarryIn(rol.p) = IF v < h THEN 0 ELSE 1
      /\ ror.a = (v \div 2) + c * h /\ CarryIn(ror.p) = v % 2
  BY <1>1, Shifted, Zenon
<1>3. /\ rol.a \in Nat /\ rol.a < 2 * h /\ (rol.a \div 2) + CarryIn(rol.p) * h = v /\ rol.a % 2 = c
      /\ asl.a \in Nat /\ asl.a < 2 * h /\ (asl.a \div 2) + CarryIn(asl.p) * h = v
      /\ lsr.a \in Nat /\ lsr.a < h
      /\ 2 * lsr.a + CarryIn(lsr.p) - (IF lsr.a < h THEN 0 ELSE 2 * h) = v
      /\ ror.a \in Nat /\ ror.a < 2 * h /\ (ror.a < h <=> c = 0)
      /\ 2 * ror.a + CarryIn(ror.p) - (IF ror.a < h THEN 0 ELSE 2 * h) = v
  <2> HIDE DEF h, v, c, rol, ror, asl, lsr
  <2>1. LET t == IF v < h THEN 0 ELSE 1
            rl == 2 * v + c - (IF v < h THEN 0 ELSE 2 * h)
            al == 2 * v - (IF v < h THEN 0 ELSE 2 * h)
            lr == v \div 2
            rr == lr + c * h
        IN  /\ rl \in Nat /\ rl < 2 * h /\ (rl \div 2) + t * h = v /\ rl % 2 = c
            /\ al \in Nat /\ al < 2 * h /\ (al \div 2) + t * h = v
            /\ lr \in Nat /\ lr < h
            /\ 2 * lr + (v % 2) - (IF lr < h THEN 0 ELSE 2 * h) = v
            /\ rr \in Nat /\ rr < 2 * h /\ (rr < h <=> c = 0)
            /\ 2 * rr + (v % 2) - (IF rr < h THEN 0 ELSE 2 * h) = v
    BY <1>1, ShiftArithmetic
  <2> QED
    BY <1>2, <2>1, Zenon
<1>4. rol.a \in Word /\ asl.a \in Word /\ lsr.a \in Word /\ ror.a \in Word
  BY <1>1, <1>3
<1>5. /\ RorOf(Digits, rol.a, rol.p).a = v
      /\ CarryIn(RorOf(Digits, rol.a, rol.p).p) = c
  BY <1>3, <1>4, Shifted, ZenonT(40)
<1>6. /\ RolOf(Digits, ror.a, ror.p).a = v
      /\ CarryIn(RolOf(Digits, ror.a, ror.p).p) = c
  <2>1. /\ RolOf(Digits, ror.a, ror.p).a
             = 2 * ror.a + CarryIn(ror.p) - (IF ror.a < h THEN 0 ELSE 2 * h)
        /\ CarryIn(RolOf(Digits, ror.a, ror.p).p) = IF ror.a < h THEN 0 ELSE 1
    BY <1>4, Shifted, ZenonT(40)
  <2>2. c = IF ror.a < h THEN 0 ELSE 1
    BY <1>1, <1>3
  <2> QED
    BY <1>3, <2>1, <2>2, Zenon
<1>7. RorOf(Digits, asl.a, asl.p).a = v
  BY <1>3, <1>4, Shifted, ZenonT(40)
<1>8. RolOf(Digits, lsr.a, lsr.p).a = v
  BY <1>3, <1>4, Shifted, ZenonT(40)
<1>9. \A p : CarryIn(p) = c <=> ("C" \in p <=> "C" \in alu.p)
  <2>1. 0 # 1
    OBVIOUS
  <2> QED
    BY <2>1, Zenon DEF CarryIn
<1> QED
  BY <1>5, <1>6, <1>7, <1>8, <1>9 DEF ShiftsUndone

-----------------------------------------------------------------------------
(* Decimal addition, column by column: T[i] is what the corrected columns   *)
(* below the i-th sum up to, so that T[i] \div Size(i) is their carry.      *)

(* One digit more is sixteen times as many values.                          *)
LEMMA SizeNext ==
  \A i \in Nat : /\ Size(i) \in Nat /\ Size(i) >= 1 /\ Size(0) = 1
                 /\ Size(i + 1) = 16 * Size(i)
<1> TAKE i \in Nat
<1> DEFINE k == 4 * i
<1>1. /\ k \in Nat /\ k + 1 \in Nat /\ (k + 1) + 1 \in Nat /\ ((k + 1) + 1) + 1 \in Nat
      /\ 4 * (i + 1) = (((k + 1) + 1) + 1) + 1 /\ 4 * 0 = 0 /\ 2 \in Nat /\ 0 \in Nat /\ 2 >= 1
  OBVIOUS
<1>2. Size(i) = Power(2, k) /\ Size(i + 1) = Power(2, (((k + 1) + 1) + 1) + 1) /\ Size(0) = Power(2, 0)
  BY <1>1, Zenon DEF Size
<1> HIDE DEF k
<1>3. /\ Power(2, k) \in Nat /\ Power(2, k) >= 1 /\ Power(2, 0) = 1
      /\ Power(2, k + 1) = 2 * Power(2, k)
      /\ Power(2, (k + 1) + 1) = 2 * Power(2, k + 1)
      /\ Power(2, ((k + 1) + 1) + 1) = 2 * Power(2, (k + 1) + 1)
      /\ Power(2, (((k + 1) + 1) + 1) + 1) = 2 * Power(2, ((k + 1) + 1) + 1)
  BY <1>1, PowerNext, PowerPositive, Zenon
<1> QED
  BY <1>2, <1>3

(* What a digit is, of a number whose higher digits are x + 16 * z.         *)
LEMMA DigitAt ==
  \A i, l \in Nat : \A v, x, z \in Int :
    l < Size(i) /\ v = Size(i) * (x + 16 * z) + l
      => Digit(v, i) = x % 16
<1> SUFFICES ASSUME NEW i \in Nat, NEW l \in Nat, NEW v \in Int, NEW x \in Int, NEW z \in Int,
                    l < Size(i), v = Size(i) * (x + 16 * z) + l
             PROVE  Digit(v, i) = x % 16
  BY Zenon
<1> DEFINE q == x + 16 * z
           n == Size(i)
<1>1. n \in Nat /\ n >= 1 /\ q \in Int /\ v = n * q + l
  BY SizeNext
<1>2. v \div n = q /\ v % n = l
  <2> HIDE DEF q, n
  <2> QED
    BY <1>1, IntQuotient DEF n
<1>3. q % 16 = x % 16
  <2> HIDE DEF n
  <2>1. PICK e \in Int, f \in 0 .. 15 : x = 16 * e + f
    <3>1. x \div 16 \in Int /\ x % 16 \in 0 .. 15 /\ x = 16 * (x \div 16) + (x % 16)
      OBVIOUS
    <3> QED
      BY <3>1
  <2> QED
    BY <2>1
<1> QED
  BY <1>2, <1>3, Zenon DEF Digit

(* A number by its i-th digit.                                              *)
LEMMA DigitOf ==
  ASSUME NEW i \in Nat, NEW v \in Nat
  PROVE  /\ Digit(v, i) \in 0 .. 15
         /\ v % Size(i) \in Nat /\ v % Size(i) < Size(i)
         /\ v \div Size(i) \in Nat
         /\ v = Size(i) * (v \div Size(i)) + (v % Size(i))
         /\ v % Size(i + 1) = (v % Size(i)) + Size(i) * Digit(v, i)
<1> DEFINE n == Size(i)
           q == v \div n
           l == v % n
           d == q % 16
           z == q \div 16
           m == Size(i + 1)
           w == l + n * d
<1>1. n \in Nat /\ n >= 1 /\ m = 16 * n /\ m \in Nat
  BY SizeNext
<1>2. q \in Nat /\ l \in Nat /\ l < n /\ v = n * q + l
  <2> HIDE DEF n
  <2> QED
    BY <1>1, Division
<1>3. d \in 0 .. 15 /\ z \in Nat /\ q = 16 * z + d
  <2> HIDE DEF q
  <2> QED
    BY <1>2
<1>4. Digit(v, i) = d
  BY DEF Digit
<1> HIDE DEF n, q, l, d, z, m
<1>5. n * d \in Nat /\ n * d <= n * 15 /\ n * z \in Nat
  BY <1>1, <1>3, SMT
<1>6. w \in Nat /\ w < m /\ v = m * z + w
  <2>1. v = n * (16 * z + d) + l /\ n * (16 * z + d) = 16 * (n * z) + n * d /\ m * z = 16 * (n * z)
    BY <1>1, <1>2, <1>3, SMT
  <2> QED
    BY <1>1, <1>2, <1>5, <2>1
<1>7. v % m = w
  <2> HIDE DEF w
  <2>1. m >= 1
    BY <1>1
  <2> QED
    BY <1>1, <1>3, <1>6, <2>1, Quotient
<1>8. v % Size(i + 1) = (v % Size(i)) + Size(i) * Digit(v, i)
  BY <1>4, <1>7, Zenon DEF n, l, m
<1>9. Digit(v, i) \in 0 .. 15
  BY <1>3, <1>4, Zenon
<1> QED
  BY <1>2, <1>8, <1>9, Zenon DEF n, q, l

(* The number the low digits write in base ten is a sum.                    *)
Columns(v) == [i \in Nat |-> Digit(v, i) * Power(10, i)]

LEMMA DecimalNext ==
  ASSUME NEW v \in Nat, NEW i \in Nat
  PROVE  /\ Decimal(0, v) = 0
         /\ Decimal(i, v) \in Nat
         /\ Decimal(i + 1, v) = Decimal(i, v) + Digit(v, i) * Power(10, i)
<1> DEFINE g == Columns(v)
           IsLow(low, k) == low = [j \in 0 .. k |-> IF j = 0 THEN 0
                                     ELSE low[j - 1] + Digit(v, j - 1) * Power(10, j - 1)]
<1>0. 0 \in Nat /\ i + 1 \in Nat
  OBVIOUS
<1>1. g \in [Nat -> Nat]
  <2>1. \A j \in Nat : Digit(v, j) \in Nat /\ Power(10, j) \in Nat
    <3> TAKE j \in Nat
    <3>1. Digit(v, j) \in 0 .. 15 /\ 10 \in Nat
      BY DigitOf
    <3>2. Digit(v, j) \in Nat
      BY <3>1
    <3> QED
      BY <3>1, <3>2, PowerNext, Zenon
  <2> QED
    BY <2>1 DEF Columns
<1>2. \A j \in Nat : g[j] = Digit(v, j) * Power(10, j)
  BY Zenon DEF Columns
<1>3. ASSUME NEW k \in Nat PROVE Decimal(k, v) = Total(g, k)
  <2>1. \A j \in 0 .. k : j # 0 => j - 1 \in Nat
    BY <1>0
  <2> HIDE DEF g
  <2>2. ASSUME NEW low PROVE IsLow(low, k) <=> SumTable(low, g, k)
    <3>1. [j \in 0 .. k |-> IF j = 0 THEN 0 ELSE low[j - 1] + Digit(v, j - 1) * Power(10, j - 1)]
            = [j \in 0 .. k |-> IF j = 0 THEN 0 ELSE low[j - 1] + g[j - 1]]
      BY <1>2, <2>1, Zenon
    <3> QED
      BY <3>1, Zenon DEF SumTable
  <2>3. (CHOOSE low : IsLow(low, k)) = CHOOSE low : SumTable(low, g, k)
    <3> HIDE DEF IsLow
    <3> QED
      BY <2>2, Zenon
  <2>4. Decimal(k, v) = (CHOOSE low : IsLow(low, k))[k]
    BY Zenon DEF Decimal
  <2>5. Total(g, k) = (CHOOSE low : SumTable(low, g, k))[k]
    BY Zenon DEF Total
  <2> HIDE DEF IsLow
  <2> QED
    BY <2>3, <2>4, <2>5, Zenon
<1> HIDE DEF g
<1>4. /\ Total(g, 0) = 0 /\ Total(g, i) \in Nat /\ Total(g, i + 1) = Total(g, i) + g[i]
  BY <1>1, TotalNext, Zenon
<1> QED
  BY <1>0, <1>2, <1>3, <1>4, Zenon

(* What the digits below the i-th of a and m and the carry sum up to, what  *)
(* they carry into the i-th, and what the digits there sum up to.           *)
LowSum(a, m, c, i) == (a % Size(i)) + (m % Size(i)) + c
CarryInto(a, m, c, i) == IF LowSum(a, m, c, i) >= Size(i) THEN 1 ELSE 0
ColumnSum(a, m, i) == Digit(a, i) + Digit(m, i)

(* Sixteens do not matter to a digit of a sum; it carries when it is 16.    *)
LEMMA SixteenOrMore ==
  ASSUME NEW n \in Nat, n >= 1, NEW y \in Nat, NEW l \in Nat, l < n
  PROVE  n * y + l >= 16 * n <=> y >= 16
<1>1. CASE y >= 16
  <2>1. n * y >= n * 16 /\ n * y \in Nat
    BY <1>1, SMT
  <2> QED
    BY <1>1, <2>1
<1>2. CASE y < 16
  <2>1. n * y <= n * 15 /\ n * y \in Nat
    BY <1>2, SMT
  <2> QED
    BY <1>2, <2>1
<1> QED
  BY <1>1, <1>2

(* A column of a sum, and what the columns up to it sum up to.              *)
ColumnIsSum(a, m, c, i) ==
  LET s == LowSum(a, m, c, i)
      x == ColumnSum(a, m, i) + CarryInto(a, m, c, i)
  IN  /\ s \in Nat /\ s < 2 * Size(i)
      /\ LowSum(a, m, c, i + 1) = s + Size(i) * ColumnSum(a, m, i)
      /\ Digit(a + m + c, i) = x % 16
      /\ LowSum(a, m, c, i + 1) >= Size(i + 1) <=> x >= 16

(* So it is in every column.                                                *)
LEMMA ColumnOfSum ==
  ASSUME NEW a \in Nat, NEW m \in Nat, NEW c \in {0, 1}, NEW i \in Nat
  PROVE  ColumnIsSum(a, m, c, i)
<1> DEFINE n == Size(i)
           n1 == Size(i + 1)
           s == LowSum(a, m, c, i)
           s1 == LowSum(a, m, c, i + 1)
           x == ColumnSum(a, m, i)
           b == CarryInto(a, m, c, i)
           l == s - n * b
           y == x + b
           z == (a \div n1) + (m \div n1)
           r == a + m + c
<1>1. n \in Nat /\ n >= 1 /\ n1 = 16 * n /\ i + 1 \in Nat
  BY SizeNext
<1>2. /\ a % n \in Nat /\ a % n < n /\ m % n \in Nat /\ m % n < n
      /\ Digit(a, i) \in 0 .. 15 /\ Digit(m, i) \in 0 .. 15
      /\ a % n1 = (a % n) + n * Digit(a, i) /\ m % n1 = (m % n) + n * Digit(m, i)
  BY DigitOf
<1>3. /\ a \div n1 \in Nat /\ m \div n1 \in Nat
      /\ a = n1 * (a \div n1) + (a % n1) /\ m = n1 * (m \div n1) + (m % n1)
      /\ a % n1 \in Nat /\ m % n1 \in Nat
  BY <1>1, DigitOf, Zenon
<1>4. s \in Nat /\ s < 2 * n /\ x \in Nat /\ z \in Nat
  <2>1. s = (a % n) + (m % n) + c /\ x = Digit(a, i) + Digit(m, i)
    BY DEF LowSum, ColumnSum
  <2> DEFINE u == a % n
             w == m % n
             g == a \div n1
             h == m \div n1
             d == Digit(a, i)
             e == Digit(m, i)
  <2>2. s = u + w + c /\ x = d + e /\ z = g + h
    BY <2>1
  <2>3. u \in Nat /\ u < n /\ w \in Nat /\ w < n /\ g \in Nat /\ h \in Nat
        /\ d \in 0 .. 15 /\ e \in 0 .. 15
    BY <1>2, <1>3, Zenon
  <2> HIDE DEF s, x, z, n, u, w, g, h, d, e
  <2> QED
    BY <1>1, <2>2, <2>3
<1>5. s1 = s + n * x
  <2>1. s = (a % n) + (m % n) + c /\ x = Digit(a, i) + Digit(m, i) /\ s1 = (a % n1) + (m % n1) + c
    BY DEF LowSum, ColumnSum
  <2> DEFINE d == Digit(a, i)
             e == Digit(m, i)
             u == a % n
             w == m % n
  <2>2. n * (d + e) = n * d + n * e /\ n * d \in Nat /\ n * e \in Nat
    <3>1. d \in Nat /\ e \in Nat
      BY <1>2
    <3> HIDE DEF d, e, n
    <3> QED
      BY <1>1, <3>1, SMT
  <2>3. s1 = (u + n * d) + (w + n * e) + c /\ s = u + w + c /\ x = d + e /\ u \in Nat /\ w \in Nat
    <3>1. s1 = (u + n * d) + (w + n * e) + c
      <4> HIDE DEF s1, s, x
      <4> QED
        BY <1>2, <2>1, Zenon
    <3> QED
      BY <1>2, <2>1, <3>1
  <2> HIDE DEF s, s1, x, n, d, e, u, w
  <2> QED
    BY <2>2, <2>3
<1>6. (b = 0 /\ s < n) \/ (b = 1 /\ s >= n)
  <2>1. b = IF s >= n THEN 1 ELSE 0
    BY DEF CarryInto
  <2> HIDE DEF b, s, n
  <2> QED
    BY <1>1, <1>4, <2>1
<1>7. l \in Nat /\ l < n /\ s = n * b + l /\ b \in {0, 1} /\ y \in Nat
  <2> HIDE DEF b, s, n, x
  <2> QED
    BY <1>1, <1>4, <1>6
<1>8. s1 = n * y + l
  <2> HIDE DEF b, s, n, x, s1, l
  <2>1. n * y = n * x + n * b /\ n * x \in Nat /\ n * b \in Nat
    BY <1>1, <1>4, <1>7, SMT
  <2> HIDE DEF y
  <2> QED
    BY <1>5, <1>7, <2>1
<1>9. r \in Int /\ r = n * (y + 16 * z) + l
  <2>1. r = n1 * z + s1
    <3> DEFINE g == a \div n1
               h == m \div n1
               u == a % n1
               w == m % n1
    <3>1. s1 = u + w + c /\ z = g + h
      BY DEF LowSum
    <3>2. u \in Nat /\ w \in Nat /\ n1 \in Nat
      <4>1. n1 \in Nat
        BY <1>1
      <4> QED
        BY <1>3, <4>1, Zenon
    <3>3. g \in Nat /\ h \in Nat /\ a = n1 * g + u /\ m = n1 * h + w
      BY <1>3
    <3> HIDE DEF s1, z, g, h, u, w, n1
    <3>4. n1 * z = n1 * g + n1 * h /\ n1 * g \in Nat /\ n1 * h \in Nat
      BY <3>1, <3>2, <3>3, SMT
    <3> QED
      BY <3>1, <3>2, <3>3, <3>4
  <2> HIDE DEF n, n1, s1, z, y, l
  <2>2. n1 * z = n * (16 * z)
    BY <1>1, <1>4
  <2>3. n * (y + 16 * z) = n * y + n * (16 * z) /\ n * y \in Nat /\ n * (16 * z) \in Nat
    BY <1>1, <1>4, <1>7, SMT
  <2> QED
    BY <1>7, <1>8, <2>1, <2>2, <2>3
<1>10. Digit(r, i) = y % 16
  <2>1. y \in Int /\ z \in Int
    BY <1>4, <1>7
  <2>2. l \in Nat /\ l < Size(i)
    BY <1>7, Zenon
  <2>3. r \in Int /\ r = Size(i) * (y + 16 * z) + l
    BY <1>9, Zenon
  <2> HIDE DEF r, y, z, l
  <2> QED
    BY <2>1, <2>2, <2>3, DigitAt, Zenon
<1>11. s1 >= n1 <=> y >= 16
  <2> HIDE DEF n, n1, s1, y, l
  <2> QED
    BY <1>1, <1>7, <1>8, SixteenOrMore
<1> QED
  BY <1>4, <1>5, <1>10, <1>11, Zenon DEF ColumnIsSum

(* The bits of the corrections, digit by digit.                             *)
LEMMA CorrectionBits ==
  ASSUME NEW late \in SUBSET Nat, NEW i \in Nat
  PROVE  LET bits == {4 * j : j \in late}
         IN  /\ WordOf(0, bits) = 0
             /\ WordOf(i, bits) \in Nat
             /\ WordOf(i + 1, bits) = WordOf(i, bits) + (IF i \in late THEN Size(i) ELSE 0)
<1> DEFINE bits == {4 * j : j \in late}
           g == BitValues(bits)
           k == 4 * i
<1>1. /\ k \in Nat /\ k + 1 \in Nat /\ (k + 1) + 1 \in Nat /\ ((k + 1) + 1) + 1 \in Nat
      /\ 4 * (i + 1) = (((k + 1) + 1) + 1) + 1 /\ 4 * 0 = 0 /\ 0 \in Nat
      /\ 4 * (i + 1) \in Nat /\ 4 * 0 \in Nat
  OBVIOUS
<1>2. /\ k \in bits <=> i \in late
      /\ k + 1 \notin bits /\ (k + 1) + 1 \notin bits /\ ((k + 1) + 1) + 1 \notin bits
  <2>1. \A j \in late : /\ 4 * j = 4 * i => j = i
                        /\ 4 * j # 4 * i + 1 /\ 4 * j # (4 * i + 1) + 1
                        /\ 4 * j # ((4 * i + 1) + 1) + 1
    OBVIOUS
  <2> QED
    BY <2>1, Zenon
<1> HIDE DEF bits
<1>3. /\ g \in [Nat -> Nat]
      /\ WordOf(0, bits) = Total(g, 4 * 0) /\ WordOf(i, bits) = Total(g, k)
      /\ WordOf(i + 1, bits) = Total(g, 4 * (i + 1))
  BY <1>1, WordSum, Zenon
<1>4. /\ g[k] = IF i \in late THEN Size(i) ELSE 0
      /\ g[k + 1] = 0 /\ g[(k + 1) + 1] = 0 /\ g[((k + 1) + 1) + 1] = 0
  BY <1>1, <1>2, Zenon DEF BitValues, Size
<1> HIDE DEF g, k
<1>5. /\ Total(g, 0) = 0 /\ Total(g, k) \in Nat
      /\ Total(g, k + 1) = Total(g, k) + g[k]
      /\ Total(g, (k + 1) + 1) = Total(g, k + 1) + g[k + 1]
      /\ Total(g, ((k + 1) + 1) + 1) = Total(g, (k + 1) + 1) + g[(k + 1) + 1]
      /\ Total(g, (((k + 1) + 1) + 1) + 1)
           = Total(g, ((k + 1) + 1) + 1) + g[((k + 1) + 1) + 1]
  BY <1>1, <1>3, TotalNext, Zenon
<1>6. Total(g, (((k + 1) + 1) + 1) + 1) = Total(g, k) + g[k]
  <2>1. g[k] \in Nat
    BY <1>1, <1>3, Zenon
  <2> QED
    BY <1>4, <1>5, <2>1
<1>7. Total(g, 4 * (i + 1)) = Total(g, k) + g[k] /\ Total(g, 4 * 0) = 0
  BY <1>1, <1>5, <1>6, Zenon
<1> QED
  BY <1>3, <1>4, <1>5, <1>7, Zenon DEF bits

(* w is T[n] but for whole numbers of n digits: so it is below n.           *)
LEMMA LowPart ==
  ASSUME NEW n \in Nat, NEW T \in [Nat -> Nat], NEW y \in [Nat -> Nat],
         \A i \in 0 .. n - 1 : T[i + 1] = T[i] + Size(i) * y[i],
         NEW w \in Int, \E z \in Int : w = T[n] + Size(n) * z
  PROVE  \A i \in 0 .. n : \E z \in Int : w = T[i] + Size(i) * z
<1> DEFINE S == {k \in Nat : k <= n => \E z \in Int : w = T[n - k] + Size(n - k) * z}
<1>1. 0 \in S
  <2>1. n - 0 = n
    OBVIOUS
  <2> QED
    BY <2>1, Zenon
<1>2. ASSUME NEW k \in S PROVE k + 1 \in S
  <2>1. k \in Nat /\ (k <= n => \E z \in Int : w = T[n - k] + Size(n - k) * z)
    BY Zenon
  <2>2. k + 1 \in Nat
    BY <2>1
  <2> SUFFICES ASSUME k + 1 <= n
               PROVE  \E z \in Int : w = T[n - (k + 1)] + Size(n - (k + 1)) * z
    BY <2>2, Zenon
  <2> DEFINE j == n - (k + 1)
  <2>3. k <= n /\ j \in Nat /\ j \in 0 .. n - 1 /\ n - k = j + 1
    BY <2>1
  <2>4. PICK z \in Int : w = T[j + 1] + Size(j + 1) * z
    BY <2>1, <2>3, Zenon
  <2> HIDE DEF j
  <2>5. T[j + 1] = T[j] + Size(j) * y[j] /\ Size(j + 1) = 16 * Size(j)
        /\ Size(j) \in Nat /\ T[j] \in Nat /\ y[j] \in Nat
    BY <2>3, SizeNext
  <2> DEFINE q == y[j] + 16 * z
  <2>6. w = T[j] + Size(j) * q /\ q \in Int
    <3> DEFINE d == Size(j)
               e == y[j]
               f == T[j]
    <3>1. d \in Nat /\ e \in Nat /\ f \in Nat /\ w = (f + d * e) + (16 * d) * z
      BY <2>4, <2>5
    <3> HIDE DEF d, e, f
    <3>2. d * (e + 16 * z) = d * e + (16 * d) * z /\ d * e \in Int /\ (16 * d) * z \in Int
      BY <3>1, SMT
    <3>3. w = f + d * (e + 16 * z) /\ e + 16 * z \in Int
      BY <3>1, <3>2
    <3> QED
      BY <3>3 DEF d, e, f
  <2> HIDE DEF q
  <2> QED
    BY <2>6, Zenon DEF j
<1>3. S \in SUBSET Nat
  OBVIOUS
<1>4. \A k \in Nat : k \in S
  <2> HIDE DEF S
  <2> QED
    BY <1>1, <1>2, <1>3, SetInduction, Zenon
<1> TAKE i \in 0 .. n
<1>5. n - i \in Nat /\ n - i <= n /\ n - (n - i) = i
  OBVIOUS
<1> QED
  BY <1>4, <1>5, Zenon

(* One column: x is its two digits, b what the binary addition carries into *)
(* it, k what the corrected one does.                                       *)
LEMMA ColumnArithmetic ==
  ASSUME NEW x \in 0 .. 18, NEW b \in {0, 1}, NEW k \in {0, 1}, b <= k
  PROVE  LET t == k + x + 6 * (IF x + b >= 10 THEN 1 ELSE 0)
             missed == (x + b) % 16 = 9 /\ b = 0 /\ k = 1
         IN  /\ missed => t % 16 = 10
             /\ ~missed => /\ t % 16 \in 0 .. 9 /\ t \div 16 \in {0, 1}
                           /\ (t % 16) + 10 * (t \div 16) = x + k
OBVIOUS

(* The columns that are corrected; what each of them adds, and what those   *)
(* below the i-th sum up to.                                                *)
LateColumns(n, a, m, c) ==
  {i \in 0 .. n - 1 : ColumnSum(a, m, i) + CarryInto(a, m, c, i) >= 10}
Correction(late, i) == IF i \in late THEN 1 ELSE 0
Added(a, m, late) == [i \in Nat |-> ColumnSum(a, m, i) + 6 * Correction(late, i)]
Corrected(a, m, c, late) ==
  [i \in Nat |-> LowSum(a, m, c, i) + 6 * WordOf(i, {4 * j : j \in late})]

AddsUp(T, a, m, c, late) ==
  LET y == Added(a, m, late)
  IN  /\ T \in [Nat -> Nat] /\ y \in [Nat -> Nat]
      /\ T[0] = c
      /\ \A i \in Nat : T[i + 1] = T[i] + Size(i) * y[i] /\ LowSum(a, m, c, i) <= T[i]

(* What the columns below the i-th sum up to.                               *)
LEMMA CorrectedNext ==
  ASSUME NEW a \in Nat, NEW m \in Nat, NEW c \in {0, 1}, NEW late \in SUBSET Nat
  PROVE  AddsUp(Corrected(a, m, c, late), a, m, c, late)
<1> DEFINE T == Corrected(a, m, c, late)
           y == Added(a, m, late)
           W(i) == WordOf(i, {4 * j : j \in late})
<1>1. ASSUME NEW i \in Nat
      PROVE  /\ LowSum(a, m, c, i) \in Nat /\ ColumnSum(a, m, i) \in Nat /\ Size(i) \in Nat
             /\ LowSum(a, m, c, i + 1) = LowSum(a, m, c, i) + Size(i) * ColumnSum(a, m, i)
             /\ W(0) = 0 /\ W(i) \in Nat /\ W(i + 1) = W(i) + Size(i) * Correction(late, i)
             /\ Correction(late, i) \in {0, 1} /\ i + 1 \in Nat
  <2>1. /\ LowSum(a, m, c, i) \in Nat
        /\ LowSum(a, m, c, i + 1) = LowSum(a, m, c, i) + Size(i) * ColumnSum(a, m, i)
    BY ColumnOfSum DEF ColumnIsSum
  <2>2. ColumnSum(a, m, i) \in Nat
    <3>1. Digit(a, i) \in 0 .. 15 /\ Digit(m, i) \in 0 .. 15
      BY DigitOf
    <3> QED
      BY <3>1 DEF ColumnSum
  <2>3. /\ W(0) = 0 /\ W(i) \in Nat
        /\ W(i + 1) = W(i) + (IF i \in late THEN Size(i) ELSE 0)
    BY CorrectionBits
  <2>4. Size(i) \in Nat
    BY SizeNext
  <2> HIDE DEF W
  <2>5. W(i + 1) = W(i) + Size(i) * Correction(late, i)
    BY <2>3, <2>4 DEF Correction
  <2>6. Correction(late, i) \in {0, 1}
    BY DEF Correction
  <2> QED
    BY <2>1, <2>2, <2>3, <2>4, <2>5, <2>6
<1>2. /\ \A i \in Nat : T[i] = LowSum(a, m, c, i) + 6 * W(i)
      /\ \A i \in Nat : y[i] = ColumnSum(a, m, i) + 6 * Correction(late, i)
  BY Zenon DEF Corrected, Added
<1>3. T \in [Nat -> Nat] /\ y \in [Nat -> Nat]
  <2>1. \A i \in Nat : LowSum(a, m, c, i) + 6 * W(i) \in Nat
    <3> TAKE i \in Nat
    <3> DEFINE s == LowSum(a, m, c, i)
               w == W(i)
    <3>1. s \in Nat /\ w \in Nat
      BY <1>1, Zenon
    <3> HIDE DEF s, w
    <3>2. s + 6 * w \in Nat
      BY <3>1
    <3> QED
      BY <3>2 DEF s, w
  <2>2. \A i \in Nat : ColumnSum(a, m, i) + 6 * Correction(late, i) \in Nat
    <3> TAKE i \in Nat
    <3> DEFINE s == ColumnSum(a, m, i)
               w == Correction(late, i)
    <3>1. s \in Nat /\ w \in {0, 1}
      BY <1>1, Zenon
    <3> HIDE DEF s, w
    <3>2. s + 6 * w \in Nat
      BY <3>1
    <3> QED
      BY <3>2 DEF s, w
  <2> QED
    BY <2>1, <2>2, Zenon DEF Corrected, Added
<1>4. T[0] = c
  <2>1. LowSum(a, m, c, 0) = c
    <3>1. Size(0) = 1 /\ a % 1 = 0 /\ m % 1 = 0
      BY SizeNext
    <3> QED
      BY <3>1 DEF LowSum
  <2>2. W(0) = 0 /\ 0 \in Nat
    BY <1>1
  <2> HIDE DEF T, W
  <2> QED
    BY <1>2, <2>1, <2>2
<1> HIDE DEF T, y, W
<1>5. ASSUME NEW i \in Nat
      PROVE  T[i + 1] = T[i] + Size(i) * y[i] /\ LowSum(a, m, c, i) <= T[i]
  <2> DEFINE s == LowSum(a, m, c, i)
             n == Size(i)
             x == ColumnSum(a, m, i)
             e == Correction(late, i)
             w == W(i)
  <2>1. /\ s \in Nat /\ n \in Nat /\ x \in Nat /\ w \in Nat /\ e \in {0, 1}
        /\ T[i] = s + 6 * w /\ y[i] = x + 6 * e
        /\ T[i + 1] = (s + n * x) + 6 * (w + n * e)
    BY <1>1, <1>2
  <2> HIDE DEF s, n, x, e, w
  <2>2. n * (x + 6 * e) = n * x + 6 * (n * e) /\ n * x \in Nat /\ n * e \in Nat
    BY <2>1, SMT
  <2>3. T[i + 1] = T[i] + n * y[i] /\ s <= T[i]
    BY <2>1, <2>2
  <2> QED
    BY <2>3 DEF s, n
<1>6. AddsUp(T, a, m, c, late)
  BY <1>3, <1>4, <1>5, Zenon DEF AddsUp, y
<1> QED
  BY <1>6 DEF T

(* A column of 9 that is not corrected, as MissedCarry says.                *)
Missed(a, m, c, i) ==
  /\ Digit(a + m + c, i) = 9
  /\ LowSum(a, m, c, i) < Size(i)
  /\ Decimal(i, a) + Decimal(i, m) + c >= Power(10, i)

(* The result's digits below the i-th, of w, are right with carry k; or one *)
(* of them is $A.                                                           *)
RightBelow(a, m, c, w, i, k) ==
  /\ k \in {0, 1}
  /\ Decimal(i, w) < Power(10, i)
  /\ Decimal(i, w) + Power(10, i) * k = Decimal(i, a) + Decimal(i, m) + c
  /\ \A j \in 0 .. i - 1 : Digit(w, j) < 10 /\ ~Missed(a, m, c, j)
WrongBelow(a, m, c, w, i) == \E j \in 0 .. i - 1 : Missed(a, m, c, j) /\ Digit(w, j) = 10

(* What a column carries on.                                                *)
CarriesOut(n, l, t) == (n * t + l) \div (16 * n) = t \div 16

LEMMA CarryOut ==
  ASSUME NEW n \in Nat, n >= 1, NEW l \in Nat, l < n, NEW t \in Nat
  PROVE  CarriesOut(n, l, t)
<1> DEFINE q == t \div 16
           r == t % 16
           m == 16 * n
           v == n * t + l
           u == n * r + l
<1>1. q \in Nat /\ r \in 0 .. 15 /\ t = 16 * q + r
  OBVIOUS
<1> HIDE DEF q, r
<1>2. n * r <= n * 15 /\ n * r \in Nat /\ n * t = m * q + n * r /\ m * q \in Nat
  BY <1>1, SMT
<1>3. v \in Nat /\ u \in Nat /\ u < m /\ v = m * q + u /\ m \in Nat /\ m >= 1
  <2> DEFINE e == m * q
             f == n * r
             g == n * t
  <2>1. e \in Nat /\ f \in Nat /\ f <= n * 15 /\ g = e + f
    BY <1>2
  <2>2. v = g + l /\ u = f + l
    OBVIOUS
  <2> HIDE DEF e, f, g, v, u
  <2>3. v \in Nat /\ u \in Nat /\ u < m /\ v = e + u /\ m \in Nat /\ m >= 1
    BY <2>1, <2>2
  <2> QED
    BY <2>3 DEF e
<1> HIDE DEF m, v, u
<1>4. v \div m = q
  BY <1>1, <1>3, Quotient
<1> QED
  BY <1>4 DEF v, m, q, CarriesOut

(* Ten times the weight of the next column.                                 *)
LEMMA ColumnWeight ==
  ASSUME NEW p \in Nat, p >= 1, NEW d \in Nat, d < p, NEW e \in 0 .. 9, NEW k1 \in {0, 1},
         NEW k \in {0, 1}, NEW x \in Nat, NEW y \in Nat, e + 10 * k1 = (x + y) + k,
         NEW f \in Nat, NEW g \in Nat, NEW c \in {0, 1}, d + p * k = f + g + c
  PROVE  LET d1 == d + e * p
             p1 == 10 * p
         IN  d1 < p1 /\ d1 + p1 * k1 = (f + x * p) + (g + y * p) + c
<1>1. e * p <= 9 * p /\ e * p \in Nat
  BY SMT
<1>2. e * p + 10 * (p * k1) = x * p + y * p + p * k /\ p * k1 \in Nat /\ x * p \in Nat
      /\ y * p \in Nat /\ p * k \in Nat
  <2>1. (e + 10 * k1) * p = ((x + y) + k) * p
    OBVIOUS
  <2>2. /\ (e + 10 * k1) * p = e * p + 10 * (p * k1)
        /\ ((x + y) + k) * p = x * p + y * p + p * k
        /\ p * k1 \in Nat /\ x * p \in Nat /\ y * p \in Nat /\ p * k \in Nat
    BY SMT
  <2> QED
    BY <2>1, <2>2
<1>3. (10 * p) * k1 = 10 * (p * k1)
  BY SMT
<1> QED
  BY <1>1, <1>2, <1>3

(* The result's digits below the i-th are right, or one of them is $A.      *)
ColumnsDone(a, m, c, w, T, i) ==
  RightBelow(a, m, c, w, i, T[i] \div Size(i)) \/ WrongBelow(a, m, c, w, i)

(* A column after columns that are right is right, or it is the first that  *)
(* was missed.                                                              *)
LEMMA OneColumn ==
  ASSUME NEW n \in Nat, NEW a \in Nat, NEW m \in Nat, NEW c \in {0, 1}, NEW w \in Nat,
         NEW i \in Nat, i < n, Digit(a, i) < 10, Digit(m, i) < 10,
         NEW T, T = Corrected(a, m, c, LateColumns(n, a, m, c)),
         \E z \in Int : w = T[i + 1] + Size(i + 1) * z,
         RightBelow(a, m, c, w, i, T[i] \div Size(i))
  PROVE  ColumnsDone(a, m, c, w, T, i + 1)
<1> PICK z \in Int : w = T[i + 1] + Size(i + 1) * z
  OBVIOUS
<1> DEFINE late == LateColumns(n, a, m, c)
           s == LowSum(a, m, c, i)
           v == Size(i)
           p == Power(10, i)
           x == ColumnSum(a, m, i)
           b == CarryInto(a, m, c, i)
           k == T[i] \div v
           l == T[i] % v
           e == IF x + b >= 10 THEN 1 ELSE 0
           t == k + x + 6 * e
           k1 == t \div 16
           d == t % 16
<1>1. /\ i \in Nat /\ i + 1 \in Nat /\ v \in Nat /\ v >= 1 /\ Size(i + 1) = 16 * v
      /\ Size(i + 1) \in Nat /\ late \in SUBSET Nat
  BY SizeNext DEF LateColumns
<1>2. /\ T \in [Nat -> Nat] /\ T[i] \in Nat /\ T[i + 1] \in Nat
      /\ T[i + 1] = T[i] + v * Added(a, m, late)[i]
      /\ s <= T[i] /\ s \in Nat
  <2>1. AddsUp(T, a, m, c, late)
    <3> HIDE DEF late
    <3>1. AddsUp(Corrected(a, m, c, late), a, m, c, late)
      BY <1>1, CorrectedNext, Zenon
    <3> QED
      BY <3>1 DEF late
  <2>2. s \in Nat
    <3>1. ColumnIsSum(a, m, c, i)
      BY <1>1, ColumnOfSum, Zenon
    <3> QED
      BY <3>1, Zenon DEF ColumnIsSum
  <2> HIDE DEF s, late
  <2> QED
    BY <1>1, <2>1, <2>2 DEF s, AddsUp
<1>3. x \in 0 .. 18 /\ (b = 1 => s >= v) /\ (b = 0 <=> s < v) /\ b \in {0, 1}
  <2>1. Digit(a, i) \in 0 .. 15 /\ Digit(m, i) \in 0 .. 15
    BY <1>1, DigitOf
  <2>2. x \in 0 .. 18
    BY <2>1 DEF ColumnSum
  <2>3. b = IF s >= v THEN 1 ELSE 0
    BY DEF CarryInto
  <2> HIDE DEF b, s, v, x
  <2> QED
    BY <1>1, <1>2, <2>2, <2>3
<1>4. Added(a, m, late)[i] = x + 6 * e
  <2>0. i \in 0 .. n - 1
    OBVIOUS
  <2>1. i \in late <=> x + b >= 10
    BY <2>0, Zenon DEF LateColumns
  <2>2. Correction(late, i) = e
    BY <2>1, Zenon DEF Correction
  <2>3. Added(a, m, late)[i] = x + 6 * Correction(late, i)
    BY <1>1, Zenon DEF Added
  <2> QED
    BY <2>2, <2>3, Zenon
<1>5. k \in {0, 1} /\ l \in Nat /\ l < v /\ T[i] = v * k + l
  <2>1. k \in {0, 1}
    BY Zenon DEF RightBelow
  <2> DEFINE g == T[i]
  <2>2. g \in Nat /\ v >= 1 /\ v \in Nat
    BY <1>1, <1>2
  <2>3. l \in Nat /\ l < v /\ g = v * (g \div v) + (g % v)
    <3> HIDE DEF g, v
    <3> QED
      BY <2>2, Division DEF g
  <2> QED
    BY <2>1, <2>3, Zenon
<1>6. b <= k
  <2> HIDE DEF b, k, l, s, v
  <2>1. k = 0 => T[i] < v
    BY <1>1, <1>5
  <2> QED
    BY <1>1, <1>2, <1>3, <1>5, <2>1
<1>7. t \in Nat /\ e \in {0, 1}
  <2> HIDE DEF b, k, x
  <2> QED
    BY <1>3, <1>5
<1>8. T[i + 1] = v * t + l
  <2> HIDE DEF b, k, l, s, v, x, late
  <2>1. v * t = v * k + v * (x + 6 * e) /\ v * k \in Nat /\ v * (x + 6 * e) \in Nat
    <3> HIDE DEF e
    <3> QED
      BY <1>1, <1>3, <1>5, <1>7, SMT
  <2> HIDE DEF t, e
  <2> QED
    BY <1>2, <1>4, <1>5, <2>1
<1>9. T[i + 1] \div Size(i + 1) = k1
  <2> HIDE DEF t, l, v, k1
  <2>1. (v * t + l) \div (16 * v) = t \div 16
    <3>1. v \in Nat /\ v >= 1 /\ l \in Nat /\ l < v /\ t \in Nat
      BY <1>1, <1>5, <1>7
    <3>2. CarriesOut(v, l, t)
      BY <3>1, CarryOut, Zenon
    <3> QED
      BY <3>2, Zenon DEF CarriesOut
  <2> QED
    BY <1>1, <1>8, <2>1, Zenon DEF k1
<1>10. Digit(w, i) = d
  <2>1. w = Size(i) * (t + 16 * z) + l
    <3> DEFINE f == T[i + 1]
    <3>1. w = f + (16 * v) * z /\ f = v * t + l
      BY <1>1, <1>8, Zenon
    <3> HIDE DEF t, l, v, f
    <3>2. v * (t + 16 * z) = v * t + (16 * v) * z /\ v * t \in Int /\ (16 * v) * z \in Int
      BY <1>1, <1>7, SMT
    <3>3. w = v * (t + 16 * z) + l
      BY <1>5, <3>1, <3>2
    <3> QED
      BY <3>3 DEF v
  <2>2. l \in Nat /\ l < Size(i) /\ t \in Int /\ w \in Int
    BY <1>5, <1>7
  <2> HIDE DEF t, l
  <2> QED
    BY <1>1, <2>1, <2>2, DigitAt, Zenon
<1>11. /\ p \in Nat /\ p >= 1 /\ Power(10, i + 1) = 10 * p
       /\ Decimal(i, w) \in Nat /\ Decimal(i, a) \in Nat /\ Decimal(i, m) \in Nat
       /\ Decimal(i + 1, w) = Decimal(i, w) + Digit(w, i) * p
       /\ Decimal(i + 1, a) = Decimal(i, a) + Digit(a, i) * p
       /\ Decimal(i + 1, m) = Decimal(i, m) + Digit(m, i) * p
  <2>1. 10 \in Nat /\ 10 >= 1
    OBVIOUS
  <2> QED
    BY <1>1, <2>1, PowerNext, PowerPositive, DecimalNext, Zenon
<1>12. /\ Decimal(i, w) < p
       /\ Decimal(i, w) + p * k = Decimal(i, a) + Decimal(i, m) + c
       /\ \A j \in 0 .. i - 1 : Digit(w, j) < 10 /\ ~Missed(a, m, c, j)
  BY Zenon DEF RightBelow
<1>13. Missed(a, m, c, i) <=> (x + b) % 16 = 9 /\ b = 0 /\ k = 1
  <2>1. Digit(a + m + c, i) = (x + b) % 16
    <3>1. ColumnIsSum(a, m, c, i)
      BY ColumnOfSum, Zenon
    <3> QED
      BY <3>1 DEF ColumnIsSum
  <2>2. Decimal(i, a) + Decimal(i, m) + c >= p <=> k = 1
    <3> DEFINE f == Decimal(i, w)
    <3>1. f \in Nat /\ f < p /\ f + p * k = Decimal(i, a) + Decimal(i, m) + c
      BY <1>11, <1>12
    <3>2. f + p * k >= p <=> k = 1
      <4> HIDE DEF f, p, k
      <4>1. k = 0 \/ k = 1
        BY <1>5
      <4> QED
        BY <1>11, <3>1, <4>1
    <3> QED
      BY <3>1, <3>2, Zenon
  <2> QED
    BY <1>3, <2>1, <2>2, Zenon DEF Missed
<1>14. /\ Missed(a, m, c, i) => d = 10
       /\ ~Missed(a, m, c, i) => d \in 0 .. 9 /\ k1 \in {0, 1} /\ d + 10 * k1 = x + k
  <2> HIDE DEF x, b, k
  <2> QED
    BY <1>3, <1>5, <1>6, <1>13, ColumnArithmetic
<1>15. CASE Missed(a, m, c, i)
  <2>1. i \in 0 .. (i + 1) - 1
    BY <1>1
  <2> QED
    BY <1>10, <1>14, <1>15, <2>1, Zenon DEF WrongBelow, ColumnsDone
<1>16. CASE ~Missed(a, m, c, i)
  <2>1. d \in 0 .. 9 /\ k1 \in {0, 1} /\ d + 10 * k1 = (Digit(a, i) + Digit(m, i)) + k
    BY <1>14, <1>16 DEF ColumnSum
  <2>2. /\ Decimal(i + 1, w) < Power(10, i + 1)
        /\ Decimal(i + 1, w) + Power(10, i + 1) * k1 = Decimal(i + 1, a) + Decimal(i + 1, m) + c
    <3> DEFINE f == Decimal(i, a)
               g == Decimal(i, m)
               h == Decimal(i, w)
               u == Digit(a, i)
               y == Digit(m, i)
    <3>1. u \in Nat /\ y \in Nat
      <4>1. u \in 0 .. 15 /\ y \in 0 .. 15
        BY <1>1, DigitOf
      <4> QED
        BY <4>1
    <3>2. f \in Nat /\ g \in Nat /\ h \in Nat /\ h < p /\ p \in Nat /\ p >= 1
          /\ h + p * k = f + g + c /\ d + 10 * k1 = (u + y) + k
      BY <1>11, <1>12, <2>1, Zenon
    <3> HIDE DEF f, g, h, u, y, d, k, k1, p
    <3>3. h + d * p < 10 * p /\ (h + d * p) + (10 * p) * k1 = (f + u * p) + (g + y * p) + c
      BY <1>5, <2>1, <3>1, <3>2, ColumnWeight
    <3> QED
      BY <1>10, <1>11, <3>3, Zenon DEF f, g, h, u, y
  <2>3. \A j \in 0 .. (i + 1) - 1 : Digit(w, j) < 10 /\ ~Missed(a, m, c, j)
    <3>1. Digit(w, i) < 10
      BY <1>10, <2>1
    <3>2. \A j \in 0 .. (i + 1) - 1 : j \in 0 .. i - 1 \/ j = i
      BY <1>1
    <3> QED
      BY <1>12, <1>16, <3>1, <3>2, Zenon
  <2> HIDE DEF k1
  <2> QED
    BY <1>9, <2>1, <2>2, <2>3, Zenon DEF RightBelow, ColumnsDone
<1> QED
  BY <1>15, <1>16

(* Nothing is wrong before the first column.                                *)
LEMMA NoColumn ==
  ASSUME NEW a \in Nat, NEW m \in Nat, NEW c \in {0, 1}, NEW w \in Nat, NEW T, T[0] = c
  PROVE  ColumnsDone(a, m, c, w, T, 0)
<1>1. Size(0) = 1 /\ Power(10, 0) = 1
  BY SizeNext, PowerNext
<1>2. Decimal(0, a) = 0 /\ Decimal(0, m) = 0 /\ Decimal(0, w) = 0
  BY DecimalNext
<1>3. T[0] \div Size(0) = c
  <2>1. c \div 1 = c
    OBVIOUS
  <2> QED
    BY <1>1, <2>1, Zenon
<1>4. \A j \in 0 .. 0 - 1 : FALSE
  OBVIOUS
<1>5. /\ Decimal(0, w) < Power(10, 0)
      /\ Decimal(0, w) + Power(10, 0) * c = Decimal(0, a) + Decimal(0, m) + c
  <2>1. 0 < 1 /\ 0 + 1 * c = 0 + 0 + c
    OBVIOUS
  <2> QED
    BY <1>1, <1>2, <2>1, Zenon
<1>6. RightBelow(a, m, c, w, 0, c)
  BY <1>4, <1>5, Zenon DEF RightBelow
<1> QED
  BY <1>3, <1>6, Zenon DEF ColumnsDone

(* A wrong column stays wrong.                                              *)
LEMMA WrongOnce ==
  ASSUME NEW a, NEW m, NEW c, NEW w, NEW i \in Nat, WrongBelow(a, m, c, w, i)
  PROVE  WrongBelow(a, m, c, w, i + 1)
<1>1. \A j \in 0 .. i - 1 : j \in 0 .. (i + 1) - 1
  OBVIOUS
<1> QED
  BY <1>1, Zenon DEF WrongBelow

(* Column by column: the result is right, or a column was missed.           *)
LEMMA AllColumns ==
  ASSUME NEW n \in Nat, NEW a \in Nat, NEW m \in Nat, NEW c \in {0, 1}, NEW w \in Nat,
         \A i \in 0 .. n - 1 : Digit(a, i) < 10 /\ Digit(m, i) < 10,
         \E z \in Int : w = Corrected(a, m, c, LateColumns(n, a, m, c))[n] + Size(n) * z
  PROVE  ColumnsDone(a, m, c, w, Corrected(a, m, c, LateColumns(n, a, m, c)), n)
<1> DEFINE late == LateColumns(n, a, m, c)
           T == Corrected(a, m, c, late)
           S == {i \in Nat : i <= n => ColumnsDone(a, m, c, w, T, i)}
<1>1. late \in SUBSET Nat
  BY DEF LateColumns
<1>2. /\ T \in [Nat -> Nat] /\ Added(a, m, late) \in [Nat -> Nat] /\ T[0] = c
      /\ \A i \in Nat : T[i + 1] = T[i] + Size(i) * Added(a, m, late)[i]
  <2> HIDE DEF late
  <2>1. AddsUp(T, a, m, c, late)
    BY <1>1, CorrectedNext, Zenon
  <2> HIDE DEF T
  <2> QED
    BY <2>1, Zenon DEF AddsUp
<1>3. \E z \in Int : w = T[n] + Size(n) * z
  OBVIOUS
<1>4. \A i \in 0 .. n : \E z \in Int : w = T[i] + Size(i) * z
  <2> HIDE DEF T, late
  <2>1. \A i \in 0 .. n - 1 : T[i + 1] = T[i] + Size(i) * Added(a, m, late)[i]
    BY <1>2
  <2>2. w \in Int
    OBVIOUS
  <2> DEFINE y == Added(a, m, late)
  <2>3. y \in [Nat -> Nat] /\ \A i \in 0 .. n - 1 : T[i + 1] = T[i] + Size(i) * y[i]
    BY <1>2, <2>1
  <2> HIDE DEF y
  <2> QED
    BY <1>2, <1>3, <2>2, <2>3, LowPart
<1>5. 0 \in S
  BY <1>2, NoColumn
<1>6. ASSUME NEW i \in S PROVE i + 1 \in S
  <2>1. i \in Nat /\ (i <= n => ColumnsDone(a, m, c, w, T, i))
    BY Zenon
  <2>2. i + 1 \in Nat
    BY <2>1
  <2> SUFFICES ASSUME i + 1 <= n PROVE ColumnsDone(a, m, c, w, T, i + 1)
    BY <2>2, Zenon
  <2>3. i < n /\ i <= n /\ i \in 0 .. n - 1 /\ i + 1 \in 0 .. n
    BY <2>1
  <2>4. CASE WrongBelow(a, m, c, w, i)
    BY <2>1, <2>4, WrongOnce, Zenon DEF ColumnsDone
  <2>5. CASE RightBelow(a, m, c, w, i, T[i] \div Size(i))
    <3>1. Digit(a, i) < 10 /\ Digit(m, i) < 10
      BY <2>3, Zenon
    <3>2. \E z \in Int : w = T[i + 1] + Size(i + 1) * z
      BY <1>4, <2>3, Zenon
    <3>3. T = Corrected(a, m, c, LateColumns(n, a, m, c))
      OBVIOUS
    <3> HIDE DEF T, late
    <3> QED
      BY <2>1, <2>3, <2>5, <3>1, <3>2, <3>3, OneColumn, ZenonT(40)
  <2> QED
    BY <2>1, <2>3, <2>4, <2>5, Zenon DEF ColumnsDone
<1>7. S \in SUBSET Nat
  OBVIOUS
<1>8. n \in S
  <2> HIDE DEF S
  <2> QED
    BY <1>5, <1>6, <1>7, SetInduction, Zenon
<1>9. n <= n
  OBVIOUS
<1> QED
  BY <1>8, <1>9, Zenon

(* The columns that are corrected are those AddDec finds.                   *)
LEMMA AdjustedSum ==
  ASSUME NEW n \in Nat, NEW a \in 0 .. Size(n) - 1, NEW m \in 0 .. Size(n) - 1, NEW c \in {0, 1}
  PROVE  Adjusted(n, a + m + c,
                  {i \in 0 .. n - 1 :
                     (a % Size(i + 1)) + (m % Size(i + 1)) + c >= Size(i + 1)})
           = Corrected(a, m, c, LateColumns(n, a, m, c))[n]
<1> DEFINE r == a + m + c
           carried == {i \in 0 .. n - 1 :
                         (a % Size(i + 1)) + (m % Size(i + 1)) + c >= Size(i + 1)}
           late == LateColumns(n, a, m, c)
<1>0. a \in Nat /\ m \in Nat /\ a < Size(n) /\ m < Size(n) /\ Size(n) \in Nat
  BY SizeNext
<1>1. ASSUME NEW i \in 0 .. n - 1
      PROVE  i \in carried \/ Digit(r, i) >= 10 <=> i \in late
  <2> DEFINE x == ColumnSum(a, m, i) + CarryInto(a, m, c, i)
             C == LowSum(a, m, c, i + 1) >= Size(i + 1)
  <2>1. i \in carried <=> C
    BY Zenon DEF LowSum
  <2>2. i \in Nat
    OBVIOUS
  <2>3. x \in Nat /\ x < 32
    <3>1. Digit(a, i) \in 0 .. 15 /\ Digit(m, i) \in 0 .. 15
      BY <1>0, <2>2, DigitOf
    <3>2. CarryInto(a, m, c, i) \in {0, 1}
      BY DEF CarryInto
    <3> QED
      BY <3>1, <3>2 DEF ColumnSum
  <2>4. Digit(r, i) = x % 16 /\ (C <=> x >= 16)
    <3>1. ColumnIsSum(a, m, c, i)
      BY <1>0, <2>2, ColumnOfSum, Zenon
    <3> QED
      BY <3>1 DEF ColumnIsSum
  <2>5. i \in late <=> x >= 10
    BY Zenon DEF LateColumns
  <2> HIDE DEF x, C, r, late, carried
  <2>6. C \/ Digit(r, i) >= 10 <=> x >= 10
    BY <2>3, <2>4
  <2> QED
    BY <2>1, <2>5, <2>6
<1>2. {i \in 0 .. n - 1 : i \in carried \/ Digit(r, i) >= 10} = late
  <2>1. \A i \in late : i \in 0 .. n - 1
    BY Zenon DEF LateColumns
  <2> HIDE DEF late, carried, r
  <2> QED
    BY <1>1, <2>1, Zenon
<1>3. Adjusted(n, r, carried) = r + 6 * WordOf(n, {4 * i : i \in late})
  <2> HIDE DEF late, carried, r
  <2> QED
    BY <1>2, Zenon DEF Adjusted
<1>4. LowSum(a, m, c, n) = r
  <2>1. a % Size(n) = a /\ m % Size(n) = m
    <3> DEFINE k == Size(n)
    <3> HIDE DEF k
    <3>1. a % k = a /\ m % k = m
      BY <1>0 DEF k
    <3> QED
      BY <3>1 DEF k
  <2> QED
    BY <2>1, Zenon DEF LowSum
<1>5. Corrected(a, m, c, late)[n] = LowSum(a, m, c, n) + 6 * WordOf(n, {4 * j : j \in late})
  <2> HIDE DEF late
  <2> QED
    BY Zenon DEF Corrected
<1> HIDE DEF late, carried, r
<1>6. Adjusted(n, r, carried) = Corrected(a, m, c, late)[n]
  BY <1>3, <1>4, <1>5, Zenon
<1> QED
  BY <1>6 DEF r, carried, late

(* The result and its carry, of what the correction leaves.                 *)
LEMMA DecimalFlags ==
  ASSUME NEW n, NEW r, NEW p
  PROVE  /\ DecimalResult(n, r, p).a = r % Size(n)
         /\ CarryIn(DecimalResult(n, r, p).p) = IF (r \div Size(n)) % 2 = 1 THEN 1 ELSE 0
<1> DEFINE CC == (r \div Size(n)) % 2 = 1
           NN == TopBit(n, r) = 1
           ZZ == r % Size(n) = 0
           s == DecimalResult(n, r, p)
<1>1. s.a = r % Size(n)
  BY Zenon DEF DecimalResult
<1>2. s.p = (p \ {"N", "Z", "C"}) \cup (Flag("N", NN) \cup Flag("Z", ZZ)) \cup Flag("C", CC)
  BY Zenon DEF DecimalResult, SetNZ
<1>3. "C" \in s.p <=> CC
  <2> HIDE DEF s, NN, ZZ, CC
  <2>1. "N" # "C" /\ "Z" # "C"
    OBVIOUS
  <2> QED
    BY <1>2, <2>1, Zenon DEF Flag
<1>4. CarryIn(s.p) = IF CC THEN 1 ELSE 0
  <2> HIDE DEF s, CC
  <2> QED
    BY <1>3 DEF CarryIn
<1> QED
  BY <1>1, <1>4

(* MissedCarry is that a column was missed: never the first.                *)
LEMMA MissedColumn ==
  ASSUME NEW n \in Nat, NEW a \in Nat, NEW m \in Nat, NEW c \in {0, 1}
  PROVE  MissedCarry(n, a, m, c) <=> \E i \in 0 .. n - 1 : Missed(a, m, c, i)
<1>1. ~Missed(a, m, c, 0)
  <2> SUFFICES ASSUME Missed(a, m, c, 0) PROVE FALSE
    OBVIOUS
  <2>1. Size(0) = 1 /\ Power(10, 0) = 1
    BY SizeNext, PowerNext
  <2>2. Decimal(0, a) = 0 /\ Decimal(0, m) = 0
    BY DecimalNext
  <2>3. a % Size(0) = 0 /\ m % Size(0) = 0
    <3>1. a % 1 = 0 /\ m % 1 = 0
      OBVIOUS
    <3> QED
      BY <2>1, <3>1, Zenon
  <2>4. LowSum(a, m, c, 0) = 0 + 0 + c
    BY <2>3, Zenon DEF LowSum
  <2>5. 0 + 0 + c < 1 /\ 0 + 0 + c >= 1
    BY <2>1, <2>2, <2>4, Zenon DEF Missed
  <2> QED
    BY <2>5
<1>2. \A i \in 0 .. n - 1 : i = 0 \/ i \in 1 .. n - 1
  OBVIOUS
<1>3. \A i \in 1 .. n - 1 : i \in 0 .. n - 1
  OBVIOUS
<1>4. MissedCarry(n, a, m, c) <=> \E i \in 1 .. n - 1 : Missed(a, m, c, i)
  BY Zenon DEF MissedCarry, Missed, LowSum
<1> QED
  BY <1>1, <1>2, <1>3, <1>4, Zenon

(* Right digits are a decimal sum; a digit $A is not.                       *)
RightSum(n, a, m, c, s) ==
  /\ \A i \in 0 .. n - 1 : Digit(s.a, i) < 10
  /\ Decimal(n, s.a) + Power(10, n) * CarryIn(s.p) = Decimal(n, a) + Decimal(n, m) + c

LEMMA AddDecExact ==
  ASSUME NEW n \in Nat, NEW a \in Decimals(n), NEW m \in Decimals(n), NEW p
  PROVE  RightSum(n, a, m, CarryIn(p), AddDec(n, a, m, p))
           <=> ~MissedCarry(n, a, m, CarryIn(p))
<1> DEFINE c == CarryIn(p)
           s == AddDec(n, a, m, p)
           late == LateColumns(n, a, m, c)
           T == Corrected(a, m, c, late)
           w == T[n] % Size(n)
           k == T[n] \div Size(n)
<1>1. /\ a \in 0 .. Size(n) - 1 /\ m \in 0 .. Size(n) - 1
      /\ \A i \in 0 .. n - 1 : Digit(a, i) < 10 /\ Digit(m, i) < 10
  BY Zenon DEF Decimals
<1>2. a \in Nat /\ m \in Nat /\ Size(n) \in Nat /\ Size(n) >= 1
  BY <1>1, SizeNext
<1>3. c \in {0, 1}
  BY CarryBit
<1>4. T[n] \in Nat
  <2>1. late \in SUBSET Nat
    BY DEF LateColumns
  <2> HIDE DEF late, c
  <2>2. AddsUp(T, a, m, c, late)
    BY <1>2, <1>3, <2>1, CorrectedNext, Zenon
  <2> HIDE DEF T
  <2> QED
    BY <2>2, Zenon DEF AddsUp
<1>5. s.a = w /\ CarryIn(s.p) = IF k % 2 = 1 THEN 1 ELSE 0
  <2> DEFINE carried == {i \in 0 .. n - 1 :
                           (a % Size(i + 1)) + (m % Size(i + 1)) + c >= Size(i + 1)}
             f == T[n]
  <2>1. Adjusted(n, a + m + c, carried) = f
    <3> HIDE DEF c
    <3> QED
      BY <1>1, <1>3, AdjustedSum, Zenon
  <2>2. s = DecimalResult(n, Adjusted(n, a + m + c, carried), p)
    BY Zenon DEF AddDec
  <2> HIDE DEF carried, f, s, c
  <2>3. s = DecimalResult(n, f, p)
    BY <2>1, <2>2, Zenon
  <2>4. s.a = f % Size(n) /\ CarryIn(s.p) = IF (f \div Size(n)) % 2 = 1 THEN 1 ELSE 0
    BY <2>3, DecimalFlags
  <2> QED
    BY <2>4 DEF f
<1>6. /\ w \in Nat /\ k \in Nat
      /\ \E z \in Int : w = T[n] + Size(n) * z
  <2> DEFINE f == T[n]
             b == Size(n)
  <2>1. f \in Nat /\ b \in Nat /\ b >= 1
    BY <1>2, <1>4
  <2> HIDE DEF f, b
  <2>2. f % b \in Nat /\ f \div b \in Nat /\ f = b * (f \div b) + (f % b)
    BY <2>1, Division
  <2>3. \E z \in Int : f % b = f + b * z
    <3> DEFINE q == f \div b
               l == f % b
    <3>1. q \in Nat /\ l \in Nat /\ f = b * q + l
      BY <2>2
    <3> HIDE DEF q, l
    <3>2. b * (-q) = -(b * q) /\ b * q \in Nat /\ -q \in Int
      BY <2>1, <3>1, SMT
    <3>3. l = f + b * (-q)
      BY <3>1, <3>2
    <3> QED
      BY <3>2, <3>3, Zenon DEF l
  <2> QED
    BY <2>2, <2>3, Zenon DEF f, b
<1>7. ColumnsDone(a, m, c, w, T, n)
  <2> HIDE DEF c, w
  <2> QED
    BY <1>1, <1>2, <1>3, <1>6, AllColumns, Zenon
<1> HIDE DEF c, s, late, T, w
<1>8. CASE RightBelow(a, m, c, w, n, k)
  <2>1. CarryIn(s.p) = k
    <3>1. k \in {0, 1}
      BY <1>8, Zenon DEF RightBelow
    <3> HIDE DEF k
    <3> QED
      BY <1>5, <3>1
  <2>2. ~MissedCarry(n, a, m, c)
    BY <1>2, <1>3, <1>8, MissedColumn, Zenon DEF RightBelow
  <2>3. RightSum(n, a, m, c, s)
    BY <1>5, <1>8, <2>1, Zenon DEF RightBelow, RightSum
  <2> QED
    BY <2>2, <2>3, Zenon DEF c, s
<1>9. CASE WrongBelow(a, m, c, w, n)
  <2>1. PICK j \in 0 .. n - 1 : Missed(a, m, c, j) /\ Digit(w, j) = 10
    BY <1>9, Zenon DEF WrongBelow
  <2>2. MissedCarry(n, a, m, c)
    BY <1>2, <1>3, <2>1, MissedColumn, Zenon
  <2>3. ~RightSum(n, a, m, c, s)
    <3>1. ~(10 < 10)
      OBVIOUS
    <3> QED
      BY <1>5, <2>1, <3>1, Zenon DEF RightSum
  <2> QED
    BY <2>2, <2>3, Zenon DEF c, s
<1> QED
  BY <1>7, <1>8, <1>9, Zenon DEF ColumnsDone, k

(* Whatever the accumulator and the operand are.                            *)
LEMMA DecimalIsExact == DecimalAddExact
<1> SUFFICES ASSUME NEW h \in 0 .. 9, NEW k \in 0 .. 9
    PROVE  LET n == Digits + 1
               a == Size(Digits) * h + alu.a
               data == Size(Digits) * k + alu.m
               c == CarryIn(alu.p)
               r == AddDec(n, a, data, alu.p)
               right == /\ \A i \in 0 .. n - 1 : Digit(r.a, i) < 10
                        /\ Decimal(n, r.a) + Power(10, n) * CarryIn(r.p)
                             = Decimal(n, a) + Decimal(n, data) + c
           IN  a \in Decimals(n) /\ data \in Decimals(n) => right = ~MissedCarry(n, a, data, c)
  BY Zenon DEF DecimalAddExact
<1> DEFINE n == Digits + 1
           a == Size(Digits) * h + alu.a
           data == Size(Digits) * k + alu.m
           c == CarryIn(alu.p)
<1> SUFFICES ASSUME a \in Decimals(n), data \in Decimals(n)
             PROVE  RightSum(n, a, data, c, AddDec(n, a, data, alu.p))
                      = ~MissedCarry(n, a, data, c)
  BY Zenon DEF RightSum
<1>1. n \in Nat
  BY AluAssumption
<1> HIDE DEF n, a, data
<1>2. RightSum(n, a, data, c, AddDec(n, a, data, alu.p)) <=> ~MissedCarry(n, a, data, c)
  BY <1>1, AddDecExact, Zenon
<1> QED
  BY <1>2, Zenon DEF RightSum, MissedCarry

-----------------------------------------------------------------------------
(* Every instruction leaves words.                                          *)

Results == [a : Word, p : SUBSET Flags]

(* Setting a flag sets no other thing.                                      *)
LEMMA FlagTypes ==
  /\ \A f \in Flags : \A b : Flag(f, b) \subseteq Flags
  /\ \A n, v : SetNZ(n, v) \subseteq Flags
<1>1. \A f \in Flags : \A b : Flag(f, b) \subseteq Flags
  BY Zenon DEF Flag
<1>2. "N" \in Flags /\ "Z" \in Flags
  BY DEF Flags
<1> QED
  BY <1>1, <1>2, Zenon DEF SetNZ

(* Bits make a word.                                                        *)
LEMMA WordOfType == \A bits : WordOf(Digits, bits) \in Word
<1> TAKE bits
<1>1. 4 * Digits \in Nat
  BY AluAssumption
<1>2. WordOf(Digits, bits) \in Nat /\ WordOf(Digits, bits) < Size(Digits)
  BY <1>1, WordOfBits, Zenon
<1> QED
  BY <1>2, Halving

(* The bitwise operators give words.                                        *)
LEMMA LogicType ==
  \A v, w : And(v, w) \in Word /\ Or(v, w) \in Word /\ Xor(v, w) \in Word /\ AndNot(v, w) \in Word
BY WordOfType, Zenon DEF And, Or, Xor, AndNot

(* Words, their size and the carry are numbers.                             *)
LEMMA WordsAreNumbers ==
  /\ \A v \in Word : v \in Int /\ v \in Nat
  /\ Size(Digits) \in Int
  /\ \A p : CarryIn(p) \in Int
  /\ 0 \in Word
BY Halving, CarryBit

(* A decimal correction may leave what is not a decimal number, but a word. *)
LEMMA DecimalType ==
  ASSUME NEW r \in Int, NEW p \in SUBSET Flags, NEW carried
  PROVE  DecimalResult(Digits, Adjusted(Digits, r, carried), p) \in Results
<1> DEFINE k == Adjusted(Digits, r, carried)
           z == DecimalResult(Digits, k, p)
<1>1. k \in Int
  <2>1. \A bits : WordOf(Digits, bits) \in Int
    BY WordOfType, WordsAreNumbers, Zenon
  <2>2. \E bits : k = r + 6 * WordOf(Digits, bits)
    BY Zenon DEF Adjusted
  <2> HIDE DEF k
  <2> QED
    BY <2>1, <2>2
<1> HIDE DEF k
<1>2. k % Size(Digits) \in Word
  BY <1>1, ResidueIsWord
<1>3. (p \ {"N", "Z", "C"}) \cup SetNZ(Digits, k) \cup Flag("C", (k \div Size(Digits)) % 2 = 1)
        \in SUBSET Flags
  <2>1. "C" \in Flags
    BY DEF Flags
  <2> QED
    BY <2>1, FlagTypes, Zenon
<1> QED
  BY <1>2, <1>3, Zenon DEF DecimalResult, Results, k

(* ADC and SBC leave a word and flags, binary or decimal.                   *)
LEMMA AddSubType ==
  ASSUME NEW a \in Word, NEW m \in Word, NEW p \in SUBSET Flags
  PROVE  /\ AddBin(Digits, a, m, p) \in Results /\ SubBin(Digits, a, m, p) \in Results
         /\ AddDec(Digits, a, m, p) \in Results /\ SubDec(Digits, a, m, p) \in Results
<1>1. "C" \in Flags /\ "V" \in Flags /\ "N" \in Flags /\ "Z" \in Flags
  BY DEF Flags
<1>2. AddBin(Digits, a, m, p) \in Results
  <2>1. AddBin(Digits, a, m, p).a \in Word
    BY AddExact
  <2> QED
    BY <1>1, <2>1, FlagTypes, Zenon DEF AddBin, Results
<1>3. SubBin(Digits, a, m, p) \in Results
  <2>1. SubBin(Digits, a, m, p).a \in Word
    BY SubExact
  <2> QED
    BY <1>1, <2>1, FlagTypes, Zenon DEF SubBin, Results
<1>4. AddDec(Digits, a, m, p) \in Results
  <2>1. a + m + CarryIn(p) \in Int
    BY WordsAreNumbers
  <2> QED
    BY <2>1, DecimalType, Zenon DEF AddDec
<1>5. SubDec(Digits, a, m, p) \in Results
  <2>1. a + (Size(Digits) - 1 - m) + CarryIn(p) \in Int
    BY WordsAreNumbers
  <2> QED
    BY <2>1, DecimalType, Zenon DEF SubDec
<1> QED
  BY <1>2, <1>3, <1>4, <1>5

(* So does every Modify instruction.                                        *)
LEMMA ModifyType ==
  ASSUME NEW v \in Word, NEW p \in SUBSET Flags
  PROVE  LsrOf(Digits, v, p) \in Results /\ Modifications(Digits, v, p) \subseteq Results
<1>1. "C" \in Flags /\ "V" \in Flags /\ "N" \in Flags /\ "Z" \in Flags
  BY DEF Flags
<1>2. /\ (2 * v) % Size(Digits) \in Word /\ (2 * v + CarryIn(p)) % Size(Digits) \in Word
      /\ (v + 1) % Size(Digits) \in Word /\ (v + (-1)) % Size(Digits) \in Word
  BY WordsAreNumbers, ResidueIsWord
<1>3. v \div 2 \in Word /\ (v \div 2) + CarryIn(p) * (Size(Digits) \div 2) \in Word
  <2>1. v \in Nat /\ v < 2 * Half
    BY Halving
  <2> DEFINE c == CarryIn(p)
  <2>2. c = 0 \/ c = 1
    BY CarryBit
  <2>3. /\ v \div 2 \in Nat /\ v \div 2 < 2 * Half
        /\ (v \div 2) + c * Half \in Nat /\ (v \div 2) + c * Half < 2 * Half
    <3> HIDE DEF c
    <3>1. v \div 2 \in Nat /\ v \div 2 < Half /\ Half \in Nat
      BY <2>1, Halving
    <3>2. c * Half = 0 \/ c * Half = Half
      BY <2>2, <3>1
    <3> QED
      BY <3>1, <3>2
  <2> QED
    BY <2>3, Halving, Zenon
<1>4. AslOf(Digits, v, p) \in Results
  BY <1>1, <1>2, FlagTypes, Zenon DEF AslOf, Results
<1>5. LsrOf(Digits, v, p) \in Results
  BY <1>1, <1>3, FlagTypes, Zenon DEF LsrOf, Results
<1>6. RorOf(Digits, v, p) \in Results
  BY <1>1, <1>3, FlagTypes, Zenon DEF RorOf, Results
<1>7. RolOf(Digits, v, p) \in Results
  BY <1>1, <1>2, FlagTypes, Zenon DEF RolOf, Results
<1>8. Stepped(Digits, v, 1, p) \in Results /\ Stepped(Digits, v, -1, p) \in Results
  BY <1>1, <1>2, FlagTypes, Zenon DEF Stepped, Results
<1> QED
  BY <1>4, <1>5, <1>6, <1>7, <1>8, Zenon DEF Modifications

(* At the start.                                                            *)
LEMMA AluTypeInit == AluInit => AluType
<1>1. 0 \in Word
  BY WordsAreNumbers
<1> QED
  BY <1>1 DEF AluInit, AluType

(* And after every instruction.                                             *)
LEMMA AluTypeNext == AluType /\ [AluNext]_alu => AluType'
<1> SUFFICES ASSUME AluType, [AluNext]_alu PROVE AluType'
  OBVIOUS
<1>1. alu \in [a : Word, m : Word, p : SUBSET Flags]
  BY DEF AluType
<1>2. alu.a \in Word /\ alu.m \in Word /\ alu.p \in SUBSET Flags /\ 0 \in Word
  BY <1>1, WordsAreNumbers
<1>3. "N" \in Flags /\ "V" \in Flags /\ "Z" \in Flags /\ "C" \in Flags /\ "D" \in Flags
  BY DEF Flags
<1>4. /\ \A w \in Word : [alu EXCEPT !.a = w] \in [a : Word, m : Word, p : SUBSET Flags]
      /\ \A w \in Word : [alu EXCEPT !.m = w] \in [a : Word, m : Word, p : SUBSET Flags]
      /\ \A q \in SUBSET Flags : [alu EXCEPT !.p = q] \in [a : Word, m : Word, p : SUBSET Flags]
      /\ \A w \in Word, q \in SUBSET Flags :
           /\ [alu EXCEPT !.a = w, !.p = q] \in [a : Word, m : Word, p : SUBSET Flags]
           /\ [alu EXCEPT !.m = w, !.p = q] \in [a : Word, m : Word, p : SUBSET Flags]
  BY <1>1
<1>5. ASSUME NEW r \in Results, Carrying(r) PROVE AluType'
  <2>1. r.a \in Word /\ r.p \in SUBSET Flags
    BY DEF Results
  <2> QED
    BY <1>4, <1>5, <2>1, Zenon DEF Carrying, AluType
<1>6. CASE Address
  BY <1>4, <1>6, Zenon DEF Address, AluType
<1>7. CASE LDA
  <2>1. (alu.p \ {"N", "Z"}) \cup SetNZ(Digits, alu.m) \in SUBSET Flags
    BY <1>2, FlagTypes, Zenon
  <2>2. alu' = [alu EXCEPT !.a = alu.m, !.p = (alu.p \ {"N", "Z"}) \cup SetNZ(Digits, alu.m)]
    BY <1>1, <1>7 DEF LDA
  <2> QED
    BY <1>2, <1>4, <2>1, <2>2, Zenon DEF AluType
<1>8. CASE STA \/ STZ
  BY <1>2, <1>4, <1>8, Zenon DEF STA, STZ, AluType
<1>9. ASSUME NEW c \in Word, LogicTo(c) PROVE AluType'
  <2>1. (alu.p \ {"N", "Z"}) \cup SetNZ(Digits, c) \in SUBSET Flags
    BY <1>2, FlagTypes, Zenon
  <2>2. alu' = [alu EXCEPT !.a = c, !.p = (alu.p \ {"N", "Z"}) \cup SetNZ(Digits, c)]
    BY <1>1, <1>9 DEF LogicTo
  <2> QED
    BY <1>4, <2>1, <2>2, Zenon DEF AluType
<1>10. CASE Logic
  BY <1>9, <1>10, LogicType, Zenon DEF Logic
<1>11. CASE ADC
  BY <1>2, <1>5, <1>11, AddSubType, Zenon DEF ADC
<1>12. CASE SBC
  BY <1>2, <1>5, <1>12, AddSubType, Zenon DEF SBC
<1>13. CASE CMP
  <2>1. DoCmp(Digits, alu.a, alu.m, alu.p) \in SUBSET Flags
    BY <1>2, <1>3, FlagTypes, Zenon DEF DoCmp
  <2>2. alu' = [alu EXCEPT !.p = DoCmp(Digits, alu.a, alu.m, alu.p)]
    BY <1>1, <1>13 DEF CMP
  <2> QED
    BY <1>4, <2>1, <2>2, Zenon DEF AluType
<1>14. CASE BIT
  <2> DEFINE q == (alu.p \ {"N", "V", "Z"})
                    \cup Flag("Z", And(alu.a, alu.m) = 0)
                    \cup Flag("N", TopBit(Digits, alu.m) = 1)
                    \cup Flag("V", ((4 * alu.m) \div Size(Digits)) % 2 = 1)
  <2>1. q \in SUBSET Flags
    BY <1>2, <1>3, FlagTypes, Zenon
  <2>2. alu' = [alu EXCEPT !.p = q]
    BY <1>1, <1>14 DEF BIT
  <2> QED
    BY <1>4, <2>1, <2>2, Zenon DEF AluType
<1>15. (alu.p \ {"Z"}) \cup Flag("Z", And(alu.a, alu.m) = 0) \in SUBSET Flags
  BY <1>2, <1>3, FlagTypes, Zenon
<1>16. CASE BITImm
  <2>1. alu' = [alu EXCEPT !.p = (alu.p \ {"Z"}) \cup Flag("Z", And(alu.a, alu.m) = 0)]
    BY <1>1, <1>16 DEF BITImm
  <2> QED
    BY <1>4, <1>15, <2>1, Zenon DEF AluType
<1>17. ASSUME NEW m \in Word, TestAnd(m) PROVE AluType'
  <2>1. alu' = [alu EXCEPT !.m = m, !.p = (alu.p \ {"Z"}) \cup Flag("Z", And(alu.a, alu.m) = 0)]
    BY <1>1, <1>17 DEF TestAnd
  <2> QED
    BY <1>4, <1>15, <2>1, Zenon DEF AluType
<1>18. CASE TSB \/ TRB
  BY <1>17, <1>18, LogicType, Zenon DEF TSB, TRB
<1>19. CASE ModifyA
  BY <1>2, <1>5, <1>19, ModifyType, Zenon DEF ModifyA
<1>20. CASE ModifyMemory
  <2>1. \A r \in Results : r.a \in Word /\ r.p \in SUBSET Flags
    BY DEF Results
  <2>2. Modifications(Digits, alu.m, alu.p) \subseteq Results
    BY <1>2, ModifyType, Zenon
  <2>3. PICK r \in Results : alu' = [alu EXCEPT !.m = r.a, !.p = r.p]
    BY <1>20, <2>2, Zenon DEF ModifyMemory
  <2> QED
    BY <1>4, <2>1, <2>3, Zenon DEF AluType
<1>21. CASE ALR
  BY <1>2, <1>5, <1>21, LogicType, ModifyType, Zenon DEF ALR
<1>22. CASE ANC
  <2> DEFINE r == And(alu.a, 11 % Size(Digits))
             nz == SetNZ(Digits, r)
             q == (alu.p \ {"N", "Z", "C"}) \cup nz \cup Flag("C", "N" \in nz)
  <2>1. r \in Word /\ q \in SUBSET Flags
    BY <1>2, <1>3, FlagTypes, LogicType, Zenon
  <2>2. alu' = [alu EXCEPT !.a = r, !.p = q]
    BY <1>1, <1>22 DEF ANC
  <2> QED
    BY <1>4, <2>1, <2>2, Zenon DEF AluType
<1>23. CASE SetFlag \/ ClearFlag
  <2>1. \E q \in SUBSET Flags : alu' = [alu EXCEPT !.p = q]
    BY <1>1, <1>2, <1>23 DEF SetFlag, ClearFlag, Flags
  <2> QED
    BY <1>4, <2>1, Zenon DEF AluType
<1>24. CASE UNCHANGED alu
  BY <1>24 DEF AluType
<1> QED
  BY <1>6, <1>7, <1>8, <1>10, <1>11, <1>12, <1>13, <1>14, <1>16, <1>18, <1>19, <1>20,
     <1>21, <1>22, <1>23, <1>24, Zenon DEF AluNext

(* The accumulator and the operand stay words.                              *)
LEMMA AluTypeAlways == AluSpec => []AluType
BY AluTypeInit, AluTypeNext, PTL DEF AluSpec

(* For words of any number of digits, whatever instructions came before:    *)
(* binary ADC and SBC give the unsigned sum and difference with C, V is set *)
(* exactly when the signed one does not fit, and N and Z describe A, but    *)
(* for the one zero Z is not set for (cpu_65c816_instructions.inl, AddBin   *)
(* and SubBin).                                                             *)
THEOREM BinaryExactAlways == AluSpec => []BinaryExact
BY AluTypeAlways, BinaryIsExact, PTL

(* For words of any number of digits: no bit is lost between two shifts, as *)
(* shifts and rotates of numbers of several words need (the Asl, Lsr, Rol   *)
(* and Ror operations of cpu_65c816_instructions.inl).                      *)
THEOREM ShiftsUndoneAlways == AluSpec => []ShiftsUndone
BY AluTypeAlways, ShiftsAreUndone, PTL

(* For numbers of any number of digits: decimal ADC gives the decimal sum   *)
(* and its carry except, precisely, where a correction carries into a column *)
(* of 9 (cpu_65c816_instructions.inl, AddDec).                              *)
THEOREM DecimalAddExactAlways == AluSpec => []DecimalAddExact
BY DecimalIsExact, PTL
=============================================================================
