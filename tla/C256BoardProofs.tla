-------------------------- MODULE C256BoardProofs --------------------------
(***************************************************************************)
(* Proofs about C256Board, for every amount of memory, every width of the  *)
(* data and every set of addresses: the debugger leaves devices alone, and *)
(* every write to a unit of the math coprocessor leaves the results its    *)
(* operands ask for.  The second rests on the arithmetic of numbers of     *)
(* several bytes, whose size is a constant.                                *)
(***************************************************************************)
EXTENDS C256Board, TLAPS

\* Addresses are those of the bus, and no cell is behind a page without memory.
Wired == probe \in Probes /\ Nowhere \notin DOMAIN cell

\* Holds at the start.
LEMMA WiredInit == BoardInit => Wired
BY SMT DEF BoardInit, Wired, CellsOf

\* No access adds a cell or takes one away.
LEMMA WiredNext == Wired /\ [BoardNext]_boardVars => Wired'
<1> SUFFICES ASSUME Wired, [BoardNext]_boardVars
             PROVE  probe' = probe /\ DOMAIN cell' = DOMAIN cell
  BY SMT DEF Wired, Nowhere, At
<1>1. ASSUME NEW a \in probe, CpuRead(a) \/ Peek(a)
      PROVE  probe' = probe /\ DOMAIN cell' = DOMAIN cell
  BY SMT, <1>1 DEF CpuRead, Peek
<1>2. ASSUME NEW a \in probe, NEW v \in DataByte, CpuWrite(a, v) \/ Poke(a, v)
      PROVE  probe' = probe /\ DOMAIN cell' = DOMAIN cell
  <2>1. DOMAIN WriteByte(a, v) = DOMAIN cell
    BY SMT DEF WriteByte, GavinIoWrite
  <2> QED
    BY SMT, <1>2, <2>1 DEF CpuWrite, Poke
<1>3. CASE PowerOn
  BY SMT, <1>3 DEF PowerOn
<1>4. CASE UNCHANGED boardVars
  BY SMT, <1>4 DEF boardVars
<1> QED
  BY SMT, <1>1, <1>2, <1>3, <1>4 DEF BoardNext

\* So the cells are the same in every state.
LEMMA WiredAlways == BoardSpec => []Wired
BY WiredInit, WiredNext, PTL DEF BoardSpec

\* An address is a number.
LEMMA AddressIsNat == BusAddresses \subseteq Nat
BY SMT DEF BusAddresses

\* Where a trapped address is no device it is memory of the first page, and the
\* page table would have found the same byte.
LEMMA TrappedMemory ==
  ASSUME NEW a \in BusAddresses, TrapsIo(a), ~IsIoDeviceAddress(a)
  PROVE  /\ Behind(a) = At("ram", a)
         /\ Ptr(a) \in {At("ram", a), Nowhere}
<1>1. BankOf(a) # 175 /\ ~IsGavin(a)
  BY SMT DEF IsIoDeviceAddress, IsGavin, BankOf
<1>2. a \div 4096 = 0 /\ a \in Nat
  <2>1. a \in Nat
    BY AddressIsNat
  <2>2. a \div PageSize = 0
    BY Zenon, <1>1 DEF TrapsIo
  <2> QED
    BY SMT, <2>1, <2>2 DEF PageSize
<1>3. a < 4096
  BY SMT, <1>2
<1>4. BankOf(a) = 0
  BY SMT, <1>2, <1>3 DEF BankOf
<1>5. Behind(a) = At("ram", a)
  BY SMT, <1>1 DEF Behind
<1>6. Ptr(a) \in {At("ram", a), Nowhere}
  BY SMT, <1>4 DEF Ptr
<1> QED
  BY <1>5, <1>6

\* What is not trapped is no device's.
LEMMA UntrappedMemory ==
  ASSUME NEW a \in BusAddresses, ~TrapsIo(a)
  PROVE  Ptr(a).array \notin {"gavin", "io"}
<1>1. BankOf(a) # 175
  BY SMT DEF TrapsIo, BankOf
<1>2. \/ Ptr(a) = At("ram", a)
      \/ Ptr(a) = At("vram", a - 176 * 65536)
      \/ Ptr(a) = At("sysflash", a - 240 * 65536)
      \/ Ptr(a) = At("userflash", a - 248 * 65536)
      \/ Ptr(a) = At("none", 0)
  BY SMT, <1>1 DEF Ptr, Nowhere
<1> QED
  BY SMT, <1>2 DEF At

\* Whatever the program has done to memory and devices before, a poke changes no
\* register of a device and reaches the memory that shares a page with them
\* (c256.cc:92-122, 151-178; lua_cpu.cc:69-79).
THEOREM DebuggerSparesDevicesAlways == BoardSpec => DebuggerSparesDevices
<1> DEFINE Spares(a, v) ==
      /\ \A k \in DOMAIN cell : k.array \in {"gavin", "io"} => cell'[k] = cell[k]
      /\ Ptr(a) \in DOMAIN cell /\ ~ReadOnly(a) => cell'[Ptr(a)] = v
<1>1. ASSUME Wired, NEW a \in probe, NEW v \in DataByte, Poke(a, v)
      PROVE  Spares(a, v)
  <2>1. a \in BusAddresses
    BY <1>1, BoardAssumption DEF Wired
  <2>2. cell' = WriteByte(a, v) /\ ~QueryIo(a)
    BY <1>1 DEF Poke, CpuWrite
  <2>3. CASE TrapsIo(a)
    <3>1. Behind(a) = At("ram", a) /\ Ptr(a) \in {At("ram", a), Nowhere}
      BY <2>1, <2>2, <2>3, TrappedMemory DEF QueryIo
    <3>2. cell' = [cell EXCEPT ![At("ram", a)] = v]
      BY SMT, <2>2, <2>3, <3>1 DEF WriteByte, At
    <3> QED
      BY SMT, <1>1, <3>1, <3>2 DEF Wired, At
  <2>4. CASE ~TrapsIo(a)
    <3>1. Ptr(a).array \notin {"gavin", "io"}
      BY <2>1, <2>4, UntrappedMemory
    <3>2. cell' = IF ReadOnly(a) \/ Ptr(a) = Nowhere THEN cell ELSE [cell EXCEPT ![Ptr(a)] = v]
      BY SMT, <2>2, <2>4 DEF WriteByte
    <3> QED
      BY SMT, <1>1, <3>1, <3>2 DEF Wired
  <2> QED
    BY <2>3, <2>4
<1>2. Wired /\ [BoardNext]_boardVars
        => [\A a \in probe, v \in DataByte : Poke(a, v) => Spares(a, v)]_boardVars
  BY <1>1
<1> QED
  BY <1>2, WiredAlways, PTL DEF BoardSpec, DebuggerSparesDevices

-----------------------------------------------------------------------------
(* Numbers of several bytes                                                 *)

\* What \div and % give for numbers.
LEMMA Division ==
  ASSUME NEW a \in Nat, NEW n \in Nat, n >= 1
  PROVE  /\ a % n \in Nat /\ a % n < n
         /\ a \div n \in Nat
         /\ a = n * (a \div n) + (a % n)
<1>1. a % n \in Nat /\ a % n < n
  BY SMT
<1>2. a \div n \in Nat
  BY SMT
<1>3. a = n * (a \div n) + (a % n)
  BY <1>1, <1>2, SMT
<1> QED
  BY <1>1, <1>2, <1>3

\* There is one quotient and one remainder.
LEMMA Quotient ==
  ASSUME NEW a \in Nat, NEW n \in Nat, n >= 1,
         NEW q \in Nat, NEW r \in Nat, r < n, a = n * q + r
  PROVE  a \div n = q /\ a % n = r
BY SMT

\* The quotient of a number of two digits is a digit.
LEMMA HighDigit ==
  ASSUME NEW w \in Nat, NEW n \in Nat, n >= 1, w < n * n
  PROVE w \div n < n
BY SMT

\* The sizes of a byte and a word.
LEMMA DataSizes ==
  /\ DataSize \in Nat /\ DataSize >= 1
  /\ WordSize = DataSize * DataSize /\ WordSize \in Nat /\ WordSize >= 1
  /\ WordSize * WordSize \in Nat /\ WordSize * WordSize >= 1
<1>1. DataSize \in Nat /\ DataSize >= 1
  BY BoardAssumption
<1>2. WordSize = DataSize * DataSize
  BY DEF WordSize
<1>3. WordSize \in Nat /\ WordSize >= 1
  BY <1>1, <1>2
<1>4. WordSize * WordSize \in Nat /\ WordSize * WordSize >= 1
  BY <1>3
<1> QED
  BY <1>1, <1>2, <1>3, <1>4

\* The two low bytes of a number are its low word.
LEMMA LowWord ==
  ASSUME NEW r \in Nat
  PROVE  (r % DataSize) + DataSize * ((r \div DataSize) % DataSize) = r % WordSize
<1> DEFINE q == r \div DataSize
           r0 == r % DataSize
           q2 == q \div DataSize
           r1 == q % DataSize
           low == r0 + DataSize * r1
<1>1. q \in Nat /\ r0 \in Nat /\ r0 < DataSize /\ r = DataSize * q + r0
  BY DataSizes, Division
<1>2. q2 \in Nat /\ r1 \in Nat /\ r1 < DataSize /\ q = DataSize * q2 + r1
  <2> HIDE DEF q
  <2> QED
    BY <1>1, DataSizes, Division
<1> HIDE DEF q, r0, q2, r1
<1>3. DataSize * q = WordSize * q2 + DataSize * r1
  <2>1. DataSize * (DataSize * q2 + r1) = (DataSize * DataSize) * q2 + DataSize * r1
    BY <1>2, DataSizes
  <2> QED
    BY <1>2, <2>1, DataSizes, Zenon
<1>4. low \in Nat /\ low < WordSize
  <2>1. DataSize * r1 <= DataSize * (DataSize - 1)
    BY <1>2, DataSizes
  <2>2. DataSize * (DataSize - 1) = WordSize - DataSize
    BY DataSizes
  <2>3. DataSize * r1 \in Nat
    BY <1>2, DataSizes
  <2> QED
    BY <1>1, <2>1, <2>2, <2>3, DataSizes
<1>5. r = WordSize * q2 + low
  <2>1. WordSize * q2 \in Nat /\ DataSize * r1 \in Nat
    BY <1>2, DataSizes
  <2> QED
    BY <1>1, <1>3, <2>1
<1> HIDE DEF low
<1>6. r % WordSize = low
  BY <1>2, <1>4, <1>5, DataSizes, Quotient
<1> QED
  BY <1>6, Zenon DEF low, q, r0, r1

\* A number's bytes are bytes, and make the number.
LEMMA BytesOfLong ==
  ASSUME NEW r \in Nat
  PROVE  /\ \A i \in 0 .. 3 : ByteAt(r, i) \in DataByte
         /\ ByteAt(r, 0) + DataSize * ByteAt(r, 1) = r % WordSize
         /\ r < WordSize * WordSize
              => ByteAt(r, 2) + DataSize * ByteAt(r, 3) = r \div WordSize
<1> DEFINE h == r \div WordSize
<1>1. h \in Nat
  BY DataSizes, Division
<1> HIDE DEF h
<1>2. /\ ByteAt(r, 0) = r % DataSize /\ ByteAt(r, 1) = (r \div DataSize) % DataSize
      /\ ByteAt(r, 2) = h % DataSize /\ ByteAt(r, 3) = (h \div DataSize) % DataSize
  BY DEF ByteAt, h
<1>3. \A n \in Nat : n % DataSize \in DataByte
  <2> TAKE n \in Nat
  <2>1. n % DataSize \in Nat /\ n % DataSize < DataSize
    BY DataSizes, Division
  <2> QED
    BY <2>1, DataSizes DEF DataByte
<1>4. r \div DataSize \in Nat /\ h \div DataSize \in Nat
  BY <1>1, DataSizes, Division
<1>5. \A i \in 0 .. 3 : ByteAt(r, i) \in DataByte
  <2>1. /\ ByteAt(r, 0) \in DataByte /\ ByteAt(r, 1) \in DataByte
        /\ ByteAt(r, 2) \in DataByte /\ ByteAt(r, 3) \in DataByte
    BY <1>1, <1>2, <1>3, <1>4, Zenon
  <2>2. \A i \in 0 .. 3 : i = 0 \/ i = 1 \/ i = 2 \/ i = 3
    OBVIOUS
  <2> QED
    BY <2>1, <2>2, Zenon
<1>6. ByteAt(r, 0) + DataSize * ByteAt(r, 1) = r % WordSize
  BY <1>2, LowWord, Zenon
<1>7. ASSUME r < WordSize * WordSize
      PROVE  ByteAt(r, 2) + DataSize * ByteAt(r, 3) = h
  <2>1. h < WordSize
    BY <1>7, DataSizes, HighDigit DEF h
  <2>2. h % WordSize = h
    <3>1. h = WordSize * 0 + h
      BY <1>1, DataSizes
    <3> QED
      BY <1>1, <2>1, <3>1, DataSizes, Quotient
  <2>3. (h % DataSize) + DataSize * ((h \div DataSize) % DataSize) = h % WordSize
    BY <1>1, LowWord
  <2> QED
    BY <1>2, <2>2, <2>3, Zenon
<1> QED
  BY <1>5, <1>6, <1>7 DEF h

-----------------------------------------------------------------------------
(* The math coprocessor                                                     *)

\* A word of bytes, and a long number of words.
LEMMA WordIsWord ==
  ASSUME NEW c, NEW reg \in Nat,
         c[At("gavin", reg)] \in DataByte, c[At("gavin", reg + 1)] \in DataByte
  PROVE  WordAt(c, reg) \in Nat /\ WordAt(c, reg) < WordSize
<1> DEFINE low == c[At("gavin", reg)]
           high == c[At("gavin", reg + 1)]
<1>1. low \in Nat /\ low < DataSize /\ high \in Nat /\ high <= DataSize - 1
  BY DataSizes DEF DataByte
<1>2. WordAt(c, reg) = low + DataSize * high
  BY DEF WordAt
<1> HIDE DEF low, high
<1>3. DataSize * high <= DataSize * (DataSize - 1) /\ DataSize * high \in Nat
  BY <1>1, DataSizes
<1>4. DataSize * (DataSize - 1) = WordSize - DataSize
  BY DataSizes
<1> QED
  BY <1>1, <1>2, <1>3, <1>4, DataSizes

\* Registers that hold the bytes of a number are that number.
LEMMA RegistersOfBytes ==
  ASSUME NEW c, NEW r \in Nat, NEW reg \in Nat, r < WordSize * WordSize,
         c[At("gavin", reg)] = ByteAt(r, 0), c[At("gavin", reg + 1)] = ByteAt(r, 1),
         c[At("gavin", reg + 2)] = ByteAt(r, 2), c[At("gavin", reg + 3)] = ByteAt(r, 3)
  PROVE  /\ WordAt(c, reg) = r % WordSize
         /\ WordAt(c, reg + 2) = r \div WordSize
         /\ LongAt(c, reg) = r
<1>1. WordAt(c, reg) = r % WordSize
  BY BytesOfLong, Zenon DEF WordAt
<1>2. WordAt(c, reg + 2) = r \div WordSize
  <2>1. (reg + 2) + 1 = reg + 3
    OBVIOUS
  <2>2. WordAt(c, reg + 2) = ByteAt(r, 2) + DataSize * ByteAt(r, 3)
    BY <2>1, Zenon DEF WordAt
  <2> QED
    BY <2>2, BytesOfLong, Zenon
<1>3. r = WordSize * (r \div WordSize) + (r % WordSize)
      /\ r % WordSize \in Nat /\ r \div WordSize \in Nat
  BY DataSizes, Division
<1>4. LongAt(c, reg) = (r % WordSize) + WordSize * (r \div WordSize)
  BY <1>1, <1>2, Zenon DEF LongAt
<1>5. \A x, y \in Nat : WordSize * x \in Nat => y + WordSize * x = WordSize * x + y
  BY DataSizes
<1>6. WordSize * (r \div WordSize) \in Nat
  BY <1>3, DataSizes
<1>7. (r % WordSize) + WordSize * (r \div WordSize)
        = WordSize * (r \div WordSize) + (r % WordSize)
  BY <1>3, <1>5, <1>6, Zenon
<1>8. LongAt(c, reg) = r
  BY <1>3, <1>4, <1>7, Zenon
<1> QED
  BY <1>1, <1>2, <1>8

\* The bytes of a long number.
LEMMA FourBytes ==
  /\ 0 \in 0 .. 3 /\ 1 \in 0 .. 3 /\ 2 \in 0 .. 3 /\ 3 \in 0 .. 3
  /\ \A i \in 0 .. 3 : i = 0 \/ i = 1 \/ i = 2 \/ i = 3
OBVIOUS

\* A long number of registers.
LEMMA LongIsLong ==
  ASSUME NEW c, NEW reg \in Nat, \A i \in 0 .. 3 : c[At("gavin", reg + i)] \in DataByte
  PROVE  LongAt(c, reg) \in Nat
<1>1. WordAt(c, reg) \in Nat
  <2>1. c[At("gavin", reg + 0)] \in DataByte /\ c[At("gavin", reg + 1)] \in DataByte
    BY FourBytes, Zenon
  <2>2. reg + 0 = reg
    OBVIOUS
  <2> QED
    BY <2>1, <2>2, WordIsWord, Zenon
<1>2. WordAt(c, reg + 2) \in Nat
  <2>1. c[At("gavin", reg + 2)] \in DataByte /\ c[At("gavin", reg + 3)] \in DataByte
    BY FourBytes, Zenon
  <2>2. (reg + 2) + 1 = reg + 3 /\ reg + 2 \in Nat
    OBVIOUS
  <2> QED
    BY <2>1, <2>2, WordIsWord, Zenon
<1>3. WordSize * WordAt(c, reg + 2) \in Nat
  BY <1>2, DataSizes
<1>4. \A x, y \in Nat : x + y \in Nat
  OBVIOUS
<1> QED
  BY <1>1, <1>3, <1>4, Zenon DEF LongAt

\* The registers of a unit, in c, are there and hold bytes.
Whole(c, unit) ==
  \A i \in unit.base .. unit.result + 3 :
    At("gavin", i) \in DOMAIN c /\ c[At("gavin", i)] \in DataByte

\* The operands of the three kinds of units, and what each gives.
LEMMA Operands ==
  ASSUME NEW c, NEW unit \in Units, Whole(c, unit)
  PROVE  /\ unit.base \in Nat /\ unit.result \in Nat
         /\ WordAt(c, unit.base) \in Nat /\ WordAt(c, unit.base) < WordSize
         /\ WordAt(c, unit.base + 2) \in Nat /\ WordAt(c, unit.base + 2) < WordSize
         /\ unit.base = 32 => LongAt(c, 32) \in Nat /\ LongAt(c, 36) \in Nat
<1>1. /\ unit.base \in Nat /\ unit.result \in Nat
      /\ unit.base + 4 <= unit.result
      /\ unit.base = 32 => unit.result = 40
  BY SMT DEF Units
<1>2. \A i \in 0 .. 3 : c[At("gavin", unit.base + i)] \in DataByte
  <2> TAKE i \in 0 .. 3
  <2>1. unit.base + i \in unit.base .. unit.result + 3
    BY SMT, <1>1
  <2> QED
    BY <2>1, Zenon DEF Whole
<1>3. WordAt(c, unit.base) \in Nat /\ WordAt(c, unit.base) < WordSize
  <2>1. c[At("gavin", unit.base + 0)] \in DataByte /\ c[At("gavin", unit.base + 1)] \in DataByte
    BY <1>2, FourBytes, Zenon
  <2>2. unit.base + 0 = unit.base
    BY <1>1
  <2> QED
    BY <1>1, <2>1, <2>2, WordIsWord, Zenon
<1>4. WordAt(c, unit.base + 2) \in Nat /\ WordAt(c, unit.base + 2) < WordSize
  <2>1. c[At("gavin", unit.base + 2)] \in DataByte /\ c[At("gavin", unit.base + 3)] \in DataByte
    BY <1>2, FourBytes, Zenon
  <2>2. (unit.base + 2) + 1 = unit.base + 3 /\ unit.base + 2 \in Nat
    BY <1>1
  <2> QED
    BY <2>1, <2>2, WordIsWord, Zenon
<1>5. ASSUME unit.base = 32
      PROVE  LongAt(c, 32) \in Nat /\ LongAt(c, 36) \in Nat
  <2>1. \A i \in 32 .. 43 : c[At("gavin", i)] \in DataByte
    <3>1. unit.base .. unit.result + 3 = 32 .. 43
      BY SMT, <1>1, <1>5
    <3> QED
      BY <3>1, Zenon DEF Whole
  <2>2. /\ \A i \in 0 .. 3 : c[At("gavin", 32 + i)] \in DataByte
        /\ \A i \in 0 .. 3 : c[At("gavin", 36 + i)] \in DataByte
    <3>1. \A i \in 0 .. 3 : 32 + i \in 32 .. 43 /\ 36 + i \in 32 .. 43
      OBVIOUS
    <3> QED
      BY <2>1, <3>1, Zenon
  <2>3. 32 \in Nat /\ 36 \in Nat
    OBVIOUS
  <2> QED
    BY <2>2, <2>3, LongIsLong, Zenon
<1> QED
  BY <1>1, <1>3, <1>4, <1>5

\* The registers of its result hold two words.
LEMMA ResultWords ==
  ASSUME NEW c, NEW unit \in Units, Whole(c, unit)
  PROVE  WordAt(c, unit.result) \in Nat /\ WordAt(c, unit.result + 2) \in Nat
<1>1. unit.result \in Nat /\ unit.base \in Nat /\ unit.base <= unit.result
  BY SMT DEF Units
<1>2. \A i \in 0 .. 3 : c[At("gavin", unit.result + i)] \in DataByte
  <2> TAKE i \in 0 .. 3
  <2>1. unit.result + i \in unit.base .. unit.result + 3
    BY SMT, <1>1
  <2> QED
    BY <2>1, Zenon DEF Whole
<1>3. WordAt(c, unit.result) \in Nat
  <2>1. c[At("gavin", unit.result + 0)] \in DataByte /\ c[At("gavin", unit.result + 1)] \in DataByte
    BY <1>2, FourBytes, Zenon
  <2>2. unit.result + 0 = unit.result
    BY <1>1
  <2> QED
    BY <1>1, <2>1, <2>2, WordIsWord, Zenon
<1>4. WordAt(c, unit.result + 2) \in Nat
  <2>1. c[At("gavin", unit.result + 2)] \in DataByte /\ c[At("gavin", unit.result + 3)] \in DataByte
    BY <1>2, FourBytes, Zenon
  <2>2. (unit.result + 2) + 1 = unit.result + 3 /\ unit.result + 2 \in Nat
    BY <1>1
  <2> QED
    BY <2>1, <2>2, WordIsWord, Zenon
<1> QED
  BY <1>3, <1>4

\* The product of two words has four bytes.
LEMMA ProductIsLong ==
  ASSUME NEW n \in Nat, n >= 1, NEW a \in Nat, NEW b \in Nat, a < n, b < n
  PROVE  a * b \in Nat /\ a * b < n * n
<1>1. a * b \in Nat
  OBVIOUS
<1>2. CASE b = 0
  <2>1. a * b = 0
    BY <1>2
  <2>2. n * n >= 1
    OBVIOUS
  <2> QED
    BY <2>1, <2>2, <1>1
<1>3. CASE b >= 1
  <2>1. a * b < n * b
    BY <1>3
  <2>2. n * b <= n * n
    OBVIOUS
  <2>3. n * b \in Nat /\ n * n \in Nat
    OBVIOUS
  <2> QED
    BY <1>1, <2>1, <2>2, <2>3
<1> QED
  BY <1>2, <1>3

\* So have a quotient below a remainder, and each is a word.
LEMMA QuotientIsLong ==
  ASSUME NEW n \in Nat, n >= 1, NEW a \in Nat, NEW b \in Nat, a < n, b < n, b >= 1
  PROVE  LET r == (a \div b) + n * (a % b)
         IN  /\ r \in Nat /\ r < n * n
             /\ r % n = a \div b /\ r \div n = a % b
<1> DEFINE q == a \div b
           m == a % b
           r == q + n * m
<1>1. q \in Nat /\ m \in Nat /\ m < b /\ a = b * q + m
  BY Division
<1> HIDE DEF q, m
<1>2. q <= a
  <2>1. q <= b * q
    BY <1>1
  <2>2. b * q \in Nat
    BY <1>1
  <2> QED
    BY <1>1, <2>1, <2>2
<1>3. q < n
  BY <1>1, <1>2
<1>4. n * m \in Nat /\ n * m <= n * (n - 1) /\ n * (n - 1) = n * n - n /\ n * n \in Nat
  <2>1. m <= n - 1
    BY <1>1
  <2> QED
    BY <1>1, <2>1
<1>5. r \in Nat /\ r < n * n /\ r = n * m + q
  BY <1>1, <1>3, <1>4
<1> HIDE DEF r
<1>6. r \div n = m /\ r % n = q
  BY <1>1, <1>3, <1>5, Quotient
<1> QED
  BY <1>5, <1>6, Zenon DEF r, q, m

\* The result of a unit has four bytes.
LEMMA ResultIsLong ==
  ASSUME NEW c, NEW unit \in Units, Whole(c, unit)
  PROVE  ResultOf(c, unit) \in Nat /\ ResultOf(c, unit) < WordSize * WordSize
<1> DEFINE a == WordAt(c, unit.base)
           b == WordAt(c, unit.base + 2)
<1>1. a \in Nat /\ a < WordSize /\ b \in Nat /\ b < WordSize
  BY Operands, Zenon
<1>2. \/ unit.base \in {0, 8} /\ ResultOf(c, unit) = Multiplied(c, unit.base)
      \/ unit.base \in {16, 24} /\ ResultOf(c, unit) = Divided(c, unit.base)
      \/ unit.base = 32 /\ ResultOf(c, unit) = Added(c, unit.base)
  <2>1. unit.base \in {0, 8} \/ unit.base \in {16, 24} \/ unit.base = 32
    BY SMT DEF Units
  <2>2. /\ ~(unit.base \in {0, 8} /\ unit.base \in {16, 24})
        /\ ~(unit.base \in {0, 8} /\ unit.base = 32)
        /\ ~(unit.base \in {16, 24} /\ unit.base = 32)
    OBVIOUS
  <2> QED
    BY <2>1, <2>2, Zenon DEF ResultOf
<1>3. ASSUME ResultOf(c, unit) = Multiplied(c, unit.base)
      PROVE  ResultOf(c, unit) \in Nat /\ ResultOf(c, unit) < WordSize * WordSize
  <2>1. ResultOf(c, unit) = a * b
    BY <1>3, Zenon DEF Multiplied
  <2> HIDE DEF a, b
  <2>2. a * b \in Nat /\ a * b < WordSize * WordSize
    BY <1>1, DataSizes, ProductIsLong
  <2> QED
    BY <2>1, <2>2, Zenon
<1>4. ASSUME ResultOf(c, unit) = Divided(c, unit.base)
      PROVE  ResultOf(c, unit) \in Nat /\ ResultOf(c, unit) < WordSize * WordSize
  <2>1. ResultOf(c, unit) = IF b = 0 THEN 0 ELSE (a \div b) + WordSize * (a % b)
    BY <1>4, Zenon DEF Divided
  <2> HIDE DEF a, b
  <2>2. CASE b = 0
    <3>1. ResultOf(c, unit) = 0
      BY <2>1, <2>2, Zenon
    <3> QED
      BY <3>1, DataSizes
  <2>3. CASE b # 0
    <3>1. b >= 1
      BY <1>1, <2>3
    <3>2. LET r == (a \div b) + WordSize * (a % b)
          IN  r \in Nat /\ r < WordSize * WordSize
      BY <1>1, <3>1, DataSizes, QuotientIsLong
    <3> QED
      BY <2>1, <2>3, <3>2, Zenon
  <2> QED
    BY <2>2, <2>3
<1>5. ASSUME unit.base = 32, ResultOf(c, unit) = Added(c, unit.base)
      PROVE  ResultOf(c, unit) \in Nat /\ ResultOf(c, unit) < WordSize * WordSize
  <2> DEFINE l1 == LongAt(c, 32)
             l2 == LongAt(c, 36)
             sum == l1 + l2
  <2>1. l1 \in Nat /\ l2 \in Nat
    BY <1>5, Operands, Zenon
  <2>2. ResultOf(c, unit) = sum % (WordSize * WordSize)
    <3>1. 32 + 4 = 36
      OBVIOUS
    <3> QED
      BY <1>5, <3>1, Zenon DEF Added
  <2> HIDE DEF l1, l2
  <2>3. sum \in Nat
    BY <2>1
  <2> HIDE DEF sum
  <2> DEFINE n == WordSize * WordSize
  <2>4. n \in Nat /\ n >= 1
    BY DataSizes
  <2>5. ResultOf(c, unit) = sum % n
    BY <2>2
  <2> HIDE DEF n
  <2>6. sum % n \in Nat /\ sum % n < n
    BY <2>3, <2>4, Division
  <2> QED
    BY <2>5, <2>6, Zenon DEF n
<1> QED
  BY <1>2, <1>3, <1>4, <1>5

\* What a unit computes, sign or none.
Unsigned(c, unit) ==
  LET a == WordAt(c, unit.base)
      b == WordAt(c, unit.base + 2)
      out == LongAt(c, unit.result)
  IN  CASE unit.base \in {0, 8} -> out = a * b
        [] unit.base \in {16, 24} ->
             IF b = 0 THEN out = 0
             ELSE /\ a = WordAt(c, unit.result) * b + WordAt(c, unit.result + 2)
                  /\ WordAt(c, unit.result + 2) < b
        [] unit.base = 32 ->
             out = (LongAt(c, 32) + LongAt(c, 36)) % (WordSize * WordSize)

\* The result registers of a unit hold the bytes of its result.
Stored(c, unit) ==
  \A i \in 0 .. 3 : c[At("gavin", unit.result + i)] = ByteAt(ResultOf(c, unit), i)

\* Then they are the unsigned results: the bytes are put together again as they were taken
\* apart, and a quotient is told from its remainder.
LEMMA StoredIsUnsigned ==
  ASSUME NEW c, NEW unit \in Units, Whole(c, unit), Stored(c, unit)
  PROVE  Unsigned(c, unit)
<1> DEFINE a == WordAt(c, unit.base)
           b == WordAt(c, unit.base + 2)
           r == ResultOf(c, unit)
<1>1. a \in Nat /\ a < WordSize /\ b \in Nat /\ b < WordSize /\ unit.result \in Nat
  BY Operands, Zenon
<1>2. r \in Nat /\ r < WordSize * WordSize
  BY ResultIsLong, Zenon
<1>3. /\ WordAt(c, unit.result) = r % WordSize
      /\ WordAt(c, unit.result + 2) = r \div WordSize
      /\ LongAt(c, unit.result) = r
  <2>1. /\ c[At("gavin", unit.result + 0)] = ByteAt(r, 0)
        /\ c[At("gavin", unit.result + 1)] = ByteAt(r, 1)
        /\ c[At("gavin", unit.result + 2)] = ByteAt(r, 2)
        /\ c[At("gavin", unit.result + 3)] = ByteAt(r, 3)
    BY FourBytes, Zenon DEF Stored
  <2>2. unit.result + 0 = unit.result
    BY <1>1
  <2> QED
    BY <1>1, <1>2, <2>1, <2>2, RegistersOfBytes, Zenon
<1>4. /\ unit.base \in {0, 8} \/ unit.base \in {16, 24} \/ unit.base = 32
      /\ ~(unit.base \in {0, 8} /\ unit.base \in {16, 24})
      /\ ~(unit.base \in {0, 8} /\ unit.base = 32)
      /\ ~(unit.base \in {16, 24} /\ unit.base = 32)
  BY SMT DEF Units
<1>5. CASE unit.base \in {0, 8}
  <2>1. r = Multiplied(c, unit.base)
    BY <1>4, <1>5, Zenon DEF ResultOf
  <2>2. LongAt(c, unit.result) = a * b
    BY <1>3, <2>1, Zenon DEF Multiplied
  <2> QED
    BY <1>4, <1>5, <2>2, Zenon DEF Unsigned
<1>6. CASE unit.base \in {16, 24}
  <2>1. r = IF b = 0 THEN 0 ELSE (a \div b) + WordSize * (a % b)
    BY <1>4, <1>6, Zenon DEF ResultOf, Divided
  <2>2. CASE b = 0
    <3>1. LongAt(c, unit.result) = 0
      BY <1>3, <2>1, <2>2, Zenon
    <3> QED
      BY <1>4, <1>6, <2>2, <3>1, Zenon DEF Unsigned
  <2>3. CASE b # 0
    <3>1. r = (a \div b) + WordSize * (a % b)
      BY <2>1, <2>3, Zenon
    <3>2. WordAt(c, unit.result) = a \div b /\ WordAt(c, unit.result + 2) = a % b
      <4> HIDE DEF a, b, r
      <4>1. b >= 1
        BY <1>1, <2>3
      <4>2. /\ ((a \div b) + WordSize * (a % b)) % WordSize = a \div b
            /\ ((a \div b) + WordSize * (a % b)) \div WordSize = a % b
        <5>1. WordSize \in Nat /\ WordSize >= 1
          BY DataSizes
        <5>2. a \in Nat /\ b \in Nat /\ a < WordSize /\ b < WordSize
          BY <1>1
        <5> QED
          BY <4>1, <5>1, <5>2, QuotientIsLong, Zenon
      <4> QED
        BY <1>3, <3>1, <4>2, Zenon
    <3>3. a = (a \div b) * b + (a % b) /\ a % b < b
      <4> HIDE DEF a, b
      <4>1. b >= 1
        BY <1>1, <2>3
      <4>2. a = b * (a \div b) + (a % b) /\ a % b < b /\ a \div b \in Nat
        BY <1>1, <4>1, Division
      <4>3. b * (a \div b) = (a \div b) * b
        BY <1>1, <4>2
      <4> QED
        BY <4>2, <4>3, Zenon
    <3>4. /\ a = WordAt(c, unit.result) * b + WordAt(c, unit.result + 2)
          /\ WordAt(c, unit.result + 2) < b
      BY <3>2, <3>3, Zenon
    <3> QED
      BY <1>4, <1>6, <2>3, <3>4, Zenon DEF Unsigned
  <2> QED
    BY <2>2, <2>3
<1>7. CASE unit.base = 32
  <2>1. r = Added(c, unit.base)
    BY <1>4, <1>7, Zenon DEF ResultOf
  <2>2. r = (LongAt(c, 32) + LongAt(c, 36)) % (WordSize * WordSize)
    <3>1. 32 + 4 = 36
      OBVIOUS
    <3> QED
      BY <1>7, <2>1, <3>1, Zenon DEF Added
  <2> QED
    BY <1>3, <1>4, <1>7, <2>2, Zenon DEF Unsigned
<1> QED
  BY <1>4, <1>5, <1>6, <1>7

\* A word that is not negative is the same number with its sign and without, and
\* is its own magnitude.
LEMMA SameValue ==
  ASSUME NEW w \in Nat, NEW signed, signed => 2 * w < WordSize
  PROVE  Value(w, signed) = w /\ Magnitude(Value(w, signed)) = w
BY DataSizes DEF Value, Negative, Magnitude

\* A quotient of words is not above the number divided.
LEMMA QuotientBelow ==
  ASSUME NEW a \in Nat, NEW b \in Nat, NEW q \in Nat, NEW r \in Nat, b >= 1, a = q * b + r
  PROVE  q <= a
<1>1. q * b >= q * 1 /\ q * b \in Nat
  OBVIOUS
<1> QED
  BY <1>1

\* The results of unsigned numbers are those of the numbers' values, where neither
\* operand is negative.
LEMMA UnsignedIsComputed ==
  ASSUME NEW c, NEW unit \in Units, Whole(c, unit), Unsigned(c, unit), NEW signed,
         signed => /\ ~Negative(WordAt(c, unit.base))
                   /\ ~Negative(WordAt(c, unit.base + 2))
  PROVE  Computed(c, unit, signed)
<1> DEFINE a == WordAt(c, unit.base)
           b == WordAt(c, unit.base + 2)
           q == WordAt(c, unit.result)
           r == WordAt(c, unit.result + 2)
<1>1. a \in Nat /\ a < WordSize /\ b \in Nat /\ b < WordSize /\ unit.result \in Nat
  BY Operands, Zenon
<1>2. q \in Nat /\ r \in Nat
  BY ResultWords, Zenon
<1>3. /\ unit.base \in {0, 8} \/ unit.base \in {16, 24} \/ unit.base = 32
      /\ ~(unit.base \in {0, 8} /\ unit.base \in {16, 24})
      /\ ~(unit.base \in {0, 8} /\ unit.base = 32)
      /\ ~(unit.base \in {16, 24} /\ unit.base = 32)
  BY SMT DEF Units
<1>4. signed => 2 * a < WordSize /\ 2 * b < WordSize
  <2> HIDE DEF a, b
  <2>1. signed => ~Negative(a) /\ ~Negative(b)
    BY Zenon DEF a, b
  <2> QED
    BY <1>1, <2>1, DataSizes DEF Negative
<1>5. Value(a, signed) = a /\ Value(b, signed) = b /\ Magnitude(b) = b
  <2>1. \A w \in {a, b} : Value(w, signed) = w /\ Magnitude(Value(w, signed)) = w
    BY <1>1, <1>4, SameValue, Zenon
  <2> QED
    BY <2>1, Zenon
<1>6. CASE unit.base \in {0, 8}
  <2>1. LongAt(c, unit.result) = a * b
    BY <1>3, <1>6, Zenon DEF Unsigned
  <2>2. a * b = (a * b) % (WordSize * WordSize)
    <3> HIDE DEF a, b
    <3>1. a * b \in Nat /\ a * b < WordSize * WordSize
      BY <1>1, ProductIsLong, DataSizes, Zenon
    <3> DEFINE p == a * b
               n == WordSize * WordSize
    <3>2. n \in Nat /\ n >= 1 /\ p \in Nat /\ p < n
      BY <3>1, DataSizes, Zenon
    <3> HIDE DEF p, n
    <3>3. p = p % n
      BY <3>2
    <3> QED
      BY <3>3, Zenon DEF p, n
  <2> QED
    BY <1>3, <1>5, <1>6, <2>1, <2>2, Zenon DEF Computed
<1>7. CASE unit.base \in {16, 24}
  <2>1. CASE b = 0
    <3>1. LongAt(c, unit.result) = 0
      BY <1>3, <1>7, <2>1, Zenon DEF Unsigned
    <3> QED
      BY <1>3, <1>5, <1>7, <2>1, <3>1, Zenon DEF Computed
  <2>2. CASE b # 0
    <3>1. a = q * b + r /\ r < b
      BY <1>3, <1>7, <2>2, Zenon DEF Unsigned
    <3>2. signed => 2 * q < WordSize /\ 2 * r < WordSize
      <4> HIDE DEF a, b, q, r
      <4>1. q <= a
        BY <1>1, <1>2, <2>2, <3>1, QuotientBelow
      <4> HIDE <3>1
      <4>2. r < b
        BY <3>1, Zenon
      <4> QED
        BY <1>1, <1>2, <1>4, <4>1, <4>2, DataSizes
    <3>3. Value(q, signed) = q /\ Value(r, signed) = r /\ Magnitude(r) = r
      <4>1. \A w \in {q, r} : Value(w, signed) = w /\ Magnitude(Value(w, signed)) = w
        BY <1>2, <3>2, SameValue, Zenon
      <4> QED
        BY <4>1, Zenon
    <3>4. ~(a < 0) /\ r >= 0
      <4> HIDE DEF a, r
      <4> QED
        BY <1>1, <1>2
    <3> QED
      BY <1>3, <1>5, <1>7, <2>2, <3>1, <3>3, <3>4, ZenonT(40) DEF Computed
  <2> QED
    BY <2>1, <2>2
<1>8. CASE unit.base = 32
  BY <1>3, <1>8, Zenon DEF Unsigned, Computed
<1> QED
  BY <1>3, <1>6, <1>7, <1>8

\* So they are right.
LEMMA StoredIsRight ==
  ASSUME NEW c, NEW unit \in Units, Whole(c, unit), Stored(c, unit)
  PROVE  Right(c, unit)
<1>1. Unsigned(c, unit)
  BY StoredIsUnsigned, Zenon
<1>2. Computed(c, unit, FALSE)
  BY <1>1, UnsignedIsComputed
<1>3. CASE ~SignIgnored(c, unit)
  <2>1. SignedUnit(unit) => ~Negative(WordAt(c, unit.base)) /\ ~Negative(WordAt(c, unit.base + 2))
    BY <1>3, Zenon DEF SignIgnored
  <2>2. Computed(c, unit, SignedUnit(unit))
    BY <1>1, <2>1, UnsignedIsComputed, Zenon
  <2> QED
    BY <1>3, <2>2, Zenon DEF Right
<1> QED
  BY <1>2, <1>3, Zenon DEF Right

\* A write to any register of a unit starts that unit and no other.
LEMMA OwnUnit ==
  ASSUME NEW unit \in Units, NEW reg \in unit.base .. unit.result + 3
  PROVE  Started(reg) = {unit}
<1>1. unit.base \in Nat /\ unit.result \in Nat /\ reg \in Nat
  BY SMT DEF Units
<1>2. \/ unit = [base |-> 0, result |-> 4] /\ reg \div 8 = 0
      \/ unit = [base |-> 8, result |-> 12] /\ reg \div 8 = 1
      \/ unit = [base |-> 16, result |-> 20] /\ reg \div 8 = 2
      \/ unit = [base |-> 24, result |-> 28] /\ reg \div 8 = 3
      \/ unit = [base |-> 32, result |-> 40] /\ reg \div 8 \in {4, 5}
  BY SMT, <1>1 DEF Units
<1>3. \A u \in Units : u \in Started(reg) <=> u = unit
  BY SMT, <1>2 DEF Units, Started
<1>4. unit \in Started(reg) /\ Started(reg) \subseteq Units
  BY <1>3 DEF Started
<1> QED
  BY <1>3, <1>4

\* After the write the operands are as written, and the result's registers hold
\* the bytes of the result.
LEMMA WrittenUnit ==
  ASSUME NEW c, NEW unit \in Units, Whole(c, unit),
         NEW reg \in unit.base .. unit.result + 3, NEW v \in DataByte
  PROVE  LET n == GavinIoWrite(c, reg, v)
         IN  Whole(n, unit) /\ Stored(n, unit)
<1> DEFINE g == [c EXCEPT ![At("gavin", reg)] = v]
           n == GavinIoWrite(c, reg, v)
           r == ResultOf(g, unit)
<1>1. /\ unit.base \in Nat /\ unit.result \in Nat /\ unit.base + 4 <= unit.result
      /\ unit.base = 32 => unit.result = 40
  BY SMT DEF Units
<1>2. Whole(g, unit)
  BY DEF Whole
<1>3. r \in Nat
  BY <1>2, ResultIsLong, Zenon
<1>4. {u \in Started(reg) : At("gavin", u.base) \in DOMAIN c} = {unit}
  <2>1. unit.base \in unit.base .. unit.result + 3
    BY SMT, <1>1
  <2>2. At("gavin", unit.base) \in DOMAIN c
    BY <2>1 DEF Whole
  <2> QED
    BY <2>2, OwnUnit
<1>5. n = [k \in DOMAIN c |->
             IF k.array = "gavin" /\ \E u \in {unit} : k.offset \in u.result .. u.result + 3
             THEN LET u == CHOOSE w \in {unit} : k.offset \in w.result .. w.result + 3
                  IN  ByteAt(ResultOf(g, u), k.offset - u.result)
             ELSE g[k]]
  BY <1>4 DEF GavinIoWrite
<1>6. \A i \in unit.base .. unit.result + 3 :
        n[At("gavin", i)] = IF i \in unit.result .. unit.result + 3
                            THEN ByteAt(r, i - unit.result) ELSE g[At("gavin", i)]
  <2> TAKE i \in unit.base .. unit.result + 3
  <2> DEFINE k == At("gavin", i)
  <2>1. k \in DOMAIN c /\ k.array = "gavin" /\ k.offset = i
    BY DEF Whole, At
  <2> HIDE DEF n, g, k
  <2>2. CASE i \in unit.result .. unit.result + 3
    <3>1. (CHOOSE u \in {unit} : k.offset \in u.result .. u.result + 3) = unit
      BY <2>1, <2>2, Zenon
    <3>2. n[k] = ByteAt(ResultOf(g, unit), k.offset - unit.result)
      BY <1>5, <2>1, <2>2, <3>1, Zenon
    <3> QED
      BY <2>1, <2>2, <3>2, Zenon DEF k
  <2>3. CASE i \notin unit.result .. unit.result + 3
    <3>1. n[k] = g[k]
      BY <1>5, <2>1, <2>3, Zenon
    <3> QED
      BY <2>3, <3>1, Zenon DEF k
  <2> QED
    BY <2>2, <2>3
<1>7. DOMAIN n = DOMAIN c
  <2> HIDE DEF g
  <2> QED
    BY <1>5, Zenon
<1> HIDE DEF n
\* What the operands are.
<1>8. \A i \in unit.base .. unit.result - 1 : n[At("gavin", i)] = g[At("gavin", i)]
  <2> TAKE i \in unit.base .. unit.result - 1
  <2>1. i \in unit.base .. unit.result + 3 /\ i \notin unit.result .. unit.result + 3
    BY SMT, <1>1
  <2> QED
    BY <1>6, <2>1, Zenon
<1>9. \A i \in 0 .. 3 : n[At("gavin", unit.result + i)] = ByteAt(r, i)
  <2> TAKE i \in 0 .. 3
  <2>1. /\ unit.result + i \in unit.base .. unit.result + 3
        /\ unit.result + i \in unit.result .. unit.result + 3
        /\ (unit.result + i) - unit.result = i
    BY SMT, <1>1
  <2> QED
    BY <1>6, <2>1, Zenon
<1>10. ResultOf(n, unit) = r
  <2> HIDE DEF g
  <2>1. \A i \in 0 .. 3 : n[At("gavin", unit.base + i)] = g[At("gavin", unit.base + i)]
    <3>1. \A i \in 0 .. 3 : unit.base + i \in unit.base .. unit.result - 1
      BY SMT, <1>1
    <3> QED
      BY <1>8, <3>1, Zenon
  <2>2. /\ WordAt(n, unit.base) = WordAt(g, unit.base)
        /\ WordAt(n, unit.base + 2) = WordAt(g, unit.base + 2)
    <3>1. /\ n[At("gavin", unit.base + 0)] = g[At("gavin", unit.base + 0)]
          /\ n[At("gavin", unit.base + 1)] = g[At("gavin", unit.base + 1)]
          /\ n[At("gavin", unit.base + 2)] = g[At("gavin", unit.base + 2)]
          /\ n[At("gavin", unit.base + 3)] = g[At("gavin", unit.base + 3)]
      BY <2>1, FourBytes, Zenon
    <3>2. unit.base + 0 = unit.base /\ (unit.base + 2) + 1 = unit.base + 3
      BY SMT, <1>1
    <3> QED
      BY <3>1, <3>2, Zenon DEF WordAt
  <2>3. ASSUME unit.base = 32
        PROVE  LongAt(n, 32) = LongAt(g, 32) /\ LongAt(n, 36) = LongAt(g, 36)
    <3>1. \A i \in 32 .. 39 : n[At("gavin", i)] = g[At("gavin", i)]
      <4>1. unit.base .. unit.result - 1 = 32 .. 39
        BY SMT, <1>1, <2>3
      <4> QED
        BY <1>8, <4>1, Zenon
    <3>2. /\ 32 \in 32 .. 39 /\ 33 \in 32 .. 39 /\ 34 \in 32 .. 39 /\ 35 \in 32 .. 39
          /\ 36 \in 32 .. 39 /\ 37 \in 32 .. 39 /\ 38 \in 32 .. 39 /\ 39 \in 32 .. 39
          /\ 32 + 1 = 33 /\ 32 + 2 = 34 /\ 34 + 1 = 35
          /\ 36 + 1 = 37 /\ 36 + 2 = 38 /\ 38 + 1 = 39
      OBVIOUS
    <3>3. /\ WordAt(n, 32) = WordAt(g, 32) /\ WordAt(n, 34) = WordAt(g, 34)
          /\ WordAt(n, 36) = WordAt(g, 36) /\ WordAt(n, 38) = WordAt(g, 38)
      BY <3>1, <3>2, Zenon DEF WordAt
    <3> QED
      BY <3>2, <3>3, Zenon DEF LongAt
  <2>4. /\ unit.base \in {0, 8} \/ unit.base \in {16, 24} \/ unit.base = 32
        /\ ~(unit.base \in {0, 8} /\ unit.base \in {16, 24})
        /\ ~(unit.base \in {0, 8} /\ unit.base = 32)
        /\ ~(unit.base \in {16, 24} /\ unit.base = 32)
    BY SMT DEF Units
  <2>5. CASE unit.base \in {0, 8}
    <3>1. \A w : ResultOf(w, unit) = Multiplied(w, unit.base)
      BY <2>4, <2>5, Zenon DEF ResultOf
    <3> QED
      BY <2>2, <3>1, Zenon DEF Multiplied
  <2>6. CASE unit.base \in {16, 24}
    <3>1. \A w : ResultOf(w, unit) = Divided(w, unit.base)
      BY <2>4, <2>6, Zenon DEF ResultOf
    <3> QED
      BY <2>2, <3>1, Zenon DEF Divided
  <2>7. CASE unit.base = 32
    <3>1. \A w : ResultOf(w, unit) = Added(w, 32)
      BY <2>4, <2>7, Zenon DEF ResultOf
    <3>2. 32 + 4 = 36
      OBVIOUS
    <3> QED
      BY <2>3, <2>7, <3>1, <3>2, Zenon DEF Added
  <2> QED
    BY <2>4, <2>5, <2>6, <2>7
<1>11. Stored(n, unit)
  BY <1>9, <1>10, Zenon DEF Stored
<1>12. Whole(n, unit)
  <2> SUFFICES ASSUME NEW i \in unit.base .. unit.result + 3
               PROVE  n[At("gavin", i)] \in DataByte
    BY <1>2, <1>7, Zenon DEF Whole
  <2>1. g[At("gavin", i)] \in DataByte
    BY <1>2, Zenon DEF Whole
  <2>2. CASE i \in unit.result .. unit.result + 3
    <3>1. i - unit.result \in 0 .. 3
      BY SMT, <1>1, <2>2
    <3>2. n[At("gavin", i)] = ByteAt(r, i - unit.result)
      BY <1>6, <2>2, Zenon
    <3> QED
      BY <1>3, <3>1, <3>2, BytesOfLong, Zenon
  <2>3. CASE i \notin unit.result .. unit.result + 3
    BY <1>6, <2>1, <2>3, Zenon
  <2> QED
    BY <2>2, <2>3
<1> QED
  BY <1>11, <1>12 DEF n

\* The cells are those behind the addresses accessed, and hold bytes.
CellsHoldBytes ==
  /\ probe \in Probes
  /\ DOMAIN cell = CellsOf(probe)
  /\ \A k \in DOMAIN cell : cell[k] \in DataByte

\* A unit whose first register is there is there as a whole.
LEMMA HeldWhole ==
  ASSUME CellsHoldBytes, NEW unit \in Units, At("gavin", unit.base) \in DOMAIN cell
  PROVE  Whole(cell, unit)
BY WholeUnits, Zenon DEF CellsHoldBytes, Whole

\* What a write to a device's register leaves are bytes.
LEMMA GavinKeepsBytes ==
  ASSUME CellsHoldBytes, NEW reg \in Nat, NEW v \in DataByte,
         At("gavin", reg) \in DOMAIN cell
  PROVE  LET n == GavinIoWrite(cell, reg, v)
         IN  DOMAIN n = DOMAIN cell /\ \A k \in DOMAIN n : n[k] \in DataByte
<1> DEFINE g == [cell EXCEPT ![At("gavin", reg)] = v]
           kept == {u \in Started(reg) : At("gavin", u.base) \in DOMAIN cell}
           n == GavinIoWrite(cell, reg, v)
<1>1. DOMAIN g = DOMAIN cell /\ \A k \in DOMAIN cell : g[k] \in DataByte
  BY DEF CellsHoldBytes
<1>2. n = [k \in DOMAIN cell |->
             IF k.array = "gavin" /\ \E u \in kept : k.offset \in u.result .. u.result + 3
             THEN LET u == CHOOSE w \in kept : k.offset \in w.result .. w.result + 3
                  IN  ByteAt(ResultOf(g, u), k.offset - u.result)
             ELSE g[k]]
  BY DEF GavinIoWrite
<1>3. \A u \in kept : u \in Units /\ Whole(g, u)
  <2> TAKE u \in kept
  <2>1. u \in Units /\ At("gavin", u.base) \in DOMAIN cell
    BY Zenon DEF Started
  <2>2. Whole(cell, u)
    BY <2>1, HeldWhole
  <2> HIDE DEF g
  <2> QED
    BY <1>1, <2>1, <2>2, Zenon DEF Whole
<1> HIDE DEF n, g, kept
<1>4. ASSUME NEW k \in DOMAIN cell PROVE n[k] \in DataByte
  <2>1. CASE k.array = "gavin" /\ \E u \in kept : k.offset \in u.result .. u.result + 3
    <3> DEFINE u == CHOOSE w \in kept : k.offset \in w.result .. w.result + 3
    <3>1. u \in kept /\ k.offset \in u.result .. u.result + 3
      BY <2>1, Zenon
    <3>2. n[k] = ByteAt(ResultOf(g, u), k.offset - u.result)
      BY <1>2, <2>1, Zenon
    <3> HIDE DEF u
    <3>3. u \in Units /\ Whole(g, u)
      BY <1>3, <3>1, Zenon
    <3>4. k.offset - u.result \in 0 .. 3
      <4>1. u.result \in Nat
        BY <3>3, SMT DEF Units
      <4> QED
        BY <3>1, <4>1, SMT
    <3>5. ResultOf(g, u) \in Nat
      BY <3>3, ResultIsLong, Zenon
    <3> QED
      BY <3>2, <3>4, <3>5, BytesOfLong, Zenon
  <2>2. CASE ~(k.array = "gavin" /\ \E u \in kept : k.offset \in u.result .. u.result + 3)
    BY <1>1, <1>2, <2>2, Zenon
  <2> QED
    BY <2>1, <2>2
<1>5. DOMAIN n = DOMAIN cell
  BY <1>2, Zenon
<1> QED
  BY <1>4, <1>5, Zenon DEF n

\* Memory starts as bytes.
LEMMA BytesInit == BoardInit => CellsHoldBytes
<1> SUFFICES ASSUME BoardInit PROVE CellsHoldBytes
  OBVIOUS
<1>1. 0 \in DataByte
  BY DataSizes DEF DataByte
<1> QED
  BY <1>1, Zenon DEF BoardInit, CellsHoldBytes

\* An accessed address has its byte among the cells, unless nothing is there.
LEMMA AccessedCell ==
  ASSUME CellsHoldBytes, NEW a \in probe
  PROVE  CellOf(a) \in DOMAIN cell \/ CellOf(a) = Nowhere
BY Zenon DEF CellsHoldBytes, CellsOf

\* And is a number.
LEMMA AccessedIsNat ==
  ASSUME CellsHoldBytes, NEW a \in probe
  PROVE  a \in Nat
<1>1. probe \in Probes
  BY Zenon DEF CellsHoldBytes
<1>2. probe \subseteq BusAddresses
  BY <1>1, BoardAssumption
<1> QED
  BY <1>2, AddressIsNat, Zenon

\* The registers of the units are trapped, and are Gavin's.
LEMMA UnitAddress ==
  ASSUME NEW a \in Nat, 256 <= a, a <= 256 + 43
  PROVE  TrapsIo(a) /\ Behind(a) = At("gavin", a - 256)
<1>1. a \div 4096 = 0 /\ (a \div 256) % 256 = 1 /\ a \div 65536 = 0
  BY SMT
<1>2. TrapsIo(a)
  BY SMT, <1>1 DEF TrapsIo, PageSize
<1>3. BankOf(a) # 175 /\ IsGavin(a)
  BY SMT, <1>1 DEF BankOf, IsGavin
<1>4. Behind(a) = At("gavin", a - 256)
  BY SMT, <1>3 DEF Behind
<1> QED
  BY <1>2, <1>4

\* Only bytes are written.
LEMMA BytesNext == CellsHoldBytes /\ [BoardNext]_boardVars => CellsHoldBytes'
<1> SUFFICES ASSUME CellsHoldBytes, [BoardNext]_boardVars
             PROVE  /\ probe' = probe /\ DOMAIN cell' = DOMAIN cell
                    /\ \A k \in DOMAIN cell : cell'[k] \in DataByte
  BY Zenon DEF CellsHoldBytes
<1>1. \A k \in DOMAIN cell : cell[k] \in DataByte
  BY DEF CellsHoldBytes
<1>2. ASSUME NEW a \in probe, CpuRead(a) \/ Peek(a)
      PROVE  probe' = probe /\ cell' = cell
  BY <1>2, Zenon DEF CpuRead, Peek
<1>3. ASSUME NEW a \in probe, NEW v \in DataByte, CpuWrite(a, v) \/ Poke(a, v)
      PROVE  /\ probe' = probe /\ DOMAIN cell' = DOMAIN cell
             /\ \A k \in DOMAIN cell : cell'[k] \in DataByte
  <2>1. probe' = probe /\ cell' = WriteByte(a, v)
    BY <1>3, Zenon DEF CpuWrite, Poke
  <2> DEFINE Fine(c) == DOMAIN c = DOMAIN cell /\ \A k \in DOMAIN cell : c[k] \in DataByte
  <2>2. \A k : Fine([cell EXCEPT ![k] = v])
    BY <1>1
  <2>3. CASE TrapsIo(a) /\ Behind(a).array = "gavin"
    <3>1. Behind(a) = At("gavin", a - 256) /\ IsGavin(a)
      BY <2>3, SMT DEF Behind, At
    <3>2. Behind(a).offset = a - 256
      BY <3>1, SMT DEF At
    <3>3. At("gavin", a - 256) \in DOMAIN cell
      <4>1. CellOf(a) = At("gavin", a - 256)
        BY <2>3, <3>1, Zenon DEF CellOf
      <4> QED
        BY <4>1, AccessedCell, SMT DEF Nowhere, At
    <3>4. a - 256 \in Nat
      <4>1. a \in Nat
        BY AccessedIsNat
      <4> QED
        BY <3>1, <4>1, SMT DEF IsGavin
    <3>5. WriteByte(a, v) = GavinIoWrite(cell, a - 256, v)
      BY <2>3, <3>2, Zenon DEF WriteByte
    <3>6. LET n == GavinIoWrite(cell, a - 256, v)
          IN  DOMAIN n = DOMAIN cell /\ \A k \in DOMAIN n : n[k] \in DataByte
      BY <3>3, <3>4, GavinKeepsBytes, Zenon
    <3> QED
      BY <2>1, <3>5, <3>6, Zenon
  <2>4. CASE ~(TrapsIo(a) /\ Behind(a).array = "gavin")
    <3>1. WriteByte(a, v) = cell \/ \E k : WriteByte(a, v) = [cell EXCEPT ![k] = v]
      BY <2>4, Zenon DEF WriteByte
    <3> QED
      BY <1>1, <2>1, <2>2, <3>1, Zenon
  <2> QED
    BY <2>3, <2>4
<1>4. CASE PowerOn
  <2>1. /\ probe' = probe /\ DOMAIN cell' = DOMAIN cell
        /\ \A k \in DOMAIN cell : \E j \in DOMAIN cell : cell'[k] = cell[j]
    BY <1>4, SMT DEF PowerOn
  <2> QED
    BY <1>1, <2>1, Zenon
<1>5. CASE UNCHANGED boardVars
  BY <1>1, <1>5 DEF boardVars
<1> QED
  BY <1>1, <1>2, <1>3, <1>4, <1>5, Zenon DEF BoardNext

\* So they do in every state.
LEMMA BytesAlways == BoardSpec => []CellsHoldBytes
BY BytesInit, BytesNext, PTL DEF BoardSpec

\* Whatever was in its registers, and whichever of them is written, the results of
\* a unit of the math coprocessor are those of its operands after the write: the
\* product, the quotient with its remainder, nothing when dividing by zero, the
\* sum (c256.cc:6-75, 195-218).  Those of a signed unit are the signed ones only as
\* long as neither operand is negative, and the unsigned numbers' otherwise.
THEOREM EveryWriteRecomputesAlways == BoardSpec => EveryWriteRecomputes
<1> DEFINE Recomputed ==
      \A unit \in Units :
        Held(unit) /\ (\E a \in probe, v \in DataByte :
                         CpuWrite(a, v) /\ a - 256 \in unit.base .. unit.result + 3)
          => Right(cell', unit)
<1>1. ASSUME CellsHoldBytes, NEW unit \in Units, Held(unit),
             NEW a \in probe, NEW v \in DataByte, CpuWrite(a, v),
             a - 256 \in unit.base .. unit.result + 3
      PROVE  Right(cell', unit)
  <2>1. a \in Nat /\ 256 <= a /\ a <= 256 + 43
    <3>1. a \in Nat
      BY <1>1, AccessedIsNat
    <3>2. unit.base \in Nat /\ unit.result \in Nat /\ unit.result <= 40
      BY SMT DEF Units
    <3> QED
      BY SMT, <1>1, <3>1, <3>2
  <2>2. TrapsIo(a) /\ Behind(a) = At("gavin", a - 256)
    BY <2>1, UnitAddress
  <2>3. cell' = GavinIoWrite(cell, a - 256, v)
    <3>1. Behind(a).array = "gavin" /\ Behind(a).offset = a - 256
      BY <2>2, SMT DEF At
    <3> QED
      BY <1>1, <2>2, <3>1, Zenon DEF CpuWrite, WriteByte
  <2>4. Whole(cell, unit)
    BY <1>1, Zenon DEF Held, CellsHoldBytes, Whole
  <2>5. Whole(cell', unit) /\ Stored(cell', unit)
    BY <1>1, <2>3, <2>4, WrittenUnit, Zenon
  <2> QED
    BY <2>5, StoredIsRight, Zenon
<1>2. CellsHoldBytes /\ [BoardNext]_boardVars => [Recomputed]_boardVars
  BY <1>1, Zenon
<1> QED
  BY <1>2, BytesAlways, PTL DEF BoardSpec, EveryWriteRecomputes
=============================================================================
