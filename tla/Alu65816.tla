------------------------------ MODULE Alu65816 ------------------------------
(***************************************************************************)
(* The arithmetic of the 65C816 core and of the 6502 of the NES            *)
(* (src/cpu/65816/cpu_65c816_instructions.inl): what an instruction makes  *)
(* of the accumulator, of the memory operand its addressing mode selects,  *)
(* and of the flags N, V, Z, C and D.                                      *)
(*                                                                         *)
(* The C++ templates are instantiated for registers of one and two bytes.  *)
(* The operators that follow take the width as n, the number of            *)
(* hexadecimal digits: 2 and 4 in the program.                             *)
(***************************************************************************)
EXTENDS Integers

CONSTANT Digits   \* hexadecimal digits of the accumulator

ASSUME AluAssumption == Digits \in Nat /\ Digits >= 1

VARIABLE alu   \* [a, m, p]: the accumulator, the memory operand, the flags set

-----------------------------------------------------------------------------
(* Words *)

\* Powers and sums are recursive functions, which can be reasoned about.
Power(b, k) == LET power[i \in 0 .. k] == IF i = 0 THEN 1 ELSE b * power[i - 1] IN power[k]

Size(n) == Power(2, 4 * n)
Word == 0 .. Size(Digits) - 1

\* The most significant bit of a word, the bit N and V are about.
TopBit(n, v) == ((2 * v) \div Size(n)) % 2

\* A word as the set of the bits that are 1, for the bitwise operators.
BitsOf(v) == {i \in 0 .. 4 * Digits - 1 : (v \div Power(2, i)) % 2 = 1}
WordOf(n, bits) ==
  LET low[i \in 0 .. 4 * n] ==
        IF i = 0 THEN 0 ELSE low[i - 1] + (IF i - 1 \in bits THEN Power(2, i - 1) ELSE 0)
  IN  low[4 * n]

And(v, w) == WordOf(Digits, BitsOf(v) \cap BitsOf(w))
Or(v, w) == WordOf(Digits, BitsOf(v) \cup BitsOf(w))
Xor(v, w) == WordOf(Digits, (BitsOf(v) \cup BitsOf(w)) \ (BitsOf(v) \cap BitsOf(w)))
AndNot(v, w) == WordOf(Digits, BitsOf(v) \ BitsOf(w))

-----------------------------------------------------------------------------
(* Flags: the set of those that are 1. *)

Flags == {"N", "V", "Z", "C", "D"}
Flag(f, condition) == IF condition THEN {f} ELSE {}
CarryIn(p) == IF "C" \in p THEN 1 ELSE 0

SetNZ(n, v) == Flag("N", TopBit(n, v) = 1) \cup Flag("Z", v % Size(n) = 0)

-----------------------------------------------------------------------------
(* Addition and subtraction.  r is the 32-bit result before it is cut down to *)
(* the width of A.                                                             *)

AddBin(n, a, data, p) ==
  LET r == a + data + CarryIn(p)
  IN  [a |-> r % Size(n),
       p |-> (p \ {"N", "V", "Z", "C"})
             \cup SetNZ(n, r)
             \cup Flag("C", r >= Size(n))
             \cup Flag("V", TopBit(n, a) = TopBit(n, data) /\ TopBit(n, a) # TopBit(n, r))]

SubBinNoBorrow(n, a, data, p) ==   \* Variant: C is not taken as an inverted borrow
  LET r == a - data
  IN  [a |-> r % Size(n),
       p |-> (p \ {"N", "V", "Z", "C"})
             \cup Flag("N", TopBit(n, r % Size(n)) = 1)
             \cup Flag("Z", r = 0)
             \cup Flag("C", r >= 0)
             \cup Flag("V", TopBit(n, a) # TopBit(n, data)
                              /\ TopBit(n, a) # TopBit(n, r % Size(n)))]

\* Z comes from all 32 bits of the result: 0 - $FF - 1 leaves 0 in A and Z
\* clear.
SubBin(n, a, data, p) ==
  LET r == a - data - 1 + CarryIn(p)
  IN  [a |-> r % Size(n),
       p |-> (p \ {"N", "V", "Z", "C"})
             \cup Flag("N", TopBit(n, r % Size(n)) = 1)
             \cup Flag("Z", r = 0)
             \cup Flag("C", r >= 0)
             \cup Flag("V", TopBit(n, a) # TopBit(n, data)
                              /\ TopBit(n, a) # TopBit(n, r % Size(n)))]

Digit(v, i) == (v \div Size(i)) % 16

\* The digits the decimal correction adds 6 to, in one 32-bit addition: those
\* above 9 and those of carried, a carry out of which the caller has found.
Adjusted(n, r, carried) ==
  LET late == {i \in 0 .. n - 1 : i \in carried \/ Digit(r, i) >= 10}
  IN  r + 6 * WordOf(n, {4 * i : i \in late})

DecimalResult(n, r, p) ==
  [a |-> r % Size(n),
   p |-> (p \ {"N", "Z", "C"}) \cup SetNZ(n, r) \cup Flag("C", (r \div Size(n)) % 2 = 1)]

AddDecNoCarry(n, a, data, p) ==   \* Variant: digits that carried are not corrected
  DecimalResult(n, Adjusted(n, a + data + CarryIn(p), {}), p)

AddDec(n, a, data, p) ==
  LET r == a + data + CarryIn(p)
      carried == {i \in 0 .. n - 1 :
                    (a % Size(i + 1)) + (data % Size(i + 1)) + CarryIn(p) >= Size(i + 1)}
  IN  DecimalResult(n, Adjusted(n, r, carried), p)

\* The carries are found with data where its complement was added: below the
\* top digit they are the borrows, at the top digit the carry.
SubDec(n, a, data, p) ==
  LET r == a + (Size(n) - 1 - data) + CarryIn(p)
      carry(i) == (a % Size(i + 1)) + Size(i + 1) - 1 - (data % Size(i + 1)) + CarryIn(p)
                    >= Size(i + 1)
      carried == {i \in 0 .. n - 1 : carry(i) = (i = n - 1)}
  IN  DecimalResult(n, Adjusted(n, r, carried), p)

DoCmp(n, reg, data, p) ==
  (p \ {"N", "Z", "C"}) \cup SetNZ(n, (reg - data) % Size(n)) \cup Flag("C", reg >= data)

-----------------------------------------------------------------------------
(* What Modify instructions make of their operand *)

AslOf(n, v, p) ==
  LET r == 2 * v
  IN  [a |-> r % Size(n), p |-> (p \ {"N", "Z", "C"}) \cup SetNZ(n, r) \cup Flag("C", TopBit(n, v) = 1)]

LsrOf(n, v, p) ==
  [a |-> v \div 2, p |-> (p \ {"N", "Z", "C"}) \cup Flag("Z", v \div 2 = 0) \cup Flag("C", v % 2 = 1)]

RorOfNoCarry(n, v, p) == LsrOf(n, v, p)   \* Variant: a shift, C is not taken in

RorOf(n, v, p) ==
  LET r == (v \div 2) + CarryIn(p) * (Size(n) \div 2)
  IN  [a |-> r, p |-> (p \ {"N", "Z", "C"}) \cup SetNZ(n, r) \cup Flag("C", v % 2 = 1)]

RolOf(n, v, p) ==
  LET r == 2 * v + CarryIn(p)
  IN  [a |-> r % Size(n), p |-> (p \ {"N", "Z", "C"}) \cup SetNZ(n, r) \cup Flag("C", TopBit(n, v) = 1)]

Stepped(n, v, delta, p) ==
  LET r == (v + delta) % Size(n) IN [a |-> r, p |-> (p \ {"N", "Z"}) \cup SetNZ(n, r)]

Modifications(n, v, p) ==
  {AslOf(n, v, p), LsrOf(n, v, p), RorOf(n, v, p), RolOf(n, v, p),
   Stepped(n, v, 1, p), Stepped(n, v, -1, p)}

-----------------------------------------------------------------------------
(* Instructions *)

\* PowerOn clears A and sets zero to 1.
AluInit == \E m \in Word : alu = [a |-> 0, m |-> m, p |-> {}]

\* The next instruction addresses another operand.
Address == \E m \in Word : alu' = [alu EXCEPT !.m = m]

LDA == alu' = [alu EXCEPT !.a = alu.m, !.p = (@ \ {"N", "Z"}) \cup SetNZ(Digits, alu.m)]
STA == alu' = [alu EXCEPT !.m = alu.a]
STZ == alu' = [alu EXCEPT !.m = 0]

\* ora, and, eor; c is the result.
LogicTo(c) == alu' = [alu EXCEPT !.a = c, !.p = (@ \ {"N", "Z"}) \cup SetNZ(Digits, c)]
Logic == LogicTo(And(alu.a, alu.m)) \/ LogicTo(Or(alu.a, alu.m)) \/ LogicTo(Xor(alu.a, alu.m))

Carrying(r) == alu' = [alu EXCEPT !.a = r.a, !.p = r.p]

ADC == Carrying(IF "D" \in alu.p THEN AddDec(Digits, alu.a, alu.m, alu.p)
                ELSE AddBin(Digits, alu.a, alu.m, alu.p))
SBC == Carrying(IF "D" \in alu.p THEN SubDec(Digits, alu.a, alu.m, alu.p)
                ELSE SubBin(Digits, alu.a, alu.m, alu.p))
CMP == alu' = [alu EXCEPT !.p = DoCmp(Digits, alu.a, alu.m, @)]

\* N and V are the two top bits of the operand; the immediate form sets Z alone.
BIT ==
  alu' = [alu EXCEPT !.p = (@ \ {"N", "V", "Z"})
            \cup Flag("Z", And(alu.a, alu.m) = 0)
            \cup Flag("N", TopBit(Digits, alu.m) = 1)
            \cup Flag("V", ((4 * alu.m) \div Size(Digits)) % 2 = 1)]
BITImm == alu' = [alu EXCEPT !.p = (@ \ {"Z"}) \cup Flag("Z", And(alu.a, alu.m) = 0)]

TestAnd(m) == alu' = [alu EXCEPT !.m = m, !.p = (@ \ {"Z"}) \cup Flag("Z", And(alu.a, alu.m) = 0)]
TSB == TestAnd(Or(alu.m, alu.a))
TRB == TestAnd(AndNot(alu.m, alu.a))

\* ASL, LSR, ROR, ROL, INC and DEC of A and of memory.
ModifyA == \E r \in Modifications(Digits, alu.a, alu.p) : Carrying(r)
ModifyMemory ==
  \E r \in Modifications(Digits, alu.m, alu.p) : alu' = [alu EXCEPT !.m = r.a, !.p = r.p]

\* The two undocumented instructions of the 6502 that compute; both take the
\* byte at ip, their own opcode ($4B and $0B), where the operand is at ip + 1, so that the
\* operand has no say.
ALR == Carrying(LsrOf(Digits, And(alu.a, 75 % Size(Digits)), alu.p))
ANC ==
  LET r == And(alu.a, 11 % Size(Digits))
      nz == SetNZ(Digits, r)
  IN  alu' = [alu EXCEPT !.a = r,
                !.p = (@ \ {"N", "Z", "C"}) \cup nz \cup Flag("C", "N" \in nz)]

SetFlag == \E f \in {"C", "D"} : alu' = [alu EXCEPT !.p = @ \cup {f}]
ClearFlag == \E f \in {"C", "D", "V"} : alu' = [alu EXCEPT !.p = @ \ {f}]

AluNext ==
  \/ Address
  \/ LDA \/ STA \/ STZ
  \/ Logic \/ ADC \/ SBC \/ CMP
  \/ BIT \/ BITImm \/ TSB \/ TRB
  \/ ModifyA \/ ModifyMemory
  \/ ALR \/ ANC
  \/ SetFlag \/ ClearFlag

AluSpec == AluInit /\ [][AluNext]_alu

-----------------------------------------------------------------------------
(* Properties *)

Signed(n, v) == IF TopBit(n, v) = 1 THEN v - Size(n) ELSE v
Fits(n, v) == v \in -(Size(n) \div 2) .. (Size(n) \div 2) - 1
IsNZ(n, r) == ("N" \in r.p) = (Signed(n, r.a) < 0) /\ ("Z" \in r.p) = (r.a = 0)

\* Binary ADC and SBC against integer arithmetic: the result and C give the
\* unsigned sum or difference (C = 0 is a borrow), V is set exactly when the
\* signed one does not fit, and N and Z describe A -- but for 0 - $FF - 1, the
\* one subtraction that leaves Z clear over a zero.
BinaryExact ==
  LET n == Digits
      c == CarryIn(alu.p)
      sum == AddBin(n, alu.a, alu.m, alu.p)
      diff == SubBin(n, alu.a, alu.m, alu.p)
  IN  /\ sum.a + Size(n) * CarryIn(sum.p) = alu.a + alu.m + c
      /\ ("V" \in sum.p) = ~Fits(n, Signed(n, alu.a) + Signed(n, alu.m) + c)
      /\ IsNZ(n, sum)
      /\ diff.a - Size(n) * (1 - CarryIn(diff.p)) = alu.a - alu.m - 1 + c
      /\ ("V" \in diff.p) = ~Fits(n, Signed(n, alu.a) - Signed(n, alu.m) - 1 + c)
      /\ alu.a - alu.m - 1 + c # -Size(n) => IsNZ(n, diff)

\* A rotate in the other direction brings back the operand and C, and undoes a
\* shift too: no bit of a multi-byte shift is lost between two instructions.
ShiftsUndone ==
  LET n == Digits
      undone(r, back) == back.a = alu.m /\ ("C" \in back.p) = ("C" \in alu.p)
      rol == RolOf(n, alu.m, alu.p)
      ror == RorOf(n, alu.m, alu.p)
  IN  /\ undone(rol, RorOf(n, rol.a, rol.p))
      /\ undone(ror, RolOf(n, ror.a, ror.p))
      /\ LET asl == AslOf(n, alu.m, alu.p) IN RorOf(n, asl.a, asl.p).a = alu.m
      /\ LET lsr == LsrOf(n, alu.m, alu.p) IN RolOf(n, lsr.a, lsr.p).a = alu.m

\* The number v's low digits write in base ten.
Decimal(n, v) ==
  LET low[i \in 0 .. n] == IF i = 0 THEN 0 ELSE low[i - 1] + Digit(v, i - 1) * Power(10, i - 1)
  IN  low[n]
Decimals(n) == {v \in 0 .. Size(n) - 1 : \A i \in 0 .. n - 1 : Digit(v, i) < 10}

\* A column of 9 that a correction below it carries into: it becomes the digit
\* A and is not corrected any more.
MissedCarry(n, a, data, c) ==
  \E i \in 1 .. n - 1 :
    /\ Digit(a + data + c, i) = 9
    /\ (a % Size(i)) + (data % Size(i)) + c < Size(i)
    /\ Decimal(i, a) + Decimal(i, data) + c >= Power(10, i)

\* Decimal ADC of two numbers gives the decimal sum and carry except,
\* precisely, where a correction carries into a column of 9: $99 + $01 is $A0.
\* (The numbers have a digit more than A: it and the operand are the low
\* digits, the high ones are any; of the flags, only C is read.)
DecimalAddExact ==
  alu.p \subseteq {"C"} =>
    \A h, k \in 0 .. 9 :
      LET n == Digits + 1
          a == Size(Digits) * h + alu.a
          data == Size(Digits) * k + alu.m
          c == CarryIn(alu.p)
          r == AddDec(n, a, data, alu.p)
          right == /\ \A i \in 0 .. n - 1 : Digit(r.a, i) < 10
                   /\ Decimal(n, r.a) + Power(10, n) * CarryIn(r.p)
                        = Decimal(n, a) + Decimal(n, data) + c
      IN  a \in Decimals(n) /\ data \in Decimals(n) => right = ~MissedCarry(n, a, data, c)
=============================================================================
