---------------------------- MODULE Ppu2c02Proofs ----------------------------
(***************************************************************************)
(* Proofs about Ppu2c02, for every geometry of the picture: what Dots      *)
(* computes, that the state machine of a scanline keeps time with the dot, *)
(* and that a vblank interrupts once.                                      *)
(***************************************************************************)
EXTENDS Ppu2c02, WellFoundedInduction, TLAPS

-----------------------------------------------------------------------------
(* Induction over a set, since the provers cannot instantiate one over a    *)
(* predicate: from the well-foundedness of < on Nat.                        *)

LEMMA Least ==
  ASSUME NEW S \in SUBSET Nat, S # {}
  PROVE  \E x \in S : \A y \in S : x <= y
<1>1. PICK R : /\ IsWellFoundedOn(R, Nat)
               /\ \A x, y \in Nat : <<y, x>> \in R <=> y < x
  <2>1. \A x, y \in Nat : <<y, x>> \in OpToRel(<, Nat) <=> y < x
    BY DEF OpToRel
  <2> QED
    BY <2>1, NatLessThanWellFounded
<1>2. PICK x \in S : \A y \in S : ~(<<y, x>> \in R)
  BY <1>1, WFMin, Zenon
<1>3. ASSUME NEW y \in S PROVE x <= y
  <2>1. ~(y < x)
    BY <1>1, <1>2, Zenon
  <2> QED
    BY <2>1
<1> QED
  BY <1>3

LEMMA SetInduction ==
  ASSUME NEW S \in SUBSET Nat, 0 \in S, \A n \in S : n + 1 \in S
  PROVE  \A n \in Nat : n \in S
<1> SUFFICES ASSUME Nat \ S # {} PROVE FALSE
  OBVIOUS
<1>1. PICK n \in Nat \ S : \A y \in Nat \ S : n <= y
  BY Least, Zenon
<1>2. n - 1 \in Nat \ S
  BY <1>1
<1> QED
  BY <1>1, <1>2

-----------------------------------------------------------------------------
(* Dots.  The function in its definition exists and is what it says.        *)

Steps(S) == {PpuStep(q) : q \in S}

Table(f, p, n) ==
  f = [i \in 0 .. n |-> IF i = 0 THEN {p} ELSE Steps(f[i - 1])]

Entries(f, p, n) ==
  f[0] = {p} /\ \A i \in 0 .. n - 1 : f[i + 1] = Steps(f[i])

LEMMA StepsOfOne == \A q : Steps({q}) = {PpuStep(q)}
BY Zenon DEF Steps

LEMMA TableEntries ==
  \A n \in Nat : \A p, f : Table(f, p, n) => Entries(f, p, n)
<1> SUFFICES ASSUME NEW n \in Nat, NEW p, NEW f, Table(f, p, n)
             PROVE  Entries(f, p, n)
  BY Zenon
<1>1. \A i \in 0 .. n : f[i] = IF i = 0 THEN {p} ELSE Steps(f[i - 1])
  BY Zenon DEF Table
<1>2. ASSUME NEW i \in 0 .. n - 1 PROVE f[i + 1] = Steps(f[i])
  <2>1. i + 1 \in 0 .. n /\ i + 1 # 0 /\ (i + 1) - 1 = i
    OBVIOUS
  <2> QED
    BY <1>1, <2>1, Zenon
<1>3. 0 \in 0 .. n
  OBVIOUS
<1>4. f[0] = {p}
  BY <1>1, <1>3, Zenon
<1> QED
  BY <1>2, <1>4, Zenon DEF Entries

LEMMA Extensional ==
  ASSUME NEW D, NEW f, NEW g, f = [x \in D |-> f[x]], g = [x \in D |-> g[x]],
         \A x \in D : f[x] = g[x]
  PROVE  f = g
OBVIOUS

LEMMA TableExists == \A p : \A n \in Nat : \E f : Table(f, p, n)
<1> TAKE p
<1> DEFINE S == {n \in Nat : \E f : Table(f, p, n)}
<1>1. 0 \in S
  <2>1. Table([i \in 0 .. 0 |-> {p}], p, 0)
    BY DEF Table
  <2> QED
    BY <2>1
<1>2. ASSUME NEW n \in S PROVE n + 1 \in S
  <2>0. n \in Nat
    OBVIOUS
  <2>1. PICK f : Table(f, p, n)
    OBVIOUS
  <2>b. Entries(f, p, n)
    BY <2>0, <2>1, TableEntries, Zenon
  <2>a. f[0] = {p} /\ \A i \in 0 .. n - 1 : f[i + 1] = Steps(f[i])
    BY <2>b, Zenon DEF Entries
  <2> DEFINE next == Steps(f[n])
             g == [i \in 0 .. n + 1 |-> IF i = n + 1 THEN next ELSE f[i]]
  <2>2. ASSUME NEW i \in 0 .. n + 1
        PROVE  g[i] = IF i = 0 THEN {p} ELSE Steps(g[i - 1])
    <3>0. n \in Nat
      OBVIOUS
    <3>1. CASE i = 0
      <4>1. g[i] = f[0]
        BY <3>0, <3>1
      <4> QED
        BY <2>a, <3>1, <4>1, Zenon
    <3>2. CASE i = n + 1
      <4>1. g[i] = next /\ i # 0 /\ g[i - 1] = f[n]
        BY <3>0, <3>2
      <4> QED
        BY <4>1, Zenon
    <3>3. CASE i # 0 /\ i # n + 1
      <4>1. /\ i - 1 \in 0 .. n - 1 /\ (i - 1) + 1 = i
            /\ g[i] = f[i] /\ g[i - 1] = f[i - 1]
        BY <3>0, <3>3
      <4>2. f[(i - 1) + 1] = Steps(f[i - 1])
        BY <2>a, <4>1, Zenon
      <4> QED
        BY <3>3, <4>1, <4>2, Zenon
    <3> QED
      BY <3>1, <3>2, <3>3, Zenon
  <2>3. Table(g, p, n + 1)
    <3> DEFINE h == [i \in 0 .. n + 1 |->
                       IF i = 0 THEN {p} ELSE Steps(g[i - 1])]
    <3>1. /\ g = [i \in 0 .. n + 1 |-> g[i]]
          /\ h = [i \in 0 .. n + 1 |-> h[i]]
      OBVIOUS
    <3>2. \A i \in 0 .. n + 1 : g[i] = h[i]
      BY <2>2, Zenon
    <3> HIDE DEF g, h
    <3>3. g = h
      BY <3>1, <3>2, Extensional, Zenon
    <3> QED
      BY <3>3, Zenon DEF Table, h
  <2>4. \E f1 : Table(f1, p, n + 1)
    BY <2>3, Zenon
  <2> QED
    BY <2>4
<1>3. S \in SUBSET Nat
  OBVIOUS
<1> HIDE DEF S
<1>4. \A n \in Nat : n \in S
  BY <1>1, <1>2, <1>3, SetInduction, Zenon
<1> QED
  BY <1>4, Zenon DEF S

DotsTable(p, n) ==
  CHOOSE f : Table(f, p, n)

LEMMA DotsFromTable ==
  ASSUME NEW p, NEW n \in Nat
  PROVE  \E f : Table(f, p, n) /\ Dots(p, n) = CHOOSE q \in f[n] : TRUE
<1>1. Table(DotsTable(p, n), p, n)
  BY TableExists, Zenon DEF DotsTable
<1>2. Dots(p, n) = CHOOSE q \in DotsTable(p, n)[n] : TRUE
  BY Zenon DEF Dots, DotsTable, Table, Steps
<1> QED
  BY <1>1, <1>2, Zenon

(* Every table of a unit has the same single unit at an index.              *)
Agree(f, g, n, m) == \A i \in Nat : i <= n /\ i <= m => f[i] = g[i]
Single(f, n) == \A i \in Nat : i <= n => \E q : f[i] = {q}

LEMMA TableAgrees ==
  \A n, m \in Nat : \A p, f, g :
    Table(f, p, n) /\ Table(g, p, m) => Agree(f, g, n, m)
<1> SUFFICES ASSUME NEW n \in Nat, NEW m \in Nat, NEW p, NEW f, NEW g,
                    Table(f, p, n), Table(g, p, m)
             PROVE  Agree(f, g, n, m)
  BY Zenon
<1>0. Entries(f, p, n) /\ Entries(g, p, m)
  BY TableEntries, Zenon
<1> DEFINE S == {i \in Nat : i <= n /\ i <= m => f[i] = g[i]}
<1>1. 0 \in S
  BY <1>0 DEF Entries
<1>2. ASSUME NEW i \in S PROVE i + 1 \in S
  <2> SUFFICES ASSUME i + 1 <= n, i + 1 <= m PROVE f[i + 1] = g[i + 1]
    OBVIOUS
  <2>1. i \in 0 .. n - 1 /\ i \in 0 .. m - 1 /\ f[i] = g[i]
    OBVIOUS
  <2> QED
    BY <1>0, <2>1, Zenon DEF Entries
<1>3. S \in SUBSET Nat
  OBVIOUS
<1> HIDE DEF S
<1>4. \A i \in Nat : i \in S
  BY <1>1, <1>2, <1>3, SetInduction, Zenon
<1> QED
  BY <1>4, Zenon DEF S, Agree

LEMMA TableSingle ==
  \A n \in Nat : \A p, f :
    Table(f, p, n) => Single(f, n)
<1> SUFFICES ASSUME NEW n \in Nat, NEW p, NEW f, Table(f, p, n)
             PROVE  Single(f, n)
  BY Zenon
<1>0. Entries(f, p, n)
  BY TableEntries, Zenon
<1> DEFINE S == {i \in Nat : i <= n => \E q : f[i] = {q}}
<1>1. 0 \in S
  BY <1>0 DEF Entries
<1>2. ASSUME NEW i \in S PROVE i + 1 \in S
  <2>0. i \in Nat /\ i + 1 \in Nat
    OBVIOUS
  <2> SUFFICES ASSUME i + 1 <= n PROVE \E q : f[i + 1] = {q}
    BY <2>0, Zenon
  <2>1. i \in 0 .. n - 1 /\ i <= n
    BY <2>0
  <2>2. \E q : f[i] = {q}
    BY <2>1, Zenon
  <2>3. PICK q : f[i] = {q}
    BY <2>2, Zenon
  <2>4. f[i + 1] = Steps({q})
    BY <1>0, <2>1, <2>3, Zenon DEF Entries
  <2> QED
    BY <2>4, StepsOfOne, Zenon
<1>3. S \in SUBSET Nat
  OBVIOUS
<1> HIDE DEF S
<1>4. \A i \in Nat : i \in S
  BY <1>1, <1>2, <1>3, SetInduction, Zenon
<1> QED
  BY <1>4, Zenon DEF S, Single

(* No dots leave the unit as it is.                                         *)
LEMMA DotsZero == \A p : Dots(p, 0) = p
<1> TAKE p
<1>1. PICK f : Table(f, p, 0) /\ Dots(p, 0) = CHOOSE q \in f[0] : TRUE
  BY DotsFromTable
<1>2. f[0] = {p}
  BY <1>1, TableEntries, Zenon DEF Entries
<1> QED
  BY <1>1, <1>2, Zenon

(* One dot more is one step more.                                           *)
LEMMA DotsNext == \A n \in Nat : \A p : Dots(p, n + 1) = PpuStep(Dots(p, n))
<1> TAKE n \in Nat
<1> TAKE p
<1>1. /\ n + 1 \in Nat /\ n <= n /\ n <= n + 1
      /\ n \in 0 .. (n + 1) - 1
  OBVIOUS
<1>2. PICK f : Table(f, p, n) /\ Dots(p, n) = CHOOSE q \in f[n] : TRUE
  BY DotsFromTable
<1>3. PICK g : /\ Table(g, p, n + 1)
               /\ Dots(p, n + 1) = CHOOSE q \in g[n + 1] : TRUE
  BY <1>1, DotsFromTable, Zenon
<1>4. PICK q : f[n] = {q}
  <2>1. Single(f, n)
    BY <1>2, TableSingle, Zenon
  <2> QED
    BY <1>1, <2>1, Zenon DEF Single
<1>5. g[n] = {q}
  <2>1. Agree(f, g, n, n + 1)
    BY <1>1, <1>2, <1>3, TableAgrees, Zenon
  <2> QED
    BY <1>1, <1>4, <2>1, Zenon DEF Agree
<1>6. g[n + 1] = {PpuStep(q)}
  <2>1. Entries(g, p, n + 1)
    BY <1>1, <1>3, TableEntries, Zenon
  <2> QED
    BY <1>1, <1>5, <2>1, StepsOfOne, Zenon DEF Entries
<1>7. Dots(p, n) = q
  BY <1>2, <1>4, Zenon
<1>8. Dots(p, n + 1) = PpuStep(q)
  BY <1>3, <1>6, Zenon
<1> QED
  BY <1>7, <1>8, Zenon

(* Dots in two goes are dots in one.                                        *)
LEMMA DotsAdd ==
  \A p : \A m, n \in Nat : Dots(p, m + n) = Dots(Dots(p, m), n)
<1> TAKE p
<1> SUFFICES ASSUME NEW m \in Nat
             PROVE  \A n \in Nat : Dots(p, m + n) = Dots(Dots(p, m), n)
  OBVIOUS
<1> DEFINE S == {n \in Nat : Dots(p, m + n) = Dots(Dots(p, m), n)}
<1>1. 0 \in S
  <2>1. m + 0 = m
    OBVIOUS
  <2> QED
    BY <2>1, DotsZero
<1>2. ASSUME NEW n \in S PROVE n + 1 \in S
  <2>1. n \in Nat /\ n + 1 \in Nat /\ m + n \in Nat /\ m + (n + 1) = (m + n) + 1
    OBVIOUS
  <2>2. Dots(p, (m + n) + 1) = PpuStep(Dots(p, m + n))
    BY <2>1, DotsNext, Zenon
  <2>3. Dots(Dots(p, m), n + 1) = PpuStep(Dots(Dots(p, m), n))
    BY <2>1, DotsNext, Zenon
  <2>4. Dots(p, m + n) = Dots(Dots(p, m), n)
    OBVIOUS
  <2>5. Dots(p, m + (n + 1)) = Dots(Dots(p, m), n + 1)
    BY <2>1, <2>2, <2>3, <2>4, Zenon
  <2> QED
    BY <2>1, <2>5
<1>3. S \in SUBSET Nat
  OBVIOUS
<1> HIDE DEF S
<1>4. \A n \in Nat : n \in S
  BY <1>1, <1>2, <1>3, SetInduction, Zenon
<1> QED
  BY <1>4, Zenon DEF S

-----------------------------------------------------------------------------
(* The unit's type.                                                         *)

AddressSet ==
  [fine : 0 .. 15, nty : {0, 1}, ntx : {0, 1}, y : 0 .. 31, x : 0 .. 31]

TileStates == {"FETCH_NT", "FETCH_AT", "FETCH_BG", "FETCH_BG2"}
SpriteStates ==
  {"FETCH_BAD_NT", "FETCH_BAD_NT2", "FETCH_SPRITE_LOW", "FETCH_SPRITE_HIGH"}
TailStates ==
  {"FETCH_TAIL_NT", "FETCH_TAIL_AT", "FETCH_TAIL_BG", "FETCH_TAIL_BG2"}
States ==
  TileStates \cup SpriteStates \cup TailStates \cup
  {"FETCH_SCANLINE_START", "END_NT1", "END_NT2", "RENDER_DISABLED_SCANLINE",
   "POSTRENDER_SCANLINE"}

Units ==
  [line : Nat, dot : Nat, state : States,
   rendering : {0, 1}, enable : {0, 1}, vblank : {0, 1}, hit : {0, 1},
   odd : {0, 1}, v : AddressSet, t : AddressSet, latch : {0, 1},
   increment : Nat, sprite : Nat, on_line : {0, 1}, nmi : {0, 1},
   nmis : Nat, steady : {0, 1}]

(* The dots the constants stand for.                                        *)
LEMMA Geometry ==
  /\ LastTileDot \in Nat /\ LastTileDot >= 8 /\ LastTileDot % 8 = 0
  /\ LastSpriteDot \in Nat /\ LastSpriteDot >= LastTileDot + 8
  /\ LastSpriteDot % 8 = 0
  /\ LastTailDot = LastSpriteDot + 16 /\ LineDots = LastTailDot + 5
  /\ LineDots \in Nat
  /\ VblankLine = VisibleLines + 1 /\ VisibleLines \in 2 .. 240
  /\ TotalLines \in Nat /\ TotalLines > VblankLine
BY PpuAssumption DEF LastTileDot, LastSpriteDot, LastTailDot, LineDots,
   VblankLine, PpuAssumption

(* A unit with one field, or the state and the dot, set anew.               *)
LEMMA SetState == \A p \in Units : \A s \in States : [p EXCEPT !.state = s] \in Units
BY DEF Units
LEMMA SetDot == \A p \in Units : \A d \in Nat : [p EXCEPT !.dot = d] \in Units
BY DEF Units
LEMMA SetLine == \A p \in Units : \A n \in Nat : [p EXCEPT !.line = n] \in Units
BY DEF Units
LEMMA SetV == \A p \in Units : \A a \in AddressSet : [p EXCEPT !.v = a] \in Units
BY DEF Units
LEMMA SetT == \A p \in Units : \A a \in AddressSet : [p EXCEPT !.t = a] \in Units
BY DEF Units
LEMMA SetCounts ==
  \A p \in Units : \A n \in Nat :
    /\ [p EXCEPT !.nmis = n] \in Units
    /\ [p EXCEPT !.increment = n] \in Units
    /\ [p EXCEPT !.sprite = n] \in Units
BY DEF Units
LEMMA SetFlags ==
  \A p \in Units : \A b \in {0, 1} :
    /\ [p EXCEPT !.rendering = b] \in Units /\ [p EXCEPT !.enable = b] \in Units
    /\ [p EXCEPT !.vblank = b] \in Units /\ [p EXCEPT !.hit = b] \in Units
BY DEF Units
LEMMA SetMoreFlags ==
  \A p \in Units : \A b \in {0, 1} :
    /\ [p EXCEPT !.odd = b] \in Units /\ [p EXCEPT !.latch = b] \in Units
    /\ [p EXCEPT !.on_line = b] \in Units /\ [p EXCEPT !.nmi = b] \in Units
    /\ [p EXCEPT !.steady = b] \in Units
BY SMTT(30) DEF Units

(* An address and its fields.                                               *)
LEMMA AddressFields ==
  \A a \in AddressSet :
    /\ a.fine \in 0 .. 15 /\ a.nty \in {0, 1} /\ a.ntx \in {0, 1}
    /\ a.y \in 0 .. 31 /\ a.x \in 0 .. 31
BY DEF AddressSet
LEMMA SetAddress ==
  \A a \in AddressSet :
    /\ \A n \in 0 .. 15 : [a EXCEPT !.fine = n] \in AddressSet
    /\ \A n \in 0 .. 31 : [a EXCEPT !.y = n] \in AddressSet
    /\ \A n \in 0 .. 31 : [a EXCEPT !.x = n] \in AddressSet
    /\ \A n \in {0, 1} : [a EXCEPT !.ntx = n] \in AddressSet
    /\ \A n \in {0, 1} : [a EXCEPT !.nty = n] \in AddressSet
BY DEF AddressSet

(* The ways vram_addr moves, field by field (2c02.cc:166-168, 346-387).     *)
LEMMA CopyMoves ==
  ASSUME NEW a \in AddressSet, NEW t \in AddressSet
  PROVE  LET b == [a EXCEPT !.fine = t.fine, !.y = t.y]
         IN  /\ b \in AddressSet
             /\ b.fine = t.fine /\ b.y = t.y
             /\ b.nty = a.nty /\ b.ntx = a.ntx /\ b.x = a.x
BY DEF AddressSet
LEMMA HorizMoves ==
  ASSUME NEW a \in AddressSet
  PROVE  /\ IncrHoriz(a) \in AddressSet
         /\ IncrHoriz(a).fine = a.fine /\ IncrHoriz(a).y = a.y
         /\ IncrHoriz(a).nty = a.nty
         /\ IncrHoriz(a).x = (a.x + 1) % 32
         /\ IncrHoriz(a).ntx = IF a.x = 31 THEN 1 - a.ntx ELSE a.ntx
<1>1. a.x \in 0 .. 31 /\ 1 - a.ntx \in {0, 1}
  BY DEF AddressSet
<1>2. CASE a.x = 31
  <2>1. IncrHoriz(a) = [a EXCEPT !.x = 0, !.ntx = 1 - a.ntx]
    BY <1>2 DEF IncrHoriz, AddressSet
  <2>2. (a.x + 1) % 32 = 0
    BY <1>2
  <2> HIDE DEF AddressSet
  <2>3. [a EXCEPT !.x = 0] \in AddressSet
    <3>1. 0 \in 0 .. 31
      OBVIOUS
    <3> QED
      BY <3>1, SetAddress, Zenon
  <2>4. IncrHoriz(a) \in AddressSet
    BY <1>1, <2>1, <2>3, SetAddress
  <2> QED
    BY <1>2, <2>1, <2>2, <2>4 DEF AddressSet
<1>3. CASE a.x # 31
  <2>1. IncrHoriz(a) = [a EXCEPT !.x = a.x + 1]
    BY <1>3 DEF IncrHoriz, AddressSet
  <2>2. (a.x + 1) % 32 = a.x + 1 /\ a.x + 1 \in 0 .. 31
    BY <1>1, <1>3
  <2>3. IncrHoriz(a) \in AddressSet
    BY <2>1, <2>2, SetAddress
  <2> QED
    BY <1>3, <2>1, <2>2, <2>3 DEF AddressSet
<1> QED
  BY <1>2, <1>3
LEMMA TempMoves ==
  ASSUME NEW a \in AddressSet, NEW t \in AddressSet
  PROVE  /\ FromTemp(a, t) \in AddressSet
         /\ FromTemp(a, t).fine = a.fine /\ FromTemp(a, t).y = a.y
         /\ FromTemp(a, t).nty = t.nty /\ FromTemp(a, t).ntx = t.ntx
         /\ FromTemp(a, t).x = t.x
BY DEF AddressSet, FromTemp

\* The row under a row, and fine y under it.
NextFine(a) == IF a.fine % 8 # 7 THEN a.fine + 1 ELSE 0
NextRow(a) == IF a.fine % 8 # 7 THEN a.y ELSE IF a.y \in {29, 31} THEN 0 ELSE a.y + 1

LEMMA VertMoves ==
  ASSUME NEW a \in AddressSet, NEW t \in AddressSet
  PROVE  /\ IncrVert(a, t) \in AddressSet
         /\ IncrVert(a, t).fine = NextFine(a) /\ IncrVert(a, t).y = NextRow(a)
         /\ IncrVert(a, t).nty = t.nty /\ IncrVert(a, t).ntx = t.ntx
         /\ IncrVert(a, t).x = t.x
<1> DEFINE b == [a EXCEPT !.fine = NextFine(a), !.y = NextRow(a)]
<1>1. NextFine(a) \in 0 .. 15 /\ NextRow(a) \in 0 .. 31
  <2>1. a.fine \in 0 .. 15 /\ a.y \in 0 .. 31
    BY AddressFields
  <2> QED
    BY <2>1 DEF NextFine, NextRow
<1>2. b \in AddressSet /\ b.fine = NextFine(a) /\ b.y = NextRow(a)
  <2>1. [a EXCEPT !.fine = NextFine(a)] \in AddressSet
    BY <1>1, SetAddress
  <2>2. b \in AddressSet
    BY <1>1, <2>1, SetAddress
  <2> QED
    BY <2>2 DEF AddressSet
<1>3. IncrVert(a, t) = FromTemp(b, t)
  <2>1. CASE a.fine % 8 # 7
    <3>1. b = [a EXCEPT !.fine = a.fine + 1]
      BY <2>1 DEF NextFine, NextRow, AddressSet
    <3> QED
      BY <2>1, <3>1 DEF IncrVert
  <2>2. CASE a.fine % 8 = 7
    BY <2>2 DEF IncrVert, NextFine, NextRow, AddressSet
  <2> QED
    BY <2>1, <2>2
<1> HIDE DEF b
<1> QED
  BY <1>2, <1>3, TempMoves

-----------------------------------------------------------------------------
(* What StateStep does to the fields the properties are about, state by     *)
(* state (2c02.cc:165-303).                                                 *)

LEMMA FollowsStates ==
  /\ DOMAIN Follows = {"FETCH_NT", "FETCH_AT", "FETCH_BG", "FETCH_BAD_NT",
       "FETCH_BAD_NT2", "FETCH_SPRITE_LOW", "FETCH_TAIL_NT", "FETCH_TAIL_AT",
       "FETCH_TAIL_BG", "END_NT1"}
  /\ Fetches = {"FETCH_NT", "FETCH_AT", "FETCH_BG", "FETCH_BAD_NT",
       "FETCH_BAD_NT2", "FETCH_SPRITE_LOW", "FETCH_TAIL_NT", "FETCH_TAIL_AT",
       "FETCH_TAIL_BG", "END_NT1", "FETCH_BG2", "FETCH_SPRITE_HIGH",
       "FETCH_TAIL_BG2"}
  /\ \A s \in DOMAIN Follows : Follows[s] \in States
BY DEF Follows, Fetches, States, TileStates, SpriteStates, TailStates

(* The fields only a line start and vblank change.                          *)
Still(p, q) ==
  /\ q.t = p.t /\ q.rendering = p.rendering /\ q.steady = p.steady
  /\ q.nmi = p.nmi /\ q.nmis = p.nmis

LEMMA TickFields ==
  ASSUME NEW p \in Units
  PROVE  /\ Tick(p) \in Units /\ Still(p, Tick(p))
         /\ Tick(p).state = p.state /\ Tick(p).v = p.v
         /\ Tick(p).line = p.line /\ Tick(p).dot = p.dot + 1
<1>1. p.dot + 1 \in Nat
  BY DEF Units
<1>2. Tick(p) = [p EXCEPT !.dot = p.dot + 1]
  BY DEF Tick, Units
<1>3. Tick(p) \in Units
  BY <1>1, <1>2, SetDot
<1> QED
  BY <1>2, <1>3 DEF Units, Still

LEMMA CopyFields ==
  ASSUME NEW p \in Units
  PROVE  LET q == CopyVertical(p)
         IN  /\ q \in Units /\ Still(p, q) /\ q.state = p.state
             /\ q.line = p.line /\ q.dot = p.dot
             /\ q.v = IF p.rendering = 1 /\ p.line = 0 /\ p.dot \in CopyDots
                      THEN [p.v EXCEPT !.fine = p.t.fine, !.y = p.t.y] ELSE p.v
<1>1. p.v \in AddressSet /\ p.t \in AddressSet
  BY DEF Units
<1>2. CASE p.rendering = 1 /\ p.line = 0 /\ p.dot \in CopyDots
  <2> DEFINE b == [p.v EXCEPT !.fine = p.t.fine, !.y = p.t.y]
  <2>1. b \in AddressSet
    BY <1>1, CopyMoves
  <2>2. CopyVertical(p) = [p EXCEPT !.v = b]
    BY <1>2 DEF CopyVertical, Units
  <2> HIDE DEF b
  <2>3. CopyVertical(p) \in Units
    BY <2>1, <2>2, SetV
  <2>4. /\ Still(p, CopyVertical(p)) /\ CopyVertical(p).state = p.state
        /\ CopyVertical(p).line = p.line /\ CopyVertical(p).dot = p.dot
        /\ CopyVertical(p).v = b
    BY <2>2, <2>3 DEF Still, Units
  <2> QED
    BY <1>2, <2>3, <2>4, Zenon DEF b
<1>3. CASE ~(p.rendering = 1 /\ p.line = 0 /\ p.dot \in CopyDots)
  BY <1>3, Zenon DEF CopyVertical, Still
<1> QED
  BY <1>2, <1>3

LEMMA FollowFields ==
  ASSUME NEW p \in Units, p.state \in DOMAIN Follows
  PROVE  LET q == StateStep(p)
         IN  /\ q \in Units /\ Still(p, q) /\ q.v = p.v
             /\ q.line = p.line /\ q.dot = p.dot + 1
             /\ q.state = IF p.dot % 2 = 0 THEN Follows[p.state] ELSE p.state
<1> DEFINE s == IF p.dot % 2 = 0 THEN Follows[p.state] ELSE p.state
           r == [p EXCEPT !.state = s]
<1>1. s \in States
  BY FollowsStates DEF Units
<1>2. StateStep(p) = Tick(r)
  BY FollowsStates DEF StateStep, Units, Fetched, Tick
<1> HIDE DEF s
<1>3. r \in Units
  BY <1>1, SetState
<1>4. /\ Still(p, r) /\ r.v = p.v /\ r.line = p.line /\ r.dot = p.dot
      /\ r.state = s
  BY <1>3 DEF Still, Units
<1> HIDE DEF r
<1>5. Still(p, Tick(r)) /\ Tick(r) \in Units
  BY <1>3, <1>4, TickFields DEF Still
<1>6. /\ Tick(r).v = p.v /\ Tick(r).line = p.line /\ Tick(r).dot = p.dot + 1
      /\ Tick(r).state = s
  BY <1>3, <1>4, TickFields
<1> QED
  BY <1>2, <1>5, <1>6, Zenon DEF s

(* The other states wait, in the odd dot of a fetch, as they are.           *)
LEMMA WaitFields ==
  ASSUME NEW p \in Units, p.dot % 2 # 0,
         p.state \in {"FETCH_BG2", "FETCH_SPRITE_HIGH", "FETCH_TAIL_BG2", "END_NT2"}
  PROVE  LET q == StateStep(p)
         IN  /\ q \in Units /\ Still(p, q) /\ q.v = p.v
             /\ q.line = p.line /\ q.dot = p.dot + 1 /\ q.state = p.state
<1>1. StateStep(p) = Tick(p)
  BY FollowsStates DEF StateStep
<1> QED
  BY <1>1, TickFields

LEMMA DrawFields ==
  ASSUME NEW p \in Units
  PROVE  LET q == DrawPixels(p)
         IN  /\ q \in Units /\ Still(p, q) /\ q.v = p.v /\ q.line = p.line
             /\ q.dot = p.dot /\ q.state = p.state
<1>1. [p EXCEPT !.hit = 1] \in Units
  BY SetFlags
<1> QED
  BY <1>1 DEF DrawPixels, Units, Still

LEMMA EvaluateFields ==
  ASSUME NEW p \in Units
  PROVE  LET q == EvaluateSprites(p)
         IN  /\ q \in Units /\ Still(p, q) /\ q.v = p.v /\ q.line = p.line
             /\ q.dot = p.dot /\ q.state = p.state
<1> DEFINE on == IF p.sprite <= p.line - 1 /\ p.line - 1 < p.sprite + SpriteHeight
                 THEN 1 ELSE 0
<1>1. EvaluateSprites(p) = [p EXCEPT !.on_line = on]
  BY DEF EvaluateSprites
<1>2. on \in {0, 1}
  OBVIOUS
<1> HIDE DEF on
<1>3. EvaluateSprites(p) \in Units
  BY <1>1, <1>2, SetMoreFlags
<1> QED
  BY <1>1, <1>3 DEF Units, Still

Moved(p, q, a, s) ==
  /\ q \in Units /\ Still(p, q) /\ q.v = a /\ q.line = p.line
  /\ q.dot = p.dot /\ q.state = s

LEMMA MovedFields ==
  ASSUME NEW p \in Units, NEW a \in AddressSet, NEW s \in States
  PROVE  Moved(p, [p EXCEPT !.v = a, !.state = s], a, s)
<1>1. [p EXCEPT !.v = a] \in Units
  BY SetV
<1>2. [p EXCEPT !.v = a, !.state = s] \in Units
  BY <1>1, SetState
<1> QED
  BY <1>2 DEF Units, Still, Moved

LEMMA TileFields ==
  ASSUME NEW p \in Units, p.state = "FETCH_BG2", p.dot % 2 = 0
  PROVE  LET q == StateStep(p)
         IN  /\ q \in Units /\ Still(p, q)
             /\ q.line = p.line /\ q.dot = p.dot + 1
             /\ q.v = IF p.dot # LastTileDot THEN IncrHoriz(p.v)
                      ELSE IF p.line = 0 THEN p.v ELSE IncrVert(p.v, p.t)
             /\ q.state = IF p.dot # LastTileDot THEN "FETCH_NT" ELSE "FETCH_BAD_NT"
<1> DEFINE d == DrawPixels(p)
           a == IF p.dot # LastTileDot THEN IncrHoriz(p.v)
                ELSE IF p.line = 0 THEN p.v ELSE IncrVert(p.v, p.t)
           s == IF p.dot # LastTileDot THEN "FETCH_NT" ELSE "FETCH_BAD_NT"
           m == [d EXCEPT !.v = a, !.state = s]
<1>1. StateStep(p) = Tick(TileDone(p))
  BY FollowsStates DEF StateStep, Fetched
<1>2. /\ d \in Units /\ Still(p, d) /\ d.v = p.v /\ d.line = p.line
      /\ d.dot = p.dot /\ d.state = p.state
  BY DrawFields
<1>3. p.v \in AddressSet /\ p.t \in AddressSet
  BY DEF Units
<1>4. a \in AddressSet /\ s \in States
  BY <1>3, HorizMoves, VertMoves DEF States, TileStates, SpriteStates
<1>5. TileDone(p) = IF p.dot # LastTileDot \/ p.line = 0 THEN m ELSE EvaluateSprites(m)
  <2>1. CASE p.dot # LastTileDot
    BY <1>2, <2>1 DEF TileDone, Units
  <2>2. CASE p.dot = LastTileDot /\ p.line = 0
    <3> HIDE DEF d
    <3>1. TileDone(p) = [d EXCEPT !.state = "FETCH_BAD_NT"]
      BY <2>2 DEF TileDone, d
    <3>2. [d EXCEPT !.v = p.v, !.state = "FETCH_BAD_NT"] = [d EXCEPT !.state = "FETCH_BAD_NT"]
      BY <1>2 DEF Units
    <3> QED
      BY <2>2, <3>1, <3>2
  <2>3. CASE p.dot = LastTileDot /\ p.line # 0
    BY <1>2, <2>3 DEF TileDone, Units
  <2> QED
    BY <2>1, <2>2, <2>3
<1> HIDE DEF a, s, d
<1>6. /\ m \in Units /\ Still(d, m) /\ m.v = a /\ m.line = d.line
      /\ m.dot = d.dot /\ m.state = s
  <2>1. Moved(d, m, a, s)
    BY <1>2, <1>4, MovedFields
  <2> QED
    BY <2>1 DEF Moved
<1> HIDE DEF m
<1>7. LET r == TileDone(p)
      IN  /\ r \in Units /\ Still(m, r) /\ r.v = m.v /\ r.line = m.line
          /\ r.dot = m.dot /\ r.state = m.state
  <2>1. Still(m, m)
    BY DEF Still
  <2>2. LET r == EvaluateSprites(m)
        IN  /\ r \in Units /\ Still(m, r) /\ r.v = m.v /\ r.line = m.line
            /\ r.dot = m.dot /\ r.state = m.state
    BY <1>6, EvaluateFields
  <2> QED
    BY <1>5, <1>6, <2>1, <2>2, Zenon
<1>8. /\ TileDone(p) \in Units /\ Still(p, TileDone(p)) /\ TileDone(p).v = a
      /\ TileDone(p).line = p.line /\ TileDone(p).dot = p.dot
      /\ TileDone(p).state = s
  BY <1>2, <1>6, <1>7, Zenon DEF Still
<1>9. /\ Tick(TileDone(p)) \in Units /\ Still(TileDone(p), Tick(TileDone(p)))
      /\ Tick(TileDone(p)).v = a /\ Tick(TileDone(p)).state = s
      /\ Tick(TileDone(p)).line = p.line /\ Tick(TileDone(p)).dot = p.dot + 1
  BY <1>8, TickFields
<1>10. Still(p, Tick(TileDone(p)))
  BY <1>8, <1>9, Zenon DEF Still
<1> QED
  BY <1>1, <1>9, <1>10, Zenon DEF a, s

LEMMA SpriteFields ==
  ASSUME NEW p \in Units, p.state = "FETCH_SPRITE_HIGH", p.dot % 2 = 0
  PROVE  LET q == StateStep(p)
         IN  /\ q \in Units /\ Still(p, q) /\ q.v = p.v
             /\ q.line = p.line /\ q.dot = p.dot + 1
             /\ q.state = IF p.dot = LastSpriteDot THEN "FETCH_TAIL_NT"
                                                   ELSE "FETCH_BAD_NT"
<1> DEFINE s == IF p.dot = LastSpriteDot THEN "FETCH_TAIL_NT" ELSE "FETCH_BAD_NT"
           r == [p EXCEPT !.state = s]
<1>1. StateStep(p) = Tick(r)
  BY FollowsStates DEF StateStep, Fetched
<1>2. s \in States
  BY DEF States, SpriteStates, TailStates
<1> HIDE DEF s
<1>3. r \in Units
  BY <1>2, SetState
<1>4. /\ Still(p, r) /\ r.v = p.v /\ r.line = p.line /\ r.dot = p.dot
      /\ r.state = s
  BY <1>3 DEF Still, Units
<1> HIDE DEF r
<1>5. /\ Tick(r) \in Units /\ Still(r, Tick(r)) /\ Tick(r).v = p.v
      /\ Tick(r).line = p.line /\ Tick(r).dot = p.dot + 1 /\ Tick(r).state = s
  BY <1>3, <1>4, TickFields
<1>6. Still(p, Tick(r))
  BY <1>4, <1>5, Zenon DEF Still
<1> QED
  BY <1>1, <1>5, <1>6, Zenon DEF s

LEMMA TailFields ==
  ASSUME NEW p \in Units, p.state = "FETCH_TAIL_BG2", p.dot % 2 = 0
  PROVE  LET q == StateStep(p)
         IN  /\ q \in Units /\ Still(p, q) /\ q.v = IncrHoriz(p.v)
             /\ q.line = p.line /\ q.dot = p.dot + 1
             /\ q.state = IF p.dot = LastTailDot THEN "END_NT1" ELSE "FETCH_TAIL_NT"
<1> DEFINE s == IF p.dot = LastTailDot THEN "END_NT1" ELSE "FETCH_TAIL_NT"
           a == IncrHoriz(p.v)
           r == [p EXCEPT !.v = a, !.state = s]
<1>1. StateStep(p) = Tick(r)
  BY FollowsStates DEF StateStep, Fetched, Units
<1>2. s \in States /\ a \in AddressSet
  BY HorizMoves DEF States, TailStates, Units
<1> HIDE DEF s, a
<1>3. /\ r \in Units /\ Still(p, r) /\ r.v = a /\ r.line = p.line
      /\ r.dot = p.dot /\ r.state = s
  <2>1. Moved(p, r, a, s)
    BY <1>2, MovedFields
  <2> QED
    BY <2>1 DEF Moved
<1> HIDE DEF r
<1>4. /\ Tick(r) \in Units /\ Still(r, Tick(r)) /\ Tick(r).v = a
      /\ Tick(r).line = p.line /\ Tick(r).dot = p.dot + 1 /\ Tick(r).state = s
  BY <1>3, TickFields
<1>5. Still(p, Tick(r))
  BY <1>3, <1>4, Zenon DEF Still
<1> QED
  BY <1>1, <1>4, <1>5, Zenon DEF s, a

LEMMA NewLineFields ==
  ASSUME NEW p \in Units
  PROVE  LET q == NewLine(p)
         IN  /\ q \in Units /\ Still(p, q) /\ q.v = p.v
             /\ q.line = p.line + 1 /\ q.dot = 0
             /\ q.state = IF p.line = VisibleLines THEN "POSTRENDER_SCANLINE"
                                                   ELSE "FETCH_SCANLINE_START"
<1> DEFINE s == IF p.line = VisibleLines THEN "POSTRENDER_SCANLINE"
                                         ELSE "FETCH_SCANLINE_START"
<1>1. NewLine(p) = [p EXCEPT !.dot = 0, !.line = p.line + 1, !.state = s]
  BY DEF NewLine, Units
<1>2. s \in States /\ p.line + 1 \in Nat
  BY DEF States, Units
<1> HIDE DEF s
<1>3. [p EXCEPT !.dot = 0] \in Units
  BY SetDot
<1>4. [p EXCEPT !.dot = 0, !.line = p.line + 1] \in Units
  BY <1>2, <1>3, SetLine
<1>5. NewLine(p) \in Units
  BY <1>1, <1>2, <1>4, SetState
<1> QED
  BY <1>1, <1>5 DEF Units, Still, s

(* At the start of a line only line 0 resets nmis, and steady is set on     *)
(* line 0 and dropped on a line that is not rendered.                       *)
LEMMA StartFields ==
  ASSUME NEW p \in Units, p.state = "FETCH_SCANLINE_START"
  PROVE  LET q == StateStep(p)
         IN  /\ q \in Units /\ q.v = p.v /\ q.t = p.t
             /\ q.rendering = p.rendering /\ q.nmi = p.nmi
             /\ q.line = p.line
             /\ q.dot = IF p.line = 1 /\ p.rendering = 1 /\ p.odd = 1
                        THEN p.dot + 2 ELSE p.dot + 1
             /\ q.state = IF p.rendering = 1 THEN "FETCH_NT"
                                             ELSE "RENDER_DISABLED_SCANLINE"
             /\ q.nmis = IF p.line = 0 THEN 0 ELSE p.nmis
             /\ q.steady = IF p.rendering = 0 THEN 0
                           ELSE IF p.line = 0 THEN 1 ELSE p.steady
<1> DEFINE s == IF p.rendering = 1 THEN "FETCH_NT" ELSE "RENDER_DISABLED_SCANLINE"
           d == IF p.line = 1 /\ p.rendering = 1 /\ p.odd = 1
                THEN p.dot + 2 ELSE p.dot + 1
           b == IF p.rendering = 0 THEN 0 ELSE IF p.line = 0 THEN 1 ELSE p.steady
           begun == [p EXCEPT !.state = s, !.dot = d, !.steady = b]
<1>1. StateStep(p) = IF p.line = 0
                     THEN [begun EXCEPT !.vblank = 0, !.hit = 0, !.nmis = 0]
                     ELSE begun
  <2>1. StateStep(p) = LineStart(p)
    BY FollowsStates DEF StateStep
  <2>2. begun = [p EXCEPT
          !.state = IF p.rendering = 1 THEN "FETCH_NT" ELSE "RENDER_DISABLED_SCANLINE",
          !.dot = IF p.line = 1 /\ p.rendering = 1 /\ p.odd = 1 THEN @ + 2 ELSE @ + 1,
          !.steady = IF p.rendering = 0 THEN 0 ELSE IF p.line = 0 THEN 1 ELSE @]
    BY DEF Units
  <2> HIDE DEF begun
  <2> QED
    BY <2>1, <2>2, Zenon DEF LineStart
<1>2. s \in States /\ d \in Nat /\ b \in {0, 1}
  BY DEF States, TileStates, Units
<1> HIDE DEF s, d, b
<1>3. [p EXCEPT !.state = s] \in Units
  BY <1>2, SetState
<1>4. [p EXCEPT !.state = s, !.dot = d] \in Units
  BY <1>2, <1>3, SetDot
<1>5. begun \in Units
  BY <1>2, <1>4, SetMoreFlags
<1>6. /\ begun.v = p.v /\ begun.t = p.t /\ begun.rendering = p.rendering
      /\ begun.nmi = p.nmi /\ begun.nmis = p.nmis /\ begun.line = p.line
      /\ begun.dot = d /\ begun.state = s /\ begun.steady = b
  BY <1>5 DEF Units
<1> HIDE DEF begun
<1>7. CASE p.line = 0
  <2> DEFINE r == [begun EXCEPT !.vblank = 0, !.hit = 0, !.nmis = 0]
  <2>1. [begun EXCEPT !.vblank = 0] \in Units
    BY <1>5, SetFlags
  <2>2. [begun EXCEPT !.vblank = 0, !.hit = 0] \in Units
    BY <2>1, SetFlags
  <2>3. r \in Units
    BY <2>2, SetCounts
  <2>4. /\ r.v = begun.v /\ r.t = begun.t /\ r.rendering = begun.rendering
        /\ r.nmi = begun.nmi /\ r.nmis = 0 /\ r.line = begun.line
        /\ r.dot = begun.dot /\ r.state = begun.state /\ r.steady = begun.steady
    BY <1>5, <2>3 DEF Units
  <2> HIDE DEF r
  <2>5. StateStep(p) = r
    BY <1>1, <1>7 DEF r
  <2> QED
    BY <1>6, <1>7, <2>3, <2>4, <2>5 DEF s, d, b
<1>8. CASE p.line # 0
  BY <1>1, <1>5, <1>6, <1>8 DEF s, d, b
<1> QED
  BY <1>7, <1>8

\* assert_nmi is called at this dot.
Raises(p) ==
  /\ p.line = VblankLine /\ p.dot = 4 /\ p.vblank = 1 /\ p.enable = 1

LEMMA VblankFields ==
  ASSUME NEW p \in Units
  PROVE  LET q == Vblank(p)
         IN  /\ q \in Units /\ q.v = p.v /\ q.t = p.t
             /\ q.rendering = p.rendering /\ q.steady = p.steady
             /\ q.line = p.line /\ q.dot = p.dot /\ q.state = p.state
             /\ q.nmi = IF Raises(p) THEN 1 ELSE p.nmi
             /\ q.nmis = IF Raises(p) THEN p.nmis + 1 ELSE p.nmis
<1>1. CASE p.line = VblankLine /\ p.dot = 1
  <2> DEFINE r == [p EXCEPT !.vblank = 1, !.odd = 1 - p.odd]
  <2>1. Vblank(p) = r
    BY <1>1 DEF Vblank, Units
  <2>2. [p EXCEPT !.vblank = 1] \in Units /\ 1 - p.odd \in {0, 1}
    <3>1. 1 - p.odd \in {0, 1}
      BY DEF Units
    <3> QED
      BY <3>1, SetFlags
  <2>3. r \in Units
    BY <2>2, SetMoreFlags
  <2>4. /\ r.v = p.v /\ r.t = p.t /\ r.rendering = p.rendering
        /\ r.steady = p.steady /\ r.line = p.line /\ r.dot = p.dot
        /\ r.state = p.state /\ r.nmi = p.nmi /\ r.nmis = p.nmis
    BY <2>3 DEF Units
  <2> HIDE DEF r
  <2> QED
    BY <1>1, <2>1, <2>3, <2>4 DEF Raises
<1>2. CASE Raises(p)
  <2> DEFINE r == [p EXCEPT !.nmi = 1, !.nmis = p.nmis + 1]
  <2>1. Vblank(p) = r
    BY <1>2 DEF Vblank, Raises, Units
  <2>2. [p EXCEPT !.nmi = 1] \in Units /\ p.nmis + 1 \in Nat
    <3>1. p.nmis + 1 \in Nat
      BY DEF Units
    <3> QED
      BY <3>1, SetMoreFlags
  <2>3. r \in Units
    BY <2>2, SetCounts
  <2>4. /\ r.v = p.v /\ r.t = p.t /\ r.rendering = p.rendering
        /\ r.steady = p.steady /\ r.line = p.line /\ r.dot = p.dot
        /\ r.state = p.state /\ r.nmi = 1 /\ r.nmis = p.nmis + 1
    BY <2>3 DEF Units
  <2> HIDE DEF r
  <2> QED
    BY <1>2, <2>1, <2>3, <2>4
<1>3. CASE ~(p.line = VblankLine /\ p.dot = 1) /\ ~Raises(p)
  <2>1. Vblank(p) = p
    BY <1>3 DEF Vblank, Raises
  <2> QED
    BY <1>3, <2>1
<1> QED
  BY <1>1, <1>2, <1>3

LEMMA PostrenderFields ==
  ASSUME NEW p \in Units, p.state = "POSTRENDER_SCANLINE"
  PROVE  LET q == StateStep(p)
             ends == p.dot = LineDots - 1
             last == p.line = TotalLines - 1
         IN  /\ q \in Units /\ q.v = p.v /\ q.t = p.t
             /\ q.rendering = p.rendering /\ q.steady = p.steady
             /\ q.nmi = IF Raises(p) THEN 1 ELSE p.nmi
             /\ q.nmis = IF Raises(p) THEN p.nmis + 1 ELSE p.nmis
             /\ q.dot = IF ends THEN 0 ELSE p.dot + 1
             /\ q.line = IF ~ends THEN p.line ELSE IF last THEN 0 ELSE p.line + 1
             /\ q.state = IF ends /\ last THEN "FETCH_SCANLINE_START" ELSE p.state
<1> DEFINE w == Vblank(p)
<1>1. StateStep(p) = PostrenderStep(p)
  BY FollowsStates DEF StateStep
<1>2. /\ w \in Units /\ w.v = p.v /\ w.t = p.t
      /\ w.rendering = p.rendering /\ w.steady = p.steady
      /\ w.line = p.line /\ w.dot = p.dot /\ w.state = p.state
      /\ w.nmi = IF Raises(p) THEN 1 ELSE p.nmi
      /\ w.nmis = IF Raises(p) THEN p.nmis + 1 ELSE p.nmis
  BY VblankFields
<1>3. p.dot + 1 \in Nat /\ p.line + 1 \in Nat
  BY DEF Units
<1>4. PostrenderStep(p) =
        IF p.dot # LineDots - 1 THEN [w EXCEPT !.dot = p.dot + 1]
        ELSE IF p.line # TotalLines - 1 THEN [w EXCEPT !.dot = 0, !.line = p.line + 1]
        ELSE [w EXCEPT !.dot = 0, !.line = 0, !.state = "FETCH_SCANLINE_START"]
  BY <1>2 DEF PostrenderStep, Units
<1> HIDE DEF w
<1>5. CASE p.dot # LineDots - 1
  <2> DEFINE r == [w EXCEPT !.dot = p.dot + 1]
  <2>1. r \in Units
    BY <1>2, <1>3, SetDot
  <2>2. /\ r.v = w.v /\ r.t = w.t /\ r.rendering = w.rendering
        /\ r.steady = w.steady /\ r.nmi = w.nmi /\ r.nmis = w.nmis
        /\ r.dot = p.dot + 1 /\ r.line = w.line /\ r.state = w.state
    BY <1>2, <2>1 DEF Units
  <2>3. StateStep(p) = r
    BY <1>1, <1>4, <1>5
  <2> HIDE DEF r
  <2> QED
    BY <1>2, <1>5, <2>1, <2>2, <2>3
<1>6. CASE p.dot = LineDots - 1 /\ p.line # TotalLines - 1
  <2> DEFINE r == [w EXCEPT !.dot = 0, !.line = p.line + 1]
  <2>1. [w EXCEPT !.dot = 0] \in Units
    BY <1>2, SetDot
  <2>2. r \in Units
    BY <1>3, <2>1, SetLine
  <2>3. /\ r.v = w.v /\ r.t = w.t /\ r.rendering = w.rendering
        /\ r.steady = w.steady /\ r.nmi = w.nmi /\ r.nmis = w.nmis
        /\ r.dot = 0 /\ r.line = p.line + 1 /\ r.state = w.state
    BY <1>2, <2>2 DEF Units
  <2>4. StateStep(p) = r
    BY <1>1, <1>4, <1>6
  <2> HIDE DEF r
  <2> QED
    BY <1>2, <1>6, <2>2, <2>3, <2>4
<1>7. CASE p.dot = LineDots - 1 /\ p.line = TotalLines - 1
  <2> DEFINE r == [w EXCEPT !.dot = 0, !.line = 0, !.state = "FETCH_SCANLINE_START"]
  <2>1. [w EXCEPT !.dot = 0] \in Units
    BY <1>2, SetDot
  <2>2. [w EXCEPT !.dot = 0, !.line = 0] \in Units
    BY <2>1, SetLine
  <2>3. r \in Units
    BY <2>2, SetState DEF States
  <2>4. /\ r.v = w.v /\ r.t = w.t /\ r.rendering = w.rendering
        /\ r.steady = w.steady /\ r.nmi = w.nmi /\ r.nmis = w.nmis
        /\ r.dot = 0 /\ r.line = 0 /\ r.state = "FETCH_SCANLINE_START"
    BY <1>2, <2>3 DEF Units
  <2>5. StateStep(p) = r
    BY <1>1, <1>4, <1>7
  <2> HIDE DEF r
  <2> QED
    BY <1>2, <1>7, <2>3, <2>4, <2>5
<1> QED
  BY <1>5, <1>6, <1>7

-----------------------------------------------------------------------------
(* The state machine keeps time with the dot: a fetch takes the two dots it *)
(* is due, a line ends at its last dot, and vblank is the lines after the    *)
(* visible ones.                                                            *)

InStep(state, line, dot) ==
  /\ state = "FETCH_SCANLINE_START" => dot = 0
  /\ state \in TileStates => dot \in 1 .. LastTileDot
  /\ state \in SpriteStates => dot \in LastTileDot + 1 .. LastSpriteDot
  /\ state \in TailStates => dot \in LastSpriteDot + 1 .. LastTailDot
  /\ state \in {"FETCH_NT", "FETCH_BAD_NT", "FETCH_TAIL_NT"} => dot % 8 \in {1, 2}
  /\ state \in {"FETCH_AT", "FETCH_BAD_NT2", "FETCH_TAIL_AT"} => dot % 8 \in {3, 4}
  /\ state \in {"FETCH_BG", "FETCH_SPRITE_LOW", "FETCH_TAIL_BG"} => dot % 8 \in {5, 6}
  /\ state \in {"FETCH_BG2", "FETCH_SPRITE_HIGH", "FETCH_TAIL_BG2"} => dot % 8 \in {7, 0}
  /\ state = "END_NT1" => dot \in LastTailDot + 1 .. LastTailDot + 2
  /\ state = "END_NT2" => dot \in LastTailDot + 3 .. LastTailDot + 4
  /\ state = "RENDER_DISABLED_SCANLINE" => dot \in 1 .. LineDots - 1
  /\ IF state = "POSTRENDER_SCANLINE"
       THEN dot \in 0 .. LineDots - 1 /\ line \in VblankLine .. TotalLines - 1
       ELSE line \in 0 .. VisibleLines

(* Each fetch and the wait in it stay in step.                              *)
LEMMA FollowInStep ==
  ASSUME NEW s \in DOMAIN Follows, NEW l \in Nat, NEW d \in Nat, InStep(s, l, d)
  PROVE  InStep(IF d % 2 = 0 THEN Follows[s] ELSE s, l, d + 1)
<1> USE Geometry DEF InStep, TileStates, SpriteStates, TailStates, Follows
<1>1. CASE s \in {"FETCH_NT", "FETCH_AT", "FETCH_BG"}
  BY <1>1
<1>2. CASE s \in {"FETCH_BAD_NT", "FETCH_BAD_NT2", "FETCH_SPRITE_LOW"}
  BY <1>2
<1>3. CASE s \in {"FETCH_TAIL_NT", "FETCH_TAIL_AT", "FETCH_TAIL_BG"}
  BY <1>3
<1>4. CASE s = "END_NT1"
  BY <1>4
<1> QED
  BY <1>1, <1>2, <1>3, <1>4, FollowsStates

LEMMA WaitInStep ==
  ASSUME NEW s \in {"FETCH_BG2", "FETCH_SPRITE_HIGH", "FETCH_TAIL_BG2", "END_NT2"},
         NEW l \in Nat, NEW d \in Nat, InStep(s, l, d), d % 2 # 0
  PROVE  InStep(s, l, d + 1)
BY Geometry DEF InStep, TileStates, SpriteStates, TailStates

LEMMA BranchInStep ==
  ASSUME NEW l \in Nat, NEW d \in Nat, d % 2 = 0
  PROVE  /\ InStep("FETCH_BG2", l, d) =>
              InStep(IF d # LastTileDot THEN "FETCH_NT" ELSE "FETCH_BAD_NT", l, d + 1)
         /\ InStep("FETCH_SPRITE_HIGH", l, d) =>
              InStep(IF d = LastSpriteDot THEN "FETCH_TAIL_NT" ELSE "FETCH_BAD_NT", l, d + 1)
         /\ InStep("FETCH_TAIL_BG2", l, d) =>
              InStep(IF d = LastTailDot THEN "END_NT1" ELSE "FETCH_TAIL_NT", l, d + 1)
         /\ InStep("END_NT2", l, d) => d = LineDots - 1
<1> USE Geometry DEF InStep, TileStates, SpriteStates, TailStates
<1>1. InStep("FETCH_BG2", l, d) =>
        InStep(IF d # LastTileDot THEN "FETCH_NT" ELSE "FETCH_BAD_NT", l, d + 1)
  OBVIOUS
<1>2. InStep("FETCH_SPRITE_HIGH", l, d) =>
        InStep(IF d = LastSpriteDot THEN "FETCH_TAIL_NT" ELSE "FETCH_BAD_NT", l, d + 1)
  OBVIOUS
<1>3. InStep("FETCH_TAIL_BG2", l, d) =>
        InStep(IF d = LastTailDot THEN "END_NT1" ELSE "FETCH_TAIL_NT", l, d + 1)
  OBVIOUS
<1>4. InStep("END_NT2", l, d) => d = LineDots - 1
  OBVIOUS
<1> QED
  BY <1>1, <1>2, <1>3, <1>4

LEMMA LineInStep ==
  ASSUME NEW l \in Nat, NEW d \in Nat
  PROVE  /\ l \in 0 .. VisibleLines =>
              InStep(IF l = VisibleLines THEN "POSTRENDER_SCANLINE"
                                         ELSE "FETCH_SCANLINE_START", l + 1, 0)
         /\ InStep("RENDER_DISABLED_SCANLINE", l, d) /\ d # LineDots - 1 =>
              InStep("RENDER_DISABLED_SCANLINE", l, d + 1)
         /\ InStep("FETCH_SCANLINE_START", l, d) =>
              /\ InStep("FETCH_NT", l, d + 1) /\ InStep("FETCH_NT", l, d + 2)
              /\ InStep("RENDER_DISABLED_SCANLINE", l, d + 1)
         /\ InStep("POSTRENDER_SCANLINE", l, d) =>
              IF d # LineDots - 1 THEN InStep("POSTRENDER_SCANLINE", l, d + 1)
              ELSE IF l # TotalLines - 1 THEN InStep("POSTRENDER_SCANLINE", l + 1, 0)
              ELSE InStep("FETCH_SCANLINE_START", 0, 0)
BY Geometry DEF InStep, TileStates, SpriteStates, TailStates

-----------------------------------------------------------------------------
(* The scroll: lemmas about the row and the column an address is on.        *)

\* vram_addr is k tiles to the right of reg_t.
Across(v, t, k) ==
  /\ v.x = (t.x + k) % 32
  /\ v.ntx = (IF t.x + k >= 32 THEN 1 - t.ntx ELSE t.ntx)
  /\ v.nty = t.nty

(* The line of the picture is one of 256, and moving right stays on it.     *)
LEMMA PictureLineType == \A a \in AddressSet : PictureLine(a) \in 0 .. 255
<1> TAKE a \in AddressSet
<1>1. a.fine \in 0 .. 15 /\ a.y \in 0 .. 31
  BY AddressFields
<1> QED
  BY <1>1 DEF PictureLine
LEMMA PictureLineHoriz ==
  \A a \in AddressSet : PictureLine(IncrHoriz(a)) = PictureLine(a)
BY HorizMoves DEF PictureLine

(* The line under a line, and r lines below one.                            *)
LEMMA BelowZero == \A n \in 0 .. 255 : Below(n, 0) = n
BY DEF Below
LEMMA BelowNext ==
  \A n \in 0 .. 255 : \A r \in 0 .. 239 :
    Below(n, r + 1) = IF Below(n, r) \in {239, 255} THEN 0 ELSE Below(n, r) + 1
<1> SUFFICES ASSUME NEW n \in 0 .. 255, NEW r \in 0 .. 239
             PROVE  Below(n, r + 1) =
                      IF Below(n, r) \in {239, 255} THEN 0 ELSE Below(n, r) + 1
  OBVIOUS
<1>1. CASE n < 240 /\ n + r < 239
  BY <1>1, SMTT(30) DEF Below
<1>2. CASE n < 240 /\ n + r = 239
  BY <1>2, SMTT(30) DEF Below
<1>3. CASE n < 240 /\ n + r > 239
  BY <1>3, SMTT(30) DEF Below
<1>4. CASE n >= 240
  BY <1>4, SMTT(30) DEF Below
<1> QED
  BY <1>1, <1>2, <1>3, <1>4
LEMMA PictureLineVert ==
  ASSUME NEW a \in AddressSet, NEW t \in AddressSet
  PROVE  PictureLine(IncrVert(a, t)) =
           IF PictureLine(a) \in {239, 255} THEN 0 ELSE PictureLine(a) + 1
<1>1. a.fine \in 0 .. 15 /\ a.y \in 0 .. 31
  BY AddressFields
<1>2. /\ IncrVert(a, t).fine = NextFine(a)
      /\ IncrVert(a, t).y = NextRow(a)
  BY VertMoves
<1>3. CASE a.fine % 8 # 7
  BY <1>1, <1>2, <1>3 DEF NextFine, NextRow, PictureLine
<1>4. CASE a.fine % 8 = 7
  BY <1>1, <1>2, <1>4 DEF NextFine, NextRow, PictureLine
<1> QED
  BY <1>3, <1>4
LEMMA BelowVert ==
  ASSUME NEW a \in AddressSet, NEW t \in AddressSet, NEW r \in 0 .. 239,
         PictureLine(a) = Below(PictureLine(t), r)
  PROVE  PictureLine(IncrVert(a, t)) = Below(PictureLine(t), r + 1)
<1>1. /\ PictureLine(t) \in 0 .. 255
      /\ PictureLine(IncrVert(a, t)) =
           IF PictureLine(a) \in {239, 255} THEN 0 ELSE PictureLine(a) + 1
  BY PictureLineType, PictureLineVert, Zenon
<1>2. Below(PictureLine(t), r + 1) =
        IF Below(PictureLine(t), r) \in {239, 255} THEN 0
        ELSE Below(PictureLine(t), r) + 1
  BY <1>1, BelowNext, Zenon
<1> QED
  BY <1>1, <1>2

(* The end of a line's tiles goes back to reg_t's column, and each tile     *)
(* fetched in the tail is one to the right.                                 *)
LEMMA AcrossVert ==
  ASSUME NEW a \in AddressSet, NEW t \in AddressSet
  PROVE  Across(IncrVert(a, t), t, 0)
<1>1. t.x \in 0 .. 31
  BY AddressFields
<1> QED
  BY <1>1, VertMoves DEF Across
LEMMA AcrossHoriz ==
  ASSUME NEW a \in AddressSet, NEW t \in AddressSet, NEW k \in {0, 1},
         Across(a, t, k)
  PROVE  Across(IncrHoriz(a), t, k + 1)
<1>1. t.x \in 0 .. 31 /\ t.ntx \in {0, 1} /\ a.x \in 0 .. 31 /\ a.ntx \in {0, 1}
  BY AddressFields
<1>2. /\ IncrHoriz(a).nty = a.nty
      /\ IncrHoriz(a).x = (a.x + 1) % 32
      /\ IncrHoriz(a).ntx = IF a.x = 31 THEN 1 - a.ntx ELSE a.ntx
  BY HorizMoves
<1>3. (t.x + k) % 32 = 31 <=> t.x + k = 31
  BY <1>1
<1>4. (((t.x + k) % 32) + 1) % 32 = (t.x + (k + 1)) % 32
  BY <1>1
<1> QED
  BY <1>1, <1>2, <1>3, <1>4 DEF Across

-----------------------------------------------------------------------------
(* The invariant of the scroll, seen from a dot: seen is the first dot of   *)
(* line 0 whose copy of reg_t may be still to come.                         *)

EndStates == {"END_NT1", "END_NT2"}

\* The row: a line is fetched from one row, and its tiles end with the next.
Row(state, line, v, t) ==
  /\ state \in TileStates \cup {"FETCH_SCANLINE_START"}
       => PictureLine(v) = Below(PictureLine(t), line - 1)
  /\ state \in SpriteStates \cup TailStates \cup EndStates
       => PictureLine(v) = Below(PictureLine(t), line)

\* The column, from the end of the tiles of line 1 on: reg_t's, and two tiles
\* further when the tail is fetched.
Column(state, line, dot, v, t) ==
  /\ state \in SpriteStates => Across(v, t, 0)
  /\ state \in TailStates => Across(v, t, IF dot <= LastSpriteDot + 8 THEN 0 ELSE 1)
  /\ state \in EndStates => Across(v, t, 2)
  /\ state = "FETCH_SCANLINE_START" /\ line >= 2 => Across(v, t, 2)

Copied(v, t, seen) ==
  \A c \in CopyDots : c < seen => v.fine = t.fine /\ v.y = t.y

Steered(p, seen) ==
  p.steady = 1 =>
    /\ p.rendering = 1 /\ p.state # "RENDER_DISABLED_SCANLINE"
    /\ p.line = 0 => Copied(p.v, p.t, seen)
    /\ p.line >= 1 => /\ Row(p.state, p.line, p.v, p.t)
                      /\ Column(p.state, p.line, p.dot, p.v, p.t)

\* Nobody is interrupted before dot 4 of vblank, and once after it.
Counted(p) ==
  /\ p.nmis <= 1
  /\ p.line < VblankLine /\ ~(p.line = 0 /\ p.state = "FETCH_SCANLINE_START")
       => p.nmis = 0
  /\ p.line = VblankLine /\ p.dot <= 4 => p.nmis = 0

Placed(p) == p \in Units /\ InStep(p.state, p.line, p.dot)
Sound(p) == Placed(p) /\ Counted(p) /\ Steered(p, p.dot)

(* The copy of reg_t at a dot of line 0 makes up for that dot.              *)
LEMMA CopySteers ==
  ASSUME NEW p, Sound(p)
  PROVE  LET q == CopyVertical(p)
         IN  /\ Placed(q) /\ Counted(q) /\ Steered(q, q.dot + 1)
             /\ q.state = p.state /\ q.line = p.line /\ q.dot = p.dot
             /\ q.nmi = p.nmi /\ q.nmis = p.nmis
<1> DEFINE q == CopyVertical(p)
<1>1. p \in Units
  BY DEF Sound, Placed
<1>2. /\ q \in Units /\ q.t = p.t /\ q.rendering = p.rendering
      /\ q.steady = p.steady /\ q.nmi = p.nmi /\ q.nmis = p.nmis
      /\ q.state = p.state /\ q.line = p.line /\ q.dot = p.dot
      /\ q.v = IF p.rendering = 1 /\ p.line = 0 /\ p.dot \in CopyDots
               THEN [p.v EXCEPT !.fine = p.t.fine, !.y = p.t.y] ELSE p.v
  BY <1>1, CopyFields DEF Still
<1> HIDE DEF q
<1>3. Placed(q) /\ Counted(q)
  BY <1>2 DEF Sound, Placed, Counted
<1>4. p.v \in AddressSet /\ p.t \in AddressSet /\ p.dot \in Nat /\ p.line \in Nat
  BY <1>1 DEF Units
<1>5. ASSUME p.steady = 1, p.line = 0 PROVE Copied(q.v, q.t, q.dot + 1)
  <2>0. p.rendering = 1 /\ Copied(p.v, p.t, p.dot)
    BY <1>5 DEF Sound, Steered
  <2>1. CASE p.dot \in CopyDots
    <3>1. q.v.fine = q.t.fine /\ q.v.y = q.t.y
      <4>1. q.v = [p.v EXCEPT !.fine = p.t.fine, !.y = p.t.y]
        BY <1>2, <1>5, <2>0, <2>1
      <4>2. LET b == [p.v EXCEPT !.fine = p.t.fine, !.y = p.t.y]
            IN  b.fine = p.t.fine /\ b.y = p.t.y
        BY <1>4, CopyMoves
      <4>3. q.t = p.t
        BY <1>2
      <4> QED
        BY <4>1, <4>2, <4>3, Zenon
    <3> QED
      BY <3>1 DEF Copied
  <2>2. CASE p.dot \notin CopyDots
    <3>1. q.v = p.v
      BY <1>2, <2>2
    <3>2. \A c \in CopyDots : c \in Int /\ c # p.dot
      BY <2>2, Geometry, PpuAssumption DEF PpuAssumption
    <3> QED
      BY <1>2, <1>4, <2>0, <3>1, <3>2 DEF Copied
  <2> QED
    BY <2>1, <2>2
<1>6. ASSUME p.line >= 1 PROVE q.v = p.v
  BY <1>2, <1>4, <1>6
<1>7. Steered(p, p.dot)
  BY DEF Sound
<1>8. Steered(q, q.dot + 1)
  BY <1>2, <1>5, <1>6, <1>7 DEF Steered
<1> QED
  BY <1>2, <1>3, <1>8 DEF q

(* A dot of the state machine, after the copy, keeps the unit sound: state  *)
(* by state.                                                                *)
Ready(p) == Placed(p) /\ Counted(p) /\ Steered(p, p.dot + 1)

LEMMA ReadyTypes ==
  ASSUME NEW p, Ready(p)
  PROVE  /\ p \in Units /\ InStep(p.state, p.line, p.dot)
         /\ p.line \in Nat /\ p.dot \in Nat /\ p.state \in States
         /\ p.v \in AddressSet /\ p.t \in AddressSet
         /\ p.rendering \in {0, 1} /\ p.steady \in {0, 1}
         /\ p.nmi \in {0, 1} /\ p.nmis \in Nat
BY DEF Ready, Placed, Units

(* While a line is fetched nobody has been interrupted.                     *)
LEMMA FetchCounted ==
  ASSUME NEW p, Ready(p), NEW q, q.nmis = p.nmis,
         p.state \notin {"FETCH_SCANLINE_START", "POSTRENDER_SCANLINE"}
  PROVE  Counted(q)
<1>1. p.line \in 0 .. VisibleLines
  BY ReadyTypes DEF InStep
<1>2. p.nmis = 0
  BY <1>1, Geometry DEF Ready, Counted
<1> QED
  BY <1>2 DEF Counted

LEMMA FollowSound ==
  ASSUME NEW p, Ready(p), p.state \in DOMAIN Follows
  PROVE  Sound(StateStep(p))
<1> DEFINE q == StateStep(p)
<1>1. /\ q \in Units /\ q.t = p.t /\ q.rendering = p.rendering
      /\ q.steady = p.steady /\ q.nmis = p.nmis
      /\ q.v = p.v /\ q.line = p.line /\ q.dot = p.dot + 1
      /\ q.state = IF p.dot % 2 = 0 THEN Follows[p.state] ELSE p.state
  BY ReadyTypes, FollowFields DEF Still
<1> HIDE DEF q
<1>2. Placed(q)
  <2>1. InStep(IF p.dot % 2 = 0 THEN Follows[p.state] ELSE p.state, p.line, p.dot + 1)
    BY ReadyTypes, FollowInStep
  <2> QED
    BY <1>1, <2>1, Zenon DEF Placed
<1>3. Counted(q)
  BY <1>1, FollowsStates, FetchCounted
<1>4. /\ q.state # "RENDER_DISABLED_SCANLINE"
      /\ q.state # "FETCH_SCANLINE_START"
      /\ p.state \in TileStates <=> q.state \in TileStates
      /\ p.state \in SpriteStates <=> q.state \in SpriteStates
      /\ p.state \in TailStates <=> q.state \in TailStates
      /\ p.state \in EndStates <=> q.state \in EndStates
  BY <1>1, FollowsStates DEF Follows, TileStates, SpriteStates, TailStates, EndStates
<1>5. p.state \in TailStates =>
        (p.dot <= LastSpriteDot + 8 <=> p.dot + 1 <= LastSpriteDot + 8)
  <2>1. p.state \in TailStates => p.dot % 8 # 0
    BY ReadyTypes, FollowsStates DEF InStep, TailStates
  <2> QED
    BY <2>1, ReadyTypes, Geometry
<1>6. Steered(q, q.dot)
  BY <1>1, <1>4, <1>5 DEF Ready, Steered, Row, Column
<1> QED
  BY <1>2, <1>3, <1>6 DEF Sound, q

LEMMA WaitSound ==
  ASSUME NEW p, Ready(p), p.dot % 2 # 0,
         p.state \in {"FETCH_BG2", "FETCH_SPRITE_HIGH", "FETCH_TAIL_BG2", "END_NT2"}
  PROVE  Sound(StateStep(p))
<1> DEFINE q == StateStep(p)
<1>1. /\ q \in Units /\ q.t = p.t /\ q.rendering = p.rendering
      /\ q.steady = p.steady /\ q.nmis = p.nmis
      /\ q.v = p.v /\ q.line = p.line /\ q.dot = p.dot + 1
      /\ q.state = p.state
  BY ReadyTypes, WaitFields DEF Still
<1> HIDE DEF q
<1>2. Placed(q)
  BY <1>1, ReadyTypes, WaitInStep DEF Placed
<1>3. Counted(q)
  BY <1>1, FetchCounted
<1>4. p.dot <= LastSpriteDot + 8 <=> p.dot + 1 <= LastSpriteDot + 8
  BY ReadyTypes, Geometry
<1>5. Steered(q, q.dot)
  BY <1>1, <1>4 DEF Ready, Steered, Row, Column
<1> QED
  BY <1>2, <1>3, <1>5 DEF Sound, q

LEMMA TileSound ==
  ASSUME NEW p, Ready(p), p.dot % 2 = 0, p.state = "FETCH_BG2"
  PROVE  Sound(StateStep(p))
<1> DEFINE q == StateStep(p)
<1>1. /\ q \in Units /\ q.t = p.t /\ q.rendering = p.rendering
      /\ q.steady = p.steady /\ q.nmis = p.nmis
      /\ q.line = p.line /\ q.dot = p.dot + 1
      /\ q.v = IF p.dot # LastTileDot THEN IncrHoriz(p.v)
               ELSE IF p.line = 0 THEN p.v ELSE IncrVert(p.v, p.t)
      /\ q.state = IF p.dot # LastTileDot THEN "FETCH_NT" ELSE "FETCH_BAD_NT"
  BY ReadyTypes, TileFields DEF Still
<1> HIDE DEF q
<1>2. Placed(q)
  BY <1>1, ReadyTypes, BranchInStep DEF Placed
<1>3. Counted(q)
  BY <1>1, FetchCounted
<1>4. p.line \in 0 .. 240 /\ p.dot <= LastTileDot
  BY ReadyTypes, Geometry DEF InStep, TileStates
<1>5. ASSUME p.line = 0 PROVE Copied(q.v, q.t, q.dot)
  BY <1>1, <1>4, <1>5, ReadyTypes, Geometry, PpuAssumption DEF Copied, PpuAssumption
<1>6. ASSUME p.steady = 1, p.line >= 1
      PROVE  Row(q.state, q.line, q.v, q.t) /\ Column(q.state, q.line, q.dot, q.v, q.t)
  <2>1. PictureLine(p.v) = Below(PictureLine(p.t), p.line - 1)
    BY <1>6 DEF Ready, Steered, Row, TileStates
  <2>2. CASE p.dot # LastTileDot
    <3>1. q.v = IncrHoriz(p.v) /\ q.state = "FETCH_NT"
      BY <1>1, <2>2
    <3>2. PictureLine(q.v) = Below(PictureLine(p.t), p.line - 1)
      BY <2>1, <3>1, ReadyTypes, PictureLineHoriz
    <3> QED
      BY <1>1, <3>1, <3>2
      DEF Row, Column, TileStates, SpriteStates, TailStates, EndStates
  <2>3. CASE p.dot = LastTileDot
    <3>1. q.v = IncrVert(p.v, p.t) /\ q.state = "FETCH_BAD_NT"
      BY <1>1, <1>6, <2>3
    <3>2. p.line - 1 \in 0 .. 239 /\ (p.line - 1) + 1 = p.line
      BY <1>4, <1>6
    <3>3. PictureLine(q.v) = Below(PictureLine(p.t), p.line)
      BY <2>1, <3>1, <3>2, ReadyTypes, BelowVert
    <3>4. Across(q.v, p.t, 0)
      BY <3>1, ReadyTypes, AcrossVert
    <3> QED
      BY <1>1, <3>1, <3>3, <3>4
      DEF Row, Column, TileStates, SpriteStates, TailStates, EndStates
  <2> QED
    BY <2>2, <2>3
<1>7. Steered(q, q.dot)
  BY <1>1, <1>5, <1>6 DEF Ready, Steered
<1> QED
  BY <1>2, <1>3, <1>7 DEF Sound, q

LEMMA SpriteSound ==
  ASSUME NEW p, Ready(p), p.dot % 2 = 0, p.state = "FETCH_SPRITE_HIGH"
  PROVE  Sound(StateStep(p))
<1> DEFINE q == StateStep(p)
<1>1. /\ q \in Units /\ q.t = p.t /\ q.rendering = p.rendering
      /\ q.steady = p.steady /\ q.nmis = p.nmis
      /\ q.v = p.v /\ q.line = p.line /\ q.dot = p.dot + 1
      /\ q.state = IF p.dot = LastSpriteDot THEN "FETCH_TAIL_NT" ELSE "FETCH_BAD_NT"
  BY ReadyTypes, SpriteFields DEF Still
<1> HIDE DEF q
<1>2. Placed(q)
  BY <1>1, ReadyTypes, BranchInStep DEF Placed
<1>3. Counted(q)
  BY <1>1, FetchCounted
<1>4. p.dot = LastSpriteDot => p.dot + 1 <= LastSpriteDot + 8
  BY Geometry
<1>5. Steered(q, q.dot)
  BY <1>1, <1>4
  DEF Ready, Steered, Row, Column, TileStates, SpriteStates, TailStates, EndStates
<1> QED
  BY <1>2, <1>3, <1>5 DEF Sound, q

LEMMA TailSound ==
  ASSUME NEW p, Ready(p), p.dot % 2 = 0, p.state = "FETCH_TAIL_BG2"
  PROVE  Sound(StateStep(p))
<1> DEFINE q == StateStep(p)
<1>1. /\ q \in Units /\ q.t = p.t /\ q.rendering = p.rendering
      /\ q.steady = p.steady /\ q.nmis = p.nmis
      /\ q.v = IncrHoriz(p.v) /\ q.line = p.line /\ q.dot = p.dot + 1
      /\ q.state = IF p.dot = LastTailDot THEN "END_NT1" ELSE "FETCH_TAIL_NT"
  BY ReadyTypes, TailFields DEF Still
<1> HIDE DEF q
<1>2. Placed(q)
  BY <1>1, ReadyTypes, BranchInStep DEF Placed
<1>3. Counted(q)
  BY <1>1, FetchCounted
<1>4. \/ p.dot = LastSpriteDot + 8 /\ p.dot # LastTailDot
      \/ p.dot = LastTailDot /\ ~(p.dot <= LastSpriteDot + 8)
  <2>1. /\ p.dot \in LastSpriteDot + 1 .. LastTailDot
        /\ p.dot % 8 \in {7, 0}
    BY ReadyTypes DEF InStep, TailStates
  <2> QED
    BY <2>1, ReadyTypes, Geometry
<1>5. ASSUME p.line = 0, p.steady = 1 PROVE Copied(q.v, q.t, q.dot)
  <2>1. Copied(p.v, p.t, p.dot + 1)
    BY <1>5 DEF Ready, Steered
  <2> QED
    BY <1>1, <2>1, ReadyTypes, HorizMoves DEF Copied
<1>6. ASSUME p.steady = 1, p.line >= 1
      PROVE  Row(q.state, q.line, q.v, q.t) /\ Column(q.state, q.line, q.dot, q.v, q.t)
  <2>1. /\ PictureLine(p.v) = Below(PictureLine(p.t), p.line)
        /\ Across(p.v, p.t, IF p.dot <= LastSpriteDot + 8 THEN 0 ELSE 1)
    BY <1>6 DEF Ready, Steered, Row, Column, TailStates
  <2>2. PictureLine(q.v) = Below(PictureLine(p.t), p.line)
    BY <1>1, <2>1, ReadyTypes, PictureLineHoriz
  <2>3. CASE p.dot = LastSpriteDot + 8 /\ p.dot # LastTailDot
    <3>1. Across(q.v, p.t, 1)
      <4>1. Across(p.v, p.t, 0)
        BY <2>1, <2>3, Geometry
      <4>2. Across(q.v, p.t, 0 + 1)
        BY <1>1, <4>1, ReadyTypes, AcrossHoriz
      <4> QED
        BY <4>2
    <3>2. ~(q.dot <= LastSpriteDot + 8)
      BY <1>1, <2>3, Geometry
    <3> QED
      BY <1>1, <2>2, <2>3, <3>1, <3>2
      DEF Row, Column, TileStates, SpriteStates, TailStates, EndStates
  <2>4. CASE p.dot = LastTailDot /\ ~(p.dot <= LastSpriteDot + 8)
    <3>1. Across(q.v, p.t, 2)
      <4>1. Across(p.v, p.t, 1)
        BY <2>1, <2>4
      <4>2. Across(q.v, p.t, 1 + 1)
        BY <1>1, <4>1, ReadyTypes, AcrossHoriz
      <4> QED
        BY <4>2
    <3> QED
      BY <1>1, <2>2, <2>4, <3>1
      DEF Row, Column, TileStates, SpriteStates, TailStates, EndStates
  <2> QED
    BY <1>4, <2>3, <2>4
<1>7. q.state # "RENDER_DISABLED_SCANLINE"
  BY <1>1
<1>8. Steered(q, q.dot)
  BY <1>1, <1>5, <1>6, <1>7 DEF Ready, Steered
<1> QED
  BY <1>2, <1>3, <1>8 DEF Sound, q

LEMMA NewLineSound ==
  ASSUME NEW p, Ready(p), StateStep(p) = NewLine(p),
         \/ p.state = "END_NT2" /\ p.dot = LineDots - 1
         \/ p.state = "RENDER_DISABLED_SCANLINE"
  PROVE  Sound(StateStep(p))
<1> DEFINE q == StateStep(p)
<1>1. /\ q \in Units /\ q.t = p.t /\ q.rendering = p.rendering
      /\ q.steady = p.steady /\ q.nmis = p.nmis
      /\ q.v = p.v /\ q.line = p.line + 1 /\ q.dot = 0
      /\ q.state = IF p.line = VisibleLines THEN "POSTRENDER_SCANLINE"
                                            ELSE "FETCH_SCANLINE_START"
  BY ReadyTypes, NewLineFields DEF Still
<1> HIDE DEF q
<1>2. p.line \in 0 .. VisibleLines
  BY ReadyTypes DEF InStep
<1>3. Placed(q)
  BY <1>1, <1>2, ReadyTypes, LineInStep DEF Placed
<1>4. Counted(q)
  BY <1>1, FetchCounted
<1>5. q.line # 0
  BY <1>1, <1>2
<1>6. ASSUME p.steady = 1
      PROVE  Row(q.state, q.line, q.v, q.t) /\ Column(q.state, q.line, q.dot, q.v, q.t)
  <2>0. p.state = "END_NT2" /\ p.dot = LineDots - 1
    BY <1>6 DEF Ready, Steered
  <2>1. PictureLine(q.v) = Below(PictureLine(q.t), q.line - 1)
    <3>1. CASE p.line = 0
      <4>1. PICK c \in CopyDots : TRUE
        BY PpuAssumption DEF PpuAssumption
      <4>2. c < p.dot + 1
        BY <2>0, <4>1, Geometry, PpuAssumption DEF PpuAssumption
      <4>3. p.v.fine = p.t.fine /\ p.v.y = p.t.y
        BY <1>6, <3>1, <4>1, <4>2 DEF Ready, Steered, Copied
      <4>4. PictureLine(p.v) = PictureLine(p.t)
        BY <4>3, Zenon DEF PictureLine
      <4>5. Below(PictureLine(p.t), 0) = PictureLine(p.t)
        BY ReadyTypes, PictureLineType, BelowZero
      <4>6. q.line - 1 = 0
        BY <1>1, <3>1
      <4> QED
        BY <1>1, <4>4, <4>5, <4>6, Zenon
    <3>2. CASE p.line >= 1
      <4>1. PictureLine(p.v) = Below(PictureLine(p.t), p.line)
        BY <1>6, <2>0, <3>2 DEF Ready, Steered, Row, EndStates
      <4>2. q.line - 1 = p.line
        BY <1>1, <1>2
      <4> QED
        BY <1>1, <4>1, <4>2, Zenon
    <3> QED
      BY <1>2, <3>1, <3>2
  <2>2. q.line >= 2 => Across(q.v, q.t, 2)
    <3> SUFFICES ASSUME q.line >= 2 PROVE Across(q.v, q.t, 2)
      OBVIOUS
    <3>1. p.line >= 1
      BY <1>1, <1>2
    <3>2. Across(p.v, p.t, 2)
      BY <1>6, <2>0, <3>1 DEF Ready, Steered, Column, EndStates
    <3> QED
      BY <1>1, <3>2, Zenon
  <2> QED
    BY <1>1, <2>1, <2>2
    DEF Row, Column, TileStates, SpriteStates, TailStates, EndStates
<1>7. Steered(q, q.dot)
  BY <1>1, <1>5, <1>6 DEF Ready, Steered
<1> QED
  BY <1>3, <1>4, <1>7 DEF Sound, q

LEMMA BlankSound ==
  ASSUME NEW p, Ready(p), p.state = "RENDER_DISABLED_SCANLINE"
  PROVE  Sound(StateStep(p))
<1>1. StateStep(p) = IF p.dot = LineDots - 1 THEN NewLine(p) ELSE Tick(p)
  BY FollowsStates DEF StateStep
<1>2. CASE p.dot = LineDots - 1
  BY <1>1, <1>2, NewLineSound
<1>3. CASE p.dot # LineDots - 1
  <2> DEFINE q == Tick(p)
  <2>1. /\ q \in Units /\ q.t = p.t /\ q.rendering = p.rendering
        /\ q.steady = p.steady /\ q.nmis = p.nmis
        /\ q.v = p.v /\ q.line = p.line /\ q.dot = p.dot + 1
        /\ q.state = p.state
    BY ReadyTypes, TickFields DEF Still
  <2> HIDE DEF q
  <2>2. Placed(q)
    BY <1>3, <2>1, ReadyTypes, LineInStep DEF Placed
  <2>3. Counted(q)
    BY <2>1, FetchCounted
  <2>4. Steered(q, q.dot)
    BY <2>1 DEF Ready, Steered
  <2> QED
    BY <1>1, <1>3, <2>2, <2>3, <2>4 DEF Sound, q
<1> QED
  BY <1>2, <1>3

LEMMA StartSound ==
  ASSUME NEW p, Ready(p), p.state = "FETCH_SCANLINE_START"
  PROVE  Sound(StateStep(p))
<1> DEFINE q == StateStep(p)
<1>1. /\ q \in Units /\ q.v = p.v /\ q.t = p.t /\ q.rendering = p.rendering
      /\ q.line = p.line
      /\ q.dot = IF p.line = 1 /\ p.rendering = 1 /\ p.odd = 1
                 THEN p.dot + 2 ELSE p.dot + 1
      /\ q.state = IF p.rendering = 1 THEN "FETCH_NT" ELSE "RENDER_DISABLED_SCANLINE"
      /\ q.nmis = IF p.line = 0 THEN 0 ELSE p.nmis
      /\ q.steady = IF p.rendering = 0 THEN 0 ELSE IF p.line = 0 THEN 1 ELSE p.steady
  BY ReadyTypes, StartFields
<1> HIDE DEF q
<1>2. p.line \in 0 .. VisibleLines /\ p.dot = 0
  BY ReadyTypes DEF InStep
<1>3. Placed(q)
  BY <1>1, ReadyTypes, LineInStep DEF Placed
<1>4. Counted(q)
  <2>1. q.nmis = 0
    BY <1>1, <1>2, Geometry DEF Ready, Counted
  <2> QED
    BY <2>1 DEF Counted
<1>5. ASSUME p.line = 0 PROVE Copied(q.v, q.t, q.dot)
  BY <1>1, <1>2, <1>5, Geometry, PpuAssumption DEF Copied, PpuAssumption
<1>6. ASSUME p.steady = 1, p.rendering = 1, p.line >= 1
      PROVE  Row(q.state, q.line, q.v, q.t) /\ Column(q.state, q.line, q.dot, q.v, q.t)
  <2>1. Row(p.state, p.line, p.v, p.t)
    BY <1>6 DEF Ready, Steered
  <2> QED
    BY <1>1, <1>6, <2>1
    DEF Row, Column, TileStates, SpriteStates, TailStates, EndStates
<1>7. Steered(q, q.dot)
  <2> SUFFICES ASSUME q.steady = 1 PROVE Steered(q, q.dot)
    BY DEF Steered
  <2>1. p.rendering = 1 /\ q.state = "FETCH_NT"
    BY <1>1, ReadyTypes
  <2>2. CASE p.line = 0
    BY <1>1, <1>5, <2>1, <2>2 DEF Steered
  <2>3. CASE p.line >= 1
    <3>1. p.steady = 1
      BY <1>1, <2>1, <2>3
    <3> QED
      BY <1>1, <1>6, <2>1, <2>3, <3>1 DEF Steered
  <2> QED
    BY <1>2, <2>2, <2>3
<1> QED
  BY <1>3, <1>4, <1>7 DEF Sound, q

LEMMA PostrenderSound ==
  ASSUME NEW p, Ready(p), p.state = "POSTRENDER_SCANLINE"
  PROVE  Sound(StateStep(p))
<1> DEFINE q == StateStep(p)
           ends == p.dot = LineDots - 1
           last == p.line = TotalLines - 1
<1>1. /\ q \in Units /\ q.v = p.v /\ q.t = p.t
      /\ q.rendering = p.rendering /\ q.steady = p.steady
      /\ q.nmis = IF Raises(p) THEN p.nmis + 1 ELSE p.nmis
      /\ q.dot = IF ends THEN 0 ELSE p.dot + 1
      /\ q.line = IF ~ends THEN p.line ELSE IF last THEN 0 ELSE p.line + 1
      /\ q.state = IF ends /\ last THEN "FETCH_SCANLINE_START" ELSE p.state
  BY ReadyTypes, PostrenderFields
<1> HIDE DEF q
<1>2. p.line \in VblankLine .. TotalLines - 1 /\ p.dot \in 0 .. LineDots - 1
  BY ReadyTypes DEF InStep
<1>3. Placed(q)
  <2>1. IF p.dot # LineDots - 1 THEN InStep("POSTRENDER_SCANLINE", p.line, p.dot + 1)
        ELSE IF p.line # TotalLines - 1 THEN InStep("POSTRENDER_SCANLINE", p.line + 1, 0)
        ELSE InStep("FETCH_SCANLINE_START", 0, 0)
    BY ReadyTypes, LineInStep
  <2> QED
    BY <1>1, <2>1 DEF Placed
<1>4. Counted(q)
  <2>1. p.nmis <= 1 /\ (p.line = VblankLine /\ p.dot <= 4 => p.nmis = 0)
    BY DEF Ready, Counted
  <2>2. p.nmis \in Nat
    BY ReadyTypes
  <2> QED
    BY <1>1, <1>2, <2>1, <2>2, Geometry DEF Counted, Raises
<1>5. Steered(q, q.dot)
  <2> SUFFICES ASSUME p.steady = 1 PROVE Steered(q, q.dot)
    BY <1>1 DEF Steered
  <2>1. p.rendering = 1
    BY DEF Ready, Steered
  <2>2. q.line = 0 => Copied(q.v, q.t, q.dot)
    BY <1>1, <1>2, Geometry, PpuAssumption DEF Copied, PpuAssumption
  <2>3. q.line >= 1 => q.state = "POSTRENDER_SCANLINE"
    BY <1>1, <1>2, Geometry
  <2>4. q.line >= 1 =>
          Row(q.state, q.line, q.v, q.t) /\ Column(q.state, q.line, q.dot, q.v, q.t)
    BY <2>3 DEF Row, Column, TileStates, SpriteStates, TailStates, EndStates
  <2>5. q.state # "RENDER_DISABLED_SCANLINE" /\ q.rendering = 1
    BY <1>1, <2>1
  <2> QED
    BY <2>2, <2>4, <2>5 DEF Steered
<1> QED
  BY <1>3, <1>4, <1>5 DEF Sound, q

(* Every dot keeps the unit sound.                                          *)
LEMMA StepSound == \A p : Sound(p) => Sound(PpuStep(p))
<1> SUFFICES ASSUME NEW p0, Sound(p0) PROVE Sound(PpuStep(p0))
  OBVIOUS
<1> DEFINE p == CopyVertical(p0)
<1>1. Ready(p)
  BY CopySteers DEF Ready
<1>2. PpuStep(p0) = StateStep(p)
  BY DEF PpuStep
<1> HIDE DEF p
<1>3. CASE p.state \in DOMAIN Follows
  BY <1>1, <1>2, <1>3, FollowSound, Zenon
<1>4. CASE p.state \in {"FETCH_BG2", "FETCH_SPRITE_HIGH", "FETCH_TAIL_BG2"}
  BY <1>1, <1>2, <1>4, WaitSound, TileSound, SpriteSound, TailSound
<1>5. CASE p.state = "END_NT2"
  <2>1. CASE p.dot % 2 # 0
    BY <1>1, <1>2, <1>5, <2>1, WaitSound
  <2>2. CASE p.dot % 2 = 0
    <3>1. p.dot = LineDots - 1
      BY <1>1, <1>5, <2>2, ReadyTypes, BranchInStep
    <3>2. StateStep(p) = NewLine(p)
      BY <1>5, <2>2, FollowsStates DEF StateStep
    <3> QED
      BY <1>1, <1>2, <1>5, <3>1, <3>2, NewLineSound
  <2> QED
    BY <2>1, <2>2
<1>6. CASE p.state = "RENDER_DISABLED_SCANLINE"
  BY <1>1, <1>2, <1>6, BlankSound
<1>7. CASE p.state = "FETCH_SCANLINE_START"
  BY <1>1, <1>2, <1>7, StartSound
<1>8. CASE p.state = "POSTRENDER_SCANLINE"
  BY <1>1, <1>2, <1>8, PostrenderSound
<1> QED
  <2>1. p.state \in States
    BY <1>1, ReadyTypes
  <2> QED
    BY <1>3, <1>4, <1>5, <1>6, <1>7, <1>8, <2>1, FollowsStates
    DEF States, TileStates, SpriteStates, TailStates

LEMMA DotsSound == \A n \in Nat : \A p : Sound(p) => Sound(Dots(p, n))
<1> DEFINE S == {n \in Nat : \A p : Sound(p) => Sound(Dots(p, n))}
<1>1. 0 \in S
  BY DotsZero
<1>2. ASSUME NEW n \in S PROVE n + 1 \in S
  <2>1. n \in Nat /\ n + 1 \in Nat
    OBVIOUS
  <2>2. \A p : Sound(p) => Sound(Dots(p, n))
    OBVIOUS
  <2>3. \A p : Sound(p) => Sound(Dots(p, n + 1))
    BY <2>1, <2>2, DotsNext, StepSound, Zenon
  <2> QED
    BY <2>1, <2>3
<1>3. S \in SUBSET Nat
  OBVIOUS
<1> HIDE DEF S
<1>4. \A n \in Nat : n \in S
  BY <1>1, <1>2, <1>3, SetInduction, Zenon
<1> QED
  BY <1>4, Zenon DEF S

-----------------------------------------------------------------------------
(* The registers (2c02.cc:448-560): none moves the beam or the interrupt,   *)
(* and each but the status register's reading leaves steady at 0.           *)

LEMMA FieldsType == \A n \in Nat : Fields(n) \in AddressSet
<1> TAKE n \in Nat
<1>1. /\ (n \div 4096) % 16 \in 0 .. 15 /\ (n \div 2048) % 2 \in {0, 1}
      /\ (n \div 1024) % 2 \in {0, 1} /\ (n \div 32) % 32 \in 0 .. 31
      /\ n % 32 \in 0 .. 31
  OBVIOUS
<1> QED
  BY <1>1 DEF Fields, Address, AddressSet

LEMMA LinearType == \A a \in AddressSet : Linear(a) \in Nat
<1> TAKE a \in AddressSet
<1>1. /\ a.fine \in 0 .. 15 /\ a.nty \in {0, 1} /\ a.ntx \in {0, 1}
      /\ a.y \in 0 .. 31 /\ a.x \in 0 .. 31
  BY AddressFields
<1>2. \A m, n \in Nat : m + 2 * n \in Nat /\ m + 32 * n \in Nat
  OBVIOUS
<1>3. a.fine \in Nat /\ a.nty \in Nat /\ a.ntx \in Nat /\ a.y \in Nat /\ a.x \in Nat
  BY <1>1
<1>4. a.ntx + 2 * (a.nty + 2 * a.fine) \in Nat
  BY <1>2, <1>3, Zenon
<1> QED
  BY <1>2, <1>3, <1>4, Zenon DEF Linear

\* The beam and the interrupt are where they were.
Kept(p, q) ==
  /\ q.line = p.line /\ q.dot = p.dot /\ q.state = p.state
  /\ q.nmi = p.nmi /\ q.nmis = p.nmis

LEMMA KeptSound ==
  ASSUME NEW p, Sound(p), NEW q \in Units,
         q.line = p.line, q.dot = p.dot, q.state = p.state, q.nmis = p.nmis,
         \/ q.steady = 0
         \/ /\ q.v = p.v /\ q.t = p.t
            /\ q.rendering = p.rendering /\ q.steady = p.steady
  PROVE  Sound(q)
<1>1. Placed(q)
  BY DEF Sound, Placed
<1>2. Counted(q)
  BY DEF Sound, Counted
<1>3. Steered(q, q.dot)
  BY DEF Sound, Steered
<1> QED
  BY <1>1, <1>2, <1>3 DEF Sound

LEMMA StatusKept ==
  ASSUME NEW p \in Units
  PROVE  LET q == ReadStatus(p)
         IN  /\ q \in Units /\ Kept(p, q) /\ q.v = p.v /\ q.t = p.t
             /\ q.rendering = p.rendering /\ q.steady = p.steady
<1>1. [p EXCEPT !.vblank = 0] \in Units
  BY SetFlags
<1>2. ReadStatus(p) \in Units
  BY <1>1, SetMoreFlags DEF ReadStatus
<1> QED
  BY <1>2 DEF ReadStatus, Units, Kept

LEMMA MoveOnKept ==
  ASSUME NEW p \in Units
  PROVE  LET q == MoveOn(p) IN q \in Units /\ Kept(p, q) /\ q.steady = 0
<1> DEFINE a == Fields(Linear(p.v) + p.increment)
<1>1. MoveOn(p) = [p EXCEPT !.v = a, !.steady = 0]
  BY DEF MoveOn, Units
<1>2. p.v \in AddressSet /\ p.increment \in Nat
  BY DEF Units
<1>3. Linear(p.v) + p.increment \in Nat
  BY <1>2, LinearType
<1>4. a \in AddressSet
  BY <1>3, FieldsType
<1> HIDE DEF a
<1>5. [p EXCEPT !.v = a] \in Units
  BY <1>4, SetV
<1>6. MoveOn(p) \in Units
  BY <1>1, <1>5, SetMoreFlags
<1> QED
  BY <1>1, <1>6 DEF Units, Kept

LEMMA ControlKept ==
  ASSUME NEW p \in Units, NEW enable \in {0, 1}
  PROVE  LET q == WriteControl(p, enable, 1, 0, 0)
         IN  q \in Units /\ Kept(p, q) /\ q.steady = 0
<1> DEFINE q == WriteControl(p, enable, 1, 0, 0)
           t == [p.t EXCEPT !.nty = 0, !.ntx = 0]
<1>1. q = [p EXCEPT !.enable = enable, !.increment = 1, !.steady = 0, !.t = t]
  BY DEF WriteControl, Units
<1>2. t \in AddressSet
  <2>1. p.t \in AddressSet
    BY DEF Units
  <2>2. [p.t EXCEPT !.nty = 0] \in AddressSet
    BY <2>1, SetAddress
  <2> QED
    BY <2>2, SetAddress
<1> HIDE DEF t, q
<1>3. [p EXCEPT !.enable = enable] \in Units
  BY SetFlags
<1>4. [p EXCEPT !.enable = enable, !.increment = 1] \in Units
  BY <1>3, SetCounts
<1>5. [p EXCEPT !.enable = enable, !.increment = 1, !.steady = 0] \in Units
  BY <1>4, SetMoreFlags
<1>6. q \in Units
  BY <1>1, <1>2, <1>5, SetT
<1>7. Kept(p, q) /\ q.steady = 0
  BY <1>1, <1>6 DEF Units, Kept
<1> QED
  BY <1>6, <1>7 DEF q

LEMMA MaskKept ==
  ASSUME NEW p \in Units, NEW on \in {0, 1}
  PROVE  LET q == WriteMask(p, on) IN q \in Units /\ Kept(p, q) /\ q.steady = 0
<1>1. [p EXCEPT !.rendering = on] \in Units
  BY SetFlags
<1>2. WriteMask(p, on) \in Units
  BY <1>1, SetMoreFlags DEF WriteMask
<1> QED
  BY <1>2 DEF WriteMask, Units, Kept

LEMMA ScrollKept ==
  ASSUME NEW p \in Units, NEW coarse \in 0 .. 31, NEW fine \in 0 .. 7
  PROVE  LET q == WriteScroll(p, coarse, fine)
         IN  q \in Units /\ Kept(p, q) /\ q.steady = 0
<1> DEFINE q == WriteScroll(p, coarse, fine)
           t == IF p.latch = 0 THEN [p.t EXCEPT !.x = coarse]
                ELSE [p.t EXCEPT !.y = coarse, !.fine = fine]
<1>1. q = [p EXCEPT !.latch = 1 - p.latch, !.steady = 0, !.t = t]
  BY DEF WriteScroll, Units
<1>2. t \in AddressSet
  <2>1. p.t \in AddressSet /\ fine \in 0 .. 15
    BY DEF Units
  <2>2. [p.t EXCEPT !.y = coarse] \in AddressSet
    BY <2>1, SetAddress
  <2>3. [p.t EXCEPT !.y = coarse, !.fine = fine] \in AddressSet
    BY <2>1, <2>2, SetAddress
  <2>4. [p.t EXCEPT !.x = coarse] \in AddressSet
    BY <2>1, SetAddress
  <2> QED
    BY <2>3, <2>4
<1> HIDE DEF t, q
<1>3. 1 - p.latch \in {0, 1}
  BY DEF Units
<1>4. [p EXCEPT !.latch = 1 - p.latch] \in Units
  BY <1>3, SetMoreFlags
<1>5. [p EXCEPT !.latch = 1 - p.latch, !.steady = 0] \in Units
  BY <1>4, SetMoreFlags
<1>6. q \in Units
  BY <1>1, <1>2, <1>5, SetT
<1>7. Kept(p, q) /\ q.steady = 0
  BY <1>1, <1>6 DEF Units, Kept
<1> QED
  BY <1>6, <1>7 DEF q

LEMMA AddrKept ==
  ASSUME NEW p \in Units, NEW value \in Nat
  PROVE  LET q == WriteAddr(p, value)
         IN  q \in Units /\ Kept(p, q) /\ q.steady = 0
<1> DEFINE q == WriteAddr(p, value)
           t == IF p.latch = 0 THEN Fields((Linear(p.t) % 256) + (256 * (value % 64)))
                ELSE Fields(256 * (Linear(p.t) \div 256) + value)
           v == IF p.latch = 0 THEN p.v ELSE t
<1>1. q = [p EXCEPT !.latch = 1 - p.latch, !.steady = 0, !.t = t, !.v = v]
  <2> HIDE DEF t
  <2>1. q = [p EXCEPT !.latch = 1 - @, !.steady = 0, !.t = t,
                      !.v = IF p.latch = 0 THEN @ ELSE t]
    BY Zenon DEF WriteAddr, t
  <2> HIDE DEF q
  <2> QED
    BY <2>1 DEF Units
<1>2. p.v \in AddressSet /\ p.t \in AddressSet
  BY DEF Units
<1>3. t \in AddressSet
  <2>1. Linear(p.t) \in Nat
    BY <1>2, LinearType
  <2>2. /\ (Linear(p.t) % 256) + (256 * (value % 64)) \in Nat
        /\ 256 * (Linear(p.t) \div 256) + value \in Nat
    BY <2>1
  <2>3. /\ Fields((Linear(p.t) % 256) + (256 * (value % 64))) \in AddressSet
        /\ Fields(256 * (Linear(p.t) \div 256) + value) \in AddressSet
    BY <2>2, FieldsType, Zenon
  <2> QED
    BY <2>3, Zenon
<1>4. v \in AddressSet
  BY <1>2, <1>3, Zenon
<1> HIDE DEF t, q, v
<1>5. 1 - p.latch \in {0, 1}
  BY DEF Units
<1>6. [p EXCEPT !.latch = 1 - p.latch] \in Units
  BY <1>5, SetMoreFlags
<1>7. [p EXCEPT !.latch = 1 - p.latch, !.steady = 0] \in Units
  BY <1>6, SetMoreFlags
<1>8. [p EXCEPT !.latch = 1 - p.latch, !.steady = 0, !.t = t] \in Units
  BY <1>3, <1>7, SetT
<1>9. q \in Units
  BY <1>1, <1>4, <1>8, SetV
<1>10. Kept(p, q) /\ q.steady = 0
  BY <1>1, <1>9 DEF Units, Kept
<1> QED
  BY <1>9, <1>10 DEF q

(* What an access makes of a sound unit is sound.                           *)
LEMMA AccessSound ==
  ASSUME NEW p, Sound(p), NEW q \in Accesses(p)
  PROVE  Sound(q) /\ Kept(p, q)
<1>0. p \in Units
  BY DEF Sound, Placed
<1>1. CASE q = ReadStatus(p)
  BY <1>0, <1>1, StatusKept, KeptSound DEF Kept
<1>2. CASE q # ReadStatus(p)
  <2>1. q \in Units /\ Kept(p, q) /\ q.steady = 0
    <3>1. CASE q = MoveOn(p)
      BY <1>0, <3>1, MoveOnKept
    <3>2. ASSUME NEW enable \in {0, 1}, q = WriteControl(p, enable, 1, 0, 0)
          PROVE  q \in Units /\ Kept(p, q) /\ q.steady = 0
      BY <1>0, <3>2, ControlKept, Zenon
    <3>3. ASSUME NEW on \in {0, 1}, q = WriteMask(p, on)
          PROVE  q \in Units /\ Kept(p, q) /\ q.steady = 0
      BY <1>0, <3>3, MaskKept, Zenon
    <3>4. ASSUME NEW s \in Scrolls, q = WriteScroll(p, s.coarse, s.fine)
          PROVE  q \in Units /\ Kept(p, q) /\ q.steady = 0
      <4>1. s.coarse \in 0 .. 31 /\ s.fine \in 0 .. 7
        BY PpuAssumption DEF PpuAssumption
      <4> QED
        BY <1>0, <3>4, <4>1, ScrollKept, Zenon
    <3>5. ASSUME NEW value \in Addrs, q = WriteAddr(p, value)
          PROVE  q \in Units /\ Kept(p, q) /\ q.steady = 0
      <4>1. value \in Nat
        BY PpuAssumption DEF PpuAssumption
      <4> QED
        BY <1>0, <3>5, <4>1, AddrKept, Zenon
    <3> QED
      BY <1>2, <3>1, <3>2, <3>3, <3>4, <3>5, Zenon DEF Accesses
  <2> QED
    BY <2>1, KeptSound DEF Kept
<1> QED
  BY <1>1, <1>2

(* So is a unit whose sprites were replaced, or whose interrupt was taken.  *)
LEMMA LoadSound ==
  ASSUME NEW p, Sound(p), NEW line \in Nat
  PROVE  Sound(LoadSprites(p, line)) /\ Kept(p, LoadSprites(p, line))
<1>0. p \in Units
  BY DEF Sound, Placed
<1> DEFINE q == LoadSprites(p, line)
<1>1. q = [p EXCEPT !.sprite = line]
  BY DEF LoadSprites
<1> HIDE DEF q
<1>2. q \in Units
  BY <1>0, <1>1, SetCounts
<1>3. /\ Kept(p, q) /\ q.v = p.v /\ q.t = p.t
      /\ q.rendering = p.rendering /\ q.steady = p.steady
  BY <1>0, <1>1, <1>2 DEF Kept, Units
<1> QED
  BY <1>2, <1>3, KeptSound DEF Kept, q

LEMMA TakenSound ==
  ASSUME NEW p, Sound(p)
  PROVE  LET q == [p EXCEPT !.nmi = 0]
         IN  /\ Sound(q) /\ q.nmi = 0
             /\ q.line = p.line /\ q.dot = p.dot
<1>0. p \in Units
  BY DEF Sound, Placed
<1> DEFINE q == [p EXCEPT !.nmi = 0]
<1>2. q \in Units
  BY <1>0, SetMoreFlags
<1>3. /\ q.nmi = 0 /\ q.v = p.v /\ q.t = p.t /\ q.nmis = p.nmis
      /\ q.line = p.line /\ q.dot = p.dot /\ q.state = p.state
      /\ q.rendering = p.rendering /\ q.steady = p.steady
  BY <1>0, <1>2 DEF Units
<1> HIDE DEF q
<1> QED
  BY <1>2, <1>3, KeptSound DEF q

LEMMA PowerOnSound == Sound(PowerOn)
<1>1. Fields(0) \in AddressSet
  BY FieldsType
<1>2. PowerOn \in Units
  BY <1>1 DEF PowerOn, Units, States
<1>3. /\ PowerOn.line = 0 /\ PowerOn.dot = 0 /\ PowerOn.nmis = 0
      /\ PowerOn.state = "FETCH_SCANLINE_START" /\ PowerOn.steady = 0
  BY DEF PowerOn
<1>4. InStep("FETCH_SCANLINE_START", 0, 0)
  BY Geometry DEF InStep, TileStates, SpriteStates, TailStates
<1> QED
  BY <1>2, <1>3, <1>4 DEF Sound, Placed, Counted, Steered

-----------------------------------------------------------------------------
(* The beam: where a dot takes it, and how far vblank's interrupt is.       *)

LEMMA BeamPlace ==
  ASSUME NEW p, Sound(p)
  PROVE  p.line \in 0 .. TotalLines - 1 /\ p.dot \in 0 .. LineDots - 1
<1>1. p.state \in States /\ p.line \in Nat /\ p.dot \in Nat
  BY DEF Sound, Placed, Units
<1>2. InStep(p.state, p.line, p.dot)
  BY DEF Sound, Placed
<1>3. p.line \in 0 .. TotalLines - 1
  BY <1>1, <1>2, Geometry DEF InStep
<1>4. p.dot \in 0 .. LineDots - 1
  BY <1>1, <1>2, Geometry
  DEF InStep, States, TileStates, SpriteStates, TailStates
<1> QED
  BY <1>3, <1>4

\* One dot on, two at the dot that odd frames skip, or the next line.
Advances(p, q) ==
  \/ q.line = p.line /\ q.dot = p.dot + 1
  \/ q.line = p.line /\ p.line = 1 /\ p.dot = 0 /\ q.dot = 2
  \/ /\ p.dot = LineDots - 1 /\ q.dot = 0
     /\ q.line = IF p.line = TotalLines - 1 THEN 0 ELSE p.line + 1

LEMMA StateAdvances ==
  ASSUME NEW p, Ready(p)
  PROVE  /\ Advances(p, StateStep(p))
         /\ StateStep(p).nmi = IF Raises(p) THEN 1 ELSE p.nmi
<1> DEFINE q == StateStep(p)
<1>0. p.line \in Nat /\ p.dot \in Nat
  BY ReadyTypes
<1>1. CASE p.state = "POSTRENDER_SCANLINE"
  BY <1>1, ReadyTypes, PostrenderFields DEF Advances
<1>2. CASE p.state # "POSTRENDER_SCANLINE"
  <2>1. p.line \in 0 .. VisibleLines
    BY <1>2, ReadyTypes DEF InStep
  <2>2. ~Raises(p) /\ p.line # TotalLines - 1
    BY <2>1, Geometry DEF Raises
  <2>3. CASE p.state = "FETCH_SCANLINE_START"
    <3>1. p.dot = 0
      BY <2>3, ReadyTypes DEF InStep
    <3>2. /\ q.line = p.line /\ q.nmi = p.nmi
          /\ q.dot = IF p.line = 1 /\ p.rendering = 1 /\ p.odd = 1
                     THEN p.dot + 2 ELSE p.dot + 1
      BY <2>3, ReadyTypes, StartFields
    <3> HIDE DEF q
    <3>3. Advances(p, q)
      BY <3>1, <3>2 DEF Advances
    <3> QED
      BY <2>2, <3>2, <3>3 DEF q
  <2>4. CASE p.state \in DOMAIN Follows
    BY <2>2, <2>4, ReadyTypes, FollowFields DEF Advances, Still
  <2>5. CASE /\ p.state \in {"FETCH_BG2", "FETCH_SPRITE_HIGH", "FETCH_TAIL_BG2"}
             /\ p.dot % 2 = 0
    BY <2>2, <2>5, ReadyTypes, TileFields, SpriteFields, TailFields
    DEF Advances, Still
  <2>6. CASE /\ p.state \in {"FETCH_BG2", "FETCH_SPRITE_HIGH", "FETCH_TAIL_BG2",
                             "END_NT2"}
             /\ p.dot % 2 # 0
    BY <2>2, <2>6, ReadyTypes, WaitFields DEF Advances, Still
  <2>7. CASE p.state = "END_NT2" /\ p.dot % 2 = 0
    <3>1. p.dot = LineDots - 1 /\ q = NewLine(p)
      BY <2>7, ReadyTypes, BranchInStep, FollowsStates DEF StateStep
    <3> QED
      BY <2>2, <3>1, ReadyTypes, NewLineFields DEF Advances, Still
  <2>8. CASE p.state = "RENDER_DISABLED_SCANLINE"
    <3>1. q = IF p.dot = LineDots - 1 THEN NewLine(p) ELSE Tick(p)
      BY <2>8, FollowsStates DEF StateStep
    <3> QED
      BY <2>2, <3>1, ReadyTypes, NewLineFields, TickFields DEF Advances, Still
  <2>9. p.state \in States
    BY ReadyTypes
  <2> QED
    BY <1>2, <2>3, <2>4, <2>5, <2>6, <2>7, <2>8, <2>9, FollowsStates
    DEF States, TileStates, SpriteStates, TailStates
<1> QED
  BY <1>1, <1>2

LEMMA StepAdvances ==
  ASSUME NEW p, Sound(p)
  PROVE  /\ Advances(p, PpuStep(p))
         /\ PpuStep(p).nmi = IF Raises(p) THEN 1 ELSE p.nmi
<1> DEFINE r == CopyVertical(p)
<1>1. /\ Ready(r) /\ r.line = p.line /\ r.dot = p.dot /\ r.nmi = p.nmi
  BY CopySteers DEF Ready
<1>2. p.line \in Nat
  BY DEF Sound, Placed, Units
<1>3. Raises(r) <=> Raises(p)
  <2>1. CASE p.line = 0
    BY <1>1, <2>1, Geometry DEF Raises
  <2>2. CASE p.line # 0
    BY <2>2 DEF CopyVertical
  <2> QED
    BY <2>1, <2>2
<1>4. PpuStep(p) = StateStep(r)
  BY DEF PpuStep
<1> HIDE DEF r
<1> QED
  BY <1>1, <1>3, <1>4, StateAdvances DEF Advances

\* The dots of n lines.
Lines(n) == n * LineDots

\* Dots until the next one at which assert_nmi may be called, at least: the
\* one that an odd frame skips is counted out.
Until(line, dot) ==
  IF line >= VblankLine
  THEN IF line = VblankLine /\ dot <= 4 THEN 4 - dot
       ELSE Lines(TotalLines + VblankLine - line) + 3 - dot
  ELSE Lines(VblankLine - line) + 4 - dot
         - (IF line = 0 \/ (line = 1 /\ dot = 0) THEN 1 ELSE 0)

Ahead(p) == Until(p.line, p.dot)

(* Lines counted in dots.                                                   *)
LEMMA LineTimes ==
  /\ \A n \in Int : Lines(n) \in Int
  /\ \A n \in Int : Lines(n - 1) = Lines(n) - LineDots
  /\ \A n \in Nat \ {0} : Lines(n) >= LineDots
  /\ Lines(0) = 0
<1>1. LineDots \in Nat
  BY Geometry
<1> QED
  BY <1>1 DEF Lines

(* A dot brings the interrupt nearer by one, or takes it a frame away.      *)
LEMMA UntilNext ==
  ASSUME NEW p, Sound(p)
  PROVE  /\ Ahead(p) \in Nat
         /\ Ahead(PpuStep(p)) >= Ahead(p) - 1
         /\ Raises(p) => /\ Ahead(p) = 0
                         /\ Ahead(PpuStep(p)) = Lines(TotalLines) - 2
<1> DEFINE q == PpuStep(p)
           a == VblankLine - p.line
           b == TotalLines + VblankLine - p.line
<1>1. p.line \in 0 .. TotalLines - 1 /\ p.dot \in 0 .. LineDots - 1
  BY BeamPlace
<1>2. Advances(p, q) /\ q.dot # LineDots
  <2>1. Advances(p, q)
    BY StepAdvances
  <2>2. Sound(q)
    BY StepSound
  <2>3. q.dot \in 0 .. LineDots - 1
    BY <2>2, BeamPlace
  <2> QED
    BY <2>1, <2>3, Geometry
<1> HIDE DEF q
<1>3. Lines(TotalLines) \in Int
  BY Geometry, LineTimes
<1>4. CASE p.line = VblankLine /\ p.dot <= 4
  <2>1. q.line = p.line /\ q.dot = p.dot + 1
    BY <1>1, <1>2, <1>4, Geometry DEF Advances
  <2>2. Ahead(p) = 4 - p.dot
    BY <1>4, Geometry DEF Ahead, Until
  <2>3. CASE p.dot < 4
    <3>1. Ahead(q) = 4 - (p.dot + 1)
      BY <1>1, <1>4, <2>1, <2>3, Geometry DEF Ahead, Until
    <3> QED
      BY <1>1, <2>2, <2>3, <3>1 DEF Raises, q
  <2>4. CASE p.dot = 4
    <3>1. TotalLines + VblankLine - p.line = TotalLines
      BY <1>4, Geometry
    <3>2. Ahead(q) = Lines(TotalLines) + 3 - 5
      BY <1>4, <2>1, <2>4, <3>1, Geometry DEF Ahead, Until
    <3>3. Lines(TotalLines) >= LineDots
      BY Geometry, LineTimes
    <3> QED
      BY <1>1, <1>3, <2>2, <2>4, <3>2, <3>3, Geometry DEF q
  <2> QED
    BY <1>1, <1>4, <2>3, <2>4
<1>5. CASE p.line >= VblankLine /\ ~(p.line = VblankLine /\ p.dot <= 4)
  <2>1. ~Raises(p)
    BY <1>5 DEF Raises
  <2>2. Ahead(p) = Lines(b) + 3 - p.dot
    BY <1>5, Zenon DEF Ahead, Until
  <2>3. /\ Lines(b) \in Int /\ Lines(b) >= LineDots
        /\ Lines(b - 1) = Lines(b) - LineDots
    BY <1>1, Geometry, LineTimes
  <2>4. CASE p.dot # LineDots - 1
    <3>1. q.line = p.line /\ q.dot = p.dot + 1
      BY <1>1, <1>2, <1>5, <2>4, Geometry DEF Advances
    <3>2. Ahead(q) = Lines(b) + 3 - (p.dot + 1)
      BY <1>1, <1>5, <3>1, Geometry DEF Ahead, Until
    <3> QED
      BY <1>1, <2>1, <2>2, <2>3, <3>2, Geometry DEF q
  <2>5. CASE p.dot = LineDots - 1 /\ p.line # TotalLines - 1
    <3>1. q.line = p.line + 1 /\ q.dot = 0
      BY <1>1, <1>2, <1>5, <2>5, Geometry DEF Advances
    <3>2. TotalLines + VblankLine - (p.line + 1) = b - 1
      BY <1>1, Geometry
    <3>3. Ahead(q) = Lines(b - 1) + 3
      <4>1. q.line >= VblankLine /\ ~(q.line = VblankLine)
        BY <1>1, <1>5, <3>1, Geometry
      <4>2. Ahead(q) = Lines(TotalLines + VblankLine - q.line) + 3 - q.dot
        BY <4>1, Zenon DEF Ahead, Until
      <4>3. Lines(b - 1) \in Int
        BY <2>3, Geometry
      <4> QED
        BY <3>1, <3>2, <4>2, <4>3
    <3> QED
      BY <1>1, <2>1, <2>2, <2>3, <2>5, <3>3, Geometry DEF q
  <2>6. CASE p.dot = LineDots - 1 /\ p.line = TotalLines - 1
    <3>1. q.line = 0 /\ q.dot = 0
      BY <1>1, <1>2, <1>5, <2>6, Geometry DEF Advances
    <3>2. b - 1 = VblankLine /\ VblankLine - 0 = VblankLine
      BY <2>6, Geometry
    <3>3. Ahead(q) = Lines(VblankLine) + 4 - 0 - 1
      BY <3>1, <3>2, Geometry DEF Ahead, Until
    <3> QED
      BY <1>1, <2>1, <2>2, <2>3, <2>6, <3>2, <3>3, Geometry DEF q
  <2> QED
    BY <2>4, <2>5, <2>6
<1>6. CASE p.line < VblankLine
  <2> DEFINE skip(l, d) == IF l = 0 \/ (l = 1 /\ d = 0) THEN 1 ELSE 0
  <2>1. ~Raises(p)
    BY <1>1, <1>6, Geometry DEF Raises
  <2>2. Ahead(p) = Lines(a) + 4 - p.dot - skip(p.line, p.dot)
    BY <1>1, <1>6, Geometry DEF Ahead, Until
  <2>3. /\ Lines(a) \in Int /\ Lines(a) >= LineDots
        /\ Lines(a - 1) = Lines(a) - LineDots
    BY <1>1, <1>6, Geometry, LineTimes
  <2>4. CASE q.line = p.line
    <3>1. Ahead(q) = Lines(a) + 4 - q.dot - skip(p.line, q.dot)
      BY <1>1, <1>6, <2>4, Geometry DEF Ahead, Until
    <3>2. \/ q.dot = p.dot + 1
          \/ p.line = 1 /\ p.dot = 0 /\ q.dot = 2
      BY <1>1, <1>2, <1>6, <2>4, Geometry DEF Advances
    <3> QED
      BY <1>1, <2>1, <2>2, <2>3, <3>1, <3>2, Geometry DEF q
  <2>5. CASE q.line # p.line
    <3>1. p.dot = LineDots - 1 /\ q.line = p.line + 1 /\ q.dot = 0
      BY <1>1, <1>2, <1>6, <2>5, Geometry DEF Advances
    <3>2. VblankLine - (p.line + 1) = a - 1
      BY <1>1, Geometry
    <3>3. CASE p.line + 1 = VblankLine
      <4>1. a = 1 /\ p.line # 0 /\ p.line # 1
        BY <1>1, <3>3, Geometry
      <4>2. Ahead(q) = 4
        BY <3>1, <3>3, Geometry DEF Ahead, Until
      <4>3. Lines(a) = LineDots
        <5>1. Lines(a - 1) = 0
          BY <4>1, LineTimes
        <5> QED
          BY <2>3, <5>1, Geometry
      <4> QED
        BY <1>1, <2>1, <2>2, <3>1, <4>1, <4>2, <4>3, Geometry DEF q
    <3>4. CASE p.line + 1 # VblankLine
      <4>1. Ahead(q) = Lines(a - 1) + 4 - 0 - skip(p.line + 1, 0)
        <5>1. ~(q.line >= VblankLine)
          BY <1>1, <1>6, <3>1, <3>4, Geometry
        <5>2. Ahead(q) = Lines(VblankLine - q.line) + 4 - q.dot - skip(q.line, q.dot)
          BY <5>1, Zenon DEF Ahead, Until
        <5> QED
          BY <3>1, <3>2, <5>2, Zenon
      <4> QED
        BY <1>1, <2>1, <2>2, <2>3, <3>1, <4>1, Geometry DEF q
    <3> QED
      BY <3>3, <3>4
  <2> QED
    BY <2>4, <2>5
<1> QED
  <2>1. p.line >= VblankLine \/ p.line < VblankLine
    BY <1>1, Geometry
  <2> QED
    BY <1>4, <1>5, <1>6, <2>1

-----------------------------------------------------------------------------
(* Taking the interrupt before or after a dot is the same, but for the dot  *)
(* that raises it.                                                          *)
Taken(p) == [p EXCEPT !.nmi = 0]

LEMMA TakenFields ==
  ASSUME NEW p \in Units
  PROVE  /\ Taken(p) \in Units /\ Taken(p).nmi = 0
         /\ Taken(p).line = p.line /\ Taken(p).dot = p.dot
         /\ Taken(p).state = p.state
         /\ Taken(p).v = p.v /\ Taken(p).t = p.t
<1>1. Taken(p) \in Units
  BY SetMoreFlags DEF Taken
<1> QED
  BY <1>1 DEF Taken, Units

(* The parts of a dot.                                                      *)
LEMMA TakenCopy ==
  ASSUME NEW p \in Units PROVE CopyVertical(Taken(p)) = Taken(CopyVertical(p))
BY DEF Units, CopyVertical, Taken
LEMMA TakenTick ==
  ASSUME NEW p \in Units PROVE Tick(Taken(p)) = Taken(Tick(p))
BY DEF Units, Tick, Taken
LEMMA TakenNewLine ==
  ASSUME NEW p \in Units PROVE NewLine(Taken(p)) = Taken(NewLine(p))
BY DEF Units, NewLine, Taken
LEMMA TakenStart ==
  ASSUME NEW p \in Units PROVE LineStart(Taken(p)) = Taken(LineStart(p))
BY ZenonT(60) DEF Units, LineStart, Taken
LEMMA TakenVblank ==
  ASSUME NEW p \in Units, ~Raises(p) PROVE Vblank(Taken(p)) = Taken(Vblank(p))
BY DEF Units, Vblank, Taken, Raises
LEMMA TakenDraw ==
  ASSUME NEW p \in Units PROVE DrawPixels(Taken(p)) = Taken(DrawPixels(p))
BY DEF Units, DrawPixels, Taken
LEMMA TakenEvaluate ==
  ASSUME NEW p \in Units PROVE EvaluateSprites(Taken(p)) = Taken(EvaluateSprites(p))
BY DEF Units, EvaluateSprites, Taken
LEMMA TakenPostrender ==
  ASSUME NEW p \in Units, ~Raises(p)
  PROVE  PostrenderStep(Taken(p)) = Taken(PostrenderStep(p))
<1> DEFINE q == Vblank(p)
<1>1. q \in Units
  BY VblankFields
<1>2. Vblank(Taken(p)) = Taken(q)
  BY TakenVblank
<1>3. PostrenderStep(p) =
        IF p.dot # LineDots - 1 THEN [q EXCEPT !.dot = @ + 1]
        ELSE IF p.line # TotalLines - 1 THEN [q EXCEPT !.dot = 0, !.line = @ + 1]
        ELSE [q EXCEPT !.dot = 0, !.line = 0, !.state = "FETCH_SCANLINE_START"]
  BY DEF PostrenderStep
<1>4. PostrenderStep(Taken(p)) =
        IF p.dot # LineDots - 1 THEN [Taken(q) EXCEPT !.dot = @ + 1]
        ELSE IF p.line # TotalLines - 1 THEN [Taken(q) EXCEPT !.dot = 0, !.line = @ + 1]
        ELSE [Taken(q) EXCEPT !.dot = 0, !.line = 0, !.state = "FETCH_SCANLINE_START"]
  BY <1>2, TakenFields DEF PostrenderStep
<1> HIDE DEF q
<1>5. /\ [Taken(q) EXCEPT !.dot = @ + 1] = Taken([q EXCEPT !.dot = @ + 1])
      /\ [Taken(q) EXCEPT !.dot = 0, !.line = @ + 1]
           = Taken([q EXCEPT !.dot = 0, !.line = @ + 1])
      /\ [Taken(q) EXCEPT !.dot = 0, !.line = 0, !.state = "FETCH_SCANLINE_START"]
           = Taken([q EXCEPT !.dot = 0, !.line = 0, !.state = "FETCH_SCANLINE_START"])
  BY <1>1 DEF Units, Taken
<1> QED
  BY <1>3, <1>4, <1>5, Zenon

LEMMA TakenTile ==
  ASSUME NEW p \in Units
  PROVE  TileDone(Taken(p)) = Taken(TileDone(p)) /\ TileDone(p) \in Units
<1> DEFINE d == DrawPixels(p)
           h == [d EXCEPT !.v = IncrHoriz(p.v), !.state = "FETCH_NT"]
           b == [d EXCEPT !.state = "FETCH_BAD_NT"]
           e == [d EXCEPT !.v = IncrVert(p.v, p.t), !.state = "FETCH_BAD_NT"]
<1>1. d \in Units /\ d.v = p.v
  BY DrawFields
<1>2. /\ IncrHoriz(p.v) \in AddressSet /\ IncrVert(p.v, p.t) \in AddressSet
      /\ "FETCH_NT" \in States /\ "FETCH_BAD_NT" \in States
  <2>1. p.v \in AddressSet /\ p.t \in AddressSet
    BY DEF Units
  <2> QED
    BY <2>1, HorizMoves, VertMoves DEF States, TileStates, SpriteStates
<1>3. TileDone(p) = IF p.dot # LastTileDot THEN h
                    ELSE IF p.line = 0 THEN b ELSE EvaluateSprites(e)
  BY <1>1 DEF TileDone, Units
<1>4. DrawPixels(Taken(p)) = Taken(d)
  BY TakenDraw
<1>5. /\ Taken(p).v = p.v /\ Taken(p).t = p.t /\ Taken(p).dot = p.dot
      /\ Taken(p).line = p.line /\ Taken(d) \in Units /\ Taken(d).v = p.v
  BY <1>1, TakenFields
<1>6. TileDone(Taken(p)) =
        IF p.dot # LastTileDot
        THEN [Taken(d) EXCEPT !.v = IncrHoriz(p.v), !.state = "FETCH_NT"]
        ELSE IF p.line = 0 THEN [Taken(d) EXCEPT !.state = "FETCH_BAD_NT"]
        ELSE EvaluateSprites([Taken(d) EXCEPT !.v = IncrVert(p.v, p.t),
                                              !.state = "FETCH_BAD_NT"])
  <2> HIDE DEF d
  <2>1. TileDone(Taken(p)) =
          IF Taken(p).dot # LastTileDot
          THEN [Taken(d) EXCEPT !.v = IncrHoriz(@), !.state = "FETCH_NT"]
          ELSE IF Taken(p).line = 0 THEN [Taken(d) EXCEPT !.state = "FETCH_BAD_NT"]
          ELSE EvaluateSprites([Taken(d) EXCEPT !.v = IncrVert(@, Taken(p).t),
                                                !.state = "FETCH_BAD_NT"])
    BY <1>4, Zenon DEF TileDone
  <2>2. /\ [Taken(d) EXCEPT !.v = IncrHoriz(@), !.state = "FETCH_NT"]
             = [Taken(d) EXCEPT !.v = IncrHoriz(p.v), !.state = "FETCH_NT"]
        /\ [Taken(d) EXCEPT !.v = IncrVert(@, Taken(p).t), !.state = "FETCH_BAD_NT"]
             = [Taken(d) EXCEPT !.v = IncrVert(p.v, p.t), !.state = "FETCH_BAD_NT"]
    BY <1>5 DEF Units
  <2> QED
    BY <1>5, <2>1, <2>2, Zenon
<1> HIDE DEF d
<1>7. h \in Units /\ b \in Units /\ e \in Units
  BY <1>1, <1>2, SetState, MovedFields DEF Moved
<1>8. EvaluateSprites(Taken(e)) = Taken(EvaluateSprites(e)) /\ EvaluateSprites(e) \in Units
  BY <1>7, TakenEvaluate, EvaluateFields
<1>9. /\ [Taken(d) EXCEPT !.v = IncrHoriz(p.v), !.state = "FETCH_NT"] = Taken(h)
      /\ [Taken(d) EXCEPT !.state = "FETCH_BAD_NT"] = Taken(b)
      /\ [Taken(d) EXCEPT !.v = IncrVert(p.v, p.t), !.state = "FETCH_BAD_NT"] = Taken(e)
  BY <1>1, <1>2 DEF Units, Taken
<1> HIDE DEF h, b, e
<1> QED
  BY <1>3, <1>6, <1>7, <1>8, <1>9, Zenon

LEMMA TakenFetched ==
  ASSUME NEW p \in Units, p.state \in Fetches
  PROVE  Fetched(Taken(p)) = Taken(Fetched(p)) /\ Fetched(p) \in Units
<1>1. Taken(p).state = p.state /\ Taken(p).dot = p.dot /\ Taken(p).v = p.v
  BY TakenFields
<1>2. CASE p.state \in DOMAIN Follows
  <2>1. Fetched(p) = [p EXCEPT !.state = Follows[p.state]]
    BY <1>2, FollowsStates DEF Fetched, Units
  <2>2. Fetched(Taken(p)) = [Taken(p) EXCEPT !.state = Follows[p.state]]
    <3>1. Taken(p) \in Units
      BY TakenFields
    <3> QED
      BY <1>1, <1>2, <3>1, FollowsStates DEF Fetched, Units
  <2>3. Follows[p.state] \in States /\ p.v \in AddressSet
    BY <1>2, FollowsStates DEF Units
  <2>4. /\ [p EXCEPT !.state = Follows[p.state]] \in Units
        /\ [Taken(p) EXCEPT !.state = Follows[p.state]]
             = Taken([p EXCEPT !.state = Follows[p.state]])
    <3> DEFINE s == Follows[p.state]
    <3> HIDE DEF s
    <3>1. s \in States
      BY <2>3 DEF s
    <3>2. /\ [p EXCEPT !.state = s] \in Units
          /\ [Taken(p) EXCEPT !.state = s] = Taken([p EXCEPT !.state = s])
      BY <3>1, SetState DEF Units, Taken
    <3> QED
      BY <3>2, Zenon DEF s
  <2> QED
    BY <2>1, <2>2, <2>4, Zenon
<1>3. CASE p.state = "FETCH_BG2"
  <2>1. Fetched(p) = TileDone(p) /\ Fetched(Taken(p)) = TileDone(Taken(p))
    BY <1>1, <1>3, FollowsStates DEF Fetched
  <2> QED
    BY <2>1, TakenTile, Zenon
<1>4. CASE p.state = "FETCH_SPRITE_HIGH"
  <2> DEFINE s == IF p.dot = LastSpriteDot THEN "FETCH_TAIL_NT" ELSE "FETCH_BAD_NT"
  <2>1. /\ Fetched(p) = [p EXCEPT !.state = s]
        /\ Fetched(Taken(p)) = [Taken(p) EXCEPT !.state = s]
    BY <1>1, <1>4, FollowsStates DEF Fetched
  <2>2. s \in States /\ p.v \in AddressSet
    BY DEF States, SpriteStates, TailStates, Units
  <2> HIDE DEF s
  <2>3. /\ [p EXCEPT !.state = s] \in Units
        /\ [Taken(p) EXCEPT !.state = s] = Taken([p EXCEPT !.state = s])
    BY <2>2, SetState DEF Units, Taken
  <2> QED
    BY <2>1, <2>3, Zenon
<1>5. CASE p.state = "FETCH_TAIL_BG2"
  <2> DEFINE s == IF p.dot = LastTailDot THEN "END_NT1" ELSE "FETCH_TAIL_NT"
             a == IncrHoriz(p.v)
  <2>1. Fetched(p) = [p EXCEPT !.v = a, !.state = s]
    BY <1>5, FollowsStates DEF Fetched, Units
  <2>2. Fetched(Taken(p)) = [Taken(p) EXCEPT !.v = a, !.state = s]
    <3>1. Taken(p) \in Units
      BY TakenFields
    <3> QED
      BY <1>1, <1>5, <3>1, FollowsStates DEF Fetched, Units
  <2>3. s \in States /\ a \in AddressSet
    BY HorizMoves DEF States, TailStates, Units
  <2> HIDE DEF s, a
  <2>4. [p EXCEPT !.v = a, !.state = s] \in Units
    BY <2>3, MovedFields DEF Moved
  <2>5. [Taken(p) EXCEPT !.v = a, !.state = s] = Taken([p EXCEPT !.v = a, !.state = s])
    BY <2>3 DEF Units, Taken
  <2> QED
    BY <2>1, <2>2, <2>4, <2>5, Zenon
<1> QED
  BY <1>2, <1>3, <1>4, <1>5, FollowsStates

LEMMA TakenStep ==
  ASSUME NEW p \in Units, ~Raises(p)
  PROVE  PpuStep(Taken(p)) = Taken(PpuStep(p))
<1> DEFINE r == CopyVertical(p)
<1>1. /\ r \in Units /\ r.state = p.state /\ r.dot = p.dot
      /\ CopyVertical(Taken(p)) = Taken(r)
  BY CopyFields, TakenCopy
<1>2. ~Raises(r)
  BY DEF CopyVertical, Raises, Units
<1>3. PpuStep(p) = StateStep(r) /\ PpuStep(Taken(p)) = StateStep(Taken(r))
  BY <1>1, Zenon DEF PpuStep
<1> HIDE DEF r
<1>4. Taken(r).state = r.state /\ Taken(r).dot = r.dot
  BY <1>1, TakenFields
<1>5. r.state \in States
  BY <1>1 DEF Units
<1>6. StateStep(Taken(r)) = Taken(StateStep(r))
  <2>1. CASE r.state = "FETCH_SCANLINE_START"
    <3>1. /\ StateStep(r) = LineStart(r)
          /\ StateStep(Taken(r)) = LineStart(Taken(r))
      BY <1>4, <2>1, FollowsStates DEF StateStep
    <3> QED
      BY <1>1, <3>1, TakenStart, Zenon
  <2>2. CASE r.state = "POSTRENDER_SCANLINE"
    <3>1. /\ StateStep(r) = PostrenderStep(r)
          /\ StateStep(Taken(r)) = PostrenderStep(Taken(r))
      BY <1>4, <2>2, FollowsStates DEF StateStep
    <3> QED
      BY <1>1, <1>2, <3>1, TakenPostrender, Zenon
  <2>3. CASE r.state = "RENDER_DISABLED_SCANLINE"
    <3>1. /\ StateStep(r) = IF r.dot = LineDots - 1 THEN NewLine(r) ELSE Tick(r)
          /\ StateStep(Taken(r)) = IF r.dot = LineDots - 1 THEN NewLine(Taken(r))
                                                           ELSE Tick(Taken(r))
      BY <1>4, <2>3, FollowsStates DEF StateStep
    <3> QED
      BY <1>1, <3>1, TakenNewLine, TakenTick, Zenon
  <2>4. CASE r.state = "END_NT2"
    <3>1. /\ StateStep(r) = IF r.dot % 2 = 0 THEN NewLine(r) ELSE Tick(r)
          /\ StateStep(Taken(r)) = IF r.dot % 2 = 0 THEN NewLine(Taken(r))
                                                    ELSE Tick(Taken(r))
      BY <1>4, <2>4, FollowsStates DEF StateStep
    <3> QED
      BY <1>1, <3>1, TakenNewLine, TakenTick, Zenon
  <2>5. CASE r.state \in Fetches
    <3>1. /\ StateStep(r) = IF r.dot % 2 = 0 THEN Tick(Fetched(r)) ELSE Tick(r)
          /\ StateStep(Taken(r)) = IF r.dot % 2 = 0 THEN Tick(Fetched(Taken(r)))
                                                    ELSE Tick(Taken(r))
      BY <1>4, <2>5, FollowsStates DEF StateStep
    <3>2. Fetched(Taken(r)) = Taken(Fetched(r)) /\ Fetched(r) \in Units
      BY <1>1, <2>5, TakenFetched
    <3> QED
      BY <1>1, <3>1, <3>2, TakenTick, Zenon
  <2> QED
    BY <1>5, <2>1, <2>2, <2>3, <2>4, <2>5, FollowsStates
    DEF States, TileStates, SpriteStates, TailStates
<1> QED
  BY <1>3, <1>6, Zenon

-----------------------------------------------------------------------------
(* The same over the dots to come, short of the next raise: the interrupt   *)
(* stays as it is, taking it commutes, and vblank is as much nearer.        *)
Quiet(p, n) ==
  /\ Ahead(Dots(p, n)) >= Ahead(p) - n
  /\ Ahead(p) >= n => /\ Dots(p, n).nmi = p.nmi
                      /\ Dots(Taken(p), n) = Taken(Dots(p, n))

LEMMA AheadDots == \A n \in Nat : \A p : Sound(p) => Quiet(p, n)
<1> DEFINE S == {n \in Nat : \A p : Sound(p) => Quiet(p, n)}
<1>1. 0 \in S
  <2>1. ASSUME NEW p, Sound(p) PROVE Quiet(p, 0)
    <3>1. Dots(p, 0) = p /\ Dots(Taken(p), 0) = Taken(p)
      BY DotsZero, Zenon
    <3>2. Ahead(p) \in Nat
      BY <2>1, UntilNext
    <3>3. Ahead(p) >= Ahead(p) - 0
      BY <3>2
    <3> QED
      BY <3>1, <3>3, Zenon DEF Quiet
  <2> QED
    BY <2>1
<1>2. ASSUME NEW n \in S PROVE n + 1 \in S
  <2>1. n \in Nat /\ n + 1 \in Nat
    OBVIOUS
  <2>2. \A p : Sound(p) => Quiet(p, n)
    OBVIOUS
  <2>3. ASSUME NEW p, Sound(p) PROVE Quiet(p, n + 1)
    <3> DEFINE q == Dots(p, n)
    <3>1. Sound(q) /\ Quiet(p, n)
      BY <2>1, <2>2, <2>3, DotsSound, Zenon
    <3>2. /\ Dots(p, n + 1) = PpuStep(q)
          /\ Dots(Taken(p), n + 1) = PpuStep(Dots(Taken(p), n))
      BY <2>1, DotsNext, Zenon
    <3>3. Ahead(q) >= Ahead(p) - n
      BY <3>1, Zenon DEF Quiet
    <3>4. Ahead(p) >= n =>
            q.nmi = p.nmi /\ Dots(Taken(p), n) = Taken(q)
      BY <3>1, Zenon DEF Quiet
    <3> HIDE DEF q
    <3>5. Ahead(p) \in Nat /\ Ahead(q) \in Nat
      BY <2>3, <3>1, UntilNext
    <3>6. Ahead(PpuStep(q)) \in Nat
      BY <3>1, StepSound, UntilNext
    <3>7. /\ Ahead(PpuStep(q)) >= Ahead(q) - 1
          /\ Raises(q) => Ahead(q) = 0
      BY <3>1, UntilNext
    <3>8. Ahead(PpuStep(q)) >= Ahead(p) - (n + 1)
      BY <2>1, <3>3, <3>5, <3>6, <3>7
    <3>9. ASSUME Ahead(p) >= n + 1
          PROVE  /\ PpuStep(q).nmi = p.nmi
                 /\ PpuStep(Dots(Taken(p), n)) = Taken(PpuStep(q))
      <4>1. Ahead(p) >= n /\ Ahead(q) # 0
        BY <2>1, <3>3, <3>5, <3>9
      <4>2. ~Raises(q) /\ q \in Units
        BY <3>1, <3>7, <4>1 DEF Sound, Placed
      <4>3. PpuStep(q).nmi = q.nmi
        BY <3>1, <4>2, StepAdvances
      <4>4. PpuStep(Taken(q)) = Taken(PpuStep(q))
        BY <4>2, TakenStep
      <4> QED
        BY <3>4, <4>1, <4>3, <4>4, Zenon
    <3> QED
      BY <3>2, <3>8, <3>9, Zenon DEF Quiet
  <2> QED
    BY <2>1, <2>3
<1>3. S \in SUBSET Nat
  OBVIOUS
<1> HIDE DEF S
<1>4. \A n \in Nat : n \in S
  BY <1>1, <1>2, <1>3, SetInduction, Zenon
<1> QED
  BY <1>4, Zenon DEF S

(* An interrupt raised within n dots was raised at most that long ago: the  *)
(* next vblank is the rest of a frame away.                                 *)
Fresh(p, n) ==
  p.nmi = 0 /\ Dots(p, n).nmi = 1
    => Ahead(Dots(p, n)) >= Lines(TotalLines) - 1 - n

LEMMA RaisedDots == \A n \in Nat : \A p : Sound(p) => Fresh(p, n)
<1> DEFINE S == {n \in Nat : \A p : Sound(p) => Fresh(p, n)}
<1>1. 0 \in S
  <2>1. ASSUME NEW p PROVE Fresh(p, 0)
    <3>1. p.nmi = 0 => p.nmi # 1
      OBVIOUS
    <3> QED
      BY <3>1, DotsZero, Zenon DEF Fresh
  <2> QED
    BY <2>1
<1>2. ASSUME NEW n \in S PROVE n + 1 \in S
  <2>1. n \in Nat /\ n + 1 \in Nat
    OBVIOUS
  <2>2. \A p : Sound(p) => Fresh(p, n)
    OBVIOUS
  <2>3. ASSUME NEW p, Sound(p) PROVE Fresh(p, n + 1)
    <3> DEFINE q == Dots(p, n)
    <3>1. Sound(q) /\ Fresh(p, n)
      BY <2>1, <2>2, <2>3, DotsSound, Zenon
    <3>2. Dots(p, n + 1) = PpuStep(q)
      BY <2>1, DotsNext, Zenon
    <3>3. p.nmi = 0 /\ q.nmi = 1 => Ahead(q) >= Lines(TotalLines) - 1 - n
      BY <3>1, Zenon DEF Fresh
    <3> HIDE DEF q
    <3>4. Ahead(q) \in Nat /\ Ahead(PpuStep(q)) \in Nat
      BY <3>1, StepSound, UntilNext
    <3>5. /\ Ahead(PpuStep(q)) >= Ahead(q) - 1
          /\ Raises(q) => Ahead(PpuStep(q)) = Lines(TotalLines) - 2
      BY <3>1, UntilNext
    <3>6. PpuStep(q).nmi = IF Raises(q) THEN 1 ELSE q.nmi
      BY <3>1, StepAdvances
    <3>7. Lines(TotalLines) \in Int
      BY Geometry, LineTimes
    <3>8. p.nmi = 0 /\ PpuStep(q).nmi = 1
            => Ahead(PpuStep(q)) >= Lines(TotalLines) - 1 - (n + 1)
      BY <2>1, <3>3, <3>4, <3>5, <3>6, <3>7
    <3> QED
      BY <3>2, <3>8, Zenon DEF Fresh
  <2> QED
    BY <2>1, <2>3
<1>3. S \in SUBSET Nat
  OBVIOUS
<1> HIDE DEF S
<1>4. \A n \in Nat : n \in S
  BY <1>1, <1>2, <1>3, SetInduction, Zenon
<1> QED
  BY <1>4, Zenon DEF S
=============================================================================
