--------------------------- MODULE NesClockProofs ---------------------------
(***************************************************************************)
(* Proofs about NesClock, for every geometry of the picture and every      *)
(* length of an instruction, an interrupt and a DMA that fits in a frame:  *)
(* the picture unit keeps its invariants however the CPU runs ahead of it, *)
(* and what a program sees of it is the unit of EagerPpu, which is never   *)
(* behind.                                                                 *)
(***************************************************************************)
EXTENDS NesClock, Ppu2c02Proofs

\* The dots of n clocks.
Span(n) == n * DotsPerClock

(* Clocks counted in dots.                                                  *)
LEMMA SpanTimes ==
  /\ \A n \in Nat : Span(n) \in Nat
  /\ \A m, n \in Nat : Span(m + n) = Span(m) + Span(n)
  /\ Span(0) = 0 /\ Span(1) = DotsPerClock
  /\ DotsPerClock \in Nat
<1>1. DotsPerClock \in Nat
  BY ClockAssumption DEF ClockAssumption
<1>2. \A n \in Nat : Span(n) \in Nat
  BY <1>1 DEF Span
<1>3. \A m, n \in Nat : Span(m + n) = Span(m) + Span(n)
  BY <1>1 DEF Span
<1>4. Span(0) = 0 /\ Span(1) = DotsPerClock
  BY <1>1 DEF Span
<1> QED
  BY <1>1, <1>2, <1>3, <1>4

LEMMA ClockConstants ==
  /\ InterruptClocks \in Nat /\ DmaClocks \in Nat /\ Lengths \subseteq Nat
  /\ SpriteLines \subseteq Nat
BY ClockAssumption DEF ClockAssumption

-----------------------------------------------------------------------------
(* The unit is sound whatever the CPU does.                                 *)

SoundInv ==
  /\ Sound(ppu)
  /\ lag \in Nat /\ left \in Nat /\ second \in {0, 1}
  /\ at \in {"head", "instruction", "dma", "interrupt"}

LEMMA SoundInit == Init => SoundInv
BY PowerOnSound DEF Init, SoundInv

(* An access and a DMA meet a sound unit, and leave one.                    *)
LEMMA WaitType == \A s \in {0, 1} : (1 - s) * DotsPerClock \in {0, DotsPerClock}
BY SpanTimes

LEMMA PassType ==
  ASSUME NEW n \in Nat, NEW s \in {0, 1} PROVE (s + n) % 2 \in {0, 1}
OBVIOUS

LEMMA SoundStep == SoundInv /\ [Next]_vars => SoundInv'
<1> SUFFICES ASSUME SoundInv, [Next]_vars PROVE SoundInv'
  OBVIOUS
<1> USE DEF SoundInv
<1>0. Sound(Dots(ppu, lag))
  BY DotsSound, Zenon
<1>1. CASE Interrupt
  BY <1>1, ClockConstants DEF Interrupt
<1>2. CASE Emulate
  BY <1>2, ClockConstants DEF Emulate
<1>3. CASE Clock
  BY <1>3, SpanTimes, PassType DEF Clock, Passes
<1>4. CASE Access
  <2>1. Sound(ppu')
    BY <1>0, <1>4, AccessSound DEF Access, CatchUpToCpu
  <2> QED
    BY <1>4, <2>1, SpanTimes, PassType DEF Access, Passes
<1>5. CASE Dma
  <2>1. PICK line \in SpriteLines :
          ppu' = LoadSprites(Dots(ppu, lag + ((1 - second) * DotsPerClock)), line)
    BY <1>5 DEF Dma
  <2>2. lag + ((1 - second) * DotsPerClock) \in Nat /\ line \in Nat
    <3>1. (1 - second) * DotsPerClock \in {0, DotsPerClock}
      BY WaitType, Zenon
    <3>2. DotsPerClock \in Nat
      BY SpanTimes
    <3>3. \A w \in {0, DotsPerClock} : lag + w \in Nat
      BY <3>2
    <3> QED
      BY <3>1, <3>3, ClockConstants, Zenon
  <2>3. Sound(Dots(ppu, lag + ((1 - second) * DotsPerClock)))
    BY <2>2, DotsSound, Zenon
  <2>4. Sound(ppu')
    BY <2>1, <2>2, <2>3, LoadSound, Zenon
  <2>5. left' \in Nat /\ lag' \in Nat /\ at' = "dma"
    BY <1>5, ClockConstants DEF Dma
  <2>6. second' \in {0, 1}
    BY <1>5, PassType DEF Dma, Passes
  <2> QED
    BY <2>4, <2>5, <2>6
<1>6. CASE PostCpuCycle
  BY <1>0, <1>6 DEF PostCpuCycle, CatchUpToCpu
<1>7. CASE IrqTaken
  <2>1. Sound(ppu')
    BY <1>7, TakenSound DEF IrqTaken
  <2> QED
    BY <1>7, <2>1 DEF IrqTaken
<1>8. CASE UNCHANGED vars
  BY <1>8 DEF vars
<1> QED
  BY <1>1, <1>2, <1>3, <1>4, <1>5, <1>6, <1>7, <1>8 DEF Next

\* The state machine of a scanline keeps time with the dot, whatever is
\* written to the registers and wherever in a dot the CPU stops to look
\* (2c02.cc:165-303).
THEOREM UnitsAreSound == Spec => []SoundInv
<1>1. Init => SoundInv
  BY SoundInit
<1>2. SoundInv /\ [Next]_vars => SoundInv'
  BY SoundStep
<1> QED
  BY <1>1, <1>2, PTL DEF Spec

\* At most one NMI for a vblank, for every program (2c02.cc:291-303).
THEOREM NmiOncePerVblankAlways == Spec => []NmiOncePerVblank
<1>1. SoundInv => NmiOncePerVblank
  BY DEF SoundInv, Sound, Counted, NmiOncePerVblank
<1> QED
  BY <1>1, UnitsAreSound, PTL

\* The scroll of every line below the first (2c02.cc:166-168, 206-215,
\* 259-269, 360-387).
THEOREM ScrollFollowsLineAlways == Spec => []ScrollFollowsLine
<1>1. SoundInv => ScrollFollowsLine
  <2> SUFFICES ASSUME SoundInv, ppu.state = "FETCH_SCANLINE_START",
                      ppu.line >= 2, ppu.steady = 1
               PROVE  /\ PictureLine(ppu.v) = Below(PictureLine(ppu.t), ppu.line - 1)
                      /\ ppu.v.x = (ppu.t.x + 2) % 32
                      /\ ppu.v.ntx = (IF ppu.t.x >= 30 THEN 1 - ppu.t.ntx ELSE ppu.t.ntx)
                      /\ ppu.v.nty = ppu.t.nty
    BY DEF ScrollFollowsLine
  <2>1. ppu \in Units
    BY DEF SoundInv, Sound, Placed
  <2>2. ppu.line \in Nat /\ ppu.t.x \in 0 .. 31
    BY <2>1, AddressFields DEF Units
  <2>3. /\ Row(ppu.state, ppu.line, ppu.v, ppu.t)
        /\ Column(ppu.state, ppu.line, ppu.dot, ppu.v, ppu.t)
    BY <2>2 DEF SoundInv, Sound, Steered
  <2>4. /\ PictureLine(ppu.v) = Below(PictureLine(ppu.t), ppu.line - 1)
        /\ Across(ppu.v, ppu.t, 2)
    BY <2>3 DEF Row, Column
  <2> QED
    BY <2>2, <2>4 DEF Across
<1> QED
  BY <1>1, UnitsAreSound, PTL

-----------------------------------------------------------------------------
(* The unit that is behind and the one that is not.                         *)

\* The dots until the interrupt sequence that follows is over, whatever else
\* the instruction does.
Rest ==
  lag + Span(left)
    + (IF at = "instruction" THEN Span(1 + DmaClocks) + Span(InterruptClocks)
       ELSE IF at = "interrupt" THEN 0 ELSE Span(InterruptClocks))

\* They are fewer than a frame; an interrupt is taken by a unit that was up to
\* date when the sequence began, and no other is raised before it is over.
RestInv ==
  /\ at \in {"instruction", "dma"} => Rest < Lines(TotalLines)
  /\ at = "head" => left = 0 /\ lag <= Span(InterruptClocks) /\ (ppu.nmi = 1 => lag = 0)
  /\ at = "interrupt" => ppu.nmi = 1 /\ Rest <= Span(InterruptClocks)
  /\ ppu.nmi = 1 => Ahead(ppu) >= Rest

LEMMA RestTypes ==
  /\ Span(InterruptClocks) \in Nat /\ Span(1 + DmaClocks) \in Nat
  /\ Span(1 + DmaClocks) = DotsPerClock + Span(DmaClocks) /\ Span(DmaClocks) \in Nat
  /\ Lines(TotalLines) \in Int
<1>1. 1 + DmaClocks \in Nat /\ 1 \in Nat
  BY ClockConstants
<1>2. Span(1 + DmaClocks) = Span(1) + Span(DmaClocks)
  BY <1>1, ClockConstants, SpanTimes, Zenon
<1>3. /\ Span(InterruptClocks) \in Nat /\ Span(1 + DmaClocks) \in Nat
      /\ Span(DmaClocks) \in Nat /\ Span(1) = DotsPerClock
  BY <1>1, ClockConstants, SpanTimes, Zenon
<1>4. TotalLines \in Int
  BY Geometry
<1>5. Lines(TotalLines) \in Int
  BY <1>4, LineTimes, Zenon
<1> QED
  BY <1>2, <1>3, <1>5, Zenon

(* An instruction with all that can come with it is shorter than a frame.   *)
LEMMA InstructionFits ==
  ASSUME NEW n \in Lengths
  PROVE  /\ Span(n) \in Nat
         /\ Span(InterruptClocks) + Span(n) + Span(1 + DmaClocks) + Span(InterruptClocks)
              < Lines(TotalLines)
<1>1. n \in Nat /\ 1 + DmaClocks \in Nat
  BY ClockConstants
<1>2. 2 * InterruptClocks + n + 1 + DmaClocks
        = (InterruptClocks + n) + ((1 + DmaClocks) + InterruptClocks)
  BY <1>1, ClockConstants
<1>3. Span(2 * InterruptClocks + n + 1 + DmaClocks) < Lines(TotalLines)
  BY FrameAssumption DEF Span, Lines
<1>4. /\ InterruptClocks + n \in Nat /\ (1 + DmaClocks) + InterruptClocks \in Nat
  BY <1>1, ClockConstants
<1>5. Span((InterruptClocks + n) + ((1 + DmaClocks) + InterruptClocks))
        = Span(InterruptClocks + n) + Span((1 + DmaClocks) + InterruptClocks)
  BY <1>4, SpanTimes, Zenon
<1>6. /\ Span(InterruptClocks + n) = Span(InterruptClocks) + Span(n)
      /\ Span((1 + DmaClocks) + InterruptClocks)
           = Span(1 + DmaClocks) + Span(InterruptClocks)
      /\ Span(n) \in Nat
  BY <1>1, ClockConstants, SpanTimes, Zenon
<1> HIDE DEF Span
<1> QED
  BY <1>2, <1>3, <1>5, <1>6, RestTypes

(* Bringing the unit up to date leaves the next vblank as far as it was.    *)
LEMMA AdvanceAhead ==
  ASSUME NEW p, Sound(p), NEW k \in Nat, NEW r \in Int,
         p.nmi = 1 => Ahead(p) >= k + r, k + r < Lines(TotalLines),
         Dots(p, k).nmi = 1
  PROVE  Ahead(Dots(p, k)) >= r
<1>1. Quiet(p, k) /\ Fresh(p, k)
  BY AheadDots, RaisedDots, Zenon
<1> DEFINE q == Dots(p, k)
<1>2. /\ Ahead(q) >= Ahead(p) - k
      /\ p.nmi = 0 => Ahead(q) >= Lines(TotalLines) - 1 - k
  BY <1>1, Zenon DEF Quiet, Fresh
<1>3. Sound(q)
  BY DotsSound, Zenon
<1> HIDE DEF q
<1>4. Ahead(p) \in Nat /\ Ahead(q) \in Nat /\ Lines(TotalLines) \in Int
  BY <1>3, UntilNext, RestTypes
<1>5. p.nmi \in {0, 1}
  BY DEF Sound, Placed, Units
<1>6. Ahead(q) >= r
  BY <1>2, <1>4, <1>5
<1> QED
  BY <1>6 DEF q

LEMMA KeptAhead ==
  ASSUME NEW p, NEW q, Kept(p, q) PROVE Ahead(q) = Ahead(p) /\ q.nmi = p.nmi
BY Zenon DEF Kept, Ahead

LEMMA RestInit == Init => RestInv
<1> SUFFICES ASSUME Init PROVE RestInv
  OBVIOUS
<1>1. ppu.nmi = 0
  BY DEF Init, PowerOn
<1> QED
  BY <1>1, RestTypes DEF Init, RestInv

LEMMA RestStep == SoundInv /\ RestInv /\ [Next]_vars => RestInv'
<1> SUFFICES ASSUME SoundInv, RestInv, [Next]_vars PROVE RestInv'
  OBVIOUS
<1>0. /\ Sound(ppu) /\ lag \in Nat /\ left \in Nat /\ second \in {0, 1}
      /\ at \in {"head", "instruction", "dma", "interrupt"}
      /\ ppu.nmi \in {0, 1} /\ Ahead(ppu) \in Nat /\ Span(left) \in Nat
  BY UntilNext, SpanTimes DEF SoundInv, Sound, Placed, Units
<1>1. CASE Interrupt
  <2>1. /\ at = "head" /\ ppu.nmi = 1 /\ at' = "interrupt"
        /\ left' = InterruptClocks /\ ppu' = ppu /\ lag' = lag
    BY <1>1 DEF Interrupt
  <2>2. lag = 0 /\ left = 0 /\ Ahead(ppu) >= Rest
    BY <2>1 DEF RestInv
  <2>3. Rest = Span(InterruptClocks)
    BY <2>1, <2>2, SpanTimes, RestTypes DEF Rest
  <2>4. Rest' = Span(InterruptClocks)
    BY <2>1, <2>2, SpanTimes, RestTypes DEF Rest
  <2> QED
    BY <2>1, <2>2, <2>3, <2>4, RestTypes DEF RestInv
<1>2. CASE Emulate
  <2>1. /\ at = "head" /\ ppu.nmi = 0 /\ at' = "instruction"
        /\ left' \in Lengths /\ ppu' = ppu /\ lag' = lag
    BY <1>2 DEF Emulate
  <2>2. lag <= Span(InterruptClocks)
    BY <2>1 DEF RestInv
  <2>3. Rest' = lag + Span(left') + (Span(1 + DmaClocks) + Span(InterruptClocks))
    BY <2>1 DEF Rest
  <2>4. Rest' < Lines(TotalLines)
    BY <1>0, <2>1, <2>2, <2>3, InstructionFits, RestTypes
  <2> QED
    BY <2>1, <2>4 DEF RestInv
<1>3. CASE Clock
  <2>1. /\ left > 0 /\ left' = left - 1 /\ lag' = lag + DotsPerClock
        /\ ppu' = ppu /\ at' = at
    BY <1>3 DEF Clock
  <2>2. Span(left) = Span(left') + DotsPerClock /\ Span(left') \in Nat
    <3>1. left - 1 \in Nat /\ (left - 1) + 1 = left
      BY <1>0, <2>1
    <3> QED
      BY <2>1, <3>1, SpanTimes
  <2>3. Rest' = Rest
    BY <1>0, <2>1, <2>2, SpanTimes, RestTypes DEF Rest
  <2>4. at # "head"
    BY <1>0, <2>1 DEF RestInv
  <2> QED
    BY <2>1, <2>3, <2>4 DEF RestInv
<1>4. CASE Access
  <2>1. /\ at = "instruction" /\ left > 0 /\ left' = left - 1
        /\ lag' = DotsPerClock /\ at' = at
        /\ ppu' \in Accesses(Dots(ppu, lag))
    BY <1>4 DEF Access, CatchUpToCpu
  <2>2. Span(left) = Span(left') + DotsPerClock /\ Span(left') \in Nat
    <3>1. left - 1 \in Nat /\ (left - 1) + 1 = left
      BY <1>0, <2>1
    <3> QED
      BY <2>1, <3>1, SpanTimes
  <2>3. Rest' + lag = Rest /\ Rest' \in Int
    <3>1. /\ Rest = lag + Span(left) + (Span(1 + DmaClocks) + Span(InterruptClocks))
          /\ Rest' = DotsPerClock + Span(left') + (Span(1 + DmaClocks) + Span(InterruptClocks))
      BY <2>1 DEF Rest
    <3>2. DotsPerClock \in Nat
      BY SpanTimes
    <3> QED
      BY <1>0, <2>2, <3>1, <3>2, RestTypes
  <2>4. lag + Rest' < Lines(TotalLines) /\ (ppu.nmi = 1 => Ahead(ppu) >= lag + Rest')
    BY <1>0, <2>1, <2>3 DEF RestInv
  <2>5. Dots(ppu, lag).nmi = 1 => Ahead(Dots(ppu, lag)) >= Rest'
    BY <1>0, <2>3, <2>4, AdvanceAhead
  <2>6. Ahead(ppu') = Ahead(Dots(ppu, lag)) /\ ppu'.nmi = Dots(ppu, lag).nmi
    <3>1. Sound(Dots(ppu, lag))
      BY <1>0, DotsSound, Zenon
    <3> QED
      BY <2>1, <3>1, AccessSound, KeptAhead, Zenon
  <2>7. Rest' < Lines(TotalLines)
    BY <1>0, <2>3, <2>4, RestTypes
  <2> QED
    BY <2>1, <2>5, <2>6, <2>7 DEF RestInv
<1>5. CASE Dma
  <2> DEFINE k == lag + ((1 - second) * DotsPerClock)
  <2>1. /\ at = "instruction" /\ left = 1 /\ left' = left + DmaClocks
        /\ lag' = 0 /\ at' = "dma"
        /\ \E line \in SpriteLines : ppu' = LoadSprites(Dots(ppu, k), line)
    BY <1>5 DEF Dma
  <2>2. k \in Nat /\ k <= lag + DotsPerClock
    <3>1. (1 - second) * DotsPerClock \in {0, DotsPerClock}
      BY <1>0, WaitType, Zenon
    <3>2. DotsPerClock \in Nat
      BY SpanTimes
    <3>3. \A w \in {0, DotsPerClock} : lag + w \in Nat /\ lag + w <= lag + DotsPerClock
      BY <1>0, <3>2
    <3> QED
      BY <3>1, <3>3, Zenon
  <2> HIDE DEF k
  <2>3. Rest = lag + DotsPerClock + (Span(1 + DmaClocks) + Span(InterruptClocks))
    BY <1>0, <2>1, SpanTimes, RestTypes DEF Rest
  <2>4. Rest' = Span(1 + DmaClocks) + Span(InterruptClocks)
    <3>1. left' = 1 + DmaClocks
      BY <2>1
    <3>2. Rest' = 0 + Span(1 + DmaClocks) + Span(InterruptClocks)
      BY <2>1, <3>1 DEF Rest
    <3> QED
      BY <3>2, RestTypes
  <2>5. k + Rest' <= Rest /\ Rest' \in Nat /\ Rest \in Nat
    <3>1. DotsPerClock \in Nat
      BY SpanTimes
    <3>2. Span(1 + DmaClocks) \in Nat /\ Span(InterruptClocks) \in Nat
      BY RestTypes
    <3> QED
      BY <1>0, <2>2, <2>3, <2>4, <3>1, <3>2
  <2>6. Rest < Lines(TotalLines) /\ (ppu.nmi = 1 => Ahead(ppu) >= Rest)
    BY <2>1 DEF RestInv
  <2>7. Dots(ppu, k).nmi = 1 => Ahead(Dots(ppu, k)) >= Rest'
    <3>1. /\ ppu.nmi = 1 => Ahead(ppu) >= k + Rest'
          /\ k + Rest' < Lines(TotalLines)
      <4>1. Lines(TotalLines) \in Int
        BY RestTypes
      <4>2. \A i, r, m \in Nat : \A a \in Nat, l \in Int :
              i + r <= m => (m < l => i + r < l) /\ (a >= m => a >= i + r)
        OBVIOUS
      <4> QED
        BY <1>0, <2>2, <2>5, <2>6, <4>1, <4>2, Zenon
    <3> QED
      BY <1>0, <2>2, <2>5, <3>1, AdvanceAhead
  <2>8. Ahead(ppu') = Ahead(Dots(ppu, k)) /\ ppu'.nmi = Dots(ppu, k).nmi
    <3>1. Sound(Dots(ppu, k))
      BY <1>0, <2>2, DotsSound, Zenon
    <3>2. PICK line \in SpriteLines : ppu' = LoadSprites(Dots(ppu, k), line)
      BY <2>1
    <3>3. line \in Nat
      BY ClockConstants
    <3> QED
      BY <3>1, <3>2, <3>3, LoadSound, KeptAhead, Zenon
  <2>9. Rest' < Lines(TotalLines)
    <3>1. Lines(TotalLines) \in Int
      BY RestTypes
    <3>2. \A i, r, m \in Nat : \A l \in Int : i + r <= m /\ m < l => r < l
      OBVIOUS
    <3> QED
      BY <2>2, <2>5, <2>6, <3>1, <3>2, Zenon
  <2> QED
    BY <2>1, <2>7, <2>8, <2>9 DEF RestInv
<1>6. CASE PostCpuCycle
  <2>1. /\ at \in {"instruction", "dma"} /\ left = 0 /\ left' = left
        /\ lag' = 0 /\ at' = "head" /\ ppu' = Dots(ppu, lag)
    BY <1>6 DEF PostCpuCycle, CatchUpToCpu
  <2>2. Rest' = Span(InterruptClocks)
    BY <2>1, SpanTimes, RestTypes DEF Rest
  <2>3. lag + Rest' <= Rest /\ Rest \in Nat
    <3>1. Rest = lag + Span(left) + (IF at = "instruction"
                   THEN Span(1 + DmaClocks) + Span(InterruptClocks)
                   ELSE Span(InterruptClocks))
      BY <2>1 DEF Rest
    <3> QED
      BY <1>0, <2>2, <3>1, RestTypes
  <2>4. Rest < Lines(TotalLines) /\ (ppu.nmi = 1 => Ahead(ppu) >= Rest)
    BY <2>1 DEF RestInv
  <2>5. Dots(ppu, lag).nmi = 1 => Ahead(Dots(ppu, lag)) >= Rest'
    <3>1. /\ ppu.nmi = 1 => Ahead(ppu) >= lag + Rest'
          /\ lag + Rest' < Lines(TotalLines) /\ Rest' \in Int
      BY <1>0, <2>2, <2>3, <2>4, RestTypes
    <3> QED
      BY <1>0, <3>1, AdvanceAhead
  <2> QED
    BY <2>1, <2>5, RestTypes DEF RestInv
<1>7. CASE IrqTaken
  <2>1. /\ at = "interrupt" /\ left = 0 /\ left' = left /\ lag' = lag
        /\ at' = "head" /\ ppu' = [ppu EXCEPT !.nmi = 0]
    BY <1>7 DEF IrqTaken
  <2>2. ppu'.nmi = 0
    BY <1>0, <2>1, TakenSound
  <2>3. lag <= Span(InterruptClocks)
    BY <1>0, <2>1, SpanTimes, RestTypes DEF RestInv, Rest
  <2> QED
    BY <2>1, <2>2, <2>3 DEF RestInv
<1>8. CASE UNCHANGED vars
  BY <1>8 DEF vars, RestInv, Rest
<1> QED
  BY <1>1, <1>2, <1>3, <1>4, <1>5, <1>6, <1>7, <1>8 DEF Next

-----------------------------------------------------------------------------
(* EagerPpu's operators are those of Ppu2c02.                               *)

LEMMA SameStateStep == \A p : Eager!StateStep(p) = StateStep(p)
<1> TAKE p
<1>1. /\ Eager!LastTileDot = LastTileDot /\ Eager!LastSpriteDot = LastSpriteDot
      /\ Eager!LastTailDot = LastTailDot /\ Eager!LineDots = LineDots
      /\ Eager!VblankLine = VblankLine /\ Eager!Follows = Follows
  BY Zenon DEF Eager!LastTileDot, LastTileDot, Eager!LastSpriteDot, LastSpriteDot,
    Eager!LastTailDot, LastTailDot, Eager!LineDots, LineDots,
    Eager!VblankLine, VblankLine, Eager!Follows, Follows
<1>2. Eager!Fetches = Fetches
  BY <1>1, Zenon DEF Eager!Fetches, Fetches
<1>3. Eager!LineStart(p) = LineStart(p)
  BY Zenon DEF Eager!LineStart, LineStart
<1>4. Eager!Vblank(p) = Vblank(p)
  BY <1>1, Zenon DEF Eager!Vblank, Vblank
<1>5. Eager!PostrenderStep(p) = PostrenderStep(p)
  BY <1>1, <1>4, Zenon DEF Eager!PostrenderStep, PostrenderStep
<1>6. Eager!NewLine(p) = NewLine(p)
  BY Zenon DEF Eager!NewLine, NewLine
<1>7. \A q : Eager!Tick(q) = Tick(q)
  BY Zenon DEF Eager!Tick, Tick
<1>8. Eager!TileDone(p) = TileDone(p)
  <2>1. Eager!DrawPixels(p) = DrawPixels(p)
    BY <1>1, Zenon DEF Eager!DrawPixels, DrawPixels
  <2>2. \A a : Eager!IncrHoriz(a) = IncrHoriz(a)
    BY Zenon DEF Eager!IncrHoriz, IncrHoriz
  <2>3. \A a, t : Eager!IncrVert(a, t) = IncrVert(a, t)
    BY Zenon DEF Eager!IncrVert, IncrVert, Eager!FromTemp, FromTemp
  <2>4. \A q : Eager!EvaluateSprites(q) = EvaluateSprites(q)
    BY Zenon DEF Eager!EvaluateSprites, EvaluateSprites
  <2> DEFINE d == DrawPixels(p)
  <2>5. Eager!TileDone(p) =
          IF p.dot # LastTileDot
          THEN [d EXCEPT !.v = Eager!IncrHoriz(@), !.state = "FETCH_NT"]
          ELSE IF p.line = 0 THEN [d EXCEPT !.state = "FETCH_BAD_NT"]
          ELSE Eager!EvaluateSprites(
                 [d EXCEPT !.v = Eager!IncrVert(@, p.t), !.state = "FETCH_BAD_NT"])
    BY <1>1, <2>1, Zenon DEF Eager!TileDone
  <2>6. /\ Eager!IncrHoriz(d.v) = IncrHoriz(d.v)
        /\ Eager!IncrVert(d.v, p.t) = IncrVert(d.v, p.t)
    BY <2>2, <2>3, Zenon
  <2>7. Eager!TileDone(p) =
          IF p.dot # LastTileDot
          THEN [d EXCEPT !.v = IncrHoriz(@), !.state = "FETCH_NT"]
          ELSE IF p.line = 0 THEN [d EXCEPT !.state = "FETCH_BAD_NT"]
          ELSE EvaluateSprites(
                 [d EXCEPT !.v = IncrVert(@, p.t), !.state = "FETCH_BAD_NT"])
    BY <2>4, <2>5, <2>6, Zenon
  <2> QED
    BY <2>7, Zenon DEF TileDone
<1>9. Eager!Fetched(p) = Fetched(p)
  <2>1. Eager!IncrHoriz(p.v) = IncrHoriz(p.v)
    BY Zenon DEF Eager!IncrHoriz, IncrHoriz
  <2> QED
    BY <1>1, <1>8, <2>1, Zenon DEF Eager!Fetched, Fetched
<1> QED
  BY <1>1, <1>2, <1>3, <1>5, <1>6, <1>7, <1>9, Zenon DEF Eager!StateStep, StateStep

LEMMA SameStep == \A p : Eager!PpuStep(p) = PpuStep(p)
<1> TAKE p
<1>1. Eager!CopyVertical(p) = CopyVertical(p)
  BY Zenon DEF Eager!CopyVertical, CopyVertical
<1>2. Eager!PpuStep(p) = Eager!StateStep(CopyVertical(p))
  BY <1>1, Zenon DEF Eager!PpuStep
<1> QED
  BY <1>2, SameStateStep, Zenon DEF PpuStep

EagerTable(f, p, n) ==
  f = [i \in 0 .. n |-> IF i = 0 THEN {p} ELSE {Eager!PpuStep(q) : q \in f[i - 1]}]

LEMMA SameDots == \A p, n : Eager!Dots(p, n) = Dots(p, n)
<1> TAKE p, n
<1>1. \A S : {Eager!PpuStep(q) : q \in S} = {PpuStep(q) : q \in S}
  BY SameStep, Zenon
<1>2. \A f : EagerTable(f, p, n) <=> Table(f, p, n)
  <2> TAKE f
  <2>1. \A i : {Eager!PpuStep(q) : q \in f[i - 1]} = Steps(f[i - 1])
    BY <1>1, Zenon DEF Steps
  <2>2. [i \in 0 .. n |-> IF i = 0 THEN {p} ELSE {Eager!PpuStep(q) : q \in f[i - 1]}]
          = [i \in 0 .. n |-> IF i = 0 THEN {p} ELSE Steps(f[i - 1])]
    BY <2>1, Zenon
  <2> QED
    BY <2>2, Zenon DEF EagerTable, Table
<1>3. (CHOOSE f : EagerTable(f, p, n)) = (CHOOSE f : Table(f, p, n))
  BY <1>2, Zenon
<1>4. Eager!Dots(p, n) = CHOOSE q \in (CHOOSE f : EagerTable(f, p, n))[n] : TRUE
  BY Zenon DEF Eager!Dots, EagerTable
<1>5. Dots(p, n) = CHOOSE q \in (CHOOSE f : Table(f, p, n))[n] : TRUE
  BY Zenon DEF Dots, Table, Steps
<1> QED
  BY <1>3, <1>4, <1>5, Zenon

LEMMA SameAccesses == \A p : Eager!Accesses(p) = Accesses(p)
<1> TAKE p
<1>1. Eager!ReadStatus(p) = ReadStatus(p) /\ Eager!MoveOn(p) = MoveOn(p)
  BY Zenon DEF Eager!ReadStatus, ReadStatus, Eager!MoveOn, MoveOn,
    Eager!Fields, Fields, Eager!Linear, Linear, Eager!Address, Address
<1>2. \A enable : Eager!WriteControl(p, enable, 1, 0, 0) = WriteControl(p, enable, 1, 0, 0)
  BY Zenon DEF Eager!WriteControl, WriteControl
<1>3. \A on : Eager!WriteMask(p, on) = WriteMask(p, on)
  BY Zenon DEF Eager!WriteMask, WriteMask
<1>4. \A coarse, fine :
        Eager!WriteScroll(p, coarse, fine) = WriteScroll(p, coarse, fine)
  BY Zenon DEF Eager!WriteScroll, WriteScroll
<1>5. \A value : Eager!WriteAddr(p, value) = WriteAddr(p, value)
  BY ZenonT(40) DEF Eager!WriteAddr, WriteAddr, Eager!Fields, Fields,
    Eager!Linear, Linear, Eager!Address, Address
<1>6. \A q : q \in Eager!Accesses(p) <=> q \in Accesses(p)
  BY <1>1, <1>2, <1>3, <1>4, <1>5, Zenon DEF Eager!Accesses, Accesses
<1> QED
  BY <1>6, Zenon

LEMMA SameLoadAndStart ==
  /\ \A p, line : Eager!LoadSprites(p, line) = LoadSprites(p, line)
  /\ Eager!PowerOn = PowerOn
BY Zenon
DEF Eager!LoadSprites, LoadSprites, Eager!PowerOn, PowerOn,
  Eager!Fields, Fields, Eager!Address, Address

(* Step by step.                                                            *)
LEMMA EagerInit == Init => Eager!Init
BY DotsZero, SameLoadAndStart, Zenon DEF Init, Eager!Init

LEMMA EagerStep ==
  SoundInv /\ RestInv /\ [Next]_vars => [Eager!Next]_(Dots(ppu, lag))
<1> SUFFICES ASSUME SoundInv, RestInv, [Next]_vars
             PROVE  Eager!Next \/ Dots(ppu', lag') = Dots(ppu, lag)
  OBVIOUS
<1>0. /\ Sound(ppu) /\ lag \in Nat /\ DotsPerClock \in Nat /\ second \in {0, 1}
  BY SpanTimes DEF SoundInv
<1>1. CASE Interrupt
  BY <1>1 DEF Interrupt
<1>2. CASE Emulate
  BY <1>2 DEF Emulate
<1>3. CASE Clock
  <2>1. ppu' = ppu /\ lag' = lag + DotsPerClock
    BY <1>3 DEF Clock
  <2>2. Dots(ppu, lag + DotsPerClock) = Dots(Dots(ppu, lag), DotsPerClock)
    BY <1>0, DotsAdd, Zenon
  <2>3. Eager!Clock
    BY <2>1, <2>2, SameDots, Zenon DEF Eager!Clock
  <2> QED
    BY <2>3, Zenon DEF Eager!Next
<1>4. CASE Access
  <2>1. ppu' \in Accesses(Dots(ppu, lag)) /\ lag' = DotsPerClock
    BY <1>4 DEF Access, CatchUpToCpu
  <2>2. Eager!Access
    BY <2>1, SameDots, SameAccesses, Zenon DEF Eager!Access
  <2> QED
    BY <2>2, Zenon DEF Eager!Next
<1>5. CASE Dma
  <2>1. lag' = 0
    BY <1>5 DEF Dma
  <2>2. PICK line \in SpriteLines :
          ppu' = LoadSprites(Dots(ppu, lag + ((1 - second) * DotsPerClock)), line)
    BY <1>5 DEF Dma
  <2>3. 1 - second \in {0, 1} /\ (1 - second) * DotsPerClock \in Nat
    <3>1. (1 - second) * DotsPerClock \in {0, DotsPerClock}
      BY <1>0, WaitType, Zenon
    <3>2. \A w \in {0, DotsPerClock} : w \in Nat
      BY <1>0
    <3>3. 1 - second \in {0, 1}
      BY <1>0
    <3> QED
      BY <3>1, <3>2, <3>3, Zenon
  <2>4. Dots(ppu, lag + ((1 - second) * DotsPerClock))
          = Dots(Dots(ppu, lag), (1 - second) * DotsPerClock)
    BY <1>0, <2>3, DotsAdd, Zenon
  <2>5. Dots(ppu', lag')
          = LoadSprites(Dots(Dots(ppu, lag), (1 - second) * DotsPerClock), line)
    BY <2>1, <2>2, <2>4, DotsZero, Zenon
  <2>6. Eager!Dma
    BY <2>3, <2>5, SameDots, SameLoadAndStart, Zenon DEF Eager!Dma
  <2> QED
    BY <2>6, Zenon DEF Eager!Next
<1>6. CASE PostCpuCycle
  <2>1. ppu' = Dots(ppu, lag) /\ lag' = 0
    BY <1>6 DEF PostCpuCycle, CatchUpToCpu
  <2> QED
    BY <2>1, DotsZero, Zenon
<1>7. CASE IrqTaken
  <2>1. /\ at = "interrupt" /\ left = 0 /\ lag' = lag /\ ppu' = Taken(ppu)
    BY <1>7 DEF IrqTaken, Taken
  <2>2. ppu.nmi = 1 /\ Ahead(ppu) >= Rest
    BY <2>1 DEF RestInv
  <2>3. Rest = lag
    BY <1>0, <2>1, SpanTimes DEF Rest
  <2>4. /\ Dots(ppu, lag).nmi = 1
        /\ Dots(Taken(ppu), lag) = Taken(Dots(ppu, lag))
    <3>1. Quiet(ppu, lag)
      BY <1>0, AheadDots, Zenon
    <3> QED
      BY <2>2, <2>3, <3>1, Zenon DEF Quiet
  <2>5. Eager!IrqTaken
    BY <2>1, <2>4, Zenon DEF Eager!IrqTaken, Taken
  <2> QED
    BY <2>5, Zenon DEF Eager!Next
<1>8. CASE UNCHANGED vars
  BY <1>8 DEF vars
<1> QED
  BY <1>1, <1>2, <1>3, <1>4, <1>5, <1>6, <1>7, <1>8 DEF Next

\* A unit that is advanced when it is looked at is as good as one that is never
\* behind (2c02.cc:448-455, nes.cc:151-158).
THEOREM CatchUpIsEager == Spec => LazyIsEager
<1>1. Init => Eager!Init
  BY EagerInit
<1>2. Init => SoundInv /\ RestInv
  BY SoundInit, RestInit
<1>3. SoundInv /\ RestInv /\ [Next]_vars => SoundInv' /\ RestInv'
  BY SoundStep, RestStep
<1>4. SoundInv /\ RestInv /\ [Next]_vars => [Eager!Next]_(Dots(ppu, lag))
  BY EagerStep
<1> QED
  BY <1>1, <1>2, <1>3, <1>4, PTL DEF Spec, LazyIsEager, Eager!Spec
=============================================================================
