------------------------------ MODULE EagerPpu ------------------------------
(***************************************************************************)
(* What a program is promised of the picture unit: it advances with every  *)
(* clock of the CPU, and an access to one of its registers meets it at the *)
(* dot the access is made at, before the clock of the access passes.       *)
(***************************************************************************)
EXTENDS Ppu2c02

CONSTANTS
  DotsPerClock,   \* cpu_clock_size / ppu_clock_size: 3 in the program
  SpriteLines     \* lines a program may put sprite 0 on

VARIABLE beam

Init == beam = PowerOn
Clock == beam' = Dots(beam, DotsPerClock)
Access == \E q \in Accesses(beam) : beam' = Dots(q, DotsPerClock)

\* A DMA of the sprites, after a clock to align it or at once.
Dma ==
  \E wait \in {0, 1}, line \in SpriteLines :
    beam' = LoadSprites(Dots(beam, wait * DotsPerClock), line)

\* The CPU takes the interrupt.
IrqTaken == beam.nmi = 1 /\ beam' = [beam EXCEPT !.nmi = 0]

Next == Clock \/ Access \/ Dma \/ IrqTaken
Spec == Init /\ [][Next]_beam
=============================================================================
