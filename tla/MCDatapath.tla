----------------------------- MODULE MCDatapath -----------------------------
(***************************************************************************)
(* The parts an instruction's data passes: the arithmetic, the addressing  *)
(* modes and the bus of the C256 board.  They share no state, so that each *)
(* is explored with the others at rest: part names the one that runs.      *)
(***************************************************************************)
EXTENDS Alu65816, Addressing65816, C256Board

VARIABLE part

datapathVars == <<part, alu, core, mem, probe, cell, open_bus>>

\* Two banks of two pages of two bytes, with bytes of both values in each.
MCRom == [a \in 0 .. 7 |-> (a + a \div 2) % 2]

\* The multiplier, the dividers and the adder with all of their registers, and
\* one address of each kind of page, with a trapped byte and its image.
MCProbes ==
  {256 .. 263, 264 .. 271, 272 .. 279, 280 .. 287, 288 .. 299,
   {336, 416, 24 * 65536 + 416, 64 * 65536, 175 * 65536, 176 * 65536, 240 * 65536}}

MCInit ==
  /\ part \in {"alu", "addressing", "board"}
  /\ IF part = "alu" THEN AluInit ELSE alu = [a |-> 0, m |-> 0, p |-> {"D"}]
  /\ AddressingInit
  /\ part # "addressing" => core.table = "6502"
  /\ IF part = "board" THEN BoardInit ELSE probe = {} /\ cell = <<>> /\ open_bus = 0

MCNext ==
  \/ /\ part = "alu"
     /\ AluNext
     /\ UNCHANGED <<part, core, mem, probe, cell, open_bus>>
  \/ /\ part = "addressing"
     /\ AddressingNext
     /\ UNCHANGED <<part, alu, probe, cell, open_bus>>
  \/ /\ part = "board"
     /\ BoardNext
     /\ UNCHANGED <<part, alu, core, mem>>

MCSpec == MCInit /\ [][MCNext]_datapathVars
=============================================================================
