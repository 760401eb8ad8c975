------------------------------- MODULE Ppu2c02 -------------------------------
(***************************************************************************)
(* The NES picture unit (src/system/nes/2c02.cc), one dot at a time: the   *)
(* fetch state machine of a scanline, the scroll address it moves, vblank  *)
(* and its NMI, the hit of sprite 0, and the registers a program writes.   *)
(*                                                                         *)
(* The unit is a record and an operation is an operator on it: PpuStep is  *)
(* run both by the unit that is behind the CPU (NesClock) and by the one   *)
(* that is not (EagerPpu).  Pixels, tiles and palettes are left out; the   *)
(* background is opaque, and sprite 0 is one tile wide and SpriteHeight    *)
(* lines high, in the last column of a line.                               *)
(*                                                                         *)
(* The program has 32 tiles and 8 sprite fetches on a line of 341 dots,    *)
(* and 240 visible lines of 262.                                           *)
(***************************************************************************)
EXTENDS Integers, FiniteSets

CONSTANTS
  TilesPerLine,    \* background tiles of a line
  SpritesPerLine,  \* sprite fetches of a line
  CopyDots,        \* dots of line 0 that copy the vertical scroll
  VisibleLines,    \* num_render_scanlines
  TotalLines,      \* total_scanlines
  SpriteHeight,
  Scrolls, Addrs   \* values written to PPUSCROLL and PPUADDR

\* The dots the state machine is tied to: 256, 320, 336 and 341 in the program.
LastTileDot == 8 * TilesPerLine
LastSpriteDot == LastTileDot + 8 * SpritesPerLine
LastTailDot == LastSpriteDot + 16
LineDots == LastTailDot + 5

\* The line after the visible ones, where vblank begins.
VblankLine == VisibleLines + 1

ASSUME PpuAssumption ==
  /\ TilesPerLine \in Nat \ {0} /\ SpritesPerLine \in Nat \ {0}
  /\ CopyDots \subseteq LastTileDot + 1 .. LastSpriteDot /\ CopyDots # {}
  /\ VisibleLines \in 2 .. 240 /\ TotalLines \in Nat /\ TotalLines > VblankLine
  /\ SpriteHeight \in Nat \ {0}
  /\ Scrolls \subseteq [coarse : 0 .. 31, fine : 0 .. 7]
  /\ Addrs \subseteq 0 .. 255

-----------------------------------------------------------------------------
(* vram_addr and reg_t: fine y above the nametable, coarse y and coarse x  *)

Address(fine, nty, ntx, y, x) ==
  [fine |-> fine, nty |-> nty, ntx |-> ntx, y |-> y, x |-> x]

Linear(a) == a.x + 32 * (a.y + 32 * (a.ntx + 2 * (a.nty + 2 * a.fine)))
Fields(n) == Address((n \div 4096) % 16, (n \div 2048) % 2, (n \div 1024) % 2,
                     (n \div 32) % 32, n % 32)

IncrHoriz(a) ==
  IF a.x = 31 THEN [a EXCEPT !.x = 0, !.ntx = 1 - @] ELSE [a EXCEPT !.x = @ + 1]

\* Both nametable bits are taken from reg_t, so that leaving row 29 does not
\* change the nametable.
FromTemp(a, t) == [a EXCEPT !.nty = t.nty, !.ntx = t.ntx, !.x = t.x]

IncrVertPast29(a, t) ==   \* Variant: row 29 is followed by row 30
  FromTemp(IF a.fine % 8 # 7 THEN [a EXCEPT !.fine = @ + 1]
           ELSE [a EXCEPT !.fine = 0, !.y = (@ + 1) % 32], t)

IncrVert(a, t) ==
  FromTemp(IF a.fine % 8 # 7 THEN [a EXCEPT !.fine = @ + 1]
           ELSE [a EXCEPT !.fine = 0, !.y = IF @ \in {29, 31} THEN 0 ELSE @ + 1], t)

-----------------------------------------------------------------------------
(* The steps of a scanline.  p is the unit:                                *)
(*   line, dot, state   current_scanline, current_pixel_clock and state    *)
(*   rendering, enable  rendering_enabled, and bit 7 of control            *)
(*   vblank, hit        bits 7 and 6 of status                             *)
(*   odd                bit 0 of frame_id                                  *)
(*   v, t, latch        vram_addr, reg_t and addr_write                    *)
(*   increment          of vram_addr after an access to memory             *)
(*   sprite, on_line    the line of sprite 0 in oam; 1 when EvaluateSprites*)
(*                      has chosen it                                      *)
(*   nmi                the interrupt source assert_nmi raises in the CPU  *)
(* and, to state properties by,                                            *)
(*   nmis               how often assert_nmi was called since line 0       *)
(*   steady             1: line 0 was rendered and no register that steers *)
(*                      the scroll has been accessed since                 *)

PowerOn ==
  [line |-> 0, dot |-> 0, state |-> "FETCH_SCANLINE_START",
   rendering |-> 0, enable |-> 0, vblank |-> 0, hit |-> 0, odd |-> 0,
   v |-> Fields(0), t |-> Fields(0), latch |-> 0, increment |-> 1,
   sprite |-> 0, on_line |-> 0, nmi |-> 0, nmis |-> 0, steady |-> 0]

CopyVertical(p) ==
  IF p.rendering = 1 /\ p.line = 0 /\ p.dot \in CopyDots
  THEN [p EXCEPT !.v = [@ EXCEPT !.fine = p.t.fine, !.y = p.t.y]]
  ELSE p

\* Only here is rendering_enabled looked at: a line is rendered or it is not.
\* The first visible line of an odd frame is one dot short.
LineStart(p) ==
  LET skips == p.line = 1 /\ p.rendering = 1 /\ p.odd = 1
      begun == [p EXCEPT
        !.state = IF p.rendering = 1 THEN "FETCH_NT" ELSE "RENDER_DISABLED_SCANLINE",
        !.dot = IF skips THEN @ + 2 ELSE @ + 1,
        !.steady = IF p.rendering = 0 THEN 0 ELSE IF p.line = 0 THEN 1 ELSE @]
  IN  IF p.line = 0 THEN [begun EXCEPT !.vblank = 0, !.hit = 0, !.nmis = 0] ELSE begun

\* Sprite 0 is in the last column.
DrawPixels(p) ==
  IF p.line # 0 /\ p.dot = LastTileDot /\ p.on_line = 1 /\ p.rendering = 1
  THEN [p EXCEPT !.hit = 1] ELSE p

EvaluateSprites(p) ==
  LET y == p.line - 1
  IN  [p EXCEPT !.on_line = IF p.sprite <= y /\ y < p.sprite + SpriteHeight THEN 1 ELSE 0]

TileDone(p) ==
  LET drawn == DrawPixels(p)
  IN  IF p.dot # LastTileDot
      THEN [drawn EXCEPT !.v = IncrHoriz(@), !.state = "FETCH_NT"]
      ELSE IF p.line = 0 THEN [drawn EXCEPT !.state = "FETCH_BAD_NT"]
      ELSE EvaluateSprites([drawn EXCEPT !.v = IncrVert(@, p.t), !.state = "FETCH_BAD_NT"])

\* The states that fetch a byte and move on, and the ones that branch.
Follows ==
  [FETCH_NT |-> "FETCH_AT", FETCH_AT |-> "FETCH_BG", FETCH_BG |-> "FETCH_BG2",
   FETCH_BAD_NT |-> "FETCH_BAD_NT2", FETCH_BAD_NT2 |-> "FETCH_SPRITE_LOW",
   FETCH_SPRITE_LOW |-> "FETCH_SPRITE_HIGH",
   FETCH_TAIL_NT |-> "FETCH_TAIL_AT", FETCH_TAIL_AT |-> "FETCH_TAIL_BG",
   FETCH_TAIL_BG |-> "FETCH_TAIL_BG2", END_NT1 |-> "END_NT2"]

Fetches == DOMAIN Follows \cup {"FETCH_BG2", "FETCH_SPRITE_HIGH", "FETCH_TAIL_BG2"}

Fetched(p) ==
  CASE p.state \in DOMAIN Follows -> [p EXCEPT !.state = Follows[@]]
    [] p.state = "FETCH_BG2" -> TileDone(p)
    [] p.state = "FETCH_SPRITE_HIGH" ->
         [p EXCEPT !.state = IF p.dot = LastSpriteDot THEN "FETCH_TAIL_NT" ELSE "FETCH_BAD_NT"]
    [] p.state = "FETCH_TAIL_BG2" ->
         [p EXCEPT !.v = IncrHoriz(@),
                   !.state = IF p.dot = LastTailDot THEN "END_NT1" ELSE "FETCH_TAIL_NT"]

NewLine(p) ==
  [p EXCEPT !.dot = 0, !.line = @ + 1,
            !.state = IF p.line = VisibleLines THEN "POSTRENDER_SCANLINE"
                                               ELSE "FETCH_SCANLINE_START"]

VblankHeld(p) ==   \* Variant: NMI on every dot of the line from dot 4
  IF p.line # VblankLine THEN p
  ELSE IF p.dot = 1 THEN [p EXCEPT !.vblank = 1, !.odd = 1 - @]
  ELSE IF p.dot >= 4 /\ p.vblank = 1 /\ p.enable = 1 THEN [p EXCEPT !.nmi = 1, !.nmis = @ + 1]
  ELSE p

Vblank(p) ==
  IF p.line # VblankLine THEN p
  ELSE IF p.dot = 1 THEN [p EXCEPT !.vblank = 1, !.odd = 1 - @]
  ELSE IF p.dot = 4 /\ p.vblank = 1 /\ p.enable = 1 THEN [p EXCEPT !.nmi = 1, !.nmis = @ + 1]
  ELSE p

PostrenderStep(p) ==
  LET q == Vblank(p)
  IN  IF p.dot # LineDots - 1 THEN [q EXCEPT !.dot = @ + 1]
      ELSE IF p.line # TotalLines - 1 THEN [q EXCEPT !.dot = 0, !.line = @ + 1]
      ELSE [q EXCEPT !.dot = 0, !.line = 0, !.state = "FETCH_SCANLINE_START"]

Tick(p) == [p EXCEPT !.dot = @ + 1]

StateStep(p) ==
  CASE p.state = "FETCH_SCANLINE_START" -> LineStart(p)
    [] p.state = "POSTRENDER_SCANLINE" -> PostrenderStep(p)
    [] p.state = "RENDER_DISABLED_SCANLINE" -> IF p.dot = LineDots - 1 THEN NewLine(p) ELSE Tick(p)
    [] p.state = "END_NT2" -> IF p.dot % 2 = 0 THEN NewLine(p) ELSE Tick(p)
    [] p.state \in Fetches -> IF p.dot % 2 = 0 THEN Tick(Fetched(p)) ELSE Tick(p)

PpuStep(p) == StateStep(CopyVertical(p))

\* The unit n dots later; as a set, for TLC to evaluate each step once.
Dots(p, n) ==
  LET after[i \in 0 .. n] == IF i = 0 THEN {p} ELSE {PpuStep(q) : q \in after[i - 1]}
  IN  CHOOSE q \in after[n] : TRUE

-----------------------------------------------------------------------------
(* Registers *)

ReadStatus(p) == [p EXCEPT !.vblank = 0, !.latch = 0]

\* PPUDATA, read or written.
MoveOn(p) == [p EXCEPT !.v = Fields(Linear(@) + p.increment), !.steady = 0]

WriteControl(p, enable, increment, nty, ntx) ==
  [p EXCEPT !.enable = enable, !.increment = increment, !.steady = 0,
            !.t = [@ EXCEPT !.nty = nty, !.ntx = ntx]]

WriteMask(p, on) == [p EXCEPT !.rendering = on, !.steady = 0]

WriteScroll(p, coarse, fine) ==
  [p EXCEPT !.latch = 1 - @, !.steady = 0,
            !.t = IF p.latch = 0 THEN [@ EXCEPT !.x = coarse]
                  ELSE [@ EXCEPT !.y = coarse, !.fine = fine]]

\* PPUADDR: 6 bits, then 8 and the transfer to vram_addr.
WriteAddr(p, value) ==
  LET t == IF p.latch = 0 THEN Fields((Linear(p.t) % 256) + (256 * (value % 64)))
           ELSE Fields(256 * (Linear(p.t) \div 256) + value)
  IN  [p EXCEPT !.latch = 1 - @, !.steady = 0, !.t = t,
                !.v = IF p.latch = 0 THEN @ ELSE t]

\* What an access to a register, read or written, makes of the unit.
Accesses(p) ==
  {ReadStatus(p), MoveOn(p)}
    \cup {WriteControl(p, enable, 1, 0, 0) : enable \in {0, 1}}
    \cup {WriteMask(p, on) : on \in {0, 1}}
    \cup {WriteScroll(p, s.coarse, s.fine) : s \in Scrolls}
    \cup {WriteAddr(p, value) : value \in Addrs}

\* OamDma: oam is replaced, sprite 0 among it.
LoadSprites(p, line) == [p EXCEPT !.sprite = line]

-----------------------------------------------------------------------------
(* For the properties                                                       *)

\* The line of the picture an address is on, and the line r lines below it: the
\* nametable ends with row 29, and rows 30 and 31 can only be left downwards.
PictureLine(a) == 8 * a.y + (a.fine % 8)
Below(line, r) ==
  IF line < 240 THEN (line + r) % 240
  ELSE IF line + r < 256 THEN line + r ELSE (line + r) - 256
=============================================================================
