------------------------- MODULE Ili9341Controller -------------------------
(***************************************************************************)
(* The ILI9341 display controller at the other end of the SPI bus, as its  *)
(* datasheet describes it.  This is the environment of the driver, not     *)
(* code of the repository; only the commands the driver sends are given a  *)
(* meaning, every other command's parameters are ignored.                  *)
(*                                                                         *)
(* The bus carries a transcript: a sequence of writes, each a command byte *)
(* (D/C low), a block of data bytes (D/C high), or a delay the host        *)
(* inserts.  Frame memory is modelled for the top-left PanelW x PanelH     *)
(* pixels; a pixel written outside them is not observed.  A pixel is the   *)
(* sequence of bytes the controller received for it, in order: two in the  *)
(* 16-bit format (COLMOD 0x55), three in the 18-bit format of reset.       *)
(***************************************************************************)
EXTENDS Naturals, Sequences

CONSTANTS PanelW, PanelH

Panel == (0 .. PanelW - 1) \X (0 .. PanelH - 1)
Unset == <<>>                      \* a pixel no write has reached

\* The three kinds of write on the bus.  flags is the Display::Signal the
\* host hands lcd_write_ with a transfer; the controller never sees it.
NONE == "none"
FLUSH == "flush"
DataWith(bs, f) == [dc |-> "data", bytes |-> bs, flags |-> f]
Cmd(b) == [dc |-> "cmd", bytes |-> <<b>>, flags |-> NONE]
Data(bs) == DataWith(bs, NONE)
Delay == [dc |-> "delay", bytes |-> <<>>, flags |-> NONE]

\* Command codes (datasheet section 8).
SLPOUT == 17
INVOFF == 32
INVON == 33
DISPOFF == 40
DISPON == 41
CASET == 42
RASET == 43
RAMWR == 44
COLMOD == 58

\* After hardware reset: asleep, display off, 18-bit pixels, full window.
CtrlInit ==
    [cmd |-> 0, params |-> <<>>, pend |-> <<>>,
     sc |-> 0, ec |-> 239, sp |-> 0, ep |-> 319, col |-> 0, row |-> 0,
     awake |-> FALSE, busy |-> FALSE, on |-> FALSE, inverted |-> FALSE,
     colmod |-> 102,
     fb |-> [p \in Panel |-> Unset]]

\* A command byte.  After SLPOUT the controller needs 5 ms before it takes
\* a new command; one sent earlier is lost.  RAMWR moves the write pointer
\* to the start of the window.
CmdByte(c, b) ==
    IF c.busy THEN c
    ELSE LET d == [c EXCEPT !.cmd = b, !.params = <<>>, !.pend = <<>>] IN
         CASE b = SLPOUT  -> [d EXCEPT !.awake = TRUE, !.busy = TRUE]
           [] b = DISPON  -> [d EXCEPT !.on = TRUE]
           [] b = DISPOFF -> [d EXCEPT !.on = FALSE]
           [] b = INVON   -> [d EXCEPT !.inverted = TRUE]
           [] b = INVOFF  -> [d EXCEPT !.inverted = FALSE]
           [] b = RAMWR   -> [d EXCEPT !.col = d.sc, !.row = d.sp]
           [] OTHER       -> d

\* One pixel at the write pointer; the pointer runs along the row and
\* down the window, and stops past its last row.
WritePixel(c, px) ==
    IF c.row > c.ep THEN c
    ELSE [c EXCEPT
            !.fb = IF <<c.col, c.row>> \in Panel
                   THEN [c.fb EXCEPT ![<<c.col, c.row>>] = px] ELSE c.fb,
            !.col = IF c.col < c.ec THEN c.col + 1 ELSE c.sc,
            !.row = IF c.col < c.ec THEN c.row ELSE c.row + 1]

Word(p) == p[1] * 256 + p[2]

\* Bytes per pixel of the interface pixel format (COLMOD DBI bits).
PixelBytes(c) == IF c.colmod % 8 = 5 THEN 2 ELSE 3

\* A data byte, interpreted by the command it follows.
DataByte(c, b) ==
    LET ps == Append(c.params, b) IN
    CASE c.cmd = CASET /\ Len(ps) = 4 ->
            [c EXCEPT !.params = ps, !.sc = Word(ps), !.ec = Word(SubSeq(ps, 3, 4))]
      [] c.cmd = RASET /\ Len(ps) = 4 ->
            [c EXCEPT !.params = ps, !.sp = Word(ps), !.ep = Word(SubSeq(ps, 3, 4))]
      [] c.cmd \in {CASET, RASET} /\ Len(ps) < 4 -> [c EXCEPT !.params = ps]
      [] c.cmd = COLMOD /\ Len(ps) = 1 -> [c EXCEPT !.params = ps, !.colmod = b]
      [] c.cmd = RAMWR /\ Len(c.pend) + 1 < PixelBytes(c) ->
            [c EXCEPT !.pend = Append(c.pend, b)]
      [] c.cmd = RAMWR -> [WritePixel(c, Append(c.pend, b)) EXCEPT !.pend = <<>>]
      [] OTHER -> c

\* The controller after the data bytes bs, one at a time.
DataBytes(c, bs) ==
    LET after[i \in 0 .. Len(bs)] ==
            IF i = 0 THEN c ELSE DataByte(after[i - 1], bs[i])
    IN  after[Len(bs)]

CtrlWrite(c, w) ==
    CASE w.dc = "cmd"   -> CmdByte(c, w.bytes[1])
      [] w.dc = "data"  -> DataBytes(c, w.bytes)
      [] w.dc = "delay" -> [c EXCEPT !.busy = FALSE]
=============================================================================
