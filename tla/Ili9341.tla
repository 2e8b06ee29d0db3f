------------------------------- MODULE Ili9341 -------------------------------
(***************************************************************************)
(* espp::Ili9341 (src/components/display_drivers/include/ili9341.hpp,      *)
(* lines 1-232): a static display driver that turns initialize, fill /     *)
(* flush, clear and set_offset into command and data writes on the bus,    *)
(* and the controller that receives them (Ili9341Controller).             *)
(*                                                                         *)
(* Each call runs to completion on the one LVGL thread.  A call's action  *)
(* computes its transcript, the sequence of send_command / send_data calls *)
(* it makes, into bus; BusWrite then hands the controller one write at a   *)
(* time, and no call starts before the last write is out (lcd_write_ is    *)
(* synchronous: send_command sets the D/C pin before each write).  Colours *)
(* are 16-bit values, held in memory little-endian as on the ESP32.        *)
(***************************************************************************)
EXTENDS Naturals, Sequences, SequencesExt, Bitwise, Ili9341Controller

CONSTANTS
    Offsets,          \* values of config.offset_x / offset_y and set_offset
    Sizes,            \* widths and heights passed to clear
    Colors,           \* 16-bit colours of clear and of fill's colour map
    MaxBytesToSend    \* clear's chunk, in uint16 pixels (1024 * 2 in the code)

ASSUME /\ Offsets \subseteq Nat /\ Sizes \subseteq Nat
       /\ Colors \subseteq 0 .. 65535 /\ MaxBytesToSend \in Nat \ {0}

VARIABLES
    offsetX, offsetY,  \* offset_x_, offset_y_
    initialized,       \* initialize has run (lcd_write_ is set)
    invertCfg,         \* config.invert_colors of the last initialize
    lcd,               \* the controller
    bus,               \* the transcript of the latest call
    sent,              \* how many writes of bus are out
    fbBefore,          \* history: frame memory when the latest call began
    lastCall,          \* history: the latest call and its arguments
    calls              \* history: number of calls so far

vars == <<offsetX, offsetY, initialized, invertCfg, lcd, bus, sent, fbBefore,
          lastCall, calls>>

\* The previous call has written its whole transcript.
Idle == sent = Len(bus)

\* A call with transcript tx begins.
Issue(tx) == /\ Idle /\ bus' = tx /\ sent' = 0 /\ fbBefore' = lcd.fb
             /\ calls' = calls + 1 /\ UNCHANGED lcd

X == 0 .. PanelW - 1
Y == 0 .. PanelH - 1
ColorMaps == UNION {[1 .. n -> Colors] : n \in 1 .. PanelW * PanelH}

-----------------------------------------------------------------------------
(* Conversions                                                              *)

\* uintN_t arithmetic: the 16-bit truncation of start_x, end_x, ...
U16(n) == n % 65536

\* The bytes of a uint16_t (or lv_color_t) as it lies in ESP32 memory.
\* For the non-negative values here, v & 0xFF is v % 256 and v >> 8 is
\* v \div 256; the arithmetic forms are used where TLC evaluates per pixel.
MemBytes(c) == <<c % 256, c \div 256>>

\* Faulty variant: the low byte first.
Be16LowFirst(v) == <<v % 256, (v \div 256) % 256>>

\* data[0] = (v >> 8) & 0xFF; data[1] = v & 0xFF
Be16(v) == <<(v \div 256) % 256, v % 256>>

\* send_data(data, length, flags): lcd_write_(data, length, flags).
SendData(bs, f) == DataWith(bs, f)

\* enum class Command : uint8_t
Command == [invoff |-> \h20, invon |-> \h21, gamset |-> \h26, dispoff |-> \h28,
            dispon |-> \h29, caset |-> \h2A, raset |-> \h2B, ramwr |-> \h2C,
            rgbset |-> \h2D, ramrd |-> \h2E]

\* Command::caset with the column range, Command::raset with the row range.
Window(sx, ex, sy, ey) ==
    << Cmd(Command.caset), Data(Be16(sx) \o Be16(ex)),
       Cmd(Command.raset), Data(Be16(sy) \o Be16(ey)) >>

-----------------------------------------------------------------------------
(* initialize and send_commands                                             *)

\* ili_init_cmds: command, data bytes, length (0x80: delay after, 0xFF: end).
IliInitCmds ==
  << [command |-> \hCF, data |-> <<\h00, \h83, \h30>>, length |-> 3],
     [command |-> \hED, data |-> <<\h64, \h03, \h12, \h81>>, length |-> 4],
     [command |-> \hE8, data |-> <<\h85, \h01, \h79>>, length |-> 3],
     [command |-> \hCB, data |-> <<\h39, \h2C, \h00, \h34, \h02>>, length |-> 5],
     [command |-> \hF7, data |-> <<\h20>>, length |-> 1],
     [command |-> \hEA, data |-> <<\h00, \h00>>, length |-> 2],
     [command |-> \hC0, data |-> <<\h26>>, length |-> 1],
     [command |-> \hC1, data |-> <<\h11>>, length |-> 1],
     [command |-> \hC5, data |-> <<\h35, \h3E>>, length |-> 2],
     [command |-> \hC7, data |-> <<\hBE>>, length |-> 1],
     [command |-> \h36, data |-> <<\h28>>, length |-> 1],
     [command |-> \h3A, data |-> <<\h55>>, length |-> 1],
     [command |-> \hB1, data |-> <<\h00, \h1B>>, length |-> 2],
     [command |-> \hF2, data |-> <<\h08>>, length |-> 1],
     [command |-> \h26, data |-> <<\h01>>, length |-> 1],
     [command |-> \hE0, data |-> <<\h1F, \h1A, \h18, \h0A, \h0F, \h06, \h45, \h87,
                                   \h32, \h0A, \h07, \h02, \h07, \h05, \h00>>, length |-> 15],
     [command |-> \hE1, data |-> <<\h00, \h25, \h27, \h05, \h10, \h09, \h3A, \h78,
                                   \h4D, \h05, \h18, \h0D, \h38, \h3A, \h1F>>, length |-> 15],
     [command |-> \h2A, data |-> <<\h00, \h00, \h00, \hEF>>, length |-> 4],
     [command |-> \h2B, data |-> <<\h00, \h00, \h01, \h3F>>, length |-> 4],
     [command |-> \h2C, data |-> <<0>>, length |-> 0],
     [command |-> \hB7, data |-> <<\h07>>, length |-> 1],
     [command |-> \hB6, data |-> <<\h0A, \h82, \h27, \h00>>, length |-> 4],
     [command |-> \h11, data |-> <<0>>, length |-> \h80],
     [command |-> \h29, data |-> <<0>>, length |-> \h80],
     [command |-> 0, data |-> <<0>>, length |-> \hFF] >>

\* Faulty variant: the loop stops at the first command without data.
IsEndZeroLength(c) == c.length = 0

\* while (commands[cmd].length != 0xff)
IsEnd(c) == c.length = \hFF

\* if (commands[cmd].length & 0x80) sleep_for(100ms)
HasDelay(c) == (c.length & \h80) # 0

\* The transcript of send_commands from entry i of the table on.
RECURSIVE SendCommands(_, _)
SendCommands(cmds, i) ==
    IF IsEnd(cmds[i]) THEN <<>>
    ELSE << Cmd(cmds[i].command),
            Data(SubSeq(cmds[i].data, 1, cmds[i].length & \h1F)) >>
         \o (IF HasDelay(cmds[i]) THEN <<Delay>> ELSE <<>>)
         \o SendCommands(cmds, i + 1)

\* initialize(config): store the offsets, send the table, then
\* send_command(0x21) or send_command(0x20).
Initialize(invert, ox, oy) ==
    LET tx == SendCommands(IliInitCmds, 1) \o << Cmd(IF invert THEN \h21 ELSE \h20) >>
    IN  /\ offsetX' = ox /\ offsetY' = oy
        /\ initialized' = TRUE /\ invertCfg' = invert
        /\ Issue(tx)
        /\ lastCall' = [op |-> "init", invert |-> invert]

-----------------------------------------------------------------------------
(* fill / flush                                                             *)

\* lv_area_get_width(area) * lv_area_get_height(area): areas are inclusive.
PixelCount(x1, y1, x2, y2) == (x2 - x1 + 1) * (y2 - y1 + 1)

FillTx(x1, y1, x2, y2, map, flags) ==
    Window(U16(x1 + offsetX), U16(x2 + offsetX), U16(y1 + offsetY), U16(y2 + offsetY))
    \o << Cmd(Command.ramwr),
          SendData(FlattenSeq([i \in 1 .. PixelCount(x1, y1, x2, y2) |->
                                 MemBytes(map[i])]), flags) >>

\* fill(drv, area, color_map, flags): the flags travel with the pixels.
Fill(x1, y1, x2, y2, map, flags) ==
    LET tx == FillTx(x1, y1, x2, y2, map, flags) IN
    /\ initialized /\ Issue(tx)
    /\ lastCall' = [op |-> "fill", x1 |-> x1, y1 |-> y1, x2 |-> x2, y2 |-> y2,
                    map |-> map, flags |-> flags]
    /\ UNCHANGED <<offsetX, offsetY, initialized, invertCfg>>

\* flush(drv, area, color_map): LVGL's flush_cb, fill with Signal::FLUSH.
Flush(x1, y1, x2, y2, map) == Fill(x1, y1, x2, y2, map, FLUSH)

-----------------------------------------------------------------------------
(* clear, set_offset                                                        *)

MemsetByte(color) == color % 256

\* Faulty variant: every chunk a full buffer.
ChunkLenFull(size, i) == MaxBytesToSend

\* std::min((int)(size-i), (int)(max_bytes_to_send))
ChunkLen(size, i) == IF size - i < MaxBytesToSend THEN size - i ELSE MaxBytesToSend

\* for (i = 0; i < size; i += max_bytes_to_send) send_data(color_data, num_bytes * 2)
RECURSIVE ClearChunks(_, _, _)
ClearChunks(size, i, b) ==
    IF i < size
    THEN << SendData([j \in 1 .. 2 * ChunkLen(size, i) |-> b], NONE) >>
         \o ClearChunks(size, i + MaxBytesToSend, b)
    ELSE <<>>

\* end_x = (x+width) + offset_x_; end_y = (y+width) + offset_y_
ClearTx(x, y, w, h, color) ==
    Window(U16(x + offsetX), U16(x + w + offsetX), U16(y + offsetY), U16(y + w + offsetY))
    \o << Cmd(Command.ramwr) >> \o ClearChunks(w * h, 0, MemsetByte(color))

\* clear(x, y, width, height, color)
Clear(x, y, w, h, color) ==
    LET tx == ClearTx(x, y, w, h, color) IN
    /\ initialized /\ Issue(tx)
    /\ lastCall' = [op |-> "clear", x |-> x, y |-> y, w |-> w, h |-> h, color |-> color]
    /\ UNCHANGED <<offsetX, offsetY, initialized, invertCfg>>

\* set_offset(x, y): no bus traffic.
SetOffset(x, y) ==
    /\ offsetX' = x /\ offsetY' = y
    /\ Issue(<<>>) /\ lastCall' = [op |-> "set_offset"]
    /\ UNCHANGED <<initialized, invertCfg>>

\* lcd_write_: the next write of the current call reaches the controller.
BusWrite ==
    /\ ~Idle
    /\ lcd' = CtrlWrite(lcd, bus[sent + 1]) /\ sent' = sent + 1
    /\ UNCHANGED <<offsetX, offsetY, initialized, invertCfg, bus, fbBefore,
                   lastCall, calls>>

-----------------------------------------------------------------------------

\* The static members start zeroed; the controller is fresh from reset.
Init ==
    /\ offsetX = 0 /\ offsetY = 0
    /\ initialized = FALSE /\ invertCfg = FALSE
    /\ lcd = CtrlInit /\ bus = <<>> /\ sent = 0 /\ fbBefore = lcd.fb
    /\ lastCall = [op |-> "none"] /\ calls = 0

Next ==
    \/ \E inv \in BOOLEAN, ox, oy \in Offsets : Initialize(inv, ox, oy)
    \/ \E x1, x2 \in X, y1, y2 \in Y :
         /\ x1 <= x2 /\ y1 <= y2
         /\ \E map \in [1 .. PixelCount(x1, y1, x2, y2) -> Colors] :
              Fill(x1, y1, x2, y2, map, NONE) \/ Flush(x1, y1, x2, y2, map)
    \/ \E x \in X, y \in Y, w, h \in Sizes, c \in Colors : Clear(x, y, w, h, c)
    \/ \E ox, oy \in Offsets : SetOffset(ox, oy)
    \/ BusWrite

Spec == Init /\ [][Next]_vars

-----------------------------------------------------------------------------
(* Properties                                                               *)

Writes == [dc : {"cmd", "data", "delay"}, bytes : Seq(0 .. 255), flags : {NONE, FLUSH}]

TypeOK ==
    /\ offsetX \in Offsets \cup {0} /\ offsetY \in Offsets \cup {0}
    /\ initialized \in BOOLEAN /\ invertCfg \in BOOLEAN
    /\ bus \in Seq(Writes) /\ sent \in 0 .. Len(bus)
    /\ \A p \in Panel : lcd.fb[p] \in {Unset} \cup [1 .. 2 -> 0 .. 255] \cup [1 .. 3 -> 0 .. 255]
    /\ lcd.pend \in Seq(0 .. 255) /\ Len(lcd.pend) < 3

\* The frame memory after a call that writes pixels: the rectangle
\* x1..x2 x y1..y2 of the panel holds Px(p), the rest is as it was.
Painted(fb, x1, y1, x2, y2, Px(_)) ==
    [p \in Panel |-> IF p[1] \in x1 .. x2 /\ p[2] \in y1 .. y2 THEN Px(p) ELSE fb[p]]

\* Once initialize has run and its writes are out, the controller is
\* awake, its display is on, it takes 16-bit pixels and its inversion is
\* what the last initialize asked for, whatever fill, clear and set_offset
\* calls follow.
PanelStaysConfigured ==
    (initialized /\ Idle) =>
        /\ lcd.awake /\ lcd.on /\ ~lcd.busy
        /\ lcd.colmod = \h55
        /\ lcd.inverted = invertCfg

\* When a fill (or flush) is written out, its area shifted by the offsets
\* holds its colour map row by row, and every other pixel is as it was.
FillPaintsArea ==
    (Idle /\ lastCall.op = "fill") =>
        LET a == lastCall
            x1 == a.x1 + offsetX
            y1 == a.y1 + offsetY
            x2 == a.x2 + offsetX
            y2 == a.y2 + offsetY
        IN  lcd.fb = Painted(fbBefore, x1, y1, x2, y2,
                       LAMBDA p : MemBytes(a.map[(p[2] - y1) * (x2 - x1 + 1) + p[1] - x1 + 1]))

\* When a clear is written out, exactly its width x height rectangle,
\* shifted by the offsets, holds the colour's bytes as a fill of that
\* colour would send them, and every other pixel is as it was.
ClearPaintsArea ==
    (Idle /\ lastCall.op = "clear") =>
        LET a == lastCall IN
        lcd.fb = Painted(fbBefore, a.x + offsetX, a.y + offsetY,
                         a.x + a.w - 1 + offsetX, a.y + a.h - 1 + offsetY,
                         LAMBDA p : MemBytes(a.color))

\* clear's chunk loop sends width x height pixels in all, in transfers that
\* are non-empty and no longer than color_data (max_bytes_to_send uint16s).
ClearSendsArea ==
    lastCall.op = "clear" =>
        LET chunks == SubSeq(bus, 6, Len(bus)) IN
        /\ \A i \in DOMAIN chunks :
              Len(chunks[i].bytes) \in 1 .. 2 * MaxBytesToSend
        /\ FoldSeq(LAMBDA w, n : Len(w.bytes) + n, 0, chunks)
             = 2 * lastCall.w * lastCall.h
=============================================================================
