------------------------------ MODULE Console --------------------------------
(***************************************************************************)
(* Consoles that the user interface draws on: the VGA console              *)
(* (drivers/console/vga.c) and the serial console                          *)
(* (drivers/console/serial.c) with the terminal at the other end of the    *)
(* line.  What is drawn is a sequence of operations of console_out_ops_t;  *)
(* every console is a record they are applied to.                          *)
(*                                                                         *)
(* A word that a property does not look into is one cell wide; "BS" is a   *)
(* backspace.                                                              *)
(***************************************************************************)
EXTENDS Integers, Sequences, SequencesExt, TLC

CONSTANTS Width, Height   \* of the screen

Puts(word) == <<[op |-> "puts", word |-> word]>>
Putc(ch) == [op |-> "puts", word |-> <<ch>>]
Colour(attrib) == [op |-> "colour", attrib |-> attrib]
SetRegion(x, y, w, h) == [op |-> "region", region |-> [x |-> x, y |-> y, w |-> w, h |-> h, scrollable |-> FALSE]]
WholeScreen == [op |-> "region", region |-> [x |-> 0, y |-> 0, w |-> Width, h |-> Height, scrollable |-> TRUE]]
SetCursor(x, y) == [op |-> "cursor", x |-> x, y |-> y]
Visible(on) == [op |-> "visible", on |-> on]
Clear == [op |-> "clear"]
ScrollUp == [op |-> "scroll_up"]
ScrollDown == [op |-> "scroll_down"]

(* console_get_region() and console_get_cursor_pos(), and going back to    *)
(* what they returned.                                                     *)
Save == [op |-> "save"]
RestoreRegion == [op |-> "restore region"]
RestoreCursor == [op |-> "restore cursor"]
(* One line of the region that was saved.                                  *)
LineOfRegion(pos) == [op |-> "line", pos |-> pos]

(* Only the background of a blank can be seen.                             *)
Cell(ch, attrib) == IF ch = " " THEN <<" ", IF attrib = "selected" THEN "light" ELSE "dark">> ELSE <<ch, attrib>>
Blank(attrib) == Cell(" ", attrib)
BlankRow(attrib) == [x \in 1 .. Width |-> Blank(attrib)]
(* A screen is a sequence of rows.                                         *)
BlankScreen == <<>> \o [y \in 1 .. Height |-> <<>> \o BlankRow("default")]

Right(region) == region.x + region.w
Bottom(region) == region.y + region.h

(* The rows of the region replaced by others, as far as the region goes.   *)
RowFrom(row, other, region) ==
  SubSeq(row, 1, region.x) \o SubSeq(other, region.x + 1, Right(region)) \o SubSeq(row, Right(region) + 1, Width)
WithRows(cells, region, rows) ==
  SubSeq(cells, 1, region.y) \o [i \in 1 .. region.h |-> RowFrom(cells[region.y + i], rows[i], region)]
  \o SubSeq(cells, Bottom(region) + 1, Height)
Filled(cells, region, attrib) == WithRows(cells, region, [i \in 1 .. region.h |-> BlankRow(attrib)])
MovedUp(cells, region, attrib) ==
  WithRows(cells, region, SubSeq(cells, region.y + 2, Bottom(region)) \o <<BlankRow(attrib)>>)
MovedDown(cells, region, attrib) ==
  WithRows(cells, region, <<BlankRow(attrib)>> \o SubSeq(cells, region.y + 1, Bottom(region) - 1))

LineRegion(saved, pos) == [saved EXCEPT !.y = @ + pos, !.h = 1]
RegionFits(region) == region.w > 0 /\ region.h > 0 /\ Right(region) <= Width /\ Bottom(region) <= Height
CursorAt(region, pos, size, start) == IF pos < 0 THEN start + size + pos ELSE start + pos
Magnitude(n) == IF n < 0 THEN -n ELSE n
CursorFits(region, x, y) == Magnitude(x) < region.w /\ Magnitude(y) < region.h

-----------------------------------------------------------------------------
NothingSaved == [region |-> WholeScreen.region, x |-> 0, y |-> 0]

(* The VGA console.  bad: an assertion has failed.                         *)
VgaInit ==
  [cells |-> BlankScreen, region |-> WholeScreen.region, x |-> 0, y |-> 0, attrib |-> "default", visible |-> TRUE,
   saved |-> NothingSaved, bad |-> FALSE]

vga_console_set_region(s, region) ==
  [s EXCEPT !.region = region, !.x = region.x, !.y = region.y, !.bad = @ \/ ~RegionFits(region)]
vga_console_set_cursor_pos(s, x, y) ==
  [s EXCEPT !.x = CursorAt(s.region, x, s.region.w, s.region.x), !.y = CursorAt(s.region, y, s.region.h, s.region.y),
            !.bad = @ \/ ~CursorFits(s.region, x, y)]

VgaWrapped(s) ==
  IF s.x < Right(s.region) THEN s ELSE [s EXCEPT !.x = s.region.x, !.y = @ + 1]
VgaBottom(s) ==
  IF s.y < Bottom(s.region) THEN s
  ELSE [s EXCEPT !.y = Bottom(s.region) - 1,
                 !.cells = IF s.region.scrollable THEN MovedUp(@, s.region, s.attrib) ELSE @]
VgaMoved(s, ch) ==
  CASE ch = "BS" ->
         IF s.x > s.region.x THEN [s EXCEPT !.x = @ - 1]
         ELSE IF s.y > s.region.y THEN [s EXCEPT !.x = Right(s.region) - 1, !.y = @ - 1] ELSE s
    [] ch = "\r" -> [s EXCEPT !.x = s.region.x]
    [] ch = "\n" -> [s EXCEPT !.x = s.region.x, !.y = @ + 1]
    [] OTHER -> [s EXCEPT !.cells[s.y + 1][s.x + 1] = Cell(ch, s.attrib), !.x = @ + 1]
vga_console_putc(s, ch) == VgaBottom(VgaWrapped(VgaMoved(s, ch)))

VgaOp(s, o) ==
  CASE o.op = "puts" -> FoldLeft(vga_console_putc, s, o.word)
    [] o.op = "colour" -> [s EXCEPT !.attrib = o.attrib]
    [] o.op = "region" -> vga_console_set_region(s, o.region)
    [] o.op = "line" -> vga_console_set_region(s, LineRegion(s.saved.region, o.pos))
    [] o.op = "cursor" -> vga_console_set_cursor_pos(s, o.x, o.y)
    [] o.op = "visible" -> [s EXCEPT !.visible = o.on]
    [] o.op = "clear" -> [s EXCEPT !.cells = Filled(@, s.region, s.attrib)]
    [] o.op = "scroll_up" -> [s EXCEPT !.cells = MovedDown(@, s.region, s.attrib)]
    [] o.op = "scroll_down" -> [s EXCEPT !.cells = MovedUp(@, s.region, s.attrib)]
    [] o.op = "save" -> [s EXCEPT !.saved = [region |-> s.region, x |-> s.x - s.region.x, y |-> s.y - s.region.y]]
    [] o.op = "restore region" -> vga_console_set_region(s, s.saved.region)
    [] o.op = "restore cursor" -> vga_console_set_cursor_pos(s, s.saved.x, s.saved.y)

(* Nothing is drawn after an assertion has failed.                         *)
RECURSIVE VgaDraw(_, _)
VgaDraw(s, ops) == IF s.bad \/ ops = <<>> THEN s ELSE VgaDraw(VgaOp(s, Head(ops)), Tail(ops))

-----------------------------------------------------------------------------
(* The terminal: an ANSI terminal as the escape sequences take it to be.   *)
(* A character in the last column leaves the cursor there until the next.  *)
Margins(t) == [x |-> 0, y |-> t.top, w |-> Width, h |-> t.bottom - t.top + 1]
TermUp(t) == [t EXCEPT !.cells = MovedUp(@, Margins(t), t.attrib)]
TermBack(t) == [t EXCEPT !.cells = MovedDown(@, Margins(t), t.attrib)]
TermDown(t) ==
  IF t.cy = t.bottom THEN TermUp(t) ELSE IF t.cy < Height - 1 THEN [t EXCEPT !.cy = @ + 1] ELSE t
TermPrint(t, ch) ==
  LET u == IF t.pending THEN [TermDown(t) EXCEPT !.cx = 0, !.pending = FALSE] ELSE t
  IN [u EXCEPT !.cells[u.cy + 1][u.cx + 1] = Cell(ch, u.attrib), !.pending = (u.cx = Width - 1),
               !.cx = IF @ = Width - 1 THEN @ ELSE @ + 1]
serial_port_write(t, ch) ==
  CASE ch = "BS" -> [t EXCEPT !.cx = IF @ > 0 THEN @ - 1 ELSE @, !.pending = FALSE]
    [] ch = "\r" -> [t EXCEPT !.cx = 0, !.pending = FALSE]
    [] ch = "\n" -> [TermDown(t) EXCEPT !.pending = FALSE]
    [] OTHER -> TermPrint(t, ch)

(* The serial console: x and y are cursor_x and cursor_y, what the driver  *)
(* takes the position to be.                                               *)
set_absolute_cursor(t, x, y) == [t EXCEPT !.x = x, !.y = y, !.cx = x, !.cy = y, !.pending = FALSE]

(* A region that is not to scroll is made one line higher.                 *)
BelowRegionMutant(scrollable) == 0
BelowRegion(scrollable) == IF scrollable THEN 0 ELSE 1
set_scroll_region(t, region, scrollable) ==
  IF region.y > 0 \/ Bottom(region) < Height
  THEN [t EXCEPT !.top = region.y, !.bottom = Bottom(region) - 1 + BelowRegion(scrollable)]
  ELSE [t EXCEPT !.top = 0, !.bottom = Height - 1]

SerialInit ==
  [cells |-> BlankScreen, region |-> WholeScreen.region, x |-> 0, y |-> 0, cx |-> 0, cy |-> 0, pending |-> FALSE,
   top |-> 0, bottom |-> Height - 1, attrib |-> "default", visible |-> TRUE,
   saved |-> NothingSaved, bad |-> FALSE]

serial_console_set_region(t, region) ==
  set_absolute_cursor(set_scroll_region([t EXCEPT !.region = region, !.bad = @ \/ ~RegionFits(region)],
                                        region, region.scrollable), region.x, region.y)
serial_console_set_cursor_pos(t, x, y) ==
  set_absolute_cursor([t EXCEPT !.bad = @ \/ ~CursorFits(t.region, x, y)],
                      CursorAt(t.region, x, t.region.w, t.region.x), CursorAt(t.region, y, t.region.h, t.region.y))

(* serial_console_putc() in three parts: the position is tracked and the   *)
(* character sent, the edge of the region starts a new line, and the       *)
(* bottom keeps the cursor.  update: the cursor has to be moved.           *)
Tracked(t, ch) ==
  CASE ch = "BS" ->
         IF t.x > t.region.x THEN [t |-> [t EXCEPT !.x = @ - 1], update |-> FALSE]
         ELSE [t |-> [t EXCEPT !.x = Right(t.region) - 1, !.y = @ - 1], update |-> TRUE]
    [] ch = "\r" -> [t |-> [t EXCEPT !.x = t.region.x], update |-> t.region.x > 0]
    [] ch = "\n" -> [t |-> [t EXCEPT !.y = @ + 1], update |-> t.region.x > 0]
    [] OTHER -> [t |-> [t EXCEPT !.x = @ + 1], update |-> FALSE]
Sent(r, ch) == [r EXCEPT !.t = serial_port_write(@, ch)]
AtEdge(r) ==
  IF r.t.x < Right(r.t.region) THEN r
  ELSE IF r.t.region.x > 0 \/ Right(r.t.region) < Width
       THEN [t |-> serial_port_write([r.t EXCEPT !.x = r.t.region.x, !.y = @ + 1], "\n"), update |-> TRUE]
  ELSE [r EXCEPT !.t.x = r.t.region.x, !.t.y = @ + 1]
AtBottom(r) ==
  IF r.t.y < Bottom(r.t.region) THEN r ELSE [t |-> [r.t EXCEPT !.y = Bottom(r.t.region) - 1], update |-> TRUE]
Updated(r) == IF r.update THEN set_absolute_cursor(r.t, r.t.x, r.t.y) ELSE r.t
SerialPutc(t, ch) ==
  IF ch = "BS" /\ t.x = t.region.x /\ t.y = t.region.y THEN t ELSE Updated(AtBottom(AtEdge(Sent(Tracked(t, ch), ch))))
serial_console_putc(t, ch) == IF ch = "\n" THEN SerialPutc(SerialPutc(t, "\r"), ch) ELSE SerialPutc(t, ch)

(* All of the screen is cleared by one sequence, a part by spaces on each  *)
(* of its lines.                                                           *)
serial_console_clear(t) ==
  IF t.region = WholeScreen.region THEN [t EXCEPT !.cells = Filled(@, t.region, t.attrib)]
  ELSE set_absolute_cursor([t EXCEPT !.cells = Filled(@, t.region, t.attrib)], t.x, t.y)

(* The region is made exact while it scrolls.                              *)
Exact(t) == set_scroll_region(t, t.region, TRUE)
Restored(t) == set_absolute_cursor(set_scroll_region(t, t.region, t.region.scrollable), t.x, t.y)
serial_console_scroll_up(t) == Restored(TermBack(Exact(t)))
serial_console_scroll_down(t) == Restored(TermUp(Exact(t)))

SerialOp(t, o) ==
  CASE o.op = "puts" -> FoldLeft(serial_console_putc, t, o.word)
    [] o.op = "colour" -> [t EXCEPT !.attrib = o.attrib]
    [] o.op = "region" -> serial_console_set_region(t, o.region)
    [] o.op = "line" -> serial_console_set_region(t, LineRegion(t.saved.region, o.pos))
    [] o.op = "cursor" -> serial_console_set_cursor_pos(t, o.x, o.y)
    [] o.op = "visible" -> [t EXCEPT !.visible = o.on]
    [] o.op = "clear" -> serial_console_clear(t)
    [] o.op = "scroll_up" -> serial_console_scroll_up(t)
    [] o.op = "scroll_down" -> serial_console_scroll_down(t)
    [] o.op = "save" -> [t EXCEPT !.saved = [region |-> t.region, x |-> t.x - t.region.x, y |-> t.y - t.region.y]]
    [] o.op = "restore region" -> serial_console_set_region(t, t.saved.region)
    [] o.op = "restore cursor" -> serial_console_set_cursor_pos(t, t.saved.x, t.saved.y)

RECURSIVE SerialDraw(_, _)
SerialDraw(t, ops) == IF t.bad \/ ops = <<>> THEN t ELSE SerialDraw(SerialOp(t, Head(ops)), Tail(ops))
=============================================================================
