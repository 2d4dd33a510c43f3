-------------------------------- MODULE Ui -----------------------------------
(***************************************************************************)
(* The text user interface (ui.c) on a console: nested windows (lists of   *)
(* entries, the editor of a text box, a view of the debug log), each drawn *)
(* once in full and then updated in place.  The same operations go to a    *)
(* VGA console and to a serial console.                                    *)
(*                                                                         *)
(* A title, a separator, an action of the help line and the text of a      *)
(* label are one cell wide each.                                           *)
(***************************************************************************)
EXTENDS Console

CONSTANTS
  Entries,        \* list window -> its entries, [type, label]
  BoxValues,      \* what the text box may contain at first
  Missing,        \* a character that stands for a reference to no variable
  Log,            \* the debug log: [buf, start, length], buf indexed from 0
  MenuTimeout,    \* seconds the menu waits
  MaxEdits,       \* bound: changes of a value or of a text
  LINE_EDITOR_CHUNK_SIZE,
  Printable       \* characters isprint() accepts

(* No list begins with a section: ui_list_insert() would fail.             *)
ASSUME EntriesAssumption == \A w \in DOMAIN Entries : Entries[w][1].type # "label"

VARIABLES
  ui,       \* stack, titles, lists, values, editor, error, view, lines and timeout: see UiInit
  screen,   \* the VGA console
  term,     \* the serial console and its terminal
  edits     \* such changes so far
uiVars == <<ui, screen, term, edits>>

ContentWidth == Width - 4
ContentHeight == Height - 6

TitleRegion == <<SetRegion(2, 1, Width - 4, 1), Colour("white")>>
HelpRegion == <<SetRegion(2, Height - 2, Width - 4, 1), Colour("white")>>
ErrorRegion == <<SetRegion(2, Height - 4, Width - 4, 1), Colour("yellow")>>
ContentRegion == <<SetRegion(2, 3, ContentWidth, ContentHeight), Colour("grey")>>

Top(u) == Last(u.stack)
Lists == DOMAIN Entries
Listed(u) == u.lists[Top(u)]
SelectedEntry(u) == Entries[Top(u)][Listed(u).selected]
SelectedIs(type) == Top(ui) \in Lists /\ SelectedEntry(ui).type = type

(* ui_entry_selectable(): only a label has neither input nor help.         *)
ui_entry_selectable(entry) == entry.type # "label"

-----------------------------------------------------------------------------
(***************************************************************************)
(* The line editor (lib/line_editor.c).  buf is the text, cap what is      *)
(* allocated for it (0: no buffer), offset the place of the cursor.  Every *)
(* operation gives the editor after it and what it writes to the console.  *)
(***************************************************************************)
Edited(ed, out) == [ed |-> ed, out |-> out]
Backspaces(n) == [i \in 1 .. n |-> "BS"]

(* round_up() to whole chunks.                                             *)
Chunks(len) ==
  ((len + LINE_EDITOR_CHUNK_SIZE - 1) \div LINE_EDITOR_CHUNK_SIZE) * LINE_EDITOR_CHUNK_SIZE
line_editor_init(str) == [buf |-> str, offset |-> Len(str), cap |-> Chunks(Len(str))]

line_editor_output(ed) == ed.buf \o Backspaces(Len(ed.buf) - ed.offset)

reprint_from_current(ed, space) ==
  SubSeq(ed.buf, ed.offset + 1, Len(ed.buf)) \o (IF space THEN <<" ", "BS">> ELSE <<>>)
  \o Backspaces(Len(ed.buf) - ed.offset)

(* The buffer grows by a chunk when the text fills it.                     *)
GrownMutant(ed) == IF Len(ed.buf) % LINE_EDITOR_CHUNK_SIZE = 1 THEN Len(ed.buf) + LINE_EDITOR_CHUNK_SIZE ELSE ed.cap
Grown(ed) == IF Len(ed.buf) % LINE_EDITOR_CHUNK_SIZE = 0 THEN Len(ed.buf) + LINE_EDITOR_CHUNK_SIZE ELSE ed.cap
insert_char(ed, ch) ==
  LET after == [buf |-> InsertAt(ed.buf, ed.offset + 1, ch), offset |-> ed.offset + 1, cap |-> Grown(ed)]
  IN Edited(after, <<ch>> \o (IF ed.offset = Len(ed.buf) THEN <<>> ELSE reprint_from_current(after, FALSE)))

(* ... and is cut when what is left fits in whole chunks.                  *)
Removed(ed, offset) ==
  LET len == Len(ed.buf) - 1
  IN [buf |-> RemoveAt(ed.buf, offset + 1), offset |-> offset,
      cap |-> IF len % LINE_EDITOR_CHUNK_SIZE = 0 THEN len ELSE ed.cap]
erase_char(ed, forward) ==
  CASE forward /\ ed.offset = Len(ed.buf) -> Edited(ed, <<>>)
    [] forward /\ ed.offset < Len(ed.buf) ->
         Edited(Removed(ed, ed.offset), reprint_from_current(Removed(ed, ed.offset), TRUE))
    [] ~forward /\ ed.offset = 0 -> Edited(ed, <<>>)
    [] ~forward /\ ed.offset > 0 ->
         Edited(Removed(ed, ed.offset - 1), <<"BS">> \o reprint_from_current(Removed(ed, ed.offset - 1), TRUE))

line_editor_input(ed, key) ==
  CASE key = "left" -> IF ed.offset = 0 THEN Edited(ed, <<>>) ELSE Edited([ed EXCEPT !.offset = @ - 1], <<"BS">>)
    [] key = "right" ->
         IF ed.offset = Len(ed.buf) THEN Edited(ed, <<>>)
         ELSE Edited([ed EXCEPT !.offset = @ + 1], <<ed.buf[ed.offset + 1]>>)
    [] key = "home" -> Edited([ed EXCEPT !.offset = 0], Backspaces(ed.offset))
    [] key = "end" -> Edited([ed EXCEPT !.offset = Len(ed.buf)], SubSeq(ed.buf, ed.offset + 1, Len(ed.buf)))
    [] key = "BS" -> erase_char(ed, FALSE)
    [] key = "delete" -> erase_char(ed, TRUE)
    [] key \in Printable -> insert_char(ed, key)
    [] OTHER -> Edited(ed, <<>>)

(* line_editor_finish() asserts that there is a buffer if there is a text, *)
(* and none if there is not.                                               *)
line_editor_finish_asserts(ed) == (Len(ed.buf) > 0) <=> (ed.cap > 0)

-----------------------------------------------------------------------------
(* The lines of a text view, from a circular buffer.  The byte after the   *)
(* last one is looked at too: when the buffer is full, that is the first.  *)
LogSize == Cardinality(DOMAIN Log.buf)
LogByte(i) == Log.buf[(Log.start + i) % LogSize]
add_textview_line(lines, start, len) ==
  lines \o [i \in 1 .. (IF len = 0 THEN 1 ELSE ((len + ContentWidth - 1) \div ContentWidth)) |->
              [start |-> (start + (i - 1) * ContentWidth) % LogSize,
               len |-> IF len > i * ContentWidth THEN ContentWidth ELSE len - (i - 1) * ContentWidth]]
TextviewScan(acc, i) ==
  IF (i = Log.length /\ acc.len > 0) \/ LogByte(i) = "\n"
  THEN [lines |-> add_textview_line(acc.lines, acc.start, acc.len), start |-> (Log.start + i + 1) % LogSize, len |-> 0]
  ELSE [acc EXCEPT !.len = @ + 1]
ui_textview_create ==
  FoldLeft(TextviewScan, [lines |-> <<>>, start |-> Log.start, len |-> 0], [i \in 1 .. Log.length + 1 |-> i - 1]).lines

render_textview_line(line) ==
  Puts([i \in 1 .. line.len |-> Log.buf[(line.start + i - 1) % LogSize]])
  \o (IF line.len < ContentWidth THEN <<Putc("\n")>> ELSE <<>>)
ui_textview_render(u) ==
  FlattenSeq([i \in 1 .. Min({ContentHeight, Len(u.lines) - u.view}) |-> render_textview_line(u.lines[u.view + i])])
MoreBelow(u) == Len(u.lines) - u.view > ContentHeight
ui_textview_help(u) ==
  (IF u.view > 0 THEN <<"scroll up">> ELSE <<>>) \o (IF MoreBelow(u) THEN <<"scroll down">> ELSE <<>>) \o <<"back">>

-----------------------------------------------------------------------------
(* Entries.  A value that has not enough room is cut.                      *)
Boxed(label, text) ==
  LET avail == ContentWidth - Len(label) - 3
  IN IF Len(text) > avail
     THEN Puts(<<" ", "[">> \o SubSeq(text, 1, avail - 3) \o <<".", ".", ".", "]">>)
     ELSE <<SetCursor(-(Len(text) + 2), 0)>> \o Puts(<<"[">> \o text \o <<"]">>)
ui_label_render(entry) == <<Colour("white")>> \o Puts(entry.label) \o <<Colour("grey")>>
ui_checkbox_render(u, entry) ==
  Puts(entry.label) \o <<SetCursor(-3, 0)>> \o Puts(<<"[", IF u.checked THEN "x" ELSE " ", "]">>)
ui_textbox_render(u, entry) == Puts(entry.label) \o Boxed(entry.label, u.text)
ui_chooser_render(u, entry) == Puts(entry.label) \o Boxed(entry.label, Entries["choices"][u.chosen].label)
ui_choice_render(entry) == Puts(entry.label)
menu_entry_render(entry) == Puts(entry.label)
EntryRender(u, entry) ==
  CASE entry.type = "label" -> ui_label_render(entry)
    [] entry.type = "checkbox" -> ui_checkbox_render(u, entry)
    [] entry.type = "textbox" -> ui_textbox_render(u, entry)
    [] entry.type = "chooser" -> ui_chooser_render(u, entry)
    [] entry.type = "choice" -> ui_choice_render(entry)
    [] entry.type = "menu" -> menu_entry_render(entry)
menu_entry_help == <<"boot", "configure", "log">>
(* A label has no help and is never the selected entry.                    *)
ui_list_help(entry) ==
  CASE entry.type = "checkbox" -> <<"toggle">>
    [] entry.type = "textbox" -> <<"edit">>
    [] entry.type = "chooser" -> <<"change">>
    [] entry.type = "choice" -> <<"select">>
    [] entry.type = "menu" -> menu_entry_help

render_entry(u, entry, pos, selected) ==
  <<Save, LineOfRegion(pos), Colour(IF selected THEN "selected" ELSE "grey"), Clear>>
  \o EntryRender(u, entry) \o <<RestoreRegion, Colour("grey")>>
RenderAt(u, i, selected) == render_entry(u, Entries[Top(u)][i], i - 1 - Listed(u).offset, selected)

(* The offset is set if the selected entry is off the screen.              *)
ShownList(list) ==
  IF list.selected - 1 \in list.offset .. list.offset + ContentHeight - 1 THEN list
  ELSE [list EXCEPT !.offset = list.selected - ContentHeight]
ui_list_render(u) ==
  FlattenSeq([i \in 1 .. Min({ContentHeight, Len(Entries[Top(u)]) - Listed(u).offset}) |->
                RenderAt(u, Listed(u).offset + i, Listed(u).offset + i = Listed(u).selected)])

ui_textbox_editor_render(u) == <<SetCursor(0, 0), Visible(TRUE)>> \o Puts(line_editor_output(u.editor))

-----------------------------------------------------------------------------
(* Windows.                                                                *)
WindowHelp(u) ==
  CASE Top(u) \in Lists -> ui_list_help(SelectedEntry(u))
    [] Top(u) = "editor" -> <<"update", "cancel">>
    [] Top(u) = "log" -> ui_textview_help(u)
WindowRender(u) ==
  CASE Top(u) \in Lists -> ui_list_render(u)
    [] Top(u) = "editor" -> ui_textbox_editor_render(u)
    [] Top(u) = "log" -> ui_textview_render(u)

render_help(u, update) ==
  (IF update THEN <<Save>> ELSE <<>>) \o HelpRegion \o (IF update THEN <<Clear>> ELSE <<>>)
  \o Puts(WindowHelp(u))
  \o (IF u.timeout > 0 THEN <<SetCursor(-1, 0), Putc(ToString(u.timeout))>> ELSE <<>>)
  \o (IF update THEN <<RestoreRegion, Colour("grey"), RestoreCursor>> ELSE <<>>)

(* The last three titles of the stack.                                     *)
TitleWords(titles) ==
  LET last == SubSeq(titles, Max({1, Len(titles) - 2}), Len(titles))
  IN FlattenSeq([i \in DOMAIN last |-> IF i < Len(last) THEN <<last[i], ">">> ELSE <<last[i]>>])
render_window(u) ==
  <<WholeScreen, Colour("grey"), Clear, Visible(FALSE)>> \o TitleRegion \o Puts(TitleWords(u.titles))
  \o render_help(u, FALSE) \o ContentRegion \o WindowRender(u)

(* console_end_ui().                                                       *)
EndUi == <<WholeScreen, Visible(TRUE), Colour("default"), Clear>>

(* What a step draws.  What is saved is saved in local variables.          *)
Done(s) == [s EXCEPT !.saved = NothingSaved]
Draw(u, ops) == ui' = u /\ screen' = Done(VgaDraw(screen, ops)) /\ term' = Done(SerialDraw(term, ops))
(* A window that is about to be drawn in full.                             *)
Settled(u) == IF Top(u) \in Lists THEN [u EXCEPT !.lists[Top(u)] = ShownList(@)] ELSE u
DrawWindow(u) == Draw(Settled(u), render_window(Settled(u)))

(* ui_display() of one more window and what follows it: back in the window *)
(* that opened it, which answers INPUT_RENDER_WINDOW.                      *)
Opened(u, window, titles) == [u EXCEPT !.stack = Append(@, window), !.titles = @ \o titles]
(* The configuration menu has a second title, pushed for its entry.        *)
TitlesOf(window) == IF window = "config" THEN 2 ELSE 1
Closed(u) ==
  [u EXCEPT !.stack = Front(@), !.titles = SubSeq(@, 1, Len(@) - TitlesOf(Top(u))), !.error = FALSE]

-----------------------------------------------------------------------------
(* Lists as they are created and filled: the first entry is selected, in a *)
(* chooser the one that is the value.                                      *)
ui_list_create == [offset |-> 0, selected |-> 1]
ui_list_insert(list, pos, selected) == IF selected THEN [list EXCEPT !.selected = pos] ELSE list
ui_chooser_insert(list, u, pos) == ui_list_insert(list, pos, u.chosen = pos)
NewLists(lists, u) ==
  LET Insert(list, pos) == ui_chooser_insert(list, u, pos)
  IN [lists EXCEPT !["config"] = ui_list_create,
                   !["choices"] = FoldLeft(Insert, ui_list_create, [i \in DOMAIN Entries["choices"] |-> i])]

UiInit ==
  /\ \E text \in BoxValues :
       ui = [stack |-> <<>>, titles |-> <<>>, lists |-> [menu |-> ui_list_create, config |-> ui_list_create, choices |-> ui_list_create], checked |-> FALSE, text |-> text,
             chosen |-> 1, editor |-> line_editor_init(<<>>), error |-> FALSE, view |-> 0, lines |-> <<>>,
             timeout |-> 0]
  /\ screen = VgaInit /\ term = SerialInit /\ edits = 0

DisplayMenu ==
  /\ ui.stack = <<>>
  /\ LET u == [ui EXCEPT !.stack = <<"menu">>, !.titles = <<"Boot Menu">>, !.timeout = MenuTimeout,
                         !.lists["menu"] = ui_list_create]
     IN DrawWindow(u)
  /\ UNCHANGED edits

(* A second passes, or a key stops the timeout.                            *)
Expire ==
  /\ ui.timeout = 1
  /\ Draw([ui EXCEPT !.stack = <<>>, !.titles = <<>>, !.timeout = 0], EndUi)
  /\ UNCHANGED edits
CountDown ==
  /\ ui.timeout > 1
  /\ LET u == [ui EXCEPT !.timeout = @ - 1] IN Draw(u, render_help(u, TRUE))
  /\ UNCHANGED edits
StopTimeout ==
  /\ ui.timeout > 0
  /\ LET u == [ui EXCEPT !.timeout = 0] IN Draw(u, render_help(u, TRUE))
  /\ UNCHANGED edits

Listening == ui.stack # <<>> /\ ui.timeout = 0

-----------------------------------------------------------------------------
(* List windows.  The way to the next entry that can be selected: entries  *)
(* that scroll in on the way are drawn if they will not be.                *)
(* list is at the entry target; ops is what has been drawn.                *)
ScrollUpStep(u, target) ==
  LET v == [u.ui EXCEPT !.lists[Top(u.ui)].offset = @ - 1]
  IN IF target - 1 >= Listed(u.ui).offset THEN u
     ELSE [ui |-> v, ops |-> u.ops \o <<ScrollUp>> \o
             (IF ui_entry_selectable(Entries[Top(u.ui)][target]) THEN <<>> ELSE RenderAt(v, target, FALSE))]
ScrollDownStepMutant(u, target) ==
  IF target - 1 < Listed(u.ui).offset + ContentHeight THEN u
  ELSE [ui |-> [u.ui EXCEPT !.lists[Top(u.ui)].offset = @ + 1], ops |-> u.ops \o <<ScrollDown>>]
ScrollDownStep(u, target) ==
  LET v == [u.ui EXCEPT !.lists[Top(u.ui)].offset = @ + 1]
  IN IF target - 1 < Listed(u.ui).offset + ContentHeight THEN u
     ELSE [ui |-> v, ops |-> u.ops \o <<ScrollDown>> \o
             (IF ui_entry_selectable(Entries[Top(u.ui)][target]) THEN <<>> ELSE RenderAt(v, target, FALSE))]

Selectable(u, range) == {i \in range \cap DOMAIN Entries[Top(u)] : ui_entry_selectable(Entries[Top(u)][i])}

(* The entry left is drawn again if it can still be seen, then the new one *)
(* and the help.                                                           *)
Moved(s, target) ==
  LET old == Listed(s.ui).selected
      v == [s.ui EXCEPT !.lists[Top(s.ui)].selected = target]
      seen == old - 1 \in Listed(s.ui).offset .. Listed(s.ui).offset + ContentHeight - 1
  IN Draw(v, s.ops \o (IF seen THEN RenderAt(s.ui, old, FALSE) ELSE <<>>) \o RenderAt(v, target, TRUE)
             \o render_help(v, TRUE))

(* With none left in that direction the labels there are scrolled in, and  *)
(* the selection stays.                                                    *)
AsShown == [ui |-> ui, ops |-> <<>>]
ListUp ==
  /\ Listening /\ Top(ui) \in Lists
  /\ LET at == Listed(ui).selected
         targets == Selectable(ui, 1 .. at - 1)
         to == IF targets = {} THEN 1 ELSE Max(targets)
         s == FoldLeft(ScrollUpStep, AsShown, [i \in 1 .. at - to |-> at - i])
     IN IF targets = {} THEN Draw(s.ui, s.ops) ELSE Moved(s, to)
  /\ UNCHANGED edits
ListDown ==
  /\ Listening /\ Top(ui) \in Lists
  /\ LET at == Listed(ui).selected
         targets == Selectable(ui, at + 1 .. Len(Entries[Top(ui)]))
         to == IF targets = {} THEN Len(Entries[Top(ui)]) ELSE Min(targets)
         s == FoldLeft(ScrollDownStep, AsShown, [i \in 1 .. to - at |-> at + i])
     IN IF targets = {} THEN Draw(s.ui, s.ops) ELSE Moved(s, to)
  /\ UNCHANGED edits

(* Only the first menu cannot be left with Escape.                         *)
ListEscape ==
  /\ Listening /\ Top(ui) \in Lists \ {"menu"}
  /\ DrawWindow(IF Top(ui) = "config" THEN [Closed(ui) EXCEPT !.lists = NewLists(@, ui)] ELSE Closed(ui))
  /\ UNCHANGED edits

-----------------------------------------------------------------------------
(* Entries.  menu_entry_input() of menu.c comes first: a choice is made,   *)
(* an entry is configured (its window and the lists in it are new), the    *)
(* log is looked at.                                                       *)
MenuSelect ==
  /\ Listening /\ SelectedIs("menu")
  /\ Draw([ui EXCEPT !.stack = <<>>, !.titles = <<>>], EndUi)
  /\ UNCHANGED edits
MenuConfigure ==
  /\ Listening /\ SelectedIs("menu")
  /\ DrawWindow([Opened(ui, "config", <<SelectedEntry(ui).label[1], "Options">>) EXCEPT
                   !.lists = NewLists(@, ui)])
  /\ UNCHANGED edits
debug_log_display ==
  /\ Listening /\ SelectedIs("menu")
  /\ DrawWindow([Opened(ui, "log", <<"Debug Log">>) EXCEPT !.lines = ui_textview_create])
  /\ UNCHANGED edits

ui_checkbox_input ==
  /\ Listening /\ SelectedIs("checkbox")
  /\ LET u == [ui EXCEPT !.checked = ~@] IN Draw(u, RenderAt(u, Listed(u).selected, TRUE))
  /\ edits' = edits + 1 /\ edits' <= MaxEdits
ui_textbox_input ==
  /\ Listening /\ SelectedIs("textbox")
  /\ DrawWindow([Opened(ui, "editor", <<"Edit">>) EXCEPT !.editor = line_editor_init(ui.text)])
  /\ UNCHANGED edits
ui_chooser_input ==
  /\ Listening /\ SelectedIs("chooser")
  /\ DrawWindow(Opened(ui, "choices", SelectedEntry(ui).label))
  /\ UNCHANGED edits
ui_choice_input ==
  /\ Listening /\ SelectedIs("choice")
  /\ DrawWindow(Closed([ui EXCEPT !.chosen = Listed(ui).selected]))
  /\ edits' = (IF ui.chosen = Listed(ui).selected THEN edits ELSE edits + 1) /\ edits' <= MaxEdits

-----------------------------------------------------------------------------
(* The editor of a text box.                                               *)
EditorInput(key) ==
  /\ Listening /\ Top(ui) = "editor"
  /\ edits' = IF line_editor_input(ui.editor, key).ed.buf = ui.editor.buf THEN edits ELSE edits + 1
  /\ edits' <= MaxEdits
  /\ Draw([ui EXCEPT !.editor = line_editor_input(ui.editor, key).ed], Puts(line_editor_input(ui.editor, key).out))

ErrorMessage == <<Save>> \o ErrorRegion \o <<Clear, Putc("not found")>> \o ContentRegion \o <<RestoreCursor>>
(* Enter: the text becomes the value unless it refers to no variable; then *)
(* the editor starts again with it, at the same place.                     *)
Refused(buf) == \E i \in DOMAIN buf : buf[i] = Missing
EditorAccept ==
  /\ Listening /\ Top(ui) = "editor" /\ ~Refused(ui.editor.buf)
  /\ DrawWindow(Closed([ui EXCEPT !.text = ui.editor.buf, !.editor = line_editor_init(<<>>)]))
  /\ UNCHANGED edits
EditorRefuse ==
  /\ Listening /\ Top(ui) = "editor" /\ Refused(ui.editor.buf)
  /\ Draw([ui EXCEPT !.editor = [line_editor_init(@.buf) EXCEPT !.offset = ui.editor.offset], !.error = TRUE], ErrorMessage)
  /\ UNCHANGED edits
EditorCancel ==
  /\ Listening /\ Top(ui) = "editor"
  /\ DrawWindow(Closed([ui EXCEPT !.editor = line_editor_init(<<>>)]))
  /\ UNCHANGED edits

-----------------------------------------------------------------------------
(* A text view.                                                            *)
Viewing == Listening /\ Top(ui) = "log"
ViewUp ==
  /\ Viewing /\ ui.view > 0
  /\ LET u == [ui EXCEPT !.view = @ - 1]
     IN Draw(u, <<ScrollUp, SetCursor(0, 0)>> \o render_textview_line(ui.lines[u.view + 1]) \o render_help(u, TRUE))
  /\ UNCHANGED edits
ViewDown ==
  /\ Viewing /\ MoreBelow(ui)
  /\ LET u == [ui EXCEPT !.view = @ + 1]
     IN Draw(u, <<ScrollDown, SetCursor(0, -1)>> \o render_textview_line(ui.lines[ui.view + ContentHeight + 1])
                \o render_help(u, TRUE))
  /\ UNCHANGED edits
ViewPageUp ==
  /\ Viewing /\ ui.view > 0
  /\ DrawWindow([ui EXCEPT !.view = @ - Min({@, ContentHeight})])
  /\ UNCHANGED edits
ViewPageDown ==
  /\ Viewing /\ MoreBelow(ui)
  /\ DrawWindow([ui EXCEPT !.view = @ + Min({Len(ui.lines) - @ - ContentHeight, ContentHeight})])
  /\ UNCHANGED edits
ViewEscape ==
  /\ Viewing
  /\ DrawWindow(Closed([ui EXCEPT !.view = 0, !.lines = <<>>]))
  /\ UNCHANGED edits

EditorKeys == Printable \cup {"left", "right", "home", "end", "BS", "delete", "F1"}
UiNext ==
  \/ DisplayMenu \/ Expire \/ CountDown \/ StopTimeout
  \/ ListUp \/ ListDown \/ ListEscape
  \/ MenuSelect \/ MenuConfigure \/ debug_log_display
  \/ ui_checkbox_input \/ ui_textbox_input \/ ui_chooser_input \/ ui_choice_input
  \/ (\E key \in EditorKeys : EditorInput(key)) \/ EditorAccept \/ EditorRefuse \/ EditorCancel
  \/ ViewUp \/ ViewDown \/ ViewPageUp \/ ViewPageDown \/ ViewEscape

-----------------------------------------------------------------------------
(* What the window on top looks like when it is drawn from nothing.        *)
Picture(u) ==
  IF u.stack = <<>> THEN VgaDraw(VgaInit, EndUi)
  ELSE VgaDraw(VgaInit, render_window(u) \o (IF u.error THEN ErrorMessage ELSE <<>>))
CursorOf(s) == IF s.visible THEN <<s.x, s.y>> ELSE <<>>

(* What is on the screen is always what drawing the window in full would   *)
(* show, the cursor of the editor included, after any sequence of partial  *)
(* updates (ui_list_input(), ui_textview_input(), render_help(), the line  *)
(* editor); and no assertion on a region or a cursor position fails.       *)
Shown ==
  /\ screen.cells = Picture(ui).cells
  /\ CursorOf(screen) = CursorOf(Picture(ui))
  /\ ~screen.bad

(* The terminal on the serial line shows what the VGA screen shows, with   *)
(* the cursor in the same place, although it scrolls whole lines and has   *)
(* no region that does not scroll (set_scroll_region(),                    *)
(* serial_console_putc()).                                                 *)
SameOnSerial ==
  /\ term.cells = screen.cells
  /\ screen.visible = term.visible
  /\ screen.visible /\ ui.stack # <<>> => <<term.cx, term.cy>> = <<screen.x, screen.y>>

(* The editor's text fits in the buffer allocated for it, and there is a   *)
(* buffer exactly when there is a text, which line_editor_finish() asserts.*)
BufferFits == Len(ui.editor.buf) <= ui.editor.cap /\ line_editor_finish_asserts(ui.editor)
=============================================================================
