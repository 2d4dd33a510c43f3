-------------------------------- MODULE Menu ---------------------------------
(***************************************************************************)
(* The menu (source/menu.c), the shell (source/shell.c) and the window of  *)
(* a boot error (source/error.c), on top of the commands (Boot).           *)
(***************************************************************************)
EXTENDS Boot

CONSTANT Meant   \* file -> the commands it was written to hold

Entries(e) == Env(e).entries
Menu == Last(menus)
Cursor == Entries(Top.env)[Top.cursor]

(* get_default_entry(): by number or by name, or the first.                *)
IsDefault(e, i) ==
  LET value == Var(e, <<"default">>)
  IN CASE value.type = "integer" -> i - 1 = value.v
       [] value.type = "string" -> Entries(e)[i].name = value.v
       [] OTHER -> FALSE
get_default_entry(e) ==
  IF \E i \in DOMAIN Entries(e) : IsDefault(e, i)
  THEN CHOOSE i \in DOMAIN Entries(e) : IsDefault(e, i) /\ \A j \in 1 .. i - 1 : ~IsDefault(e, j)
  ELSE 1

(* display_gui_menu(): whether everything the menu needs can be loaded and *)
(* the icons fit side by side, of which none does without a framebuffer.   *)
ImageLoads(value) == value.v[1] \notin BadFiles
load_gui_resource(e, name) ==
  LET value == Var(e, name)
  IN value.type \in {"none", "integer"} \/ (value.type = "string" /\ ImageLoads(value))
load_gui_icons(e) ==
  /\ \A i \in DOMAIN Entries(e) :
       LET icon == Var(Entries(e)[i].env, <<"gui_icon">>) IN icon.type = "string" /\ ImageLoads(icon)
  /\ Len(Entries(e)) <= start.icons
IsGui(e) ==
  /\ IsTrue(Var(e, <<"gui">>))
  /\ load_gui_resource(e, <<"gui_background">>) /\ load_gui_resource(e, <<"gui_selection">>)
  /\ load_gui_icons(e)

(* do_menu(): the menu becomes the current one and, if it is hidden, waits *)
(* for a key.                                                              *)
WaitFrame == [op |-> "wait"]
do_menu(e, frames) ==
  LET hidden == IsTrue(Var(e, <<"hidden">>))
      timeout == Var(e, <<"timeout">>)
      counts == ~hidden /\ timeout.type = "integer" /\ timeout.v # 0
      frame == [op |-> "menu", env |-> e, prev |-> current, cursor |-> get_default_entry(e), timeout |-> counts,
                shown |-> ~hidden, gui |-> IsGui(e)]
  IN /\ menus' = Append(menus, [env |-> e, action |-> "none", selected |-> Entries(e)[get_default_entry(e)]])
     /\ current' = e
     /\ Call((IF hidden THEN <<WaitFrame>> ELSE <<>>) \o <<frame>> \o frames)
     /\ UNCHANGED <<phase, handler, envs, shell_enabled>>

(* The end of do_menu(): the action is also that of the menu before it.    *)
PropagatedMutant(ms, popped) ==
  IF ms # <<>> /\ popped.action # "none" THEN [ms EXCEPT ![Len(ms)].action = popped.action] ELSE ms
Propagated(ms, popped) ==
  IF ms # <<>> /\ popped.action # "none"
  THEN [ms EXCEPT ![Len(ms)].action = popped.action, ![Len(ms)].selected = popped.selected] ELSE ms
CloseMenu(action, selected) ==
  LET popped == [Menu EXCEPT !.action = action, !.selected = selected]
  IN /\ menus' = Propagated(Front(menus), popped)
     /\ current' = Top.prev
     /\ ret' = "closed"
     /\ stack' = IF Below[1].op = "select" THEN [Below EXCEPT ![1].result = popped] ELSE Below
     /\ UNCHANGED <<phase, handler, envs, shell_enabled>>

-----------------------------------------------------------------------------
(* menu_select() begins.                                                   *)
ConfigurableMenu(e) == Env(e).loader = "os"

Selected(e, load) == ret' = "selected" /\ stack' = <<[load EXCEPT !.target = e]>> \o Tail(Below)

MenuSelect ==
  /\ Running("select") /\ ret = "none"
  /\ IF Entries(Top.env) # <<>> THEN do_menu(Top.env, stack)
     ELSE IF menus # <<>> THEN Stop("menu assert")
     ELSE IF ConfigurableMenu(Top.env)
          THEN Call(<<WaitFrame>> \o stack) /\ UNCHANGED <<phase, current, handler, menus, envs, shell_enabled>>
     ELSE Selected(Top.env, Below[1]) /\ UNCHANGED <<phase, current, handler, menus, envs, shell_enabled>>
  /\ picked' = Top.env
  /\ UNCHANGED <<start, temp, lines, keys>>

(* Without a menu: the key pressed, if any, opens the configuration, and   *)
(* then the environment itself is booted.                                  *)
ConfigureFrame == [op |-> "configure"]
SelectWaited ==
  /\ Running("select") /\ ret \in {"pressed", "not pressed", "configured"} /\ Top.result = NONE
  /\ IF ret = "pressed" /\ start.ui /\ start.input THEN Call(<<ConfigureFrame>> \o stack) ELSE Selected(Top.env, Below[1])
  /\ UNCHANGED <<start, envs, current, handler, menus, shell_enabled, temp, lines, keys, picked, phase>>

(* menu_select() after the menu.                                           *)
SelectClosed ==
  /\ Running("select") /\ ret = "closed"
  /\ LET r == Top.result
     IN CASE r.action = "none" -> Stop("menu assert")
          [] r.action = "shell" -> EnterShell(Destroyed(Top.env))
          [] r.action = "boot" /\ r.selected.error -> BootError(envs)
          [] OTHER -> Selected(r.selected.env, Below[1]) /\ UNCHANGED <<phase, current, handler, menus, envs, shell_enabled>>
  /\ UNCHANGED <<start, temp, lines, keys, picked>>

(* check_key_press(): half a second for F8, or F10 for the shell.          *)
KeyWait ==
  /\ Running("wait")
  /\ \/ Return("not pressed") /\ UNCHANGED keys
     \/ start.input /\ keys < MaxKeys /\ keys' = keys + 1 /\ Return("pressed")
     \/ start.input /\ keys < MaxKeys /\ keys' = keys + 1 /\ Len(envs) < MaxEnvs /\ EnterShell(envs)
  /\ UNCHANGED <<start, temp, lines, picked>>

(* A hidden menu after the wait: shown, without a countdown, or not.       *)
MenuWaited ==
  /\ Running("menu") /\ ret \in {"pressed", "not pressed"}
  /\ IF ret = "pressed"
     THEN /\ Call(<<[Top EXCEPT !.shown = TRUE]>> \o Below) /\ UNCHANGED picked
          /\ UNCHANGED <<phase, current, handler, menus, envs, shell_enabled>>
     ELSE CloseMenu("boot", Menu.selected) /\ picked' = Cursor.env
  /\ UNCHANGED <<start, temp, lines, keys>>

(* The countdown ends, or there is no way to show the menu.                *)
MenuTimeout ==
  /\ Running("menu") /\ ret = "none" /\ Top.shown
  /\ \/ Top.timeout \/ (~Top.gui /\ ~(start.ui /\ start.input))
  /\ CloseMenu("boot", Menu.selected) /\ picked' = Cursor.env
  /\ UNCHANGED <<start, temp, lines, keys>>

(* A menu that was opened from this one has closed.                        *)
SubmenuClosed ==
  /\ Running("menu") /\ ret \in {"closed", "configured"}
  /\ IF Menu.action = "none"
     THEN ret' = "none" /\ UNCHANGED <<stack, phase, current, handler, menus, envs, shell_enabled>>
     ELSE CloseMenu(Menu.action, Menu.selected)
  /\ UNCHANGED <<start, temp, lines, keys, picked>>

-----------------------------------------------------------------------------
(* Keys in a menu that is shown.  The first one stops the countdown.       *)
Pressed == Running("menu") /\ ret = "none" /\ Top.shown /\ (Top.gui \/ (start.ui /\ start.input))
           /\ keys < MaxKeys /\ keys' = keys + 1
Awake == <<[Top EXCEPT !.timeout = FALSE]>> \o Below

(* Up and down, or left and right.  In a text menu only the window knows.  *)
MoveCursor ==
  /\ Pressed
  /\ \E i \in {Top.cursor - 1, Top.cursor + 1} \cap DOMAIN Entries(Top.env) :
       /\ stack' = [Awake EXCEPT ![1].cursor = i]
       /\ menus' = IF Top.gui THEN [menus EXCEPT ![Len(menus)].selected = Entries(Top.env)[i]] ELSE menus
  /\ UNCHANGED <<start, envs, current, handler, shell_enabled, temp, lines, ret, picked, phase>>

select_entry(entry) ==
  IF Env(entry.env).loader = NONE /\ ~entry.error /\ Entries(entry.env) # <<>>
  THEN do_menu(entry.env, Awake) /\ UNCHANGED picked
  ELSE CloseMenu("boot", entry) /\ picked' = entry.env

SelectKey ==
  /\ Pressed
  /\ select_entry(Cursor)
  /\ UNCHANGED <<start, temp, lines>>

(* F2 and above: the entries of an entry that has a loader too.            *)
FunctionKey ==
  /\ Pressed
  /\ Env(Cursor.env).loader # NONE
  /\ \E i \in DOMAIN Entries(Cursor.env) : i <= 6 /\ select_entry(Entries(Cursor.env)[i])
  /\ UNCHANGED <<start, temp, lines>>

ConfigureKey ==
  /\ Pressed
  /\ ~Cursor.error /\ ConfigurableMenu(Cursor.env) /\ start.ui /\ start.input
  /\ Call(<<ConfigureFrame>> \o Awake)
  /\ UNCHANGED <<start, envs, current, handler, menus, shell_enabled, temp, lines, picked, phase>>

(* The configuration window, left with Esc.                                *)
ConfigureEsc ==
  /\ Running("configure") /\ keys < MaxKeys /\ keys' = keys + 1
  /\ Return("configured")
  /\ UNCHANGED <<start, temp, lines, picked>>

ShellKey ==
  /\ Pressed
  /\ CloseMenu("shell", Menu.selected)
  /\ UNCHANGED <<start, temp, lines, picked>>

EscapeKey ==
  /\ Pressed
  /\ Len(menus) > 1
  /\ CloseMenu("none", Menu.selected)
  /\ UNCHANGED <<start, temp, lines, picked>>

-----------------------------------------------------------------------------
(* boot_error_input().                                                     *)
WindowKey ==
  /\ Running("window") /\ keys < MaxKeys /\ keys' = keys + 1
  /\ \/ Stop("rebooted")
     \/ shell_enabled /\ Len(envs) < MaxEnvs /\ EnterShell(envs)
  /\ UNCHANGED <<start, temp, lines, picked>>

(* shell_main().                                                           *)
Type ==
  /\ Running("shell") /\ ~Top.busy /\ lines = <<>> /\ keys < MaxKeys /\ keys' = keys + 1
  /\ \E script \in Scripts : lines' = script
  /\ UNCHANGED <<start, envs, current, handler, menus, shell_enabled, temp, stack, ret, picked, phase>>

ShellParse ==
  /\ Running("shell") /\ ~Top.busy
  /\ LET parsed == config_parse(<<>>, lines, TRUE, temp, TRUE)
     IN /\ parsed.status # "wait"
        /\ temp' = parsed.temp /\ lines' = parsed.more
        /\ IF parsed.status # "ok" THEN UNCHANGED <<stack, ret>>
           ELSE Call(<<ExecFrame(parsed.commands, current, current), [Top EXCEPT !.busy = TRUE]>>)
  /\ UNCHANGED <<start, envs, current, handler, menus, shell_enabled, keys, picked, phase>>

ShellExecuted ==
  /\ Running("shell") /\ Top.busy /\ ret # "none"
  /\ IF Env(current).loader # NONE
     THEN /\ shell_enabled' = FALSE /\ picked' = current
          /\ Call(<<[op |-> "boot", env |-> current]>>)
     ELSE Call(<<[Top EXCEPT !.busy = FALSE]>>) /\ UNCHANGED <<shell_enabled, picked>>
  /\ UNCHANGED <<start, envs, current, handler, menus, temp, lines, keys, phase>>

-----------------------------------------------------------------------------
BootInit ==
  /\ start \in Starts
  /\ envs = <<RootEnv>> /\ current = ROOT
  /\ handler = "none" /\ menus = <<>> /\ shell_enabled = TRUE
  /\ temp = <<>> /\ lines = <<>>
  /\ stack = <<[op |-> "config_load", paths |-> ConfigPaths(start)]>> /\ ret = "none"
  /\ keys = 0 /\ picked = 0 /\ phase = "run"

(* What the loader does by itself, and what the user does.                 *)
LoaderMoves ==
  \/ ConfigLoad \/ LoadExecuted \/ LoadSelected \/ LoaderLoad \/ ExecEnd \/ EntryEnd
  \/ MenuSelect \/ SelectWaited \/ SelectClosed \/ KeyWait \/ MenuWaited \/ MenuTimeout \/ SubmenuClosed
  \/ ShellExecuted
LoaderReads == LoadOpen \/ ExecStep \/ IncludeStep \/ ShellParse
UserStep ==
  \/ MoveCursor \/ SelectKey \/ FunctionKey \/ ConfigureKey \/ ConfigureEsc \/ ShellKey \/ EscapeKey
  \/ WindowKey \/ Type
BootNext == LoaderMoves \/ LoaderReads \/ UserStep

(* The loader is one thread that waits for nothing but keys.  That the     *)
(* steps that parse and execute are enabled is spelled out: it is weak     *)
(* fairness for them too.                                                  *)
CanRead ==
  /\ Len(envs) < MaxEnvs
  /\ \/ Running("load") /\ ret = "none" /\ Top.env = 0
     \/ Running("exec") /\ ret # "false" /\ Top.commands # <<>>
     \/ Running("include")
     \/ Running("shell") /\ ~Top.busy /\ lines # <<>>
BootFairness ==
  /\ WF_bootVars(LoaderMoves)
  /\ <>[]CanRead => []<><<LoaderReads>>_bootVars
BootSpec == BootInit /\ [][BootNext]_bootVars /\ BootFairness

-----------------------------------------------------------------------------
(* What commands mean, without parsing, stacks or pointers: an environment *)
(* as a tree, the entries having trees of their own, and whether all of    *)
(* the commands could be executed.                                         *)
RECURSIVE Meaning(_, _)
Meaning(commands, tree) ==
  LET c == Head(commands)
      args == value_substitute(Value("list", c.args), tree.vars)
      cmd == [c EXCEPT !.args = args.v.v]
      stops == [ok |-> FALSE, tree |-> tree]
      child == Meaning(cmd.args[2].v,
        [tree EXCEPT !.entries = <<>>, !.vars = [n \in {m \in DOMAIN tree.vars :
           m \notin {<<"default">>, <<"gui">>, <<"gui_background">>, <<"gui_icon">>, <<"gui_selection">>,
                     <<"hidden">>, <<"timeout">>}} |-> tree.vars[n]]])
      files == [i \in DOMAIN SortedEntries(PathOf(cmd.args[1].v)) |-> SortedEntries(PathOf(cmd.args[1].v))[i]]
      included == IF PathOf(cmd.args[1].v) \in DOMAIN Dirs
                  THEN FlattenSeq([i \in DOMAIN files |-> IF files[i].dir THEN <<>> ELSE Meant[files[i].path]])
                  ELSE Meant[PathOf(cmd.args[1].v)]
      simple == SimpleCommand(cmd, tree)
  IN IF commands = <<>> THEN [ok |-> TRUE, tree |-> tree]
     ELSE IF tree.loader # NONE \/ args.p # "ok" THEN stops
     ELSE CASE cmd.name = <<"entry">> ->
                 Meaning(Tail(commands), [tree EXCEPT !.entries =
                   Append(@, [name |-> cmd.args[1].v, error |-> ~child.ok, tree |-> child.tree])])
            [] cmd.name = <<"include">> -> Meaning(included \o Tail(commands), tree)
            [] OTHER -> IF simple.p THEN Meaning(Tail(commands), simple.v) ELSE stops

RECURSIVE TreeOf(_)
TreeOf(e) ==
  [vars |-> Env(e).vars, loader |-> Env(e).loader,
   entries |-> [i \in DOMAIN Entries(e) |->
     [name |-> Entries(e)[i].name, error |-> Entries(e)[i].error, tree |-> TreeOf(Entries(e)[i].env)]]]
RootTree == [vars |-> RootEnv.vars, loader |-> NONE, entries |-> <<>>]

(* The menu that is built from a configuration file is the one its text    *)
(* describes: each entry has the variables its parent had when it was      *)
(* defined, but for those about the menu, none of its siblings' or of what *)
(* is set later, and an entry with an error in it is an entry with that    *)
(* error and nothing more (environ_create(), config_cmd_entry(),           *)
(* command_list_exec(), config_cmd_include(), value_substitute(), and all  *)
(* of the parser).                                                         *)
MenuMeant ==
  (Running("select") /\ ret = "none" /\ Below[1].path \in DOMAIN Meant) =>
    LET m == Meaning(Meant[Below[1].path], RootTree) IN m.ok /\ TreeOf(Top.env) = m.tree

(* What is booted is what the user has settled on, through any menus in    *)
(* menus, by a key or by letting the countdown end, or has typed; its      *)
(* environment has not been destroyed and none of its commands failed.     *)
BootsChosen ==
  (Running("boot") \/ phase = "booted") =>
    /\ Top.env = picked
    /\ ~Env(Top.env).dead
    /\ \A e \in DOMAIN envs : \A i \in DOMAIN Entries(e) : Entries(e)[i].env = Top.env => ~Entries(e)[i].error

(* No sequence of commands, errors and keys makes an assertion about       *)
(* loaders, errors of entries or the shell fail: environ_set_loader(),     *)
(* entry_error_handler(), config_cmd_entry(), shell_main().                *)
NoAssertion == phase # "assert"

(* The assertions of menu_select(): no menu is current when a              *)
(* configuration without entries is loaded, and the outermost menu is left *)
(* by choosing something.                                                  *)
MenuAssertions == phase # "menu assert"

(* Whatever is configured, the loader comes to wait for the user or starts *)
(* an operating system, or halts.                                          *)
Waiting ==
  \/ Running("window") \/ Running("configure") \/ (Running("menu") /\ ret = "none" /\ Top.shown)
  \/ (Running("shell") /\ ~Top.busy)
Settles == []<>(Waiting \/ phase \notin {"run", "hang"})
=============================================================================
