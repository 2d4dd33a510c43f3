-------------------------------- MODULE Boot ---------------------------------
(***************************************************************************)
(* From the configuration file to the operating system: commands and       *)
(* environments (source/config.c), the menu (source/menu.c), the shell     *)
(* (source/shell.c) and boot errors (source/error.c).                      *)
(*                                                                         *)
(* The calls under way are the frames of stack, innermost first, and ret   *)
(* is what the call that has just ended returned.  A menu is shown in the  *)
(* middle of such calls: a command may load another configuration.         *)
(***************************************************************************)
EXTENDS Parser, FiniteSets

CONSTANTS
  NONE,
  Files,         \* file -> its text
  Starts,        \* [there, override, boot_directory, ui, input, debug, icons]: the files there are ..., icons that fit on the screen
  Dirs,          \* directory -> what is in it, in the order of the filesystem: [path, rank, dir]
  BadFiles,      \* files that cannot be read
  Scripts,       \* lines that may be typed into the shell
  LoaderFails,   \* an operating system may turn out not to load
  MaxKeys,       \* bound on keys, countdowns and scripts
  MaxEnvs        \* bound on environments

VARIABLES
  start,          \* one of the Starts
  envs,           \* the environments, in the order they were made
  current,        \* current_environ
  handler,        \* current_error_handler: "none", "entry", "shell"
  menus,          \* the chain of current_menu, outermost first
  shell_enabled,
  temp,           \* temp_buf, up to temp_buf_idx
  lines,          \* what has been typed into the shell and not been read yet
  stack, ret,
  picked,         \* the environment of the entry the user has settled on
  keys,           \* inputs so far
  phase           \* "run", or how it ended

bootVars == <<start, envs, current, handler, menus, shell_enabled, temp, lines, stack, ret, keys, picked, phase>>

ROOT == 1
Top == Head(stack)
Below == Tail(stack)
Running(op) == phase = "run" /\ stack # <<>> /\ Top.op = op
Env(e) == envs[e]
NoVars == [n \in {} |-> NoValue]

Var(e, name) == IF name \in DOMAIN Env(e).vars THEN Env(e).vars[name] ELSE NoValue
IsTrue(value) == value.type = "boolean" /\ value.v

reserved_environ_names == {<<"device">>, <<"device_label">>, <<"device_uuid">>}
no_inherit_environ_names ==
  {<<"default">>, <<"gui">>, <<"gui_background">>, <<"gui_icon">>, <<"gui_selection">>, <<"hidden">>, <<"timeout">>}

environ_createMutant(parent) ==
  [vars |-> IF parent = NONE THEN NoVars ELSE parent.vars, loader |-> NONE, entries |-> <<>>, dead |-> FALSE]
environ_create(parent) ==
  [vars |-> IF parent = NONE THEN NoVars
            ELSE [n \in DOMAIN parent.vars \ no_inherit_environ_names |-> parent.vars[n]],
   loader |-> NONE, entries |-> <<>>, dead |-> FALSE]

(* environ_destroy() and menu_cleanup(): an environment and what hangs on  *)
(* its entries.                                                            *)
RECURSIVE Family(_)
Family(e) == {e} \cup UNION {Family(Env(e).entries[i].env) : i \in DOMAIN Env(e).entries}
Destroyed(e) == [i \in DOMAIN envs |-> IF i \in Family(e) THEN [envs[i] EXCEPT !.dead = TRUE] ELSE envs[i]]

(* device_init() has set the variables of the root environment.            *)
RootEnv == [environ_create(NONE) EXCEPT !.vars = (<<"device">> :> Value("string", <<"hd0">>))]

(* config_load(): the paths that are tried.                                *)
ConfigPaths(s) ==
  IF s.override # NONE THEN <<s.override>>
  ELSE (IF s.boot_directory THEN <<"kboot.cfg">> ELSE <<>>) \o <<"/boot/kboot.cfg", "/kboot.cfg">>

-----------------------------------------------------------------------------
(* How a call ends.                                                        *)
Return(value) ==
  /\ ret' = value /\ stack' = Below
  /\ UNCHANGED <<phase, current, handler, menus, envs, shell_enabled>>
Stop(why) ==
  /\ phase' = why
  /\ UNCHANGED <<stack, ret, current, handler, menus, envs, shell_enabled>>
Call(frames) == stack' = frames /\ ret' = "none"

(* shell_main(), on the debug console if need be: the environment is new   *)
(* and nothing is returned to; a menu that is under way stays the current  *)
(* one.                                                                    *)
HasShell == start.input \/ start.debug
EnterShell(es) ==
  IF ~shell_enabled \/ ~HasShell
  THEN /\ phase' = IF shell_enabled THEN "halted" ELSE "assert"
       /\ UNCHANGED <<stack, ret, current, handler, envs, menus, shell_enabled>>
  ELSE /\ envs' = Append(es, environ_create(es[ROOT])) /\ current' = Len(es) + 1
       /\ handler' = "shell" /\ Call(<<[op |-> "shell", busy |-> FALSE]>>)
       /\ UNCHANGED <<phase, menus, shell_enabled>>

(* boot_error(): a window if there can be one, else the shell, or a halt.  *)
BootError(es) ==
  IF start.ui /\ start.input
  THEN /\ Call(<<[op |-> "window"]>>) /\ envs' = es
       /\ UNCHANGED <<phase, current, handler, menus, shell_enabled>>
  ELSE IF start.ui \/ shell_enabled THEN EnterShell(es)
  ELSE phase' = "halted" /\ envs' = es /\ UNCHANGED <<stack, ret, current, handler, menus, shell_enabled>>

(* The entry whose commands are being executed: executing_menu_entry.      *)
Executing == CHOOSE i \in DOMAIN stack : stack[i].op = "entry" /\ \A j \in 1 .. i - 1 : stack[j].op # "entry"

(* config_error() in a call that then returns false to frames.             *)
ConfigError(frames) ==
  CASE handler = "none" -> BootError(envs)
    [] handler = "shell" ->
         stack' = frames /\ ret' = "false" /\ UNCHANGED <<phase, envs, current, handler, menus, shell_enabled>>
    [] OTHER ->
         LET at == Executing - (Len(stack) - Len(frames))
         IN /\ phase' = IF frames[at].error THEN "assert" ELSE phase
            /\ stack' = [frames EXCEPT ![at].error = TRUE] /\ ret' = "false"
            /\ UNCHANGED <<envs, current, handler, menus, shell_enabled>>

-----------------------------------------------------------------------------
(* load_config_file() and the calls it makes.                              *)
LoadFrame(path, must) == [op |-> "load", path |-> path, must |-> must, env |-> 0, target |-> 0]
ExecFrame(commands, env, prev) == [op |-> "exec", commands |-> commands, env |-> env, prev |-> prev]

(* config_load() tries the next path.                                      *)
ConfigLoad ==
  /\ Running("config_load")
  /\ IF Top.paths = <<>> THEN BootError(envs)
     ELSE /\ Call(<<LoadFrame(Head(Top.paths), FALSE), [Top EXCEPT !.paths = Tail(@)]>>)
          /\ UNCHANGED <<phase, current, handler, menus, envs, shell_enabled>>
  /\ UNCHANGED <<start, temp, lines, keys, picked>>

ParseFile(path) == config_parse(FileText(Files[path]), <<>>, FALSE, temp, handler # "none")

Failed(parsed, frames) == IF parsed.status = "hang" THEN Stop("hang") ELSE ConfigError(frames)

(* The file is opened and parsed, and its commands are executed in an      *)
(* environment of their own.                                               *)
LoadOpen ==
  /\ Running("load") /\ ret = "none" /\ Top.env = 0
  /\ LET found == Top.path \in start.there \cup DOMAIN Dirs
         readable == Top.path \in start.there \ (BadFiles \cup DOMAIN Dirs)
         parsed == ParseFile(Top.path)
         e == Len(envs) + 1
     IN /\ temp' = IF readable THEN parsed.temp ELSE temp
        /\ IF ~readable THEN IF found \/ Top.must THEN ConfigError(Below) ELSE Return("false")
           ELSE IF parsed.status # "ok" THEN Failed(parsed, Below)
           ELSE /\ e <= MaxEnvs
                /\ envs' = Append(envs, environ_create(Env(ROOT)))
                /\ Call(<<ExecFrame(parsed.commands, e, current), [Top EXCEPT !.env = e]>> \o Below)
                /\ current' = e
                /\ UNCHANGED <<phase, handler, menus, shell_enabled>>
  /\ UNCHANGED <<start, lines, keys, picked>>

(* The commands are done: menu_select(), or the environment is destroyed.  *)
LoadExecuted ==
  /\ Running("load") /\ Top.env # 0 /\ ret \in {"true", "false"}
  /\ IF ret = "false"
     THEN envs' = Destroyed(Top.env) /\ ret' = "false" /\ stack' = Below
          /\ UNCHANGED <<phase, current, handler, menus, shell_enabled>>
     ELSE /\ Call(<<[op |-> "select", env |-> Top.env, result |-> NONE]>> \o stack)
          /\ UNCHANGED <<phase, current, handler, menus, envs, shell_enabled>>
  /\ UNCHANGED <<start, temp, lines, keys, picked>>

(* menu_select() has returned an environment.                              *)
LoadSelected ==
  /\ Running("load") /\ ret = "selected"
  /\ IF Env(Top.target).loader # NONE
     THEN /\ current' = Top.target /\ shell_enabled' = FALSE
          /\ Call(<<[op |-> "boot", env |-> Top.target]>>)
          /\ UNCHANGED <<phase, handler, menus, envs>>
     ELSE BootError(Destroyed(Top.env))
  /\ UNCHANGED <<start, temp, lines, keys, picked>>

(* environ_boot() has called the loader.                                   *)
LoaderLoad ==
  /\ Running("boot")
  /\ \/ Stop("booted")
     \/ LoaderFails /\ Env(Top.env).loader = "os" /\ BootError(envs)
  /\ UNCHANGED <<start, temp, lines, keys, picked>>

-----------------------------------------------------------------------------
(* command_list_exec(), command_exec() and the commands.                   *)
StringArg(args, i) == i \in DOMAIN args /\ args[i].type = "string"
variable_name_valid(name) == (\A i \in DOMAIN name : IsName(name[i])) /\ name \notin reserved_environ_names
environ_insert(env, name, value) == [env EXCEPT !.vars = (name :> value) @@ @]
environ_remove(env, name) == [env EXCEPT !.vars = [n \in DOMAIN @ \ {name} |-> @[n]]]

(* Commands that only print, and those that set a loader.                  *)
Listings == {<<"help">>, <<"version">>, <<"env">>}
Loaders == <<"reboot">> :> "reboot" @@ <<"exit">> :> "exit" @@ <<"os">> :> "os"

SimpleCommand(c, env) ==
  CASE c.name \in Listings -> Done(c.args = <<>>, env)
    [] c.name \in DOMAIN Loaders -> Done(c.args = <<>>, [env EXCEPT !.loader = Loaders[c.name]])
    [] c.name = <<"set">> ->
         IF Len(c.args) = 2 /\ StringArg(c.args, 1) /\ variable_name_valid(c.args[1].v)
         THEN Done(TRUE, environ_insert(env, c.args[1].v, c.args[2])) ELSE Done(FALSE, env)
    [] c.name = <<"unset">> ->
         IF Len(c.args) = 1 /\ StringArg(c.args, 1) /\ variable_name_valid(c.args[1].v)
         THEN Done(TRUE, environ_remove(env, c.args[1].v)) ELSE Done(FALSE, env)
    [] OTHER -> Done(FALSE, env)

EntryFrame(name, env) == [op |-> "entry", name |-> name, env |-> env, error |-> FALSE, handler |-> handler]

(* config_cmd_entry().                                                     *)
EntryCommand(c, frames) ==
  LET e == Len(envs) + 1
  IN IF Len(c.args) # 2 \/ ~StringArg(c.args, 1) \/ c.args[2].type # "commands"
     THEN ConfigError(frames)
     ELSE /\ e <= MaxEnvs
          /\ envs' = Append(envs, environ_create(Env(current)))
          /\ current' = e /\ handler' = "entry"
          /\ Call(<<ExecFrame(c.args[2].v, e, current), EntryFrame(c.args[1].v, e)>> \o frames)
          /\ UNCHANGED <<phase, menus, shell_enabled>>

SortedEntries(dir) == SortSeq(Dirs[dir], LAMBDA a, b : a.rank < b.rank)
PathOf(arg) == arg[1]

(* config_cmd_include(): a file, or the files of a directory by name.      *)
IncludeCommand(c, frames) ==
  IF Len(c.args) # 1 \/ ~StringArg(c.args, 1) THEN ConfigError(frames)
  ELSE LET path == PathOf(c.args[1].v)
       IN IF path \in DOMAIN Dirs \/ path \in start.there
          THEN /\ Call(<<[op |-> "include",
                          files |-> IF path \in DOMAIN Dirs THEN SortedEntries(path)
                                    ELSE <<[path |-> path, rank |-> 0, dir |-> FALSE]>>]>> \o frames)
               /\ UNCHANGED <<phase, current, handler, menus, envs, shell_enabled>>
          ELSE ConfigError(frames)

ConfigCommand(c, frames) ==
  IF Len(c.args) # 1 \/ ~StringArg(c.args, 1) THEN ConfigError(frames)
  ELSE /\ Call(<<LoadFrame(PathOf(c.args[1].v), TRUE)>> \o frames)
       /\ UNCHANGED <<phase, current, handler, menus, envs, shell_enabled>>

RunCommand(c, frames) ==
  CASE c.name = <<"entry">> -> EntryCommand(c, frames)
    [] c.name = <<"include">> -> IncludeCommand(c, frames)
    [] c.name = <<"config">> -> ConfigCommand(c, frames)
    [] OTHER ->
         LET done == SimpleCommand(c, Env(current))
         IN IF ~done.p THEN ConfigError(frames)
            ELSE IF done.v.loader # NONE /\ Env(current).loader # NONE THEN Stop("assert")
            ELSE /\ envs' = [envs EXCEPT ![current] = done.v] /\ stack' = frames /\ ret' = "true"
                 /\ UNCHANGED <<phase, current, handler, menus, shell_enabled>>

(* A frame drops its command when it starts it, and goes on if it returns  *)
(* true.                                                                   *)
LoaderFinalMutant(frame) == FALSE
LoaderFinal(frame) == Env(frame.env).loader # NONE

ExecStep ==
  /\ Running("exec") /\ ret # "false" /\ Top.commands # <<>>
  /\ LET c == Head(Top.commands)
         args == value_substitute(Value("list", c.args), Env(current).vars)
         frames == <<[Top EXCEPT !.commands = Tail(@)]>> \o Below
     IN IF LoaderFinal(Top) THEN ConfigError(frames)
        ELSE IF args.p # "ok" THEN ConfigError(frames)
        ELSE RunCommand([c EXCEPT !.args = args.v.v], frames)
  /\ UNCHANGED <<start, temp, lines, keys, picked>>

ExecEnd ==
  /\ Running("exec") /\ (ret = "false" \/ Top.commands = <<>>)
  /\ current' = Top.prev
  /\ ret' = (IF ret = "false" THEN "false" ELSE "true") /\ stack' = Below
  /\ UNCHANGED <<start, envs, handler, menus, shell_enabled, temp, lines, keys, picked, phase>>

(* config_cmd_entry() after the commands: the entry is listed, with the    *)
(* error if there was one.                                                 *)
EntryEnd ==
  /\ Running("entry") /\ ret \in {"true", "false"}
  /\ phase' = IF ret = "false" /\ ~Top.error THEN "assert" ELSE phase
  /\ envs' = [envs EXCEPT ![current].entries = Append(@, [name |-> Top.name, env |-> Top.env, error |-> Top.error])]
  /\ handler' = Top.handler
  /\ ret' = "true" /\ stack' = Below
  /\ UNCHANGED <<start, current, menus, shell_enabled, temp, lines, keys, picked>>

(* include_config_file() for the next file, unless one has failed.         *)
NextFilesMutant(files) == IF files[1].dir THEN Tail(files) ELSE files
NextFiles(files) == Tail(files)

IncludeStep ==
  /\ Running("include")
  /\ LET over == ret = "false" \/ Top.files = <<>>
         f == Head(Top.files)
         next == <<[Top EXCEPT !.files = NextFiles(@)]>> \o Below
         reads == ~over /\ ~f.dir /\ f.path \notin BadFiles
         parsed == ParseFile(f.path)
     IN /\ temp' = IF reads THEN parsed.temp ELSE temp
        /\ IF over THEN Return(IF ret = "false" THEN "false" ELSE "true")
           ELSE IF f.dir THEN Call(next) /\ UNCHANGED <<phase, current, handler, menus, envs, shell_enabled>>
           ELSE IF ~reads THEN ConfigError(Below)
           ELSE IF parsed.status # "ok" THEN Failed(parsed, Below)
           ELSE /\ Call(<<ExecFrame(parsed.commands, current, current)>> \o next)
                /\ UNCHANGED <<phase, current, handler, menus, envs, shell_enabled>>
  /\ UNCHANGED <<start, lines, keys, picked>>
=============================================================================
