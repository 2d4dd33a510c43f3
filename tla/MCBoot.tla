------------------------------- MODULE MCBoot --------------------------------
(***************************************************************************)
(* From the configuration file to the kernel's first instruction, one half *)
(* in each behaviour: the menu, which ends with an environment to boot, or *)
(* a loader, which starts from one.                                        *)
(***************************************************************************)
EXTENDS Menu, Multiboot, Linux, KBootTags, LoaderCommands

(* Small configurations for the menu: what they mean, and texts that say   *)
(* it.                                                                     *)
Str(w) == Value("string", w)
Num(n) == Value("integer", n)
Yes == Value("boolean", TRUE)
Cmd(name, args) == [name |-> <<name>>, args |-> args]
Set(name, value) == Cmd("set", <<Str(<<name>>), value>>)
Entry(name, commands) == Cmd("entry", <<Str(<<name>>), Value("commands", commands)>>)
Inc(path) == Cmd("include", <<Str(<<path>>)>>)
Os == Cmd("os", <<>>)
Ref(name) == Value("reference", <<name>>)
In(name) == <<"$", "{", name, "}">>

(* Menus in menus, defaults, inheritance, an entry that fails, lists.      *)
Nested1 ==
  <<Set("v", Num(1)), Set("timeout", Num(5)), Set("default", Num(2)),
    Entry("A", <<Set("w", Str(<<"x", "\"", "#">> \o In("v"))), Os>>),
    Entry("B", <<Set("v", Str(<<"b">>)), Set("default", Str(<<"D">>)),
                 Entry("C", <<Os, Set("late", Num(0))>>), Entry("D", <<Set("l", Value("list", <<Ref("v"), Ref("device")>>)), Os>>)>>),
    Set("v", Num(26)),
    Entry("E", <<Entry("F", <<Cmd("reboot", <<>>)>>), Os>>)>>
Hidden ==
  <<Set("hidden", Yes), Inc("/d"), Entry("P", <<Set("x", Ref("missing"))>>), Entry("Q", <<Inc("/d/one"), Os>>),
    Cmd("unset", <<Str(<<"one">>)>>)>>
Gui ==
  <<Set("gui", Yes), Set("gui_background", Num(3)), Entry("A", <<Set("gui_icon", Str(<<"i">>)), Os>>),
    Entry("B", <<Set("gui_icon", Str(<<"j">>)), Cmd("help", <<>>), Cmd("exit", <<>>)>>)>>
Single == <<Set("v", Str(In("device"))), Os>>
Empty == <<Set("v", Num(1))>>

MCMeant ==
  "nested" :> Nested1 @@ "hidden" :> Hidden @@ "gui" :> Gui @@ "/kboot.cfg" :> Single @@ "empty" :> Empty
  @@ "/d/one" :> <<Set("one", Num(1)), Set("o", Num(1))>> @@ "/d/two" :> <<Set("o", Num(2))>>
  @@ "twice" :> <<Entry("T", <<Os, Os>>), Entry("U", <<Cmd("reboot", <<>>)>>)>>
MCDirs == "/d" :> <<[path |-> "/d/two", rank |-> 2, dir |-> FALSE], [path |-> "/d/sub", rank |-> 0, dir |-> TRUE],
                    [path |-> "/d/one", rank |-> 1, dir |-> FALSE]>>

(* The texts, with comments, continued lines, escapes and carriage returns. *)
Q(word) == <<"\"", word, "\"">>
SetTo(name, value) == <<"set", " ">> \o Q(name) \o <<" ">> \o value \o <<"\n">>
Block(name, text) == <<"entry", " ">> \o Q(name) \o <<" ", "{", "\r", "\n">> \o text \o <<"}", "\n">>
True == <<"t", "r", "u", "e">>
Rem == <<" ", "#", "say", "\"", "}", "\n">>
With(cmd, path) == <<cmd, " ">> \o Q(path) \o <<"\n">>

Texts ==
  "nested" :>
    (Rem \o SetTo("v", <<"\\", "\n", "\t", "1">>) \o SetTo("timeout", <<"5", " ">>) \o SetTo("default", <<"0", "2">>)
     \o Block("A", SetTo("w", <<"\"", "x", "\\", "\"", "#", "$", "{", "v", "}", "\"">>) \o <<"os">>)
     \o Block("B", SetTo("v", Q("b")) \o SetTo("default", Q("D")) \o Block("C", <<"os", "\n">> \o SetTo("late", <<"0">>))
                   \o Block("D", SetTo("l", <<"[", "$", "v", "\n", "$", "device", " ", "]">>) \o <<"os">> \o Rem))
     \o SetTo("v", <<"0", "x", "1", "a">>) \o Block("E", Block("F", <<"reboot", "\n">>) \o <<"os">>))
  @@ "hidden" :>
    (SetTo("hidden", True) \o With("include", "/d") \o Block("P", SetTo("x", <<"$", "missing">>))
     \o Block("Q", With("include", "/d/one") \o <<"os", "\n">>) \o With("unset", "one"))
  @@ "gui" :>
    (SetTo("gui", True) \o SetTo("gui_background", <<"3">>) \o Block("A", SetTo("gui_icon", Q("i")) \o <<"os">>)
     \o Block("B", SetTo("gui_icon", Q("j")) \o <<"help", "\n", "exit">>))
  @@ "/kboot.cfg" :> (SetTo("v", <<"\"", "$", "{", "device", "}", "\"">>) \o <<"os", "\\0", "}">>)
  @@ "empty" :> SetTo("v", <<"1">>)
  @@ "/d/one" :> (SetTo("one", <<"1">>) \o SetTo("o", <<"1">>)) @@ "/d/two" :> SetTo("o", <<"2">>)
  @@ "twice" :> (Block("T", <<"os", "\n", "os">>) \o Block("U", <<"reboot", "\n">>))
  \* with errors
  @@ "open string" :> <<"set", " ", "\"", "v", "\n">>
  @@ "open block" :> <<"entry", " ", "\"", "v", "\"", " ", "{", "os">>
  @@ "reserved" :> (SetTo("device", <<"1", "2">>) \o <<"}">>)
  @@ "unread" :> <<"os">>
  @@ "chain" :> (Block("X", With("config", "gone")) \o Block("Y", With("config", "twice")))

Plain == [there |-> DOMAIN Texts, override |-> NONE, boot_directory |-> FALSE, ui |-> TRUE, input |-> TRUE, debug |-> FALSE, icons |-> 0]
From(path) == [Plain EXCEPT !.override = path]
MCStarts ==
  {Plain, [Plain EXCEPT !.boot_directory = TRUE], [Plain EXCEPT !.there = {}],
   [From("gui") EXCEPT !.icons = 4], [From("gui") EXCEPT !.icons = 1], [From("nested") EXCEPT !.ui = FALSE, !.input = FALSE, !.debug = TRUE], [From("unread") EXCEPT !.ui = FALSE, !.input = FALSE],
   [From("empty") EXCEPT !.ui = FALSE], From("/d")}
  \cup {From(p) : p \in {"nested", "hidden", "gui", "empty", "twice", "open string", "open block", "reserved", "unread", "chain"}}

Line(words) == <<words \o <<"\n">>>>
MCScripts ==
  {Line(<<"os">>), Line(<<"set", " ", "\"", "v", "\"", " ", "$", "none">>), <<With("config", "twice")>>,
   <<<<"entry", " ", "\"", "a", "\"", " ", "{", "\n">>, <<"bad", "\n">>, <<"}", "\n">>>>,
   <<With("config", "reserved")>>}

-----------------------------------------------------------------------------

(* Kernels of every kind on small machines.  Each behaviour is one of four  *)
(* parts: a command that sets a loader up, the load of a Multiboot or of a  *)
(* Linux kernel, or the options and tags of a KBoot kernel.                 *)
allVars == <<loadVars, loader, params, tagVars, commandVars>>

(* Machines: pages of 16 cells, 3 from LOW, 9 from HIGH on.               *)
Area(from, size, type) == [start |-> from, size |-> size, type |-> type]
BiosMap == <<Area(0, 64, "free"), Area(64, 16, "reserved"), Area(80, 144, "free")>>
BiosSplit == <<Area(0, 64, "free"), Area(80, 80, "free"), Area(160, 64, "free")>>
EfiMap ==
  <<Area(0, 16, "boot"), Area(16, 32, "conventional"), Area(80, 32, "conventional"), Area(112, 32, "loader"),
    Area(144, 32, "acpi_nvs"), Area(192, 16, "boot"), Area(208, 16, "conventional")>>
EfiUnsorted == <<Area(112, 112, "conventional"), Area(64, 16, "mmio"), Area(0, 64, "conventional"), Area(80, 32, "boot")>>
Busy == {{0}, {0, 16, 96}, {0, 144}}

(* Multiboot images.                                                        *)
Phdr(load, paddr, filesz, memsz, offset) ==
  [load |-> load, paddr |-> paddr, filesz |-> filesz, memsz |-> memsz, offset |-> offset]
Shdr(addr, size, nobits, align, offset) ==
  [addr |-> addr, size |-> size, nobits |-> nobits, align |-> align, offset |-> offset]
Elf(phdrs, shdrs) == [aout |-> FALSE, phdrs |-> phdrs, shdrs |-> shdrs]
Aout(size, header_offset, header_addr, load_addr, load_end_addr, bss_end_addr) ==
  [aout |-> TRUE, size |-> size, header_offset |-> header_offset, phdrs |-> <<>>, shdrs |-> <<>>,
   header |-> [header_addr |-> header_addr, load_addr |-> load_addr, load_end_addr |-> load_end_addr,
               bss_end_addr |-> bss_end_addr]]
Images ==
  {Elf(<<Phdr(TRUE, 88, 12, 12, 2)>>, <<>>),
   Elf(<<Phdr(TRUE, 120, 6, 14, 9), Phdr(FALSE, 80, 4, 4, 0), Phdr(TRUE, 80, 5, 16, 2), Phdr(TRUE, 96, 0, 0, 0)>>,
       <<Shdr(80, 5, FALSE, 1, 2), Shdr(0, 18, FALSE, 17, 12), Shdr(0, 2, TRUE, 1, 0)>>),
   Elf(<<Phdr(TRUE, 80, 4, 4, 0), Phdr(TRUE, 84, 4, 4, 4)>>, <<>>),
   Aout(28, 2, 88, 86, 106, 116), Aout(28, 2, 88, 86, 0, 0), Aout(18, 0, 84, 84, 0, 136), Aout(18, 0, 84, 84, 116, 0),
   Aout(18, 0, 82, 84, 96, 0)}
Module(size, cmdline) == [size |-> size, cmdline |-> cmdline]
MultibootBoots ==
  {[platform |-> f[1], firmware |-> f[2], busy |-> b, kernel |-> k, cmdline |-> 1, modules |-> m, video |-> v,
    device |-> <<128, 1>>] :
     f \in {<<"bios", BiosMap>>, <<"bios", BiosSplit>>, <<"efi", EfiMap>>, <<"efi", EfiUnsorted>>},
     b \in Busy, k \in Images, v \in BOOLEAN,
     m \in {<<>>, <<Module(17, 1)>>, <<Module(3, 1), Module(16, 2)>>, <<Module(0, 1)>>}}

(* Linux kernels of three protocols.                                        *)
Linux203 ==
  [version |-> 3, size |-> 21, setup_sects |-> 0, cmdline_size |-> 0, relocatable |-> FALSE, align |-> 0, min_align |-> 0,
   pref_address |-> 0, init_size |-> 0, code32_start |-> 80, initrd_addr_max |-> 223, handover_offset |-> 0]
Linux205 == [Linux203 EXCEPT !.version = 7, !.setup_sects = 2, !.size = 17, !.relocatable = TRUE, !.align = 32, !.cmdline_size = 16]
Linux210 ==
  [Linux205 EXCEPT !.version = 11, !.align = 64, !.min_align = 16, !.pref_address = 128, !.init_size = 44, !.size = 40,
     !.cmdline_size = 31, !.initrd_addr_max = 191, !.handover_offset = 3]
LinuxBoots ==
  {[platform |-> p, firmware |-> BiosMap, busy |-> b, kernel |-> k, cmdline |-> c, initrds |-> i, mode |-> "lfb"] :
     p \in {"bios", "efi"}, b \in Busy \cup {{0, 96, 160}, {0, 32}, {0, 112}}, c \in {0, 7, 16, 31},
     k \in {Linux203, Linux205, Linux210, [Linux210 EXCEPT !.init_size = 32], [Linux210 EXCEPT !.relocatable = FALSE]},
     i \in {<<>>, <<9>>, <<6, 16>>, <<33, 4>>}}

ASSUME LinuxBootsAssumption == \A c \in LinuxBoots : LinuxConfig(c)

(* KBoot kernels: options of every type, some of them set before, a root    *)
(* device of every kind, lists that fit and one that does not.              *)
Option(name, type, default) == [name |-> name, type |-> type, default |-> default]
Text(v) == [type |-> "string", value |-> v]
KBoot(options, environment, modules, ranges) ==
  [options |-> options, environment |-> environment, modules |-> modules, sections |-> 1, video |-> 1, serial |-> 1,
   ranges |-> ranges, mappings |-> 2, firmware |-> 3, from |-> [type |-> "disk", uuid |-> TRUE],
   devices |-> "hd0" :> [type |-> "disk", uuid |-> FALSE] @@ "net0" :> [type |-> "net", uuid |-> FALSE]]
Unset == [n \in {} |-> Text("")]
MCBoots ==
  LET debug == Option("debug", "boolean", "false") root == Option("root_device", "string", "hd0")
      level == Option("level", "string", "long") IN
  {KBoot(<<>>, Unset, <<"mod">>, 1), KBoot(<<debug, level>>, Unset, <<"mod", "long">>, 2),
   KBoot(<<debug, level>>, "level" :> Text("x") @@ "other" :> Text("x"), <<>>, 1), KBoot(<<root>>, Unset, <<>>, 1),
   KBoot(<<level, Option("level", "string", "x")>>, "root_device" :> Text("net0"), <<>>, 1),
   KBoot(<<level, Option("level", "boolean", "true")>>, Unset, <<>>, 1),
   KBoot(<<debug>>, "debug" :> Text("x"), <<>>, 1), KBoot(<<Option("debug", "float", "x")>>, Unset, <<>>, 1),
   KBoot(<<debug>>, "root_device" :> Text("nowhere"), <<>>, 1), KBoot(<<>>, "root_device" :> Text("other:"), <<>>, 1),
   KBoot(<<>>, "root_device" :> Text("uuid:"), <<>>, 1),
   KBoot(<<debug, Option("count", "integer", "x")>>, Unset, <<>>, 1), KBoot(<<debug, level>>, Unset, <<"mod">>, 7)}
MCStrings == {"x", "long", "hd0", "nowhere"}
MCSizeOf ==
  [debug |-> 3, level |-> 2, count |-> 2, mod |-> 2, long |-> 5, x |-> 1, true |-> 1, false |-> 1, hd0 |-> 2,
   nowhere |-> 3, net0 |-> 2, root_device |-> 5] @@ ("other:" :> 3)
MCStructs ==
  [core |-> 5, pagetables |-> 4, sections |-> 4, module |-> 3, video |-> 5, serial |-> 4, option |-> 3, bootdev |-> 6, bootnone |-> 6,
   memory |-> 3, vmem |-> 4, platform |-> 3, none |-> 2]

(* The parts that are not under way rest.                                   *)
NoLoad == config = 0 /\ stage = "none" /\ pages = 0 /\ cells = 0
NoTags ==
  boot = 0 /\ step = "none" /\ env = Unset /\ chosen = Unset /\ edits = 0 /\ tags_size = 0 /\ area = 0
NoCommand == command = 0 /\ pc = "none" /\ listed = <<>> /\ itags = 0 /\ odd = "none" /\ held = Nothing

IsRam(map, p) ==
  \E i \in 1 .. Len(map) :
    p \in map[i].start .. map[i].start + map[i].size - 1 /\ map[i].type \in {"free", "conventional", "boot"}

LoadInit(name, boots) ==
  /\ part = name /\ config \in boots /\ stage = name
  /\ pages = [p \in {a \in Addresses : a % PAGE_SIZE = 0} |->
                IF p \in config.busy \/ ~IsRam(config.firmware, p) THEN "busy" ELSE "free"]
  /\ cells = [a \in Addresses |-> "old"]

AllInit ==
  /\ status = "ok"
  /\ \/ LoadInit("multiboot", MultibootBoots) /\ loader = NewLoader /\ params = NoParams /\ NoTags /\ NoCommand
     \/ LoadInit("linux", LinuxBoots) /\ loader = NewLoader /\ params = NoParams /\ NoTags /\ NoCommand
     \/ part = "tags" /\ TagInit /\ NoLoad /\ loader = NewLoader /\ params = NoParams /\ NoCommand
     \/ part = "command" /\ CommandInit /\ NoLoad /\ loader = NewLoader /\ params = NoParams /\ NoTags

AllNext ==
  \/ MultibootNext /\ UNCHANGED <<params, tagVars, commandVars>>
  \/ LinuxNext /\ UNCHANGED <<loader, tagVars, commandVars>>
  \/ part = "tags" /\ TagNext /\ UNCHANGED <<loadVars, loader, params, commandVars>>
  \/ part = "command" /\ CommandNext /\ UNCHANGED <<loadVars, loader, params, tagVars>>

-----------------------------------------------------------------------------

VARIABLE half   \* the one under way; the other rests

MenuRests ==
  /\ start = Plain /\ envs = <<>> /\ current = 0 /\ handler = "none" /\ menus = <<>> /\ shell_enabled = FALSE
  /\ temp = <<>> /\ lines = <<>> /\ stack = <<>> /\ ret = "none" /\ picked = 0 /\ keys = 0 /\ phase = "rest"
LoadersRest ==
  /\ part = "none" /\ NoLoad /\ status = "ok" /\ loader = NewLoader /\ params = NoParams /\ NoTags /\ NoCommand

HalvesInit ==
  \/ half = "menu" /\ BootInit /\ LoadersRest
  \/ half = "loaders" /\ AllInit /\ MenuRests

HalvesNext ==
  \/ half = "menu" /\ BootNext /\ UNCHANGED <<half, allVars>>
  \/ half = "loaders" /\ AllNext /\ UNCHANGED <<half, bootVars>>

HalvesSpec ==
  /\ HalvesInit /\ [][HalvesNext]_<<half, bootVars, allVars>>
  /\ half = "menu" => BootFairness
=============================================================================
