--------------------------- MODULE LoaderCommands ----------------------------
(***************************************************************************)
(* The commands that set up a loader: "multiboot", "linux", "kboot", "efi" *)
(* and "chain", from their arguments to environ_set_loader(), with every   *)
(* way each can fail on the way, and the loads of the last two, which are  *)
(* short.  What they keep track of is what they have opened and allocated: *)
(* held counts the open handles and the blocks of each kind.               *)
(***************************************************************************)
EXTENDS Integers, Sequences, FiniteSets

CONSTANTS
  MaxModules,   \* the longest list of modules given to a command
  MaxTags       \* the most image tags a KBoot kernel has

VARIABLES
  command,   \* the command's name, the shape of its arguments: [name, second, count, notString]
  pc,        \* where it is; the labels of the source for the way out
  listed,    \* modules in the loader's list, TRUE for those with a handle
  itags,     \* image tags in the loader's list
  odd,       \* the way out that leaves something behind, "none" as a rule
  held       \* handles and blocks, by kind

commandVars == <<command, pc, listed, itags, odd, held>>

Handles == {"kernel", "module", "dir"}
Blocks == {"loader", "strings", "modules", "itags", "ehdr", "phdrs"}
Nothing == [r \in Handles \cup Blocks |-> 0]

(* The second argument: none, a string, a list, or of another type; in a   *)
(* list, the entry that is not a string, 0 for none.                       *)
Commands ==
  {[name |-> n, second |-> s, count |-> c, notString |-> b] :
     n \in {"multiboot", "linux", "kboot", "efi", "chain"}, s \in {"none", "string", "list", "other"},
     c \in 0 .. MaxModules, b \in 0 .. MaxModules}
CommandShapes ==
  {c \in Commands : /\ c.notString <= c.count /\ (c.second # "list" => c.notString = 0)
                    /\ c.count = 0 \/ c.second = "list" \/ (c.second = "string" /\ c.name \in {"linux", "kboot"})
                    /\ c.name = "chain" => c.second \in {"none", "string"}}

Is(n) == command.name = n
Plus(h, some) == [r \in DOMAIN h |-> IF r \in some THEN h[r] + 1 ELSE h[r]]
Minus(h, some) == [r \in DOMAIN h |-> IF r \in some THEN h[r] - 1 ELSE h[r]]
Go(to, h) == pc' = to /\ held' = h

-----------------------------------------------------------------------------
(***************************************************************************)
(* The way in.                                                             *)
(***************************************************************************)

(* The arguments: "kboot" checks all of them here, "efi" has only one.     *)
ArgsValid ==
  CASE Is("kboot") -> command.second # "other" /\ command.notString = 0
    [] Is("efi")   -> command.second = "none"
    [] OTHER       -> TRUE

Allocated == IF Is("chain") THEN {} ELSE IF Is("kboot") THEN {"loader"} ELSE {"loader", "strings"}

Begin ==
  /\ pc = "begin"
  /\ IF ArgsValid THEN Go("open", Plus(held, Allocated)) ELSE Go("failed", held)
  /\ UNCHANGED <<command, listed, itags, odd>>

(* fs_open() of the kernel.                                                *)
Open ==
  /\ pc = "open" /\ ~Is("chain")
  /\ \/ Go(IF Is("kboot") THEN "identify" ELSE IF Is("linux") THEN "modules" ELSE "check", Plus(held, {"kernel"}))
     \/ Go("err_free", held)
  /\ UNCHANGED <<command, listed, itags, odd>>

(* "chain" opens its file or, without one, takes the device of the         *)
(* environment, which may have none; the device must be a disk.            *)
OpenChain ==
  LET file == IF command.second = "none" THEN {} ELSE {"kernel"} IN
  /\ Is("chain")
  /\ \/ pc = "open" /\ (Go("check", Plus(held, file)) \/ Go("failed", held))
     \/ pc = "check" /\ (Go("set", held) \/ Go("failed", Minus(held, file)))
  /\ UNCHANGED <<command, listed, itags, odd>>

(* find_header(), the flags, the ELF header.                               *)
CheckMultiboot ==
  /\ pc = "check" /\ Is("multiboot")
  /\ Go("modules", held) \/ Go("err_close", held)
  /\ UNCHANGED <<command, listed, itags, odd>>

(* linux_arch_check(), after the initrds have been opened.                 *)
CheckLinux ==
  /\ pc = "check" /\ Is("linux")
  /\ Go("set", held) \/ Go("err_modules", held)
  /\ UNCHANGED <<command, listed, itags, odd>>

(* convert_file_path(): only a path from the root can be converted.        *)
CheckEfi ==
  /\ pc = "check" /\ Is("efi")
  /\ Go("set", held) \/ Go("err_close", held)
  /\ UNCHANGED <<command, listed, itags, odd>>

(* kboot_elf_identify(): the ELF header, then the program headers.         *)
Identify ==
  /\ pc = "identify"
  /\ \/ Go("notes", Plus(held, {"ehdr", "phdrs"})) /\ odd' = odd
     \/ Go("err_close", held) /\ odd' = odd                          \* a read failed, or not an ELF image
     \/ Go("err_close", Plus(held, {"ehdr"})) /\ odd' = "phentsize"  \* STATUS_MALFORMED_IMAGE
  /\ UNCHANGED <<command, listed, itags>>

(* add_image_tag(): a note adds a tag, or is not valid and ends the        *)
(* command.                                                                *)
AddImageTag ==
  /\ pc = "notes"
  /\ \/ itags < MaxTags /\ itags' = itags + 1 /\ Go("notes", Plus(held, {"itags"}))
     \/ itags' = itags /\ Go("err_itags", held)
  /\ UNCHANGED <<command, listed, odd>>

(* kboot_elf_iterate_notes(): all have been seen, or a segment of notes    *)
(* cannot be read.                                                         *)
IterateNotes ==
  /\ pc = "notes"
  /\ Go("options", held) \/ Go("err_itags", held)
  /\ UNCHANGED <<command, listed, itags, odd>>

(* The image tag, add_options() and the root device, init_video().         *)
Options ==
  /\ pc = "options"
  /\ \/ itags > 0 /\ Go("modules", held)
     \/ Go("err_itags", held)
  /\ UNCHANGED <<command, listed, itags, odd>>

-----------------------------------------------------------------------------
(***************************************************************************)
(* The modules, or the initrds.                                            *)
(***************************************************************************)

ModulesDone == IF Is("linux") THEN "check" ELSE "set"

NoModules ==
  /\ pc = "modules" /\ command.second = "none"
  /\ Go(ModulesDone, held)
  /\ UNCHANGED <<command, listed, itags, odd>>

(* An argument of the wrong type.  "multiboot" leaves by err_free.         *)
WrongType ==
  /\ pc = "modules"
  /\ command.second = "other" \/ (command.second = "string" /\ Is("multiboot"))
  /\ IF Is("multiboot") THEN Go("err_free", held) /\ odd' = "arguments" ELSE Go("err_close", held) /\ odd' = odd
  /\ UNCHANGED <<command, listed, itags>>

(* One entry of a list.  "multiboot" adds the module to its list and then  *)
(* opens its file.                                                         *)
AddMultibootModule ==
  LET i == Len(listed) + 1 IN
  /\ pc = "modules" /\ command.second = "list" /\ i <= command.count /\ Is("multiboot")
  /\ \/ /\ i # command.notString /\ listed' = Append(listed, TRUE)
        /\ Go("modules", Plus(held, {"module", "modules"}))
     \/ /\ i # command.notString /\ listed' = Append(listed, FALSE)
        /\ Go("err_modules", Plus(held, {"modules"}))
     \/ i = command.notString /\ listed' = listed /\ Go("err_modules", held)
  /\ UNCHANGED <<command, itags, odd>>

(* The other two open it first.                                            *)
AddListed ==
  LET i == Len(listed) + 1 IN
  /\ pc = "modules" /\ command.second = "list" /\ i <= command.count /\ ~Is("multiboot")
  /\ \/ /\ i # command.notString /\ listed' = Append(listed, TRUE)
        /\ Go("modules", Plus(held, {"module", "modules"}))
     \/ listed' = listed /\ Go("err_modules", held)
  /\ UNCHANGED <<command, itags, odd>>

ListDone ==
  /\ pc = "modules" /\ command.second = "list" /\ Len(listed) = command.count
  /\ Go(ModulesDone, held)
  /\ UNCHANGED <<command, listed, itags, odd>>

(* A single initrd of "linux".                                             *)
AddInitrd ==
  /\ pc = "modules" /\ command.second = "string" /\ Is("linux")
  /\ \/ listed' = <<TRUE>> /\ Go("check", Plus(held, {"module", "modules"}))
     \/ listed' = listed /\ Go("err_close", held)
  /\ UNCHANGED <<command, itags, odd>>

(* add_module_dir() of "kboot": entries that are not files are passed      *)
(* over, one that cannot be opened ends it.                                *)
OpenDir ==
  /\ pc = "modules" /\ command.second = "string" /\ Is("kboot")
  /\ \/ Go("dir", Plus(held, {"dir"}))
     \/ Go("err_modules", held)
  /\ UNCHANGED <<command, listed, itags, odd>>

DirEntry ==
  /\ pc = "dir"
  /\ \/ /\ Len(listed) < command.count
        /\ listed' = Append(listed, TRUE) /\ Go("dir", Plus(held, {"module", "modules"}))
     \/ listed' = listed /\ Go("err_modules", Minus(held, {"dir"}))
     \/ listed' = listed /\ Go("set", Minus(held, {"dir"}))
  /\ UNCHANGED <<command, itags, odd>>

(* environ_set_loader().                                                   *)
SetLoader ==
  /\ pc = "set"
  /\ Go("loaded", held)
  /\ UNCHANGED <<command, listed, itags, odd>>

-----------------------------------------------------------------------------
(***************************************************************************)
(* The way out.                                                            *)
(***************************************************************************)

(* err_modules, or err_initrd.                                             *)
ErrModulesMutant ==
  /\ pc = "err_modules" /\ listed # <<>>
  /\ listed' = Tail(listed)
  /\ Go("err_modules", Minus(held, {"modules", "module"}))
  /\ UNCHANGED <<command, itags, odd>>
ErrModules ==
  /\ pc = "err_modules" /\ listed # <<>>
  /\ listed' = Tail(listed)
  /\ Go("err_modules", Minus(held, IF listed[1] THEN {"modules", "module"} ELSE {"modules"}))
  /\ UNCHANGED <<command, itags, odd>>

ErrModulesDone ==
  /\ pc = "err_modules" /\ listed = <<>>
  /\ Go(IF Is("kboot") THEN "err_itags" ELSE "err_close", held)
  /\ UNCHANGED <<command, listed, itags, odd>>

ErrItags ==
  /\ pc = "err_itags"
  /\ IF itags # 0 THEN itags' = itags - 1 /\ Go("err_itags", Minus(held, {"itags"}))
     ELSE itags' = itags /\ Go("err_close", Minus(held, {"ehdr", "phdrs"}))
  /\ UNCHANGED <<command, listed, odd>>

ErrClose ==
  /\ pc = "err_close"
  /\ Go("err_free", Minus(held, {"kernel"}))
  /\ UNCHANGED <<command, listed, itags, odd>>

ErrFree ==
  /\ pc = "err_free"
  /\ Go("failed", Minus(held, Allocated))
  /\ UNCHANGED <<command, listed, itags, odd>>

-----------------------------------------------------------------------------
(***************************************************************************)
(* efi_loader_load() and chain_loader_load(): both read the file and close *)
(* it; a boot_error() before that leaves it open.                          *)
(***************************************************************************)

EfiLoad ==
  /\ pc = "loaded" /\ Is("efi")
  /\ \/ Go("entered", Minus(held, {"kernel"}))
     \/ Go("boot_error", held)
  /\ UNCHANGED <<command, listed, itags, odd>>

ChainLoad ==
  LET h == IF command.second = "none" THEN held ELSE Minus(held, {"kernel"}) IN
  /\ pc = "loaded" /\ Is("chain")
  /\ Go("entered", h) \/ Go("boot_error", h)
  /\ UNCHANGED <<command, listed, itags, odd>>

CommandInit ==
  /\ command \in CommandShapes
  /\ pc = "begin" /\ listed = <<>> /\ itags = 0 /\ odd = "none" /\ held = Nothing

CommandNext ==
  \/ Begin \/ Open \/ OpenChain \/ CheckMultiboot \/ CheckLinux \/ CheckEfi
  \/ Identify \/ AddImageTag \/ IterateNotes \/ Options
  \/ NoModules \/ WrongType \/ AddMultibootModule \/ AddListed \/ ListDone \/ AddInitrd \/ OpenDir \/ DirEntry
  \/ SetLoader \/ ErrModules \/ ErrModulesDone \/ ErrItags \/ ErrClose \/ ErrFree \/ EfiLoad \/ ChainLoad

CommandSpec == CommandInit /\ [][CommandNext]_commandVars

-----------------------------------------------------------------------------
(* Two ways out leave something behind: "multiboot" keeps the kernel's     *)
(* handle when its second argument is not a list, and "kboot" the ELF      *)
(* header when the size of a program header is wrong.                      *)
LeftBehind ==
  CASE odd = "arguments" -> [Nothing EXCEPT !["kernel"] = 1]
    [] odd = "phentsize" -> [Nothing EXCEPT !["ehdr"] = 1]
    [] OTHER             -> Nothing

(* However far a command gets before it fails, everything it opened is     *)
(* closed and everything it allocated freed, once, apart from the two      *)
(* leaks above; one that succeeds holds its kernel and each module of its  *)
(* list, and no directory.                                                 *)
NothingLost ==
  /\ \A r \in DOMAIN held : held[r] >= 0
  /\ pc = "failed" => held = LeftBehind
  /\ pc = "loaded" =>
       /\ held["dir"] = 0
       /\ held["kernel"] = IF Is("chain") /\ command.second = "none" THEN 0 ELSE 1
       /\ held["module"] = Len(listed) /\ held["modules"] = Len(listed) /\ held["itags"] = itags
       /\ \A i \in 1 .. Len(listed) : listed[i]
       /\ command.second = "list" /\ ~Is("efi") => Len(listed) = command.count
  /\ pc = "entered" => \A r \in Handles : held[r] = 0
=============================================================================
