----------------------------- MODULE LoaderProofs -----------------------------
(***************************************************************************)
(* Proofs about the loaders: the commands that set one up, for modules and *)
(* image tags of any number, and what a Linux kernel is entered with, on   *)
(* every machine.                                                          *)
(***************************************************************************)
EXTENDS LoaderCommands, Linux, ListLemmas

(***************************************************************************)
(* The invariant: what is held is a function of where the command is.      *)
(***************************************************************************)
Resources == Handles \cup Blocks
CommandPlaces == {"begin", "open", "identify", "notes", "options", "check", "modules", "dir", "set", "loaded",
           "err_modules", "err_itags", "err_close", "err_free", "failed", "entered", "boot_error"}

(* The label of the way out that closes the kernel's handle is not passed. *)
KernelOpen == pc \in {"identify", "notes", "options", "check", "modules", "dir", "set", "loaded",
                      "err_modules", "err_itags", "err_close"}
HeadersRead == Is("kboot") /\ pc \in {"notes", "options", "modules", "dir", "set", "loaded",
                                      "err_modules", "err_itags"}
HasLoader == pc \notin {"begin", "failed"} /\ ~Is("chain")
HasKernel ==
  \/ KernelOpen /\ ~(Is("chain") /\ command.second = "none")
  \/ pc = "boot_error" /\ Is("efi")
  \/ odd = "arguments"

One(b) == IF b THEN 1 ELSE 0
HeldInv ==
  /\ held = [r \in Resources |-> held[r]]
  /\ held["loader"] = One(HasLoader) /\ held["strings"] = One(HasLoader /\ ~Is("kboot"))
  /\ held["kernel"] = One(HasKernel) /\ held["dir"] = One(pc = "dir")
  /\ held["ehdr"] = One(HeadersRead \/ odd = "phentsize") /\ held["phdrs"] = One(HeadersRead)
  /\ held["itags"] = itags /\ held["modules"] = Len(listed)
  /\ held["module"] = IF listed # <<>> /\ ~listed[Len(listed)] THEN Len(listed) - 1 ELSE Len(listed)

(* Which commands come to a place.                                         *)
PlaceInv ==
  /\ pc \in CommandPlaces
  /\ pc \in {"identify", "notes", "options", "dir", "err_itags"} => Is("kboot")
  /\ pc \in {"modules", "err_modules"} => command.name \in {"multiboot", "linux", "kboot"}
  /\ pc = "check" => ~Is("kboot")
  /\ pc \in {"err_close", "err_free"} => ~Is("chain")
  /\ pc \in {"entered", "boot_error"} => command.name \in {"efi", "chain"}
  /\ pc = "dir" => command.second = "string"
  /\ pc \notin {"begin", "failed"} => ArgsValid

(* Modules are listed, each with its handle but for the one "multiboot"    *)
(* could not open, and image tags.                                         *)
ListsInv ==
  /\ listed \in Seq(BOOLEAN) /\ itags \in Nat
  /\ \A i \in 1 .. Len(listed) : listed[i] \/ (pc = "err_modules" /\ i = Len(listed))
  /\ listed # <<>> =>
       /\ command.name \in {"multiboot", "linux", "kboot"}
       /\ pc \in {"modules", "dir", "set", "loaded", "err_modules"} \/ (pc = "check" /\ Is("linux"))
  /\ pc = "modules" /\ command.second # "list" => listed = <<>>
  /\ command.second = "list" /\ ~Is("efi") /\ (pc \in {"set", "loaded"} \/ (pc = "check" /\ Is("linux")))
       => Len(listed) = command.count
  /\ itags # 0 => HeadersRead

(* The two ways out that leave something behind.                           *)
OddInv ==
  /\ odd \in {"none", "arguments", "phentsize"}
  /\ odd = "arguments" => pc \in {"err_free", "failed"}
  /\ odd = "phentsize" => pc \in {"err_close", "err_free", "failed"}

CommandInv ==
  /\ command \in CommandShapes
  /\ HeldInv /\ PlaceInv /\ ListsInv /\ OddInv

LEMMA CommandStarts == CommandInit => CommandInv
<1> SUFFICES ASSUME CommandInit PROVE CommandInv
  OBVIOUS
<1>1. /\ command \in CommandShapes /\ pc = "begin" /\ listed = <<>> /\ itags = 0 /\ odd = "none"
      /\ held = Nothing
  BY DEF CommandInit
<1>2. HeldInv
  BY <1>1 DEF HeldInv, Nothing, Resources, Handles, Blocks, One, HasLoader, HasKernel, KernelOpen,
              HeadersRead
<1>3. PlaceInv /\ OddInv
  BY <1>1 DEF PlaceInv, OddInv, CommandPlaces
<1>4. ListsInv
  BY <1>1 DEF ListsInv
<1> QED BY <1>1, <1>2, <1>3, <1>4 DEF CommandInv

USE DEF Is, Go, One, ModulesDone

(* Taking and giving back, one resource at a time.                         *)
LEMMA PlusMinus ==
  ASSUME NEW h, h = [r \in Resources |-> h[r]], NEW some
  PROVE  /\ Plus(h, some) = [r \in Resources |-> Plus(h, some)[r]]
         /\ \A r \in Resources : Plus(h, some)[r] = IF r \in some THEN h[r] + 1 ELSE h[r]
         /\ Minus(h, some) = [r \in Resources |-> Minus(h, some)[r]]
         /\ \A r \in Resources : Minus(h, some)[r] = IF r \in some THEN h[r] - 1 ELSE h[r]
BY DEF Plus, Minus

LEMMA BeginStep ==
  ASSUME CommandInv, Begin
  PROVE  CommandInv'
<1>1. /\ held = [r \in Resources |-> held[r]] /\ itags \in Nat /\ Len(listed) \in Nat
      /\ UNCHANGED <<command, listed>>
  BY DEF CommandInv, HeldInv, ListsInv, Begin
<1>2. PlaceInv' /\ OddInv'
  BY <1>1 DEF CommandInv, PlaceInv, OddInv, ListsInv, CommandPlaces, ArgsValid, CommandShapes, Commands,
              HeadersRead, Begin
<1>3. ListsInv'
  BY <1>1 DEF CommandInv, PlaceInv, ListsInv, HeadersRead, ArgsValid, Begin
<1>4. HeldInv'
  BY <1>1, PlusMinus
     DEF CommandInv, PlaceInv, ListsInv, OddInv, HeldInv, HasLoader, HasKernel, KernelOpen,
         HeadersRead, Resources, Handles, Blocks, Allocated, ArgsValid, Begin
<1> QED BY <1>1, <1>2, <1>3, <1>4 DEF CommandInv

LEMMA OpenStep ==
  ASSUME CommandInv, Open
  PROVE  CommandInv'
<1>1. /\ held = [r \in Resources |-> held[r]] /\ itags \in Nat /\ Len(listed) \in Nat
      /\ UNCHANGED <<command, listed>>
  BY DEF CommandInv, HeldInv, ListsInv, Open
<1>2. PlaceInv' /\ OddInv'
  BY <1>1 DEF CommandInv, PlaceInv, OddInv, ListsInv, CommandPlaces, ArgsValid, CommandShapes, Commands,
              HeadersRead, Open
<1>3. ListsInv'
  BY <1>1 DEF CommandInv, PlaceInv, ListsInv, HeadersRead, ArgsValid, Open
<1>4. HeldInv'
  BY <1>1, PlusMinus
     DEF CommandInv, PlaceInv, ListsInv, OddInv, HeldInv, HasLoader, HasKernel, KernelOpen,
         HeadersRead, Resources, Handles, Blocks, Allocated, ArgsValid, Open
<1> QED BY <1>1, <1>2, <1>3, <1>4 DEF CommandInv

LEMMA OpenChainStep ==
  ASSUME CommandInv, OpenChain
  PROVE  CommandInv'
<1>1. /\ held = [r \in Resources |-> held[r]] /\ itags \in Nat /\ Len(listed) \in Nat
      /\ UNCHANGED <<command, listed>>
  BY DEF CommandInv, HeldInv, ListsInv, OpenChain
<1>2. PlaceInv' /\ OddInv'
  BY <1>1 DEF CommandInv, PlaceInv, OddInv, ListsInv, CommandPlaces, ArgsValid, CommandShapes, Commands,
              HeadersRead, OpenChain
<1>3. ListsInv'
  <2>1. command.name \notin {"multiboot", "linux", "kboot", "efi"} /\ listed = <<>> /\ itags = 0
    BY DEF CommandInv, ListsInv, HeadersRead, OpenChain
  <2>2. command.second # "list" /\ pc' \in {"check", "set", "failed"}
    BY DEF CommandInv, CommandShapes, OpenChain
  <2>3. listed' = <<>> /\ listed' \in Seq(BOOLEAN) /\ Len(listed') = 0 /\ itags' = 0 /\ command' = command
    BY <1>1, <2>1 DEF OpenChain
  <2> QED BY <2>1, <2>2, <2>3 DEF ListsInv
<1>4. HeldInv'
  BY <1>1, PlusMinus
     DEF CommandInv, PlaceInv, ListsInv, OddInv, HeldInv, HasLoader, HasKernel, KernelOpen,
         HeadersRead, Resources, Handles, Blocks, Allocated, ArgsValid, OpenChain
<1> QED BY <1>1, <1>2, <1>3, <1>4 DEF CommandInv

LEMMA CheckMultibootStep ==
  ASSUME CommandInv, CheckMultiboot
  PROVE  CommandInv'
<1>1. /\ held = [r \in Resources |-> held[r]] /\ itags \in Nat /\ Len(listed) \in Nat
      /\ UNCHANGED <<command, listed>>
  BY DEF CommandInv, HeldInv, ListsInv, CheckMultiboot
<1>2. PlaceInv' /\ OddInv'
  BY <1>1 DEF CommandInv, PlaceInv, OddInv, ListsInv, CommandPlaces, ArgsValid, CommandShapes, Commands,
              HeadersRead, CheckMultiboot
<1>3. ListsInv'
  BY <1>1 DEF CommandInv, PlaceInv, ListsInv, HeadersRead, ArgsValid, CheckMultiboot
<1>4. HeldInv'
  BY <1>1, PlusMinus
     DEF CommandInv, PlaceInv, ListsInv, OddInv, HeldInv, HasLoader, HasKernel, KernelOpen,
         HeadersRead, Resources, Handles, Blocks, Allocated, ArgsValid, CheckMultiboot
<1> QED BY <1>1, <1>2, <1>3, <1>4 DEF CommandInv

LEMMA CheckLinuxStep ==
  ASSUME CommandInv, CheckLinux
  PROVE  CommandInv'
<1>1. /\ held = [r \in Resources |-> held[r]] /\ itags \in Nat /\ Len(listed) \in Nat
      /\ UNCHANGED <<command, listed>>
  BY DEF CommandInv, HeldInv, ListsInv, CheckLinux
<1>2. PlaceInv' /\ OddInv'
  BY <1>1 DEF CommandInv, PlaceInv, OddInv, ListsInv, CommandPlaces, ArgsValid, CommandShapes, Commands,
              HeadersRead, CheckLinux
<1>3. ListsInv'
  BY <1>1 DEF CommandInv, PlaceInv, ListsInv, HeadersRead, ArgsValid, CheckLinux
<1>4. HeldInv'
  BY <1>1, PlusMinus
     DEF CommandInv, PlaceInv, ListsInv, OddInv, HeldInv, HasLoader, HasKernel, KernelOpen,
         HeadersRead, Resources, Handles, Blocks, Allocated, ArgsValid, CheckLinux
<1> QED BY <1>1, <1>2, <1>3, <1>4 DEF CommandInv

LEMMA CheckEfiStep ==
  ASSUME CommandInv, CheckEfi
  PROVE  CommandInv'
<1>1. /\ held = [r \in Resources |-> held[r]] /\ itags \in Nat /\ Len(listed) \in Nat
      /\ UNCHANGED <<command, listed>>
  BY DEF CommandInv, HeldInv, ListsInv, CheckEfi
<1>2. PlaceInv' /\ OddInv'
  BY <1>1 DEF CommandInv, PlaceInv, OddInv, ListsInv, CommandPlaces, ArgsValid, CommandShapes, Commands,
              HeadersRead, CheckEfi
<1>3. ListsInv'
  BY <1>1 DEF CommandInv, PlaceInv, ListsInv, HeadersRead, ArgsValid, CheckEfi
<1>4. HeldInv'
  BY <1>1, PlusMinus
     DEF CommandInv, PlaceInv, ListsInv, OddInv, HeldInv, HasLoader, HasKernel, KernelOpen,
         HeadersRead, Resources, Handles, Blocks, Allocated, ArgsValid, CheckEfi
<1> QED BY <1>1, <1>2, <1>3, <1>4 DEF CommandInv

LEMMA IdentifyStep ==
  ASSUME CommandInv, Identify
  PROVE  CommandInv'
<1>1. /\ held = [r \in Resources |-> held[r]] /\ itags \in Nat /\ Len(listed) \in Nat
      /\ UNCHANGED <<command, listed>>
  BY DEF CommandInv, HeldInv, ListsInv, Identify
<1>2. PlaceInv' /\ OddInv'
  BY <1>1 DEF CommandInv, PlaceInv, OddInv, ListsInv, CommandPlaces, ArgsValid, CommandShapes, Commands,
              HeadersRead, Identify
<1>3. ListsInv'
  BY <1>1 DEF CommandInv, PlaceInv, ListsInv, HeadersRead, ArgsValid, Identify
<1>4. HeldInv'
  BY <1>1, PlusMinus
     DEF CommandInv, PlaceInv, ListsInv, OddInv, HeldInv, HasLoader, HasKernel, KernelOpen,
         HeadersRead, Resources, Handles, Blocks, Allocated, ArgsValid, Identify
<1> QED BY <1>1, <1>2, <1>3, <1>4 DEF CommandInv

LEMMA AddImageTagStep ==
  ASSUME CommandInv, AddImageTag
  PROVE  CommandInv'
<1>1. /\ held = [r \in Resources |-> held[r]] /\ itags \in Nat /\ Len(listed) \in Nat
      /\ UNCHANGED <<command, listed>>
  BY DEF CommandInv, HeldInv, ListsInv, AddImageTag
<1>2. PlaceInv' /\ OddInv'
  BY <1>1 DEF CommandInv, PlaceInv, OddInv, ListsInv, CommandPlaces, ArgsValid, CommandShapes, Commands,
              HeadersRead, AddImageTag
<1>3. ListsInv'
  BY <1>1 DEF CommandInv, PlaceInv, ListsInv, HeadersRead, ArgsValid, AddImageTag
<1>4. HeldInv'
  BY <1>1, PlusMinus
     DEF CommandInv, PlaceInv, ListsInv, OddInv, HeldInv, HasLoader, HasKernel, KernelOpen,
         HeadersRead, Resources, Handles, Blocks, Allocated, ArgsValid, AddImageTag
<1> QED BY <1>1, <1>2, <1>3, <1>4 DEF CommandInv

LEMMA IterateNotesStep ==
  ASSUME CommandInv, IterateNotes
  PROVE  CommandInv'
<1>1. /\ held = [r \in Resources |-> held[r]] /\ itags \in Nat /\ Len(listed) \in Nat
      /\ UNCHANGED <<command, listed>>
  BY DEF CommandInv, HeldInv, ListsInv, IterateNotes
<1>2. PlaceInv' /\ OddInv'
  BY <1>1 DEF CommandInv, PlaceInv, OddInv, ListsInv, CommandPlaces, ArgsValid, CommandShapes, Commands,
              HeadersRead, IterateNotes
<1>3. ListsInv'
  BY <1>1 DEF CommandInv, PlaceInv, ListsInv, HeadersRead, ArgsValid, IterateNotes
<1>4. HeldInv'
  BY <1>1, PlusMinus
     DEF CommandInv, PlaceInv, ListsInv, OddInv, HeldInv, HasLoader, HasKernel, KernelOpen,
         HeadersRead, Resources, Handles, Blocks, Allocated, ArgsValid, IterateNotes
<1> QED BY <1>1, <1>2, <1>3, <1>4 DEF CommandInv

LEMMA OptionsStep ==
  ASSUME CommandInv, Options
  PROVE  CommandInv'
<1>1. /\ held = [r \in Resources |-> held[r]] /\ itags \in Nat /\ Len(listed) \in Nat
      /\ UNCHANGED <<command, listed>>
  BY DEF CommandInv, HeldInv, ListsInv, Options
<1>2. PlaceInv' /\ OddInv'
  BY <1>1 DEF CommandInv, PlaceInv, OddInv, ListsInv, CommandPlaces, ArgsValid, CommandShapes, Commands,
              HeadersRead, Options
<1>3. ListsInv'
  BY <1>1 DEF CommandInv, PlaceInv, ListsInv, HeadersRead, ArgsValid, Options
<1>4. HeldInv'
  BY <1>1, PlusMinus
     DEF CommandInv, PlaceInv, ListsInv, OddInv, HeldInv, HasLoader, HasKernel, KernelOpen,
         HeadersRead, Resources, Handles, Blocks, Allocated, ArgsValid, Options
<1> QED BY <1>1, <1>2, <1>3, <1>4 DEF CommandInv

LEMMA NoModulesStep ==
  ASSUME CommandInv, NoModules
  PROVE  CommandInv'
<1>1. /\ held = [r \in Resources |-> held[r]] /\ itags \in Nat /\ Len(listed) \in Nat
      /\ UNCHANGED <<command, listed>>
  BY DEF CommandInv, HeldInv, ListsInv, NoModules
<1>2. PlaceInv' /\ OddInv'
  BY <1>1 DEF CommandInv, PlaceInv, OddInv, ListsInv, CommandPlaces, ArgsValid, CommandShapes, Commands,
              HeadersRead, NoModules
<1>3. ListsInv'
  BY <1>1 DEF CommandInv, PlaceInv, ListsInv, HeadersRead, ArgsValid, NoModules
<1>4. HeldInv'
  BY <1>1, PlusMinus
     DEF CommandInv, PlaceInv, ListsInv, OddInv, HeldInv, HasLoader, HasKernel, KernelOpen,
         HeadersRead, Resources, Handles, Blocks, Allocated, ArgsValid, NoModules
<1> QED BY <1>1, <1>2, <1>3, <1>4 DEF CommandInv

LEMMA WrongTypeStep ==
  ASSUME CommandInv, WrongType
  PROVE  CommandInv'
<1>1. /\ held = [r \in Resources |-> held[r]] /\ itags \in Nat /\ Len(listed) \in Nat
      /\ UNCHANGED <<command, listed>>
  BY DEF CommandInv, HeldInv, ListsInv, WrongType
<1>2. PlaceInv' /\ OddInv'
  BY <1>1 DEF CommandInv, PlaceInv, OddInv, ListsInv, CommandPlaces, ArgsValid, CommandShapes, Commands,
              HeadersRead, WrongType
<1>3. ListsInv'
  BY <1>1 DEF CommandInv, PlaceInv, ListsInv, HeadersRead, ArgsValid, WrongType
<1>4. HeldInv'
  BY <1>1, PlusMinus
     DEF CommandInv, PlaceInv, ListsInv, OddInv, HeldInv, HasLoader, HasKernel, KernelOpen,
         HeadersRead, Resources, Handles, Blocks, Allocated, ArgsValid, WrongType
<1> QED BY <1>1, <1>2, <1>3, <1>4 DEF CommandInv

LEMMA ListDoneStep ==
  ASSUME CommandInv, ListDone
  PROVE  CommandInv'
<1>1. /\ held = [r \in Resources |-> held[r]] /\ itags \in Nat /\ Len(listed) \in Nat
      /\ UNCHANGED <<command, listed>>
  BY DEF CommandInv, HeldInv, ListsInv, ListDone
<1>2. PlaceInv' /\ OddInv'
  BY <1>1 DEF CommandInv, PlaceInv, OddInv, ListsInv, CommandPlaces, ArgsValid, CommandShapes, Commands,
              HeadersRead, ListDone
<1>3. ListsInv'
  BY <1>1 DEF CommandInv, PlaceInv, ListsInv, HeadersRead, ArgsValid, ListDone
<1>4. HeldInv'
  BY <1>1, PlusMinus
     DEF CommandInv, PlaceInv, ListsInv, OddInv, HeldInv, HasLoader, HasKernel, KernelOpen,
         HeadersRead, Resources, Handles, Blocks, Allocated, ArgsValid, ListDone
<1> QED BY <1>1, <1>2, <1>3, <1>4 DEF CommandInv

LEMMA OpenDirStep ==
  ASSUME CommandInv, OpenDir
  PROVE  CommandInv'
<1>1. /\ held = [r \in Resources |-> held[r]] /\ itags \in Nat /\ Len(listed) \in Nat
      /\ UNCHANGED <<command, listed>>
  BY DEF CommandInv, HeldInv, ListsInv, OpenDir
<1>2. PlaceInv' /\ OddInv'
  BY <1>1 DEF CommandInv, PlaceInv, OddInv, ListsInv, CommandPlaces, ArgsValid, CommandShapes, Commands,
              HeadersRead, OpenDir
<1>3. ListsInv'
  BY <1>1 DEF CommandInv, PlaceInv, ListsInv, HeadersRead, ArgsValid, OpenDir
<1>4. HeldInv'
  BY <1>1, PlusMinus
     DEF CommandInv, PlaceInv, ListsInv, OddInv, HeldInv, HasLoader, HasKernel, KernelOpen,
         HeadersRead, Resources, Handles, Blocks, Allocated, ArgsValid, OpenDir
<1> QED BY <1>1, <1>2, <1>3, <1>4 DEF CommandInv

LEMMA SetLoaderStep ==
  ASSUME CommandInv, SetLoader
  PROVE  CommandInv'
<1>1. /\ held = [r \in Resources |-> held[r]] /\ itags \in Nat /\ Len(listed) \in Nat
      /\ UNCHANGED <<command, listed>>
  BY DEF CommandInv, HeldInv, ListsInv, SetLoader
<1>2. PlaceInv' /\ OddInv'
  BY <1>1 DEF CommandInv, PlaceInv, OddInv, ListsInv, CommandPlaces, ArgsValid, CommandShapes, Commands,
              HeadersRead, SetLoader
<1>3. ListsInv'
  BY <1>1 DEF CommandInv, PlaceInv, ListsInv, HeadersRead, ArgsValid, SetLoader
<1>4. HeldInv'
  BY <1>1, PlusMinus
     DEF CommandInv, PlaceInv, ListsInv, OddInv, HeldInv, HasLoader, HasKernel, KernelOpen,
         HeadersRead, Resources, Handles, Blocks, Allocated, ArgsValid, SetLoader
<1> QED BY <1>1, <1>2, <1>3, <1>4 DEF CommandInv

LEMMA ErrModulesDoneStep ==
  ASSUME CommandInv, ErrModulesDone
  PROVE  CommandInv'
<1>1. /\ held = [r \in Resources |-> held[r]] /\ itags \in Nat /\ Len(listed) \in Nat
      /\ UNCHANGED <<command, listed>>
  BY DEF CommandInv, HeldInv, ListsInv, ErrModulesDone
<1>2. PlaceInv' /\ OddInv'
  BY <1>1 DEF CommandInv, PlaceInv, OddInv, ListsInv, CommandPlaces, ArgsValid, CommandShapes, Commands,
              HeadersRead, ErrModulesDone
<1>3. ListsInv'
  BY <1>1 DEF CommandInv, PlaceInv, ListsInv, HeadersRead, ArgsValid, ErrModulesDone
<1>4. HeldInv'
  BY <1>1, PlusMinus
     DEF CommandInv, PlaceInv, ListsInv, OddInv, HeldInv, HasLoader, HasKernel, KernelOpen,
         HeadersRead, Resources, Handles, Blocks, Allocated, ArgsValid, ErrModulesDone
<1> QED BY <1>1, <1>2, <1>3, <1>4 DEF CommandInv

LEMMA ErrItagsStep ==
  ASSUME CommandInv, ErrItags
  PROVE  CommandInv'
<1>1. /\ held = [r \in Resources |-> held[r]] /\ itags \in Nat /\ Len(listed) \in Nat
      /\ UNCHANGED <<command, listed>>
  BY DEF CommandInv, HeldInv, ListsInv, ErrItags
<1>2. PlaceInv' /\ OddInv'
  BY <1>1 DEF CommandInv, PlaceInv, OddInv, ListsInv, CommandPlaces, ArgsValid, CommandShapes, Commands,
              HeadersRead, ErrItags
<1>3. ListsInv'
  BY <1>1 DEF CommandInv, PlaceInv, ListsInv, HeadersRead, ArgsValid, ErrItags
<1>4. HeldInv'
  BY <1>1, PlusMinus
     DEF CommandInv, PlaceInv, ListsInv, OddInv, HeldInv, HasLoader, HasKernel, KernelOpen,
         HeadersRead, Resources, Handles, Blocks, Allocated, ArgsValid, ErrItags
<1> QED BY <1>1, <1>2, <1>3, <1>4 DEF CommandInv

LEMMA ErrCloseStep ==
  ASSUME CommandInv, ErrClose
  PROVE  CommandInv'
<1>1. /\ held = [r \in Resources |-> held[r]] /\ itags \in Nat /\ Len(listed) \in Nat
      /\ UNCHANGED <<command, listed>>
  BY DEF CommandInv, HeldInv, ListsInv, ErrClose
<1>2. PlaceInv' /\ OddInv'
  BY <1>1 DEF CommandInv, PlaceInv, OddInv, ListsInv, CommandPlaces, ArgsValid, CommandShapes, Commands,
              HeadersRead, ErrClose
<1>3. ListsInv'
  BY <1>1 DEF CommandInv, PlaceInv, ListsInv, HeadersRead, ArgsValid, ErrClose
<1>4. HeldInv'
  BY <1>1, PlusMinus
     DEF CommandInv, PlaceInv, ListsInv, OddInv, HeldInv, HasLoader, HasKernel, KernelOpen,
         HeadersRead, Resources, Handles, Blocks, Allocated, ArgsValid, ErrClose
<1> QED BY <1>1, <1>2, <1>3, <1>4 DEF CommandInv

LEMMA ErrFreeStep ==
  ASSUME CommandInv, ErrFree
  PROVE  CommandInv'
<1>1. /\ held = [r \in Resources |-> held[r]] /\ itags \in Nat /\ Len(listed) \in Nat
      /\ UNCHANGED <<command, listed>>
  BY DEF CommandInv, HeldInv, ListsInv, ErrFree
<1>2. PlaceInv' /\ OddInv'
  BY <1>1 DEF CommandInv, PlaceInv, OddInv, ListsInv, CommandPlaces, ArgsValid, CommandShapes, Commands,
              HeadersRead, ErrFree
<1>3. ListsInv'
  BY <1>1 DEF CommandInv, PlaceInv, ListsInv, HeadersRead, ArgsValid, ErrFree
<1>4. HeldInv'
  BY <1>1, PlusMinus
     DEF CommandInv, PlaceInv, ListsInv, OddInv, HeldInv, HasLoader, HasKernel, KernelOpen,
         HeadersRead, Resources, Handles, Blocks, Allocated, ArgsValid, ErrFree
<1> QED BY <1>1, <1>2, <1>3, <1>4 DEF CommandInv

LEMMA EfiLoadStep ==
  ASSUME CommandInv, EfiLoad
  PROVE  CommandInv'
<1>1. /\ held = [r \in Resources |-> held[r]] /\ itags \in Nat /\ Len(listed) \in Nat
      /\ UNCHANGED <<command, listed>>
  BY DEF CommandInv, HeldInv, ListsInv, EfiLoad
<1>2. PlaceInv' /\ OddInv'
  BY <1>1 DEF CommandInv, PlaceInv, OddInv, ListsInv, CommandPlaces, ArgsValid, CommandShapes, Commands,
              HeadersRead, EfiLoad
<1>3. ListsInv'
  BY <1>1 DEF CommandInv, PlaceInv, ListsInv, HeadersRead, ArgsValid, EfiLoad
<1>4. HeldInv'
  BY <1>1, PlusMinus
     DEF CommandInv, PlaceInv, ListsInv, OddInv, HeldInv, HasLoader, HasKernel, KernelOpen,
         HeadersRead, Resources, Handles, Blocks, Allocated, ArgsValid, EfiLoad
<1> QED BY <1>1, <1>2, <1>3, <1>4 DEF CommandInv

LEMMA ChainLoadStep ==
  ASSUME CommandInv, ChainLoad
  PROVE  CommandInv'
<1>1. /\ held = [r \in Resources |-> held[r]] /\ itags \in Nat /\ Len(listed) \in Nat
      /\ UNCHANGED <<command, listed>>
  BY DEF CommandInv, HeldInv, ListsInv, ChainLoad
<1>2. PlaceInv' /\ OddInv'
  BY <1>1 DEF CommandInv, PlaceInv, OddInv, ListsInv, CommandPlaces, ArgsValid, CommandShapes, Commands,
              HeadersRead, ChainLoad
<1>3. ListsInv'
  BY <1>1 DEF CommandInv, PlaceInv, ListsInv, HeadersRead, ArgsValid, ChainLoad
<1>4. HeldInv'
  BY <1>1, PlusMinus
     DEF CommandInv, PlaceInv, ListsInv, OddInv, HeldInv, HasLoader, HasKernel, KernelOpen,
         HeadersRead, Resources, Handles, Blocks, Allocated, ArgsValid, ChainLoad
<1> QED BY <1>1, <1>2, <1>3, <1>4 DEF CommandInv

(* A module is added at the end and removed from the front.                *)
LEMMA OneMore ==
  ASSUME NEW s \in Seq(BOOLEAN), NEW b \in BOOLEAN
  PROVE  /\ Append(s, b) \in Seq(BOOLEAN) /\ Len(s) \in Nat /\ Append(s, b) # <<>>
         /\ Len(Append(s, b)) = Len(s) + 1 /\ Append(s, b)[Len(s) + 1] = b
         /\ \A i \in 1 .. Len(s) : Append(s, b)[i] = s[i]
OBVIOUS

LEMMA OneLess ==
  ASSUME NEW s \in Seq(BOOLEAN), s # <<>>
  PROVE  /\ Tail(s) \in Seq(BOOLEAN) /\ Len(s) \in Nat /\ Len(s) >= 1 /\ Len(Tail(s)) = Len(s) - 1
         /\ Tail(s) = <<>> <=> Len(s) = 1
         /\ \A i \in 1 .. Len(s) - 1 : Tail(s)[i] = s[i + 1]
<1>1. /\ Tail(s) \in Seq(BOOLEAN) /\ Len(s) \in Nat /\ Len(s) >= 1 /\ Len(Tail(s)) = Len(s) - 1
      /\ \A i \in 1 .. Len(s) - 1 : Tail(s)[i] = s[i + 1]
  OBVIOUS
<1>2. \A t \in Seq(BOOLEAN) : t = <<>> <=> Len(t) = 0
  OBVIOUS
<1> DEFINE t == Tail(s)
<1>3. t \in Seq(BOOLEAN) /\ Len(t) = Len(s) - 1
  BY <1>1
<1> HIDE DEF t
<1>4. t = <<>> <=> Len(s) = 1
  BY <1>1, <1>2, <1>3
<1> QED BY <1>1, <1>4 DEF t

LEMMA PlusModules ==
  ASSUME NEW h, h = [r \in Resources |-> h[r]]
  PROVE  /\ LET g == Plus(h, {"module", "modules"}) IN
            /\ g = [r \in Resources |-> g[r]]
            /\ \A r \in Resources \ {"module", "modules"} : g[r] = h[r]
            /\ g["modules"] = h["modules"] + 1 /\ g["module"] = h["module"] + 1
         /\ LET g == Plus(h, {"modules"}) IN
            /\ g = [r \in Resources |-> g[r]]
            /\ \A r \in Resources \ {"module", "modules"} : g[r] = h[r]
            /\ g["modules"] = h["modules"] + 1 /\ g["module"] = h["module"]
BY PlusMinus DEF Resources, Handles, Blocks

LEMMA ModuleAdded ==
  ASSUME CommandInv, UNCHANGED <<command, itags, odd>>, NEW b \in BOOLEAN,
         listed' = Append(listed, b),
         held' = Plus(held, IF b THEN {"module", "modules"} ELSE {"modules"}),
         \/ b /\ pc = "modules" /\ pc' = "modules" /\ command.second = "list"
         \/ b /\ pc = "dir" /\ pc' = "dir"
         \/ b /\ pc = "modules" /\ pc' = "check" /\ Is("linux") /\ command.second = "string"
         \/ ~b /\ pc = "modules" /\ pc' = "err_modules"
  PROVE  CommandInv'
<1>1. /\ held = [r \in Resources |-> held[r]] /\ itags \in Nat /\ Len(listed) \in Nat
      /\ listed \in Seq(BOOLEAN) /\ odd = "none"
  BY DEF CommandInv, HeldInv, ListsInv, OddInv
<1>2. PlaceInv' /\ OddInv'
  BY <1>1 DEF CommandInv, PlaceInv, OddInv, CommandPlaces, ArgsValid
<1>3. \A i \in 1 .. Len(listed) : listed[i]
  BY DEF CommandInv, ListsInv
<1>4. /\ listed' \in Seq(BOOLEAN) /\ listed' # <<>> /\ Len(listed') = Len(listed) + 1
      /\ listed'[Len(listed')] = b
      /\ \A i \in 1 .. Len(listed') : i # Len(listed') => listed'[i]
  BY <1>1, <1>3, OneMore
<1>5. ListsInv'
  <2>1. \A i \in 1 .. Len(listed') : listed'[i] \/ (pc' = "err_modules" /\ i = Len(listed'))
    BY <1>4
  <2>2. itags' # 0 => HeadersRead'
    BY DEF CommandInv, PlaceInv, ListsInv, HeadersRead
  <2> QED BY <1>1, <1>4, <2>1, <2>2 DEF CommandInv, PlaceInv, ListsInv
<1>6. HeldInv'
  <2>1. /\ held' = [r \in Resources |-> held'[r]]
        /\ \A r \in Resources \ {"module", "modules"} : held'[r] = held[r]
        /\ held'["modules"] = held["modules"] + 1
        /\ held'["module"] = IF b THEN held["module"] + 1 ELSE held["module"]
    <3>1. CASE b
      <4>1. held' = Plus(held, {"module", "modules"})
        BY <3>1
      <4> QED BY <1>1, <3>1, <4>1, PlusModules, ZenonT(30)
    <3>2. CASE ~b
      <4>1. held' = Plus(held, {"modules"})
        BY <3>2
      <4> QED BY <1>1, <3>2, <4>1, PlusModules, ZenonT(30)
    <3> QED BY <3>1, <3>2
  <2>2. held["modules"] = Len(listed) /\ held["module"] = Len(listed)
    <3>1. listed # <<>> => listed[Len(listed)]
      BY <1>1, <1>3
    <3> QED BY <3>1 DEF CommandInv, HeldInv
  <2>3. /\ held'["modules"] = Len(listed')
        /\ held'["module"] = IF listed' # <<>> /\ ~listed'[Len(listed')] THEN Len(listed') - 1
                             ELSE Len(listed')
    BY <1>1, <1>4, <2>1, <2>2
  <2>4. /\ held'["loader"] = held["loader"] /\ held'["strings"] = held["strings"]
        /\ held'["kernel"] = held["kernel"] /\ held'["dir"] = held["dir"]
        /\ held'["ehdr"] = held["ehdr"] /\ held'["phdrs"] = held["phdrs"] /\ held'["itags"] = held["itags"]
    BY <2>1 DEF Resources, Handles, Blocks
  <2>5. /\ HasLoader' = HasLoader /\ HasKernel' = HasKernel /\ (pc' = "dir") = (pc = "dir")
        /\ (HeadersRead' \/ odd' = "phentsize") = (HeadersRead \/ odd = "phentsize")
        /\ HeadersRead' = HeadersRead
    BY DEF CommandInv, PlaceInv, HasLoader, HasKernel, KernelOpen, HeadersRead
  <2> QED BY <2>1, <2>3, <2>4, <2>5 DEF CommandInv, HeldInv
<1> QED BY <1>2, <1>5, <1>6 DEF CommandInv

(* The list ends without a further module.                                 *)
LEMMA ModuleNotAdded ==
  ASSUME CommandInv, UNCHANGED <<command, itags, odd, listed>>,
         \/ pc = "modules" /\ pc' = "err_modules" /\ held' = held
         \/ pc = "modules" /\ pc' = "err_close" /\ held' = held /\ Is("linux") /\ command.second # "list"
         \/ pc = "dir" /\ pc' \in {"err_modules", "set"} /\ held' = Minus(held, {"dir"})
  PROVE  CommandInv'
<1>1. /\ held = [r \in Resources |-> held[r]] /\ itags \in Nat /\ Len(listed) \in Nat
      /\ listed \in Seq(BOOLEAN) /\ odd = "none"
  BY DEF CommandInv, HeldInv, ListsInv, OddInv
<1>2. PlaceInv' /\ OddInv'
  BY <1>1 DEF CommandInv, PlaceInv, OddInv, CommandPlaces, ArgsValid
<1>3. ListsInv'
  BY <1>1 DEF CommandInv, PlaceInv, ListsInv, HeadersRead
<1>4. HeldInv'
  BY <1>1, PlusMinus
     DEF CommandInv, PlaceInv, ListsInv, HeldInv, HasLoader, HasKernel, KernelOpen,
         HeadersRead, Resources, Handles, Blocks
<1> QED BY <1>2, <1>3, <1>4 DEF CommandInv

LEMMA AddingStep ==
  ASSUME CommandInv, AddMultibootModule \/ AddListed \/ AddInitrd \/ DirEntry
  PROVE  CommandInv'
<1>1. CASE AddMultibootModule
  BY <1>1, ModuleAdded, ModuleNotAdded DEF AddMultibootModule
<1>2. CASE AddListed
  BY <1>2, ModuleAdded, ModuleNotAdded DEF AddListed
<1>3. CASE AddInitrd
  <2>1. listed = <<>>
    BY <1>3 DEF AddInitrd, CommandInv, ListsInv
  <2>2. Append(<<>>, TRUE) = <<TRUE>>
    OBVIOUS
  <2> QED BY <1>3, <2>1, <2>2, ModuleAdded, ModuleNotAdded DEF AddInitrd
<1>4. CASE DirEntry
  BY <1>4, ModuleAdded, ModuleNotAdded DEF DirEntry
<1> QED BY <1>1, <1>2, <1>3, <1>4

LEMMA ErrModulesStep ==
  ASSUME CommandInv, ErrModules
  PROVE  CommandInv'
<1>1. /\ held = [r \in Resources |-> held[r]] /\ itags \in Nat /\ Len(listed) \in Nat
      /\ listed \in Seq(BOOLEAN) /\ UNCHANGED <<command, itags, odd>> /\ odd = "none"
      /\ pc = "err_modules" /\ pc' = "err_modules" /\ listed # <<>> /\ listed' = Tail(listed)
  BY DEF CommandInv, HeldInv, ListsInv, OddInv, ErrModules
<1>2. PlaceInv' /\ OddInv'
  BY <1>1 DEF CommandInv, PlaceInv, OddInv, ArgsValid
<1>3. /\ listed' \in Seq(BOOLEAN) /\ Len(listed) >= 1 /\ Len(listed') = Len(listed) - 1
      /\ listed' = <<>> <=> Len(listed) = 1
      /\ \A i \in 1 .. Len(listed) - 1 : listed'[i] = listed[i + 1]
  BY <1>1, OneLess
<1>4. ListsInv'
  BY <1>1, <1>3 DEF CommandInv, PlaceInv, ListsInv, HeadersRead
<1>5. HeldInv'
  <2>1. held' = Minus(held, IF listed[1] THEN {"modules", "module"} ELSE {"modules"})
    BY DEF ErrModules
  <2>2. /\ held' = [r \in Resources |-> held'[r]]
        /\ \A r \in Resources \ {"module", "modules"} : held'[r] = held[r]
        /\ held'["modules"] = held["modules"] - 1
        /\ held'["module"] = IF listed[1] THEN held["module"] - 1 ELSE held["module"]
    BY <1>1, <2>1, PlusMinus DEF Resources, Handles, Blocks
  <2>3. /\ held["modules"] = Len(listed)
        /\ held["module"] = IF listed[Len(listed)] THEN Len(listed) ELSE Len(listed) - 1
    BY <1>1 DEF CommandInv, HeldInv
  <2>4. /\ held'["modules"] = Len(listed')
        /\ held'["module"] = IF listed' # <<>> /\ ~listed'[Len(listed')] THEN Len(listed') - 1
                             ELSE Len(listed')
    <3>1. CASE Len(listed) = 1
      BY <1>1, <1>3, <2>2, <2>3, <3>1
    <3>2. CASE Len(listed) # 1
      <4>1. listed' # <<>> /\ listed'[Len(listed')] = listed[Len(listed)] /\ listed[1]
        BY <1>1, <1>3, <3>2 DEF CommandInv, ListsInv
      <4> QED BY <1>1, <1>3, <2>2, <2>3, <4>1
    <3> QED BY <3>1, <3>2
  <2>5. /\ held'["loader"] = held["loader"] /\ held'["strings"] = held["strings"]
        /\ held'["kernel"] = held["kernel"] /\ held'["dir"] = held["dir"]
        /\ held'["ehdr"] = held["ehdr"] /\ held'["phdrs"] = held["phdrs"] /\ held'["itags"] = held["itags"]
    BY <2>2 DEF Resources, Handles, Blocks
  <2>6. HasLoader' = HasLoader /\ HasKernel' = HasKernel /\ HeadersRead' = HeadersRead
    BY <1>1 DEF HasLoader, HasKernel, KernelOpen, HeadersRead
  <2> QED BY <1>1, <2>2, <2>4, <2>5, <2>6 DEF CommandInv, HeldInv
<1> QED BY <1>1, <1>2, <1>4, <1>5 DEF CommandInv

(* What the property asks for.                                             *)
LEMMA CommandImplies == CommandInv => NothingLost
<1> SUFFICES ASSUME CommandInv PROVE NothingLost
  OBVIOUS
<1>1. listed \in Seq(BOOLEAN) /\ itags \in Nat /\ Len(listed) \in Nat
  BY DEF CommandInv, ListsInv
<1>2. listed # <<>> => Len(listed) >= 1
  BY <1>1
<1>3. ASSUME NEW r \in DOMAIN held PROVE held[r] >= 0
  <2>1. r \in Resources
    BY <1>3 DEF CommandInv, HeldInv
  <2> QED BY <1>1, <1>2, <2>1 DEF CommandInv, HeldInv, One, Resources, Handles, Blocks
<1>4. ASSUME pc = "failed" PROVE held = LeftBehind
  <2>1. listed = <<>> /\ Len(listed) = 0 /\ itags = 0
    BY <1>4 DEF CommandInv, ListsInv, HeadersRead
  <2>2. /\ held = [r \in Resources |-> held[r]]
        /\ held["loader"] = 0 /\ held["strings"] = 0 /\ held["dir"] = 0 /\ held["phdrs"] = 0
        /\ held["itags"] = 0 /\ held["modules"] = 0 /\ held["module"] = 0
        /\ held["kernel"] = IF odd = "arguments" THEN 1 ELSE 0
        /\ held["ehdr"] = IF odd = "phentsize" THEN 1 ELSE 0
    BY <1>4, <2>1 DEF CommandInv, HeldInv, One, HasLoader, HasKernel, KernelOpen, HeadersRead
  <2>3. LeftBehind = [r \in Resources |-> LeftBehind[r]]
    BY DEF LeftBehind, Nothing, Resources
  <2>4. ASSUME NEW r \in Resources PROVE held[r] = LeftBehind[r]
    <3>1. LeftBehind[r] = IF (odd = "arguments" /\ r = "kernel") \/ (odd = "phentsize" /\ r = "ehdr")
                          THEN 1 ELSE 0
      BY DEF LeftBehind, Nothing, Resources, Handles, Blocks
    <3> QED BY <2>2, <3>1 DEF Resources, Handles, Blocks
  <2> QED BY <2>2, <2>3, <2>4
<1>5. ASSUME pc = "loaded"
      PROVE  /\ held["dir"] = 0
             /\ held["kernel"] = IF Is("chain") /\ command.second = "none" THEN 0 ELSE 1
             /\ held["module"] = Len(listed) /\ held["modules"] = Len(listed) /\ held["itags"] = itags
             /\ \A i \in 1 .. Len(listed) : listed[i]
             /\ command.second = "list" /\ ~Is("efi") => Len(listed) = command.count
  <2>1. \A i \in 1 .. Len(listed) : listed[i]
    BY <1>5 DEF CommandInv, ListsInv
  <2>2. ~(listed # <<>> /\ ~listed[Len(listed)])
    BY <1>1, <1>2, <2>1
  <2>3. odd = "none"
    BY <1>5 DEF CommandInv, OddInv
  <2> QED BY <1>5, <2>1, <2>2, <2>3 DEF CommandInv, HeldInv, ListsInv, One, HasKernel, KernelOpen
<1>6. ASSUME pc = "entered" PROVE \A r \in Handles : held[r] = 0
  <2>1. listed = <<>> /\ Len(listed) = 0 /\ odd = "none"
    BY <1>6 DEF CommandInv, ListsInv, OddInv
  <2> QED BY <1>6, <2>1 DEF CommandInv, HeldInv, One, HasKernel, KernelOpen, Handles
<1> QED BY <1>3, <1>4, <1>5, <1>6 DEF NothingLost

LEMMA CommandSteps ==
  ASSUME CommandInv, [CommandNext]_commandVars
  PROVE  CommandInv'
<1>1. CASE Begin \/ Open \/ OpenChain \/ CheckMultiboot \/ CheckLinux \/ CheckEfi
  BY <1>1, BeginStep, OpenStep, OpenChainStep, CheckMultibootStep, CheckLinuxStep, CheckEfiStep
<1>2. CASE Identify \/ AddImageTag \/ IterateNotes \/ Options
  BY <1>2, IdentifyStep, AddImageTagStep, IterateNotesStep, OptionsStep
<1>3. CASE NoModules \/ WrongType \/ ListDone \/ OpenDir
  BY <1>3, NoModulesStep, WrongTypeStep, ListDoneStep, OpenDirStep
<1>4. CASE AddMultibootModule \/ AddListed \/ AddInitrd \/ DirEntry
  BY <1>4, AddingStep
<1>5. CASE ErrModules \/ ErrModulesDone \/ ErrItags \/ ErrClose \/ ErrFree
  BY <1>5, ErrModulesStep, ErrModulesDoneStep, ErrItagsStep, ErrCloseStep, ErrFreeStep
<1>6. CASE SetLoader \/ EfiLoad \/ ChainLoad
  BY <1>6, SetLoaderStep, EfiLoadStep, ChainLoadStep
<1>7. CASE UNCHANGED commandVars
  BY <1>7 DEF commandVars, CommandInv, HeldInv, PlaceInv, ListsInv, OddInv, HasLoader, HasKernel,
              KernelOpen, HeadersRead, ArgsValid
<1> QED BY <1>1, <1>2, <1>3, <1>4, <1>5, <1>6, <1>7 DEF CommandNext

(* However far a command that sets up a loader gets before it fails, it    *)
(* has closed every handle it opened and freed every block it allocated,   *)
(* once, but for two known ways out; one that succeeds holds its kernel    *)
(* and each of its modules: for any number of modules and image tags.      *)
THEOREM CommandsLoseNothing == CommandSpec => []NothingLost
<1>1. CommandInv /\ [CommandNext]_commandVars => CommandInv'
  BY CommandSteps
<1> QED BY <1>1, CommandStarts, CommandImplies, PTL DEF CommandSpec

-----------------------------------------------------------------------------
(***************************************************************************)
(* Memory and what is placed in it.                                        *)
(***************************************************************************)
AddSizes == INSTANCE FoldLemmas WITH Op <- AddSize
MemoryInfos == INSTANCE FoldLemmas WITH Op <- MemoryInfo

PageAddresses == {a \in Addresses : a % PAGE_SIZE = 0}

LEMMA Sizes ==
  /\ PAGE_SIZE \in Nat /\ PAGE_SIZE > 1 /\ PAGE_SIZE \in Nat \ {0} /\ PHYS_MAX \in Nat
  /\ (PHYS_MAX + 1) % PAGE_SIZE = 0
  /\ LOW \in Nat \ {0} /\ LOW_END \in Nat \ {0} /\ HIGH \in Nat \ {0} /\ LOW_END < PHYS_MAX
  /\ LOW % PAGE_SIZE = 0 /\ LOW_END % PAGE_SIZE = 0 /\ HIGH % PAGE_SIZE = 0
BY LoadMemoryAssumption

LEMMA PageOfAddress ==
  ASSUME NEW a \in Nat
  PROVE  /\ PageOf(a) \in Nat /\ PageOf(a) <= a /\ a < PageOf(a) + PAGE_SIZE
         /\ PageOf(a) % PAGE_SIZE = 0
         /\ a \in Addresses => PageOf(a) \in PageAddresses
<1> DEFINE q == a \div PAGE_SIZE
           w == a % PAGE_SIZE
           p == PageOf(a)
<1>1. q \in Nat /\ w \in Nat /\ w < PAGE_SIZE /\ a = PAGE_SIZE * q + w /\ PAGE_SIZE * q \in Nat
  BY Sizes, DivMod
<1>2. p = a - w
  BY DEF PageOf, round_down
<1> HIDE DEF q, w, p
<1>3. p = PAGE_SIZE * q
  BY <1>1, <1>2
<1>4. (PAGE_SIZE * q) % PAGE_SIZE = 0
  BY <1>1, Sizes, Multiple
<1>5. p \in Nat /\ p <= a /\ a < p + PAGE_SIZE /\ p % PAGE_SIZE = 0
  BY <1>1, <1>2, <1>3, <1>4, Sizes
<1>6. a \in Addresses => p \in PageAddresses
  BY <1>5, Sizes DEF Addresses, PageAddresses
<1> QED BY <1>5, <1>6 DEF p

(* All pages of a multiple of the page size are as they look.              *)
LEMMA PageOfPage ==
  ASSUME NEW p \in Nat, p % PAGE_SIZE = 0, NEW a \in Nat, p <= a, a < p + PAGE_SIZE
  PROVE  PageOf(a) = p
<1> DEFINE q == PageOf(a)
<1>1. /\ q \in Nat /\ q <= a /\ a < q + PAGE_SIZE /\ q % PAGE_SIZE = 0 /\ PAGE_SIZE \in Nat \ {0}
      /\ q \in Int /\ p \in Int
  BY PageOfAddress, Sizes
<1> HIDE DEF q
<1>2. ~(p < q)
  <2>1. ASSUME p < q PROVE FALSE
    <3>1. p + PAGE_SIZE <= q
      BY <1>1, <2>1, MultipleGap, Zenon
    <3> QED BY <1>1, <3>1
  <2> QED BY <2>1
<1>3. ~(q < p)
  <2>1. ASSUME q < p PROVE FALSE
    <3>1. q + PAGE_SIZE <= p
      BY <1>1, <2>1, MultipleGap, Zenon
    <3> QED BY <1>1, <3>1
  <2> QED BY <2>1
<1> QED BY <1>1, <1>2, <1>3 DEF q

LEMMA RoundUp ==
  ASSUME NEW n \in Nat
  PROVE  /\ round_up(n, PAGE_SIZE) \in Nat /\ n <= round_up(n, PAGE_SIZE)
         /\ round_up(n, PAGE_SIZE) % PAGE_SIZE = 0
<1> DEFINE m == n + PAGE_SIZE - 1
           q == m \div PAGE_SIZE
           w == m % PAGE_SIZE
           r == PAGE_SIZE * q
<1>1. PAGE_SIZE \in Nat \ {0} /\ m \in Nat
  BY Sizes
<1>2. m = n + PAGE_SIZE - 1
  OBVIOUS
<1> HIDE DEF m
<1>3. q \in Nat /\ w \in Nat /\ w < PAGE_SIZE /\ m = PAGE_SIZE * q + w /\ r \in Nat /\ r = q * PAGE_SIZE
  BY <1>1, DivMod
<1>4. r % PAGE_SIZE = 0
  BY <1>1, <1>3, Multiple
<1>5. round_up(n, PAGE_SIZE) = r
  BY <1>3 DEF round_up, m
<1> HIDE DEF q, w, r
<1>6. n <= r
  <2>1. m = r + w
    BY <1>3 DEF r
  <2> QED BY <1>1, <1>2, <1>3, <2>1
<1> QED BY <1>3, <1>4, <1>5, <1>6

(* n cells from start on, in pages of one type by t.                       *)
InOf(t, start, n, type) ==
  /\ start \in Nat /\ n \in Nat
  /\ \A a \in start .. start + n - 1 : a \in Addresses /\ t[PageOf(a)] = type

LEMMA PlaceIn ==
  ASSUME NEW size \in Nat \ {0}, NEW align \in Nat, NEW min \in Nat, NEW max \in Nat,
         NEW p \in Places(size, align, min, max)
  PROVE  /\ p \in Nat /\ min <= p /\ (p + size) - 1 <= PHYS_MAX /\ (max # 0 => (p + size) - 1 <= max)
         /\ p % (IF align = 0 THEN PAGE_SIZE ELSE align) = 0
         /\ InOf(pages, p, size, "free")
<1> DEFINE last == IF max = 0 \/ max > PHYS_MAX THEN PHYS_MAX ELSE max
<1>1. last \in Nat /\ last <= PHYS_MAX /\ (max # 0 => last <= max) /\ PHYS_MAX \in Nat
  BY Sizes
<1>2. /\ p \in min .. (last - size) + 1
      /\ p % (IF align = 0 THEN PAGE_SIZE ELSE align) = 0
      /\ \A q \in PagesIn(p, size) : pages[q] = "free"
  BY DEF Places
<1> HIDE DEF last
<1>3. p \in Nat /\ min <= p /\ (p + size) - 1 <= last
  BY <1>1, <1>2
<1>4. InOf(pages, p, size, "free")
  <2> SUFFICES ASSUME NEW a \in p .. p + size - 1
               PROVE  a \in Addresses /\ pages[PageOf(a)] = "free"
    BY <1>3 DEF InOf
  <2>1. a \in 0 .. PHYS_MAX
    BY <1>1, <1>3
  <2>2. PageOf(a) \in PagesIn(p, size)
    BY DEF PagesIn
  <2> QED BY <1>2, <2>1, <2>2 DEF Addresses
<1> QED BY <1>1, <1>2, <1>3, <1>4

LEMMA LowestPlace ==
  ASSUME NEW size \in Nat, NEW align, NEW min \in Nat, NEW max,
         NEW p, p = AllocLow(size, align, min, max), p # NOWHERE
  PROVE  /\ p \in Places(size, align, min, max) /\ size # 0
         /\ \A x \in Places(size, align, min, max) : p <= x
<1> DEFINE T == Places(size, align, min, max)
<1>1. size # 0 /\ T # {} /\ p = Min(T)
  BY DEF AllocLow
<1>2. T \subseteq Nat
  BY DEF Places
<1> HIDE DEF T
<1>3. Min(T) \in T /\ \A y \in T : Min(T) <= y
  BY <1>1, <1>2, MinElement
<1> QED BY <1>1, <1>3 DEF T

LEMMA HighestPlace ==
  ASSUME NEW size \in Nat, NEW align, NEW min \in Nat \ {0}, NEW max \in Nat,
         NEW p, p = AllocHigh(size, align, min, max), p # NOWHERE
  PROVE  p \in Places(size, align, min, max) /\ size # 0
<1> DEFINE T == Places(size, align, min, max)
           n == PHYS_MAX + 1
<1>1. size # 0 /\ T # {} /\ p = Max(T)
  BY DEF AllocHigh
<1>2. T \subseteq 1 .. n /\ n \in Nat
  BY Sizes DEF Places
<1> HIDE DEF T, n
<1>3. Max(T) \in T
  BY <1>1, <1>2, MaxOf
<1> QED BY <1>1, <1>3 DEF T

-----------------------------------------------------------------------------
(***************************************************************************)
(* The configuration.                                                      *)
(***************************************************************************)
LEMMA HeaderFields ==
  ASSUME LinuxConfig(config)
  PROVE  /\ Header.version \in Nat /\ Header.align \in Nat /\ Header.min_align \in Nat
         /\ Header.init_size \in Nat /\ Header.initrd_addr_max \in Nat /\ config.cmdline \in Nat
         /\ SetupSize \in Nat /\ LoadSize \in Nat \ {0} /\ MaxCmdline \in Nat
         /\ (Header.initrd_addr_max + 1) % PAGE_SIZE = 0
         /\ config.initrds \in Seq(Nat)
<1> DEFINE h == config.kernel
<1>1. /\ h.version \in Nat /\ h.size \in Nat /\ h.setup_sects \in Nat /\ h.cmdline_size \in Nat
      /\ h.align \in Nat /\ h.min_align \in Nat /\ h.init_size \in Nat /\ h.initrd_addr_max \in Nat
      /\ config.cmdline \in Nat /\ SECTOR \in Nat /\ DEFAULT_CMDLINE \in Nat
      /\ (h.initrd_addr_max + 1) % PAGE_SIZE = 0 /\ config.initrds \in Seq(Nat)
  BY DEF LinuxConfig
<1>2. SetupSize < h.size /\ SetupSize = (IF h.setup_sects # 0 THEN h.setup_sects + 1 ELSE 5) * SECTOR
  BY DEF LinuxConfig, SetupSize, Header
<1>3. SetupSize \in Nat
  <2> DEFINE n == IF h.setup_sects # 0 THEN h.setup_sects + 1 ELSE 5
  <2>1. n \in Nat
    BY <1>1
  <2> HIDE DEF n
  <2>2. n * SECTOR \in Nat
    BY <1>1, <2>1
  <2> QED BY <1>2, <2>2 DEF n
<1>4. LoadSize \in Nat \ {0}
  BY <1>1, <1>2, <1>3 DEF LoadSize, Header
<1>5. MaxCmdline \in Nat
  BY <1>1 DEF MaxCmdline, Header
<1> QED BY <1>1, <1>3, <1>4, <1>5 DEF Header

LEMMA CmdlineRoom ==
  ASSUME LinuxConfig(config)
  PROVE  CmdlineSize \in Nat \ {0} /\ MaxCmdline < CmdlineSize /\ CmdlineSize % PAGE_SIZE = 0
<1> DEFINE n == MaxCmdline + 1
<1>1. MaxCmdline \in Nat /\ n \in Nat
  BY HeaderFields
<1>2. CmdlineSize = round_up(n, PAGE_SIZE)
  BY DEF CmdlineSize
<1> HIDE DEF n
<1>3. CmdlineSize \in Nat /\ n <= CmdlineSize /\ CmdlineSize % PAGE_SIZE = 0
  BY <1>1, <1>2, RoundUp
<1> QED BY <1>1, <1>3 DEF n

LEMMA Room ==
  ASSUME LinuxConfig(config), ~(Header.version >= 10 /\ Header.init_size < LoadSize)
  PROVE  /\ KernelRoom \in Nat \ {0} /\ LoadSize <= KernelRoom
         /\ Header.version >= 10 => Header.init_size <= KernelRoom
<1>1. Header.version \in Nat /\ Header.init_size \in Nat /\ LoadSize \in Nat \ {0}
  BY HeaderFields
<1>2. CASE Header.version >= 10
  <2> DEFINE k == Header.init_size
  <2>1. KernelRoom = round_up(k, PAGE_SIZE) /\ k \in Nat /\ LoadSize <= k
    BY <1>1, <1>2 DEF KernelRoom
  <2> HIDE DEF k
  <2>2. KernelRoom \in Nat /\ k <= KernelRoom
    BY <2>1, RoundUp
  <2> QED BY <1>1, <1>2, <2>1, <2>2 DEF k
<1>3. CASE ~(Header.version >= 10)
  <2> DEFINE r == round_up(LoadSize, PAGE_SIZE)
  <2>1. r \in Nat /\ LoadSize <= r
    BY <1>1, RoundUp
  <2>2. KernelRoom = r * 3
    BY <1>3 DEF KernelRoom
  <2> HIDE DEF r
  <2> QED BY <1>1, <1>3, <2>1, <2>2
<1> QED BY <1>2, <1>3

LEMMA Preferred ==
  ASSUME LinuxConfig(config)
  PROVE  PrefAddr \in Nat /\ PrefAddr % PAGE_SIZE = 0
<1>1. /\ Header.pref_address \in Nat /\ Header.pref_address % PAGE_SIZE = 0 /\ Header.align \in Nat
      /\ Relocatable => Header.align # 0 /\ Header.align % PAGE_SIZE = 0
  BY DEF LinuxConfig, Header, Relocatable
<1>2. HIGH \in Nat /\ HIGH % PAGE_SIZE = 0 /\ PAGE_SIZE \in Nat \ {0}
  BY Sizes
<1>3. ASSUME Relocatable
      PROVE  round_up(HIGH, Header.align) \in Nat /\ round_up(HIGH, Header.align) % PAGE_SIZE = 0
  <2> DEFINE a == Header.align
             m == HIGH + a - 1
             q == m \div a
             r == q * a
  <2>1. a \in Nat \ {0} /\ a % PAGE_SIZE = 0
    BY <1>1, <1>3
  <2> HIDE DEF a
  <2>2. m \in Nat
    BY <1>2, <2>1
  <2>3. round_up(HIGH, a) = r
    BY DEF round_up
  <2> HIDE DEF m
  <2>4. q \in Nat
    BY <2>1, <2>2, DivMod
  <2> HIDE DEF q
  <2>5. r = a * q /\ r \in Nat /\ r \in Int /\ (a * q) % a = 0
    BY <2>1, <2>4, Multiple
  <2>6. r % PAGE_SIZE = 0
    BY <1>2, <2>1, <2>5, MultipleOfMultiple
  <2> QED BY <2>3, <2>5, <2>6 DEF a
<1> QED BY <1>1, <1>2, <1>3 DEF PrefAddr, LINUX_BZIMAGE_ADDR

LEMMA SizesAreFolds ==
  /\ InitrdSize = AddSizes!Fold(0, config.initrds)
  /\ \A i : InitrdStart(i) = AddSizes!Fold(0, SubSeq(config.initrds, 1, i - 1))
<1>1. \A list : FoldLeft(AddSize, 0, list) = AddSizes!Fold(0, list)
  BY DEF AddSizes!Fold, AddSize, FoldLeft, MapThenFoldSet, Max,
         AddSizes!FoldLeft, AddSizes!MapThenFoldSet, AddSizes!Max
<1> QED BY <1>1 DEF InitrdSize, InitrdStart

(* The initrds lie one after the other.                                    *)
LEMMA InitrdsInOrder ==
  ASSUME LinuxConfig(config)
  PROVE  /\ InitrdSize \in Nat
         /\ \A i \in 1 .. Len(config.initrds) :
              /\ InitrdStart(i) \in Nat /\ config.initrds[i] \in Nat
              /\ InitrdStart(i) + config.initrds[i] <= InitrdSize
         /\ \A i, j \in 1 .. Len(config.initrds) :
              i < j => InitrdStart(i) + config.initrds[i] <= InitrdStart(j)
<1> DEFINE s == config.initrds
           n == Len(s)
<1>1. s \in Seq(Nat) /\ n \in Nat /\ \A k \in 1 .. n : s[k] \in Nat
  <2>1. s \in Seq(Nat)
    BY HeaderFields
  <2> HIDE DEF s
  <2> QED BY <2>1
<1>2. PICK h : AddSizes!Stages(h, 0, s) /\ AddSizes!Fold(0, s) = h[n]
  BY <1>1, AddSizes!FoldStages
<1>3. h[0] = 0 /\ \A k \in 1 .. n : h[k] = h[k - 1] + s[k]
  BY <1>2 DEF AddSizes!Stages, AddSize
<1>4. InitrdSize = h[n]
  BY <1>2, SizesAreFolds
<1> HIDE DEF s, n
<1>5. \A k \in 0 .. n : h[k] \in Nat
  <2> DEFINE G == {k \in 0 .. n : h[k] \in Nat}
  <2>1. 0 \in G
    BY <1>1, <1>3
  <2>2. \A k \in 1 .. n : k - 1 \in G => k \in G
    BY <1>1, <1>3
  <2> HIDE DEF G
  <2>3. \A k \in 0 .. n : k \in G
    BY <1>1, <2>1, <2>2, UpTo
  <2> QED BY <2>3 DEF G
<1>6. ASSUME NEW i \in 0 .. n
      PROVE  \A k \in i .. n : h[i] <= h[k]
  <2> DEFINE G == {k \in 0 .. n : k >= i => h[i] <= h[k]}
  <2>1. 0 \in G
    BY <1>1, <1>5
  <2>2. ASSUME NEW k \in 1 .. n, k - 1 \in G PROVE k \in G
    <3>1. CASE k <= i
      BY <1>1, <1>5, <3>1
    <3>2. CASE k > i
      <4>1. k - 1 \in 0 .. n /\ h[i] <= h[k - 1]
        BY <1>1, <2>2, <3>2
      <4>2. h[k] = h[k - 1] + s[k] /\ s[k] \in Nat /\ h[k - 1] \in Nat /\ h[i] \in Nat
        BY <1>1, <1>3, <1>5, <4>1
      <4> QED BY <1>1, <4>1, <4>2
    <3> QED BY <1>1, <3>1, <3>2
  <2> HIDE DEF G
  <2>3. \A k \in 0 .. n : k \in G
    BY <1>1, <2>1, <2>2, UpTo
  <2> QED BY <1>1, <2>3 DEF G
<1>7. ASSUME NEW i \in 1 .. n PROVE InitrdStart(i) = h[i - 1]
  <2> DEFINE t == SubSeq(s, 1, i - 1)
             m == i - 1
  <2>1. t \in Seq(Nat) /\ Len(t) = m /\ \A k \in 1 .. m : t[k] = s[k]
    BY <1>1
  <2>2. m \in Nat /\ m < n
    BY <1>1
  <2> HIDE DEF t
  <2>3. PICK g : AddSizes!Stages(g, 0, t) /\ AddSizes!Fold(0, t) = g[m]
    BY <2>1, AddSizes!FoldStages
  <2>4. g[0] = 0 /\ \A k \in 1 .. m : g[k] = g[k - 1] + t[k]
    BY <2>1, <2>3 DEF AddSizes!Stages, AddSize
  <2>5. InitrdStart(i) = g[m]
    BY <2>3, SizesAreFolds DEF t, s
  <2> HIDE DEF m
  <2> DEFINE G == {k \in 0 .. m : g[k] = h[k]}
  <2>6. 0 \in G
    BY <1>3, <2>2, <2>4
  <2>7. \A k \in 1 .. m : k - 1 \in G => k \in G
    <3> SUFFICES ASSUME NEW k \in 1 .. m, k - 1 \in G PROVE k \in G
      OBVIOUS
    <3>1. k \in 1 .. n /\ k \in 0 .. m
      BY <1>1, <2>2
    <3>2. g[k] = g[k - 1] + t[k] /\ h[k] = h[k - 1] + s[k] /\ t[k] = s[k]
      BY <1>3, <2>1, <2>4, <3>1 DEF m
    <3> QED BY <3>1, <3>2
  <2> HIDE DEF G
  <2>8. \A k \in 0 .. m : k \in G
    BY <2>2, <2>6, <2>7, UpTo
  <2>9. g[m] = h[m]
    BY <2>2, <2>8 DEF G
  <2> QED BY <2>5, <2>9 DEF m
<1>8. ASSUME NEW i \in 1 .. n
      PROVE  /\ InitrdStart(i) \in Nat /\ s[i] \in Nat /\ InitrdStart(i) + s[i] = h[i]
             /\ i \in 0 .. n /\ i - 1 \in 0 .. n
  <2>1. i \in 0 .. n /\ i - 1 \in 0 .. n
    BY <1>1
  <2> QED BY <1>1, <1>3, <1>5, <1>7, <2>1
<1>9. ASSUME NEW i \in 1 .. n PROVE InitrdStart(i) + s[i] <= InitrdSize
  <2>1. i \in 0 .. n /\ n \in i .. n
    BY <1>1
  <2> QED BY <1>4, <1>6, <1>8, <2>1
<1>10. ASSUME NEW i \in 1 .. n, NEW j \in 1 .. n, i < j PROVE InitrdStart(i) + s[i] <= InitrdStart(j)
  <2>1. i \in 0 .. n /\ j - 1 \in i .. n
    BY <1>1, <1>10
  <2> QED BY <1>6, <1>7, <1>8, <2>1
<1>11. InitrdSize \in Nat
  BY <1>1, <1>4, <1>5
<1> QED BY <1>8, <1>9, <1>10, <1>11 DEF s, n

-----------------------------------------------------------------------------
(***************************************************************************)
(* What the loader has placed so far, from one step to the next.  t is the *)
(* type of every page, c what every cell holds and p the parameters.       *)
(***************************************************************************)
HasOf(c, dest, n, name, offset) == \A k \in 0 .. n - 1 : c[dest + k] = FromFile(name, offset, k)

ParamFields == {"at", "cmdline", "cmdline_size", "kernel", "kernel_size", "align", "code32_start", "image",
                "image_size", "e820", "alt_mem", "ext_mem", "screen", "entry"}

ParamsPlaced(p, t, c) ==
  /\ p.at % PAGE_SIZE = 0
  /\ InOf(t, p.at, PAGE_SIZE, "reclaimable")
  /\ HasOf(c, p.at, PAGE_SIZE, "params", 0)

(* The parameters were put as low as possible: what is free is above.      *)
ParamsLowest(p, t) == \A q \in PageAddresses : LOW <= q /\ t[q] = "free" => p.at < q

CmdlinePlaced(p, t, c) ==
  /\ InOf(t, p.cmdline, CmdlineSize, "reclaimable")
  /\ config.cmdline <= MaxCmdline
  /\ HasOf(c, p.cmdline, config.cmdline, "cmdline", 0)
  /\ c[p.cmdline + config.cmdline] = "zero"

KernelPlaced(p, t, c) ==
  /\ p.kernel_size = KernelRoom /\ KernelRoom \in Nat \ {0} /\ LoadSize <= KernelRoom
  /\ Header.version >= 10 => Header.init_size <= KernelRoom
  /\ InOf(t, p.kernel, KernelRoom, "allocated")
  /\ HasOf(c, p.kernel, LoadSize, "kernel", SetupSize)
  /\ \/ p.kernel = PrefAddr
     \/ Relocatable /\ p.kernel % p.align = 0 /\ p.align >= MinAlign

InitrdsPlaced(p, t, c) ==
  /\ p.image_size = InitrdSize
  /\ \A i \in 1 .. Len(config.initrds) :
       HasOf(c, p.image + InitrdStart(i), config.initrds[i], <<"initrd", i>>, 0)
  /\ InitrdSize # 0 => /\ InOf(t, p.image, InitrdSize, "modules")
                       /\ p.image + InitrdSize <= Header.initrd_addr_max + 1

Progress(st, p, t, c) ==
  /\ st \in {"linux", "cmdline", "kernel", "initrd", "platform", "entered"}
  /\ st # "linux" => ParamFields \subseteq DOMAIN p /\ ParamsPlaced(p, t, c)
  /\ st = "cmdline" => ParamsLowest(p, t)
  /\ st \in {"cmdline", "kernel", "initrd"} => p.image_size = 0
  /\ st \in {"kernel", "initrd", "platform", "entered"} => CmdlinePlaced(p, t, c)
  /\ st \in {"initrd", "platform", "entered"} => KernelPlaced(p, t, c)
  /\ st \in {"platform", "entered"} => InitrdsPlaced(p, t, c)

MemoryOf(t, c) == DOMAIN t = PageAddresses /\ DOMAIN c = Addresses

(* The inductive invariant.                                                *)
LinuxInv ==
  /\ part = "linux" /\ LinuxConfig(config) /\ MemoryOf(pages, cells)
  /\ Progress(stage, params, pages, cells)

(* What lies in pages that are not free is neither moved nor overwritten   *)
(* by a step that takes free pages and writes to them.                     *)
Writes(c, d, m) == \A a \in Addresses : a \notin d .. d + m - 1 => c[a] = cells[a]

LEMMA InKept ==
  ASSUME MemoryOf(pages, cells), NEW d, NEW m, InOf(pages, d, m, "free"), NEW ty, NEW t, t = Taken(d, m, ty),
         NEW s, NEW n, NEW type, type # "free", InOf(pages, s, n, type)
  PROVE  InOf(t, s, n, type)
<1> SUFFICES ASSUME NEW a \in s .. s + n - 1 PROVE a \in Addresses /\ t[PageOf(a)] = type
  BY DEF InOf
<1>1. a \in Addresses /\ pages[PageOf(a)] = type /\ a \in Nat
  BY DEF InOf, Addresses
<1>2. PageOf(a) \in PageAddresses
  BY <1>1, PageOfAddress
<1>3. PageOf(a) \notin PagesIn(d, m)
  <2>1. \A b \in d .. d + m - 1 : pages[PageOf(b)] = "free"
    BY DEF InOf
  <2> QED BY <1>1, <2>1 DEF PagesIn
<1> QED BY <1>1, <1>2, <1>3 DEF Taken, MemoryOf

LEMMA HasKept ==
  ASSUME NEW d, NEW m, InOf(pages, d, m, "free"), NEW c, NEW w, Writes(c, d, w), w \in Nat, w <= m,
         NEW s, NEW n, NEW type, type # "free", InOf(pages, s, n, type)
  PROVE  \A a \in s .. s + n - 1 : c[a] = cells[a]
<1> SUFFICES ASSUME NEW a \in s .. s + n - 1 PROVE c[a] = cells[a]
  OBVIOUS
<1>1. a \in Addresses /\ pages[PageOf(a)] = type
  BY DEF InOf
<1>2. a \notin d .. d + m - 1
  BY <1>1 DEF InOf
<1>3. d \in Nat /\ m \in Nat /\ a \in Nat
  BY <1>1 DEF InOf, Addresses
<1>4. a \notin d .. d + w - 1
  BY <1>2, <1>3
<1> QED BY <1>1, <1>4 DEF Writes

LEMMA FileKept ==
  ASSUME NEW s \in Nat, NEW n \in Nat, NEW c, \A a \in s .. s + n - 1 : c[a] = cells[a],
         NEW m \in Nat, m <= n, NEW name, NEW offset, HasOf(cells, s, m, name, offset)
  PROVE  HasOf(c, s, m, name, offset)
<1> SUFFICES ASSUME NEW k \in 0 .. m - 1 PROVE c[s + k] = FromFile(name, offset, k)
  BY DEF HasOf
<1>1. s + k \in s .. s + n - 1
  OBVIOUS
<1> QED BY <1>1 DEF HasOf

LEMMA TakenOf ==
  ASSUME MemoryOf(pages, cells), NEW d, NEW m, InOf(pages, d, m, "free"), NEW ty, NEW t, t = Taken(d, m, ty)
  PROVE  DOMAIN t = PageAddresses /\ InOf(t, d, m, ty)
<1>1. DOMAIN t = PageAddresses
  BY DEF Taken, MemoryOf
<1>2. ASSUME NEW a \in d .. d + m - 1 PROVE a \in Addresses /\ t[PageOf(a)] = ty
  <2>1. a \in Addresses /\ a \in Nat
    BY DEF InOf, Addresses
  <2>2. PageOf(a) \in PagesIn(d, m) /\ PageOf(a) \in PageAddresses
    BY <2>1, PageOfAddress DEF PagesIn
  <2> QED BY <2>1, <2>2 DEF Taken, MemoryOf
<1> QED BY <1>1, <1>2 DEF InOf

(* Whole parts: the parameters, the command line and the kernel.           *)
LEMMA ParamsKept ==
  ASSUME MemoryOf(pages, cells), NEW d, NEW m, InOf(pages, d, m, "free"), NEW ty, NEW t, t = Taken(d, m, ty),
         NEW c, NEW w \in Nat, w <= m, Writes(c, d, w), NEW p, p.at = params.at,
         ParamsPlaced(params, pages, cells)
  PROVE  ParamsPlaced(p, t, c)
<1>1. /\ InOf(pages, params.at, PAGE_SIZE, "reclaimable") /\ HasOf(cells, params.at, PAGE_SIZE, "params", 0)
      /\ params.at % PAGE_SIZE = 0 /\ params.at \in Nat /\ PAGE_SIZE \in Nat /\ "reclaimable" # "free"
  BY Sizes DEF ParamsPlaced, InOf
<1>2. InOf(t, params.at, PAGE_SIZE, "reclaimable")
  BY <1>1, InKept, Zenon
<1>3. \A a \in params.at .. params.at + PAGE_SIZE - 1 : c[a] = cells[a]
  BY <1>1, HasKept, Zenon
<1>4. PAGE_SIZE <= PAGE_SIZE
  BY <1>1
<1>5. HasOf(c, params.at, PAGE_SIZE, "params", 0)
  BY <1>1, <1>3, <1>4, FileKept, Zenon
<1> QED BY <1>1, <1>2, <1>5 DEF ParamsPlaced

LEMMA CmdlineKept ==
  ASSUME LinuxConfig(config), MemoryOf(pages, cells), NEW d, NEW m, InOf(pages, d, m, "free"),
         NEW ty, NEW t, t = Taken(d, m, ty),
         NEW c, NEW w \in Nat, w <= m, Writes(c, d, w), NEW p, p.cmdline = params.cmdline,
         CmdlinePlaced(params, pages, cells)
  PROVE  CmdlinePlaced(p, t, c)
<1> DEFINE s == params.cmdline
<1>1. /\ InOf(pages, s, CmdlineSize, "reclaimable") /\ HasOf(cells, s, config.cmdline, "cmdline", 0)
      /\ cells[s + config.cmdline] = "zero" /\ config.cmdline <= MaxCmdline
      /\ s \in Nat /\ "reclaimable" # "free"
  BY DEF CmdlinePlaced, InOf
<1>2. /\ config.cmdline \in Nat /\ MaxCmdline \in Nat /\ CmdlineSize \in Nat
      /\ config.cmdline <= CmdlineSize /\ config.cmdline < CmdlineSize
  BY <1>1, HeaderFields, CmdlineRoom
<1> HIDE DEF s
<1>3. InOf(t, s, CmdlineSize, "reclaimable")
  BY <1>1, InKept, Zenon
<1>4. \A a \in s .. s + CmdlineSize - 1 : c[a] = cells[a]
  BY <1>1, HasKept, Zenon
<1>5. HasOf(c, s, config.cmdline, "cmdline", 0)
  BY <1>1, <1>2, <1>4, FileKept, Zenon
<1>6. s + config.cmdline \in s .. s + CmdlineSize - 1
  BY <1>1, <1>2
<1>7. c[s + config.cmdline] = "zero"
  BY <1>1, <1>4, <1>6
<1> QED BY <1>1, <1>3, <1>5, <1>7 DEF CmdlinePlaced, s

LEMMA KernelKept ==
  ASSUME LinuxConfig(config), MemoryOf(pages, cells), NEW d, NEW m, InOf(pages, d, m, "free"),
         NEW ty, NEW t, t = Taken(d, m, ty),
         NEW c, NEW w \in Nat, w <= m, Writes(c, d, w),
         NEW p, p.kernel = params.kernel, p.kernel_size = params.kernel_size, p.align = params.align,
         KernelPlaced(params, pages, cells)
  PROVE  KernelPlaced(p, t, c)
<1> DEFINE s == params.kernel
<1>1. /\ InOf(pages, s, KernelRoom, "allocated") /\ HasOf(cells, s, LoadSize, "kernel", SetupSize)
      /\ LoadSize <= KernelRoom /\ KernelRoom \in Nat /\ s \in Nat /\ "allocated" # "free"
  BY DEF KernelPlaced, InOf
<1>2. LoadSize \in Nat
  BY HeaderFields
<1> HIDE DEF s
<1>3. InOf(t, s, KernelRoom, "allocated")
  BY <1>1, InKept, Zenon
<1>4. \A a \in s .. s + KernelRoom - 1 : c[a] = cells[a]
  BY <1>1, HasKept, Zenon
<1>5. HasOf(c, s, LoadSize, "kernel", SetupSize)
  BY <1>1, <1>2, <1>4, FileKept, Zenon
<1> QED BY <1>3, <1>5 DEF KernelPlaced, s

-----------------------------------------------------------------------------
(***************************************************************************)
(* One lemma for each step of the loader.                                  *)
(***************************************************************************)
LEMMA ParamsStep ==
  ASSUME LinuxInv, AllocParams
  PROVE  MemoryOf(pages', cells') /\ Progress(stage', params', pages', cells')
<1> DEFINE at == AllocLow(PAGE_SIZE, 0, LOW, LOW_END)
           p == [NoParams EXCEPT !.at = at, !.align = Header.align]
           c == Written(cells, at, PAGE_SIZE, LAMBDA k : <<"params", k>>)
           t == Taken(at, PAGE_SIZE, "reclaimable")
<1>1. CASE at = NOWHERE
  <2>1. params' = params /\ cells' = cells /\ pages' = pages /\ stage' = stage
    BY <1>1 DEF AllocParams, Halt, Abandon
  <2> QED BY <2>1 DEF LinuxInv
<1>2. CASE at # NOWHERE
  <2>1. params' = p /\ cells' = c /\ pages' = t /\ stage' = "cmdline"
    BY <1>2 DEF AllocParams, Step
  <2>2. /\ p.at = at /\ p.image_size = 0 /\ ParamFields \subseteq DOMAIN p
    BY DEF NoParams, ParamFields
  <2>3. MemoryOf(pages, cells)
    BY DEF LinuxInv
  <2>4. \A a \in Addresses : c[a] = IF a \in at .. at + PAGE_SIZE - 1 THEN <<"params", a - at>> ELSE cells[a]
    BY <2>3 DEF MemoryOf, Written
  <2>5. DOMAIN c = Addresses
    BY <2>3 DEF MemoryOf, Written
  <2>6. t = Taken(at, PAGE_SIZE, "reclaimable") /\ at = AllocLow(PAGE_SIZE, 0, LOW, LOW_END)
    OBVIOUS
  <2> HIDE DEF p, c, t, at
  <2>7. /\ PAGE_SIZE \in Nat /\ PAGE_SIZE > 1 /\ PAGE_SIZE \in Nat \ {0} /\ LOW \in Nat /\ LOW_END \in Nat /\ 0 \in Nat /\ LOW_END # 0
        /\ LOW_END < PHYS_MAX /\ PHYS_MAX \in Nat
    BY Sizes
  <2>8. at \in Places(PAGE_SIZE, 0, LOW, LOW_END) /\ \A x \in Places(PAGE_SIZE, 0, LOW, LOW_END) : at <= x
    BY <1>2, <2>6, <2>7, LowestPlace, Zenon
  <2>9. /\ at \in Nat /\ LOW <= at /\ (at + PAGE_SIZE) - 1 <= LOW_END
        /\ at % PAGE_SIZE = 0 /\ InOf(pages, at, PAGE_SIZE, "free")
    BY <2>7, <2>8, PlaceIn
  <2>10. DOMAIN t = PageAddresses /\ InOf(t, at, PAGE_SIZE, "reclaimable")
    BY <2>3, <2>6, <2>9, TakenOf, Zenon
  <2>11. HasOf(c, at, PAGE_SIZE, "params", 0)
    <3> SUFFICES ASSUME NEW k \in 0 .. PAGE_SIZE - 1 PROVE c[at + k] = FromFile("params", 0, k)
      BY DEF HasOf
    <3>1. at + k \in at .. at + PAGE_SIZE - 1 /\ (at + k) - at = k /\ 0 + k = k
      BY <2>7, <2>9
    <3>2. at + k \in Addresses
      BY <2>9, <3>1 DEF InOf
    <3> QED BY <2>4, <3>1, <3>2 DEF FromFile
  <2>12. ParamsLowest(p, t)
    <3> SUFFICES ASSUME NEW q \in PageAddresses, LOW <= q, t[q] = "free" PROVE at < q
      BY <2>2 DEF ParamsLowest
    <3>1. q \in Nat /\ q \in Addresses /\ q % PAGE_SIZE = 0 /\ q <= PHYS_MAX
      BY DEF PageAddresses, Addresses
    <3>2. q # at
      <4>1. at \in at .. at + PAGE_SIZE - 1
        BY <2>7, <2>9
      <4>2. t[PageOf(at)] = "reclaimable"
        BY <2>10, <4>1 DEF InOf
      <4>3. PageOf(at) = at
        BY <2>7, <2>9, PageOfPage
      <4> QED BY <4>2, <4>3
    <3>3. ASSUME q < at PROVE FALSE
      <4>1. q \in LOW .. (LOW_END - PAGE_SIZE) + 1
        BY <2>7, <2>9, <3>1, <3>3
      <4>2. \A x \in PagesIn(q, PAGE_SIZE) : x = q
        <5> SUFFICES ASSUME NEW a \in q .. q + PAGE_SIZE - 1 PROVE PageOf(a) = q
          BY DEF PagesIn
        <5>1. a \in Nat /\ q <= a /\ a < q + PAGE_SIZE
          BY <2>7, <3>1
        <5> QED BY <3>1, <5>1, PageOfPage
      <4>3. pages[q] = "free"
        <5>1. t[q] = "reclaimable" \/ t[q] = pages[q]
          BY <2>3, <2>6 DEF Taken, MemoryOf
        <5> QED BY <5>1
      <4>4. q \in Places(PAGE_SIZE, 0, LOW, LOW_END)
        <5>1. ~(LOW_END = 0 \/ LOW_END > PHYS_MAX)
          BY <2>7
        <5> QED BY <3>1, <4>1, <4>2, <4>3, <5>1 DEF Places
      <4> QED BY <2>8, <2>9, <3>1, <3>3, <4>4
    <3> QED BY <2>9, <3>1, <3>2, <3>3
  <2>13. ParamsPlaced(p, t, c)
    BY <2>2, <2>9, <2>10, <2>11 DEF ParamsPlaced
  <2>14. Progress("cmdline", p, t, c)
    BY <2>2, <2>12, <2>13 DEF Progress
  <2> QED BY <2>1, <2>5, <2>10, <2>14 DEF MemoryOf
<1> QED BY <1>1, <1>2

LEMMA CmdlineStep ==
  ASSUME LinuxInv, SetCmdline
  PROVE  MemoryOf(pages', cells') /\ Progress(stage', params', pages', cells')
<1> DEFINE size == CmdlineSize
           at == AllocLow(size, 0, LOW, LOW_END)
           p == [params EXCEPT !.cmdline = at, !.cmdline_size = size]
           c == CopyCmdline(cells, at, size)
           t == Taken(at, size, "reclaimable")
<1>1. CASE config.cmdline > MaxCmdline \/ at = NOWHERE
  <2>1. params' = params /\ cells' = cells /\ pages' = pages /\ stage' = stage
    BY <1>1 DEF SetCmdline, Halt, Abandon
  <2> QED BY <2>1 DEF LinuxInv
<1>2. CASE ~(config.cmdline > MaxCmdline \/ at = NOWHERE)
  <2>1. params' = p /\ cells' = c /\ pages' = t /\ stage' = "kernel" /\ stage = "cmdline"
    BY <1>2 DEF SetCmdline, Step, AtStage
  <2>2. /\ MemoryOf(pages, cells) /\ LinuxConfig(config) /\ ParamFields \subseteq DOMAIN params
        /\ ParamsPlaced(params, pages, cells) /\ ParamsLowest(params, pages) /\ params.image_size = 0
    BY <2>1 DEF LinuxInv, Progress
  <2>3. p.at = params.at /\ p.image_size = 0 /\ p.cmdline = at /\ ParamFields \subseteq DOMAIN p
    BY <2>2 DEF ParamFields
  <2>4. \A a \in Addresses :
          c[a] = IF a \in at + size .. (at + size) + 1 - 1 THEN "zero"
                 ELSE IF a \in at .. at + size - 1
                      THEN IF a - at < config.cmdline THEN <<"cmdline", a - at>> ELSE "zero"
                 ELSE cells[a]
    BY <2>2 DEF MemoryOf, CopyCmdline, Written
  <2>5. DOMAIN c = Addresses
    BY <2>2 DEF MemoryOf, CopyCmdline, Written
  <2>6. t = Taken(at, size, "reclaimable") /\ at = AllocLow(size, 0, LOW, LOW_END) /\ at # NOWHERE
    BY <1>2
  <2>7. /\ size \in Nat \ {0} /\ size \in Nat /\ MaxCmdline < size /\ size % PAGE_SIZE = 0
        /\ config.cmdline \in Nat /\ MaxCmdline \in Nat /\ config.cmdline <= MaxCmdline
    BY <1>2, <2>2, HeaderFields, CmdlineRoom
  <2> HIDE DEF p, c, t, at
  <2>8. /\ PAGE_SIZE \in Nat \ {0} /\ LOW \in Nat /\ LOW_END \in Nat /\ 0 \in Nat
    BY Sizes
  <2>9. at \in Places(size, 0, LOW, LOW_END)
    BY <2>6, <2>7, <2>8, LowestPlace, Zenon
  <2>10. /\ at \in Nat /\ LOW <= at /\ at % PAGE_SIZE = 0 /\ InOf(pages, at, size, "free")
    BY <2>7, <2>8, <2>9, PlaceIn
  <2>11. DOMAIN t = PageAddresses /\ InOf(t, at, size, "reclaimable")
    BY <2>2, <2>6, <2>10, TakenOf, Zenon
  <2>12. params.at \in Nat /\ params.at + PAGE_SIZE <= at
    <3>1. params.at \in Nat /\ params.at % PAGE_SIZE = 0
      BY <2>2 DEF ParamsPlaced, InOf
    <3>2. at \in at .. at + size - 1
      BY <2>7, <2>10
    <3>3. PageOf(at) = at /\ at \in Addresses /\ pages[PageOf(at)] = "free"
      <4>1. at < at + PAGE_SIZE /\ at <= at
        BY <2>8, <2>10
      <4> QED BY <2>10, <3>2, <4>1, PageOfPage DEF InOf
    <3>4. params.at < at
      BY <2>2, <2>10, <3>3 DEF ParamsLowest, PageAddresses
    <3> QED BY <2>8, <2>10, <3>1, <3>4, MultipleGap
  <2>13. ParamsPlaced(p, t, c)
    <3> DEFINE s == params.at
    <3>1. /\ InOf(pages, s, PAGE_SIZE, "reclaimable") /\ HasOf(cells, s, PAGE_SIZE, "params", 0)
          /\ s % PAGE_SIZE = 0 /\ s \in Nat /\ s + PAGE_SIZE <= at /\ "reclaimable" # "free"
      BY <2>2, <2>12 DEF ParamsPlaced
    <3>2. p.at = s
      BY <2>3
    <3> HIDE DEF s
    <3>3. InOf(t, s, PAGE_SIZE, "reclaimable")
      BY <2>2, <2>6, <2>10, <3>1, InKept, Zenon
    <3>4. ASSUME NEW a \in s .. s + PAGE_SIZE - 1 PROVE c[a] = cells[a]
      <4>1. a \in Addresses
        BY <3>1 DEF InOf
      <4>2. a \notin at + size .. (at + size) + 1 - 1 /\ a \notin at .. at + size - 1
        BY <2>7, <2>8, <2>10, <3>1
      <4> QED BY <2>4, <4>1, <4>2
    <3>5. PAGE_SIZE <= PAGE_SIZE /\ PAGE_SIZE \in Nat
      BY <2>8
    <3>6. HasOf(c, s, PAGE_SIZE, "params", 0)
      BY <3>1, <3>4, <3>5, FileKept, Zenon
    <3> QED BY <3>1, <3>2, <3>3, <3>6 DEF ParamsPlaced
  <2>14. CmdlinePlaced(p, t, c)
    <3>1. ASSUME NEW k \in Nat, k <= config.cmdline
          PROVE  /\ at + k \in Addresses /\ at + k \in at .. at + size - 1 /\ (at + k) - at = k
                 /\ at + k \notin at + size .. (at + size) + 1 - 1
      <4>1. at + k \in at .. at + size - 1 /\ (at + k) - at = k
        BY <2>7, <2>10, <3>1
      <4>2. at + k \notin at + size .. (at + size) + 1 - 1
        BY <2>7, <2>10, <4>1
      <4> QED BY <2>10, <4>1, <4>2 DEF InOf
    <3>2. HasOf(c, at, config.cmdline, "cmdline", 0)
      <4> SUFFICES ASSUME NEW k \in 0 .. config.cmdline - 1 PROVE c[at + k] = FromFile("cmdline", 0, k)
        BY DEF HasOf
      <4>1. k \in Nat /\ k <= config.cmdline /\ k < config.cmdline /\ 0 + k = k
        BY <2>7
      <4> DEFINE a == at + k
      <4>2. /\ a \in Addresses /\ a \in at .. at + size - 1 /\ a - at = k
            /\ a \notin at + size .. (at + size) + 1 - 1
        BY <3>1, <4>1
      <4> HIDE DEF a
      <4>3. c[a] = <<"cmdline", k>>
        BY <2>4, <4>1, <4>2
      <4> QED BY <4>1, <4>3 DEF FromFile, a
    <3>3. c[at + config.cmdline] = "zero"
      <4>1. config.cmdline <= config.cmdline /\ ~(config.cmdline < config.cmdline)
        BY <2>7
      <4> DEFINE a == at + config.cmdline
      <4>2. /\ a \in Addresses /\ a \in at .. at + size - 1 /\ a - at = config.cmdline
            /\ a \notin at + size .. (at + size) + 1 - 1
        BY <2>7, <3>1, <4>1
      <4> HIDE DEF a
      <4>3. c[a] = "zero"
        BY <2>4, <4>1, <4>2
      <4> QED BY <4>3 DEF a
    <3> QED BY <2>3, <2>7, <2>11, <3>2, <3>3 DEF CmdlinePlaced
  <2>15. Progress("kernel", p, t, c)
    BY <2>3, <2>13, <2>14 DEF Progress
  <2> QED BY <2>1, <2>5, <2>11, <2>15 DEF MemoryOf
<1> QED BY <1>1, <1>2

-----------------------------------------------------------------------------
(* Where allocate_kernel() puts the image.                                 *)
LEMMA KernelPlaceOK ==
  ASSUME LinuxConfig(config), KernelRoom \in Nat \ {0}, NEW k, k = KernelPlace, k.at # NOWHERE
  PROVE  /\ InOf(pages, k.at, KernelRoom, "free")
         /\ \/ k.at = PrefAddr
            \/ Relocatable /\ k.at % k.align = 0 /\ k.align >= MinAlign
<1> DEFINE high == PrefAddr + KernelRoom
           pref == AllocLow(KernelRoom, 0, PrefAddr, high)
           fit == {a \in Alignments : PlacedWith(a) # NOWHERE}
<1>1. k = IF pref # NOWHERE THEN [at |-> pref, align |-> Header.align]
          ELSE IF ~Relocatable \/ fit = {} THEN [at |-> NOWHERE, align |-> 0]
          ELSE [at |-> PlacedWith(Max(fit)), align |-> Max(fit)]
  BY DEF KernelPlace
<1>2. /\ PrefAddr \in Nat /\ PrefAddr % PAGE_SIZE = 0 /\ PAGE_SIZE \in Nat \ {0} /\ PAGE_SIZE > 1
      /\ HIGH \in Nat /\ 0 \in Nat /\ Header.align \in Nat /\ high \in Nat /\ high # 0
      /\ high = PrefAddr + KernelRoom /\ KernelRoom \in Nat
  <2>1. PrefAddr \in Nat /\ PrefAddr % PAGE_SIZE = 0
    BY Preferred
  <2>2. PAGE_SIZE \in Nat \ {0} /\ PAGE_SIZE > 1 /\ HIGH \in Nat
    BY Sizes
  <2>3. Header.align \in Nat
    BY HeaderFields
  <2> QED BY <2>1, <2>2, <2>3
<1>3. CASE pref # NOWHERE
  <2>1. k.at = pref
    BY <1>1, <1>3
  <2> DEFINE x == pref
  <2>2. x = AllocLow(KernelRoom, 0, PrefAddr, high) /\ x # NOWHERE
    BY <1>3
  <2> HIDE DEF pref, high, x
  <2>3. x \in Places(KernelRoom, 0, PrefAddr, high)
    BY <1>2, <2>2, LowestPlace, Zenon
  <2>4. x \in Nat /\ PrefAddr <= x /\ (x + KernelRoom) - 1 <= high /\ x % PAGE_SIZE = 0 /\ InOf(pages, x, KernelRoom, "free")
    BY <1>2, <2>3, PlaceIn
  <2>5. ~(PrefAddr < x)
    <3>1. ASSUME PrefAddr < x PROVE FALSE
      <4>1. PrefAddr \in Int /\ x \in Int
        BY <1>2, <2>4
      <4>2. PrefAddr + PAGE_SIZE <= x
        BY <1>2, <2>4, <3>1, <4>1, MultipleGap, Zenon
      <4> QED BY <1>2, <2>4, <4>2
    <3> QED BY <3>1
  <2>6. x = PrefAddr
    BY <1>2, <2>4, <2>5
  <2> QED BY <2>1, <2>4, <2>6 DEF x
<1>4. CASE pref = NOWHERE
  <2>1. Relocatable /\ fit # {} /\ k.at = PlacedWith(Max(fit)) /\ k.align = Max(fit)
    <3> HIDE DEF pref, fit
    <3> QED BY <1>1, <1>4
  <2>2. fit \subseteq 1 .. Header.align
    <3>1. \A a \in Alignments : a \in MinAlign .. Header.align /\ a >= PAGE_SIZE
      BY DEF Alignments
    <3>2. MinAlign \in Nat
      BY <1>2, HeaderFields DEF MinAlign
    <3> QED BY <1>2, <3>1, <3>2
  <2> DEFINE a == Max(fit)
  <2>3. a \in fit
    <3> HIDE DEF fit
    <3> QED BY <1>2, <2>1, <2>2, MaxOf
  <2>4. a \in Nat \ {0} /\ a \in Nat /\ a >= MinAlign /\ PlacedWith(a) # NOWHERE
    <3>1. MinAlign \in Nat
      BY <1>2, HeaderFields DEF MinAlign
    <3>2. a \in 1 .. Header.align /\ a \in Alignments /\ PlacedWith(a) # NOWHERE
      <4> HIDE DEF a
      <4> QED BY <2>2, <2>3
    <3> HIDE DEF a
    <3> QED BY <1>2, <3>1, <3>2 DEF Alignments
  <2> DEFINE x == PlacedWith(a)
  <2>5. x = AllocLow(KernelRoom, a, HIGH, 0) /\ x # NOWHERE
    <3> HIDE DEF a
    <3> QED BY <2>4 DEF PlacedWith
  <2>6. k.at = x /\ k.align = a
    BY <2>1
  <2> HIDE DEF a, x
  <2>7. x \in Places(KernelRoom, a, HIGH, 0)
    BY <1>2, <2>4, <2>5, LowestPlace, Zenon
  <2>8. x % (IF a = 0 THEN PAGE_SIZE ELSE a) = 0 /\ InOf(pages, x, KernelRoom, "free")
    BY <1>2, <2>4, <2>7, PlaceIn
  <2> QED BY <2>1, <2>4, <2>6, <2>8
<1> QED BY <1>3, <1>4

LEMMA KernelStep ==
  ASSUME LinuxInv, LoadLinux
  PROVE  MemoryOf(pages', cells') /\ Progress(stage', params', pages', cells')
<1> DEFINE k == KernelPlace
           p == [params EXCEPT !.kernel = k.at, !.kernel_size = KernelRoom, !.align = k.align,
                   !.code32_start = k.at + Header.code32_start - LINUX_BZIMAGE_ADDR]
           c == ReadIn(cells, k.at, LoadSize, "kernel", SetupSize)
           t == Taken(k.at, KernelRoom, "allocated")
           short == Header.version >= 10 /\ Header.init_size < LoadSize
<1>1. CASE short \/ k.at = NOWHERE
  <2>1. params' = params /\ cells' = cells /\ pages' = pages /\ stage' = stage
    BY <1>1 DEF LoadLinux, Halt, Abandon
  <2> QED BY <2>1 DEF LinuxInv
<1>2. CASE ~(short \/ k.at = NOWHERE)
  <2>1. params' = p /\ cells' = c /\ pages' = t /\ stage' = "initrd" /\ stage = "kernel"
    BY <1>2 DEF LoadLinux, Step, AtStage
  <2>2. /\ MemoryOf(pages, cells) /\ LinuxConfig(config) /\ ParamFields \subseteq DOMAIN params
        /\ ParamsPlaced(params, pages, cells) /\ CmdlinePlaced(params, pages, cells) /\ params.image_size = 0
    BY <2>1 DEF LinuxInv, Progress
  <2>3. /\ p.at = params.at /\ p.cmdline = params.cmdline /\ p.image_size = 0 /\ ParamFields \subseteq DOMAIN p
        /\ p.kernel = k.at /\ p.kernel_size = KernelRoom /\ p.align = k.align
    <3> HIDE DEF k
    <3> QED BY <2>2 DEF ParamFields
  <2> DEFINE at == k.at
  <2>4. \A a \in Addresses :
          c[a] = IF a \in at .. at + LoadSize - 1 THEN FromFile("kernel", SetupSize, a - at) ELSE cells[a]
    <3> HIDE DEF k
    <3> QED BY <2>2 DEF MemoryOf, ReadIn, Written
  <2>5. DOMAIN c = Addresses
    <3> HIDE DEF k
    <3> QED BY <2>2 DEF MemoryOf, ReadIn, Written
  <2>6. t = Taken(at, KernelRoom, "allocated")
    OBVIOUS
  <2>7. ~short
    BY <1>2
  <2>8. /\ KernelRoom \in Nat \ {0} /\ KernelRoom \in Nat /\ LoadSize <= KernelRoom /\ LoadSize \in Nat
        /\ Header.version >= 10 => Header.init_size <= KernelRoom
    BY <2>2, <2>7, Room, HeaderFields
  <2>9. /\ InOf(pages, at, KernelRoom, "free")
        /\ \/ at = PrefAddr
           \/ Relocatable /\ at % k.align = 0 /\ k.align >= MinAlign
    BY <1>2, <2>2, <2>8, KernelPlaceOK
  <2> HIDE DEF p, c, t, k, short
  <2>10. Writes(c, at, LoadSize)
    BY <2>4 DEF Writes
  <2>11. p.kernel = at
    BY <2>3
  <2> HIDE DEF at
  <2>12. DOMAIN t = PageAddresses /\ InOf(t, at, KernelRoom, "allocated")
    BY <2>2, <2>6, <2>9, TakenOf, Zenon
  <2>13. ParamsPlaced(p, t, c)
    BY <2>2, <2>3, <2>6, <2>8, <2>9, <2>10, ParamsKept, Zenon
  <2>14. CmdlinePlaced(p, t, c)
    BY <2>2, <2>3, <2>6, <2>8, <2>9, <2>10, CmdlineKept, Zenon
  <2>15. HasOf(c, at, LoadSize, "kernel", SetupSize)
    <3> SUFFICES ASSUME NEW i \in 0 .. LoadSize - 1 PROVE c[at + i] = FromFile("kernel", SetupSize, i)
      BY DEF HasOf
    <3>1. at \in Nat /\ i \in Nat
      BY <2>8, <2>9 DEF InOf
    <3>2. at + i \in at .. at + LoadSize - 1 /\ (at + i) - at = i /\ at + i \in at .. at + KernelRoom - 1
      BY <2>8, <3>1
    <3>3. at + i \in Addresses
      BY <2>9, <3>2 DEF InOf
    <3> QED BY <2>4, <3>2, <3>3
  <2>16. KernelPlaced(p, t, c)
    BY <2>3, <2>8, <2>9, <2>11, <2>12, <2>15 DEF KernelPlaced
  <2>17. Progress("initrd", p, t, c)
    BY <2>3, <2>13, <2>14, <2>16 DEF Progress
  <2> QED BY <2>1, <2>5, <2>12, <2>17 DEF MemoryOf
<1> QED BY <1>1, <1>2

(* What linux_initrd_load() reads, initrd by initrd.                       *)
LEMMA InitrdsCells ==
  ASSUME LinuxConfig(config), DOMAIN cells = Addresses, NEW at, InOf(pages, at, InitrdSize, "free"),
         NEW c, c = InitrdsRead(at)
  PROVE  /\ DOMAIN c = Addresses /\ Writes(c, at, InitrdSize)
         /\ \A i \in 1 .. Len(config.initrds) :
              HasOf(c, at + InitrdStart(i), config.initrds[i], <<"initrd", i>>, 0)
<1> DEFINE n == Len(config.initrds)
           In(a) == {i \in 1 .. n : a - at \in InitrdStart(i) .. InitrdStart(i) + config.initrds[i] - 1}
           Own(a) == CHOOSE i \in In(a) : TRUE
<1>1. /\ InitrdSize \in Nat /\ n \in Nat
      /\ \A i \in 1 .. n : /\ InitrdStart(i) \in Nat /\ config.initrds[i] \in Nat
                           /\ InitrdStart(i) + config.initrds[i] <= InitrdSize
      /\ \A i, j \in 1 .. n : i < j => InitrdStart(i) + config.initrds[i] <= InitrdStart(j)
  <2>1. config.initrds \in Seq(Nat)
    BY HeaderFields
  <2> DEFINE s == config.initrds
  <2>2. Len(s) \in Nat
    <3> HIDE DEF s
    <3> QED BY <2>1 DEF s
  <2> QED BY <2>2, InitrdsInOrder
<1>2. at \in Nat /\ \A a \in at .. at + InitrdSize - 1 : a \in Addresses
  BY DEF InOf
<1>3. DOMAIN c = Addresses /\
      \A a \in Addresses :
        c[a] = IF In(a) = {} THEN cells[a] ELSE FromFile(<<"initrd", Own(a)>>, 0, a - (at + InitrdStart(Own(a))))
  BY DEF InitrdsRead
<1>4. ASSUME NEW a \in Addresses, NEW i \in In(a)
      PROVE  a \in at .. at + InitrdSize - 1 /\ \A j \in In(a) : j = i
  <2>1. a \in Nat
    BY DEF Addresses
  <2>2. \A j \in In(a) : /\ j \in 1 .. n /\ InitrdStart(j) <= a - at /\ a - at < InitrdStart(j) + config.initrds[j]
                         /\ InitrdStart(j) \in Nat /\ config.initrds[j] \in Nat
    BY <1>1, <1>2, <2>1
  <2> HIDE DEF In, n
  <2>3. a \in at .. at + InitrdSize - 1
    BY <1>1, <1>2, <2>1, <2>2
  <2>4. ASSUME NEW j \in In(a) PROVE ~(i < j) /\ ~(j < i)
    <3>1. ~(i < j)
      BY <1>1, <1>2, <2>1, <2>2
    <3>2. ~(j < i)
      BY <1>1, <1>2, <2>1, <2>2
    <3> QED BY <3>1, <3>2
  <2> QED BY <1>1, <2>2, <2>3, <2>4
<1>5. Writes(c, at, InitrdSize)
  <2> SUFFICES ASSUME NEW a \in Addresses, a \notin at .. at + InitrdSize - 1 PROVE c[a] = cells[a]
    BY DEF Writes
  <2> HIDE DEF In, Own
  <2>1. In(a) = {}
    BY <1>4
  <2> QED BY <1>3, <2>1
<1>6. ASSUME NEW i \in 1 .. n, NEW k \in 0 .. config.initrds[i] - 1
      PROVE  c[at + InitrdStart(i) + k] = FromFile(<<"initrd", i>>, 0, k)
  <2> DEFINE a == at + InitrdStart(i) + k
             s == InitrdStart(i)
             z == config.initrds[i]
  <2>1. k \in Nat /\ s \in Nat /\ z \in Nat /\ k < z /\ s + z <= InitrdSize
    BY <1>1
  <2>2. a = at + s + k
    OBVIOUS
  <2> HIDE DEF a, s, z
  <2>3. a \in at .. at + InitrdSize - 1 /\ a - at \in s .. s + z - 1 /\ a - (at + s) = k
    BY <1>1, <1>2, <2>1, <2>2
  <2>4. a \in Addresses /\ i \in In(a)
    BY <1>2, <2>3 DEF s, z
  <2> HIDE DEF In
  <2>5. In(a) # {} /\ Own(a) = i
    <3>1. \A j \in In(a) : j = i
      BY <1>4, <2>4
    <3>2. Own(a) \in In(a)
      BY <2>4
    <3> QED BY <2>4, <3>1, <3>2
  <2> HIDE DEF Own
  <2>6. c[a] = FromFile(<<"initrd", i>>, 0, a - (at + InitrdStart(i)))
    BY <1>3, <2>4, <2>5
  <2> QED BY <2>3, <2>6 DEF a, s
<1> HIDE DEF In, Own
<1> QED BY <1>3, <1>5, <1>6 DEF HasOf

LEMMA InitrdStep ==
  ASSUME LinuxInv, LoadInitrd
  PROVE  MemoryOf(pages', cells') /\ Progress(stage', params', pages', cells')
<1> DEFINE size == round_up(InitrdSize, PAGE_SIZE)
           top == Header.initrd_addr_max + 1
           at == AllocHigh(size, 0, HIGH, top)
           p == [params EXCEPT !.image = at, !.image_size = InitrdSize]
           c == InitrdsRead(at)
           t == Taken(at, size, "modules")
<1>1. /\ MemoryOf(pages, cells) /\ LinuxConfig(config) /\ ParamFields \subseteq DOMAIN params /\ stage = "initrd"
      /\ ParamsPlaced(params, pages, cells) /\ CmdlinePlaced(params, pages, cells) /\ params.image_size = 0
      /\ KernelPlaced(params, pages, cells)
  BY DEF LinuxInv, Progress, LoadInitrd, AtStage
<1>2. /\ InitrdSize \in Nat
      /\ \A i \in 1 .. Len(config.initrds) : /\ InitrdStart(i) \in Nat /\ config.initrds[i] \in Nat
                                             /\ InitrdStart(i) + config.initrds[i] <= InitrdSize
  BY <1>1, InitrdsInOrder
<1>3. CASE InitrdSize = 0
  <2>1. params' = params /\ cells' = cells /\ pages' = pages /\ stage' = "platform"
    BY <1>3 DEF LoadInitrd, Step
  <2>2. ASSUME NEW i \in 1 .. Len(config.initrds)
        PROVE HasOf(cells, params.image + InitrdStart(i), config.initrds[i], <<"initrd", i>>, 0)
    <3> DEFINE z == config.initrds[i]
    <3>1. z = 0
      BY <1>2, <1>3
    <3> HIDE DEF z
    <3>2. 0 .. z - 1 = {}
      BY <3>1
    <3> QED BY <3>2 DEF HasOf, z
  <2>3. InitrdsPlaced(params, pages, cells)
    BY <1>1, <1>3, <2>2 DEF InitrdsPlaced
  <2> QED BY <1>1, <2>1, <2>3 DEF Progress
<1>4. CASE InitrdSize # 0 /\ at = NOWHERE
  <2>1. params' = params /\ cells' = cells /\ pages' = pages /\ stage' = stage
    BY <1>4 DEF LoadInitrd, Halt, Abandon
  <2> QED BY <2>1 DEF LinuxInv
<1>5. CASE InitrdSize # 0 /\ at # NOWHERE
  <2>1. params' = p /\ cells' = c /\ pages' = t /\ stage' = "platform"
    BY <1>5 DEF LoadInitrd, Step
  <2>2. /\ p.at = params.at /\ p.cmdline = params.cmdline /\ ParamFields \subseteq DOMAIN p
        /\ p.kernel = params.kernel /\ p.kernel_size = params.kernel_size /\ p.align = params.align
        /\ p.image = at /\ p.image_size = InitrdSize
    <3> HIDE DEF at
    <3> QED BY <1>1 DEF ParamFields
  <2>3. t = Taken(at, size, "modules") /\ at = AllocHigh(size, 0, HIGH, top) /\ at # NOWHERE /\ c = InitrdsRead(at)
    BY <1>5
  <2>4. size \in Nat /\ InitrdSize <= size /\ size % PAGE_SIZE = 0
    BY <1>2, RoundUp
  <2>5. size \in Nat \ {0}
    BY <1>2, <1>5, <2>4
  <2>6. /\ top \in Nat /\ top # 0 /\ top % PAGE_SIZE = 0 /\ HIGH \in Nat \ {0} /\ HIGH \in Nat /\ 0 \in Nat
        /\ PAGE_SIZE \in Nat \ {0} /\ PAGE_SIZE > 1
    BY <1>1, HeaderFields, Sizes
  <2>7. top = Header.initrd_addr_max + 1
    OBVIOUS
  <2> HIDE DEF p, c, t, at, size, top
  <2>8. at \in Places(size, 0, HIGH, top)
    BY <2>3, <2>4, <2>6, HighestPlace, Zenon
  <2>9. at \in Nat /\ (at + size) - 1 <= top /\ at % PAGE_SIZE = 0 /\ InOf(pages, at, size, "free")
    BY <2>5, <2>6, <2>8, PlaceIn
  <2>10. at + InitrdSize <= top
    <3>1. at \in Int /\ size \in Int /\ top \in Int /\ at + size \in Int
      BY <2>4, <2>6, <2>9
    <3>2. (at + size) % PAGE_SIZE = 0
      BY <2>4, <2>6, <2>9, <3>1, MultipleSum
    <3> DEFINE e == at + size
    <3>3. e \in Int /\ e % PAGE_SIZE = 0 /\ e - 1 <= top
      BY <2>9, <3>1, <3>2
    <3>4. at + InitrdSize <= e
      BY <1>2, <2>4, <2>9
    <3> HIDE DEF e
    <3>5. ~(top < e)
      <4>1. ASSUME top < e PROVE FALSE
        <5>1. top + PAGE_SIZE <= e
          BY <2>6, <3>1, <3>3, <4>1, MultipleGap, Zenon
        <5> QED BY <2>6, <3>3, <5>1
      <4> QED BY <4>1
    <3> QED BY <1>2, <2>6, <2>9, <3>3, <3>4, <3>5
  <2>11. DOMAIN t = PageAddresses /\ InOf(t, at, size, "modules")
    BY <1>1, <2>3, <2>9, TakenOf, Zenon
  <2>12. InOf(pages, at, InitrdSize, "free") /\ InOf(t, at, InitrdSize, "modules")
    <3>1. \A a : a \in at .. at + InitrdSize - 1 => a \in at .. at + size - 1
      BY <1>2, <2>4, <2>9
    <3> QED BY <1>2, <2>9, <2>11, <3>1 DEF InOf
  <2>13. /\ DOMAIN c = Addresses /\ Writes(c, at, InitrdSize)
         /\ \A i \in 1 .. Len(config.initrds) :
              HasOf(c, at + InitrdStart(i), config.initrds[i], <<"initrd", i>>, 0)
    <3>1. DOMAIN cells = Addresses
      BY <1>1 DEF MemoryOf
    <3> QED BY <1>1, <2>3, <2>12, <3>1, InitrdsCells, Zenon
  <2>14. ParamsPlaced(p, t, c)
    BY <1>1, <1>2, <2>2, <2>3, <2>4, <2>9, <2>13, ParamsKept, Zenon
  <2>15. CmdlinePlaced(p, t, c)
    BY <1>1, <1>2, <2>2, <2>3, <2>4, <2>9, <2>13, CmdlineKept, Zenon
  <2>16. KernelPlaced(p, t, c)
    BY <1>1, <1>2, <2>2, <2>3, <2>4, <2>9, <2>13, KernelKept, Zenon
  <2>17. InitrdsPlaced(p, t, c)
    BY <2>2, <2>7, <2>10, <2>12, <2>13 DEF InitrdsPlaced
  <2>18. Progress("platform", p, t, c)
    BY <2>2, <2>14, <2>15, <2>16, <2>17 DEF Progress
  <2> QED BY <2>1, <2>11, <2>13, <2>18 DEF MemoryOf
<1> QED BY <1>3, <1>4, <1>5

-----------------------------------------------------------------------------
(* The memory map that is copied for the kernel changes nothing else.      *)
SameParts(p, q) ==
  /\ DOMAIN p = DOMAIN q
  /\ \A f \in {"at", "cmdline", "kernel", "kernel_size", "align", "image", "image_size"} : p[f] = q[f]

LEMMA MapKeepsParts ==
  ASSUME LinuxConfig(config), ParamFields \subseteq DOMAIN params
  PROVE  SameParts(FoldLeft(MemoryInfo, params, config.firmware), params)
<1> DEFINE f == config.firmware
           n == Len(f)
<1>1. f \in Seq([start : Nat, size : Nat, type : STRING])
  BY DEF LinuxConfig
<1>2. FoldLeft(MemoryInfo, params, f) = MemoryInfos!Fold(params, f)
  BY DEF MemoryInfos!Fold, MemoryInfo, FoldLeft, MapThenFoldSet, Max,
         MemoryInfos!FoldLeft, MemoryInfos!MapThenFoldSet, MemoryInfos!Max
<1>3. PICK h : MemoryInfos!Stages(h, params, f) /\ MemoryInfos!Fold(params, f) = h[n]
  BY <1>1, MemoryInfos!FoldStages
<1>4. h[0] = params /\ \A k \in 1 .. n : h[k] = MemoryInfo(h[k - 1], f[k])
  BY <1>3 DEF MemoryInfos!Stages
<1> HIDE DEF f
<1>5. n \in Nat
  BY <1>1
<1> HIDE DEF n
<1> DEFINE G == {k \in 0 .. n : SameParts(h[k], params)}
<1>6. 0 \in G
  BY <1>4, <1>5 DEF SameParts
<1>7. ASSUME NEW k \in 1 .. n, k - 1 \in G PROVE k \in G
  <2> DEFINE p == h[k - 1]
             e == f[k]
             q == MemoryInfo(p, e)
  <2>1. h[k] = q /\ SameParts(p, params)
    BY <1>4, <1>7
  <2>2. SameParts(q, p)
    <3> HIDE DEF p, e
    <3>1. DOMAIN p = DOMAIN params
      BY <2>1 DEF SameParts
    <3> QED BY <3>1 DEF MemoryInfo, SameParts, ParamFields
  <2>3. SameParts(q, params)
    <3> HIDE DEF p, q
    <3> QED BY <2>1, <2>2 DEF SameParts
  <2>4. k \in 0 .. n
    BY <1>5
  <2> HIDE DEF q
  <2> QED BY <2>1, <2>3, <2>4
<1> HIDE DEF G
<1>8. \A k \in 0 .. n : k \in G
  BY <1>5, <1>6, <1>7, UpTo
<1>9. SameParts(h[n], params)
  BY <1>5, <1>8 DEF G
<1> QED BY <1>2, <1>3, <1>9 DEF f, n

(* The parts stay where they are.                                          *)
LEMMA PartsKept ==
  ASSUME Progress("platform", params, pages, cells), NEW p, SameParts(p, params)
  PROVE  Progress("entered", p, pages, cells)
<1>1. /\ p.at = params.at /\ p.cmdline = params.cmdline /\ p.kernel = params.kernel
      /\ p.kernel_size = params.kernel_size /\ p.align = params.align /\ p.image = params.image
      /\ p.image_size = params.image_size /\ DOMAIN p = DOMAIN params
  BY DEF SameParts
<1>2. /\ ParamFields \subseteq DOMAIN params /\ ParamsPlaced(params, pages, cells)
      /\ CmdlinePlaced(params, pages, cells) /\ KernelPlaced(params, pages, cells)
      /\ InitrdsPlaced(params, pages, cells)
  BY DEF Progress
<1>3. ParamsPlaced(p, pages, cells) /\ CmdlinePlaced(p, pages, cells)
  BY <1>1, <1>2 DEF ParamsPlaced, CmdlinePlaced
<1>4. KernelPlaced(p, pages, cells)
  BY <1>1, <1>2 DEF KernelPlaced
<1>5. InitrdsPlaced(p, pages, cells)
  BY <1>1, <1>2 DEF InitrdsPlaced
<1> QED BY <1>1, <1>2, <1>3, <1>4, <1>5 DEF Progress

LEMMA EnterStep ==
  ASSUME LinuxInv, BiosEnter \/ EfiEnter
  PROVE  MemoryOf(pages', cells') /\ Progress(stage', params', pages', cells')
<1>1. stage = "platform" /\ MemoryOf(pages, cells) /\ LinuxConfig(config) /\ Progress("platform", params, pages, cells)
  BY DEF LinuxInv, BiosEnter, EfiEnter, AtStage
<1>2. ParamFields \subseteq DOMAIN params
  BY <1>1 DEF Progress
<1>3. SameParts(params', params) /\ pages' = pages /\ cells' = cells /\ stage' = "entered"
  <2>1. CASE BiosEnter
    <3> DEFINE m == FoldLeft(MemoryInfo, params, config.firmware)
               p == ScreenInfo(m)
    <3>1. SameParts(m, params)
      BY <1>1, <1>2, MapKeepsParts
    <3>2. params' = [p EXCEPT !.entry = p.code32_start] /\ pages' = pages /\ cells' = cells /\ stage' = "entered"
      BY <2>1 DEF BiosEnter, Step
    <3> HIDE DEF m
    <3>3. SameParts(p, params)
      BY <1>2, <3>1 DEF ScreenInfo, SameParts, ParamFields
    <3> HIDE DEF p
    <3>4. SameParts(params', params)
      BY <1>2, <3>2, <3>3 DEF SameParts, ParamFields
    <3> QED BY <3>2, <3>4
  <2>2. CASE EfiEnter
    <3>1. /\ params' = [params EXCEPT !.entry = params.code32_start + Header.handover_offset + HANDOVER_OFFSET]
          /\ pages' = pages /\ cells' = cells /\ stage' = "entered"
      BY <2>2 DEF EfiEnter, Step
    <3>2. SameParts(params', params)
      BY <1>2, <3>1 DEF SameParts, ParamFields
    <3> QED BY <3>1, <3>2
  <2> QED BY <2>1, <2>2
<1>4. Progress("entered", params', pages, cells)
  BY <1>1, <1>3, PartsKept
<1> QED BY <1>1, <1>3, <1>4

-----------------------------------------------------------------------------
(* What is configured does not change, nor what is computed from it.       *)
LEMMA ConfigKept ==
  ASSUME config' = config, NEW st, NEW p, NEW t, NEW c, Progress(st, p, t, c)
  PROVE  \A s1, p1, t1, c1 : s1 = st /\ p1 = p /\ t1 = t /\ c1 = c => Progress(s1, p1, t1, c1)'
<1>1. Header' = Header
  BY DEF Header
<1>2. SetupSize' = SetupSize
  BY <1>1 DEF SetupSize
<1>3. LoadSize' = LoadSize /\ MaxCmdline' = MaxCmdline /\ Relocatable' = Relocatable
  BY <1>1, <1>2 DEF LoadSize, MaxCmdline, Relocatable
<1>4. MinAlign' = MinAlign /\ PrefAddr' = PrefAddr /\ KernelRoom' = KernelRoom /\ CmdlineSize' = CmdlineSize
  BY <1>1, <1>3 DEF MinAlign, PrefAddr, KernelRoom, CmdlineSize
<1>5. InitrdSize' = InitrdSize /\ \A i : InitrdStart(i)' = InitrdStart(i)
  BY DEF InitrdSize, InitrdStart
<1> SUFFICES ASSUME NEW s1, NEW p1, NEW t1, NEW c1, s1 = st, p1 = p, t1 = t, c1 = c
             PROVE  Progress(s1, p1, t1, c1)'
  OBVIOUS
<1>6. Progress(s1, p1, t1, c1)
  OBVIOUS
<1>7. ParamsPlaced(p1, t1, c1)' <=> ParamsPlaced(p1, t1, c1)
  BY DEF ParamsPlaced
<1>8. ParamsLowest(p1, t1)' <=> ParamsLowest(p1, t1)
  BY DEF ParamsLowest
<1>9. CmdlinePlaced(p1, t1, c1) => CmdlinePlaced(p1, t1, c1)'
  BY <1>3, <1>4 DEF CmdlinePlaced
<1>10. KernelPlaced(p1, t1, c1) => KernelPlaced(p1, t1, c1)'
  BY <1>1, <1>2, <1>3, <1>4 DEF KernelPlaced
<1>11. InitrdsPlaced(p1, t1, c1) => InitrdsPlaced(p1, t1, c1)'
  BY <1>1, <1>5 DEF InitrdsPlaced
<1> QED BY <1>6, <1>7, <1>8, <1>9, <1>10, <1>11 DEF Progress

LEMMA LinuxInvInit == LinuxInit => LinuxInv
<1> SUFFICES ASSUME LinuxInit PROVE LinuxInv
  OBVIOUS
<1>1. MemoryOf(pages, cells)
  BY DEF LinuxInit, MemoryOf, PageAddresses
<1>2. Progress(stage, params, pages, cells)
  BY DEF LinuxInit, Progress
<1> QED BY <1>1, <1>2 DEF LinuxInit, LinuxInv

LEMMA LinuxInvNext == LinuxInv /\ [LinuxNext]_linuxVars => LinuxInv'
<1> SUFFICES ASSUME LinuxInv, [LinuxNext]_linuxVars PROVE LinuxInv'
  OBVIOUS
<1>1. part' = part /\ config' = config
  BY DEF LinuxNext, linuxVars, loadVars, AllocParams, SetCmdline, LoadLinux, LoadInitrd, LinuxReadFails, BiosEnter,
         EfiEnter, Step, Halt, Abandon
<1>2. MemoryOf(pages', cells') /\ Progress(stage', params', pages', cells')
  <2>1. CASE AllocParams
    BY <2>1, ParamsStep
  <2>2. CASE SetCmdline
    BY <2>2, CmdlineStep
  <2>3. CASE LoadLinux
    BY <2>3, KernelStep
  <2>4. CASE LoadInitrd
    BY <2>4, InitrdStep
  <2>5. CASE LinuxReadFails \/ UNCHANGED linuxVars
    <3>1. pages' = pages /\ cells' = cells /\ stage' = stage /\ params' = params
      BY <2>5 DEF LinuxReadFails, Halt, Abandon, linuxVars, loadVars
    <3> QED BY <3>1 DEF LinuxInv
  <2>6. CASE BiosEnter \/ EfiEnter
    BY <2>6, EnterStep
  <2> QED BY <2>1, <2>2, <2>3, <2>4, <2>5, <2>6 DEF LinuxNext
<1>3. LinuxConfig(config)'
  BY <1>1 DEF LinuxInv, LinuxConfig
<1>4. Progress(stage, params, pages, cells)'
  <2>1. \A s1, p1, t1, c1 : s1 = stage' /\ p1 = params' /\ t1 = pages' /\ c1 = cells' => Progress(s1, p1, t1, c1)'
    BY <1>1, <1>2, ConfigKept
  <2> QED BY <2>1
<1> QED BY <1>1, <1>2, <1>3, <1>4 DEF LinuxInv, MemoryOf

(* Parts in pages of two types have no cell in common.                     *)
LEMMA TypesApart ==
  ASSUME NEW t, NEW s, NEW n, NEW u, InOf(t, s, n, u), NEW d, NEW m, NEW v, InOf(t, d, m, v), u # v
  PROVE  (s .. s + n - 1) \cap (d .. d + m - 1) = {}
BY DEF InOf

LEMMA LinuxInvIntact == LinuxInv => LinuxIntact
<1> SUFFICES ASSUME LinuxInv, stage = "entered" PROVE LinuxIntact
  BY DEF LinuxIntact
<1> DEFINE k == params.kernel
           room == k .. k + params.kernel_size - 1
<1>1. /\ ParamsPlaced(params, pages, cells) /\ CmdlinePlaced(params, pages, cells)
      /\ KernelPlaced(params, pages, cells) /\ InitrdsPlaced(params, pages, cells) /\ LinuxConfig(config)
  BY DEF LinuxInv, Progress
<1>2. /\ InOf(pages, k, params.kernel_size, "allocated") /\ HasOf(cells, k, LoadSize, "kernel", SetupSize)
      /\ params.kernel_size >= LoadSize /\ (Header.version >= 10 => params.kernel_size >= Header.init_size)
      /\ \/ k = PrefAddr
         \/ Relocatable /\ k % params.align = 0 /\ params.align >= MinAlign
  <2>1. Header.init_size \in Nat /\ LoadSize \in Nat
    BY <1>1, HeaderFields
  <2> QED BY <1>1, <2>1 DEF KernelPlaced
<1>3. /\ InOf(pages, params.at, PAGE_SIZE, "reclaimable") /\ HasOf(cells, params.at, PAGE_SIZE, "params", 0)
  BY <1>1 DEF ParamsPlaced
<1>4. /\ InOf(pages, params.cmdline, CmdlineSize, "reclaimable")
      /\ HasOf(cells, params.cmdline, config.cmdline, "cmdline", 0)
      /\ cells[params.cmdline + config.cmdline] = "zero"
      /\ config.cmdline \in Nat /\ CmdlineSize \in Nat /\ config.cmdline < CmdlineSize
      /\ params.cmdline \in Nat
  <2>1. config.cmdline <= MaxCmdline
    BY <1>1 DEF CmdlinePlaced
  <2>2. config.cmdline \in Nat /\ MaxCmdline \in Nat /\ CmdlineSize \in Nat /\ MaxCmdline < CmdlineSize
    BY <1>1, HeaderFields, CmdlineRoom
  <2> QED BY <1>1, <2>1, <2>2 DEF CmdlinePlaced, InOf
<1>5. pages[PageOf(params.cmdline + config.cmdline)] = "reclaimable"
  <2> DEFINE s == params.cmdline
             a == s + config.cmdline
  <2>1. a \in s .. s + CmdlineSize - 1
    BY <1>4
  <2> HIDE DEF a
  <2>2. pages[PageOf(a)] = "reclaimable"
    BY <1>4, <2>1 DEF InOf
  <2> QED BY <2>2 DEF a
<1> HIDE DEF k
<1>6. ASSUME NEW a \in {params.at, params.cmdline} PROVE a \notin room
  <2>1. params.at \in params.at .. params.at + PAGE_SIZE - 1 /\ params.cmdline \in params.cmdline .. params.cmdline + CmdlineSize - 1
    <3>1. params.at \in Nat /\ PAGE_SIZE \in Nat \ {0}
      BY <1>3, Sizes DEF InOf
    <3> QED BY <1>4, <3>1
  <2>2. a \in Addresses /\ pages[PageOf(a)] = "reclaimable"
    BY <1>3, <1>4, <2>1 DEF InOf
  <2> QED BY <1>2, <2>2 DEF InOf
<1>7. ASSUME InitrdSize # 0
      PROVE  /\ params.image + InitrdSize <= Header.initrd_addr_max + 1
             /\ (params.image .. params.image + InitrdSize - 1) \cap room = {}
  <2>1. InOf(pages, params.image, InitrdSize, "modules") /\ params.image + InitrdSize <= Header.initrd_addr_max + 1
    BY <1>1, <1>7 DEF InitrdsPlaced
  <2> QED BY <1>2, <2>1, TypesApart
<1>8. /\ params.image_size = InitrdSize
      /\ \A i \in 1 .. Len(config.initrds) :
           HasOf(cells, params.image + InitrdStart(i), config.initrds[i], <<"initrd", i>>, 0)
  BY <1>1 DEF InitrdsPlaced
<1>9. \A dest, n, name, offset : HasOf(cells, dest, n, name, offset) <=> HasFile(dest, n, name, offset)
  BY DEF HasOf, HasFile
<1> HIDE DEF room
<1>10. /\ HasFile(k, LoadSize, "kernel", SetupSize) /\ HasFile(params.at, PAGE_SIZE, "params", 0)
       /\ HasFile(params.cmdline, config.cmdline, "cmdline", 0)
       /\ \A i \in 1 .. Len(config.initrds) :
            HasFile(params.image + InitrdStart(i), config.initrds[i], <<"initrd", i>>, 0)
  BY <1>2, <1>3, <1>4, <1>8, <1>9
<1> QED BY <1>2, <1>4, <1>5, <1>6, <1>7, <1>8, <1>10 DEF LinuxIntact, k, room

(***************************************************************************)
(* A Linux kernel that is entered is whole, at an address it accepts, with *)
(* its room, its initrds, its parameters and its command line apart from   *)
(* each other: the allocations of linux_arch_load(), linux_initrd_load()   *)
(* and allocate_kernel() and the terminator written after the command      *)
(* line's area, on every machine and for every header of whole pages.      *)
(***************************************************************************)
THEOREM LinuxLoadsIntact == LinuxSpec => []LinuxIntact
<1>1. LinuxInv /\ [LinuxNext]_linuxVars => LinuxInv'
  BY LinuxInvNext
<1> QED BY LinuxInvInit, <1>1, LinuxInvIntact, PTL DEF LinuxSpec
=============================================================================
