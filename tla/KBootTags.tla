------------------------------ MODULE KBootTags ------------------------------
(***************************************************************************)
(* What a KBoot kernel is told: the options, from the image through the    *)
(* environment and the configuration window to their tags, and the tag     *)
(* list they are part of.  source/loader/kboot.c: add_options() and the    *)
(* root device check of config_cmd_kboot(), kboot_loader_configure(),      *)
(* kboot_alloc_tag() and its callers.  The address space that some of the  *)
(* tags describe is the subject of module KBootSpace; of the memory and    *)
(* mapping tags only their number matters here.                            *)
(***************************************************************************)
EXTENDS Integers, Sequences, FiniteSets, SequencesExt

CONSTANTS
  Boots,         \* kernels and what they are started with
  TAGS_SIZE,     \* KBOOT_TAGS_SIZE
  TAG_ALIGN,     \* 8
  STRUCT_SIZE,   \* sizes of the structures, by type of tag
  Strings,       \* strings a user enters
  SizeOf,        \* the size of a name or value in a tag
  MaxEdits

VARIABLES
  boot,       \* one of Boots
  step,       \* where it is
  env,        \* the variables of the environment: [type, value] by name
  chosen,     \* what the user has entered, by option
  edits,
  tags_size,  \* loader->core->tags_size
  area        \* the tag list, and the memory after it

tagVars == <<boot, step, env, chosen, edits, tags_size, area>>

TypeOfOption == [boolean |-> "boolean", string |-> "string", integer |-> "integer"]
round_up8(n) == ((n + TAG_ALIGN - 1) \div TAG_ALIGN) * TAG_ALIGN
Indices(seq) == [i \in 1 .. Len(seq) |-> i]

-----------------------------------------------------------------------------
(* add_options(): the default of an option enters the environment, unless  *)
(* there is a value already, which must be of the option's type.           *)
AddOption(e, o) ==
  IF o.name \in DOMAIN e THEN e ELSE (o.name :> [type |-> o.type, value |-> o.default]) @@ e

Conflict(e, i) ==
  LET before == FoldLeft(AddOption, e, SubSeq(boot.options, 1, i - 1)) o == boot.options[i]
  IN o.type \notin DOMAIN TypeOfOption \/ (o.name \in DOMAIN before /\ before[o.name].type # o.type)
OptionsConflict == \E i \in 1 .. Len(boot.options) : Conflict(env, i)

(* The root device must be a string, and name a device unless it is a UUID *)
(* or for the kernel to interpret.                                         *)
RootValid(e) ==
  "root_device" \in DOMAIN e =>
    /\ e["root_device"].type = "string"
    /\ e["root_device"].value \in {"other:", "uuid:"} \cup DOMAIN boot.devices

(* A command that is refused leaves the options before the one in conflict *)
(* in the environment.                                                     *)
KBootCommand ==
  LET before == {n \in 0 .. Len(boot.options) : \A i \in 1 .. n : ~Conflict(env, i)}
      added  == CHOOSE n \in before : \A m \in before : m <= n
  IN
  /\ step = "command"
  /\ env' = FoldLeft(AddOption, env, SubSeq(boot.options, 1, added))
  /\ step' = IF OptionsConflict \/ ~RootValid(env') THEN "refused" ELSE "configure"
  /\ UNCHANGED <<boot, chosen, edits, tags_size, area>>

(* kboot_loader_configure(): one entry for each option, that changes the   *)
(* value of the environment in place.  ui_entry_create() asserts that none *)
(* is an integer.                                                          *)
Configure ==
  /\ step = "configure" /\ edits < MaxEdits
  /\ IF \E i \in 1 .. Len(boot.options) : boot.options[i].type = "integer"
     THEN step' = "assert" /\ UNCHANGED <<env, chosen, edits>>
     ELSE \E i \in 1 .. Len(boot.options) :
            LET o == boot.options[i] v == env[o.name].value IN
            \E new \in IF o.type = "boolean" THEN {IF v = "true" THEN "false" ELSE "true"} ELSE Strings :
              /\ env' = [env EXCEPT ![o.name].value = new]
              /\ chosen' = (o.name :> new) @@ chosen
              /\ edits' = edits + 1 /\ UNCHANGED step
  /\ UNCHANGED <<boot, tags_size, area>>

-----------------------------------------------------------------------------
(***************************************************************************)
(* The tag list.  A tag is a header, at a multiple of TAG_ALIGN, the rest  *)
(* of its structure, and parts of variable length, each aligned too.       *)
(***************************************************************************)
Cell(kind, what, n) == [kind |-> kind, what |-> what, n |-> n]
Zero == Cell("zero", "", 0)

Part(what, size) == [what |-> what, size |-> size]
PartAt(tag, i) ==
  round_up8(STRUCT_SIZE[tag.type]) + FoldLeft(LAMBDA n, p : n + round_up8(p.size), 0, SubSeq(tag.parts, 1, i - 1))
TagSize(tag) ==
  IF tag.parts = <<>> THEN STRUCT_SIZE[tag.type]
  ELSE PartAt(tag, Len(tag.parts)) + tag.parts[Len(tag.parts)].size + tag.extra

Tag(type, parts) == [type |-> type, parts |-> parts, extra |-> 0]

(* kboot_alloc_tag(), with what its caller copies to the tag.              *)
StrideMutant(size) == size
Stride(size) == round_up8(size)

CopyPart(cells, at, part) ==
  [a \in DOMAIN cells |-> IF a \in at .. at + part.size - 1 THEN Cell("data", part.what, a - at) ELSE cells[a]]

WithTag(cells, at, tag) ==
  LET clear == [a \in DOMAIN cells |-> IF a = at THEN Cell("tag", tag.type, TagSize(tag))
                                       ELSE IF a \in at .. at + TagSize(tag) - 1 THEN Zero ELSE cells[a]]
  IN FoldLeft(LAMBDA c, i : CopyPart(c, at + PartAt(tag, i), tag.parts[i]), clear, Indices(tag.parts))

(* add_option_tags(): an integer option trips an assertion, as             *)
(* assert(value->type == VALUE_TYPE_STRING) is what it is checked with.    *)
OptionTag(o) == Tag("option", <<Part(o.name, SizeOf[o.name]), Part(env[o.name].value, SizeOf[env[o.name].value])>>)
OptionAsserts(o) ==
  o.type = "integer" \/ o.name \notin DOMAIN env \/ env[o.name].type # TypeOfOption[o.type]

(* add_bootdev_tag().  The size of an "other" tag counts the structure     *)
(* twice.                                                                  *)
RootDevice ==
  IF "root_device" \notin DOMAIN env THEN boot.from ELSE boot.devices[env["root_device"].value]
BootdevAsserts ==
  "root_device" \in DOMAIN env /\ env["root_device"].value \notin {"other:", "uuid:"} \cup DOMAIN boot.devices
BootdevTag ==
  IF BootdevAsserts THEN Tag("bootnone", <<>>)
  ELSE IF "root_device" \in DOMAIN env /\ env["root_device"].value = "other:"
  THEN [Tag("bootdev", <<Part("other:", SizeOf["other:"])>>) EXCEPT !.extra = STRUCT_SIZE["bootdev"]]
  ELSE IF "root_device" \in DOMAIN env /\ env["root_device"].value = "uuid:" THEN Tag("bootdev", <<>>)
  ELSE Tag(IF RootDevice.type = "net" \/ (RootDevice.type = "disk" /\ RootDevice.uuid) THEN "bootdev" ELSE "bootnone", <<>>)

(* The tags kboot_loader_load() adds on a PC, in its order.                *)
Many(n, tag) == [i \in 1 .. n |-> tag]
SectionTags == Many(boot.sections, Tag("sections", <<Part("sections", 3)>>))
ModuleTags == [i \in 1 .. Len(boot.modules) |-> Tag("module", <<Part(boot.modules[i], SizeOf[boot.modules[i]])>>)]
VideoTags == Many(boot.video, Tag("video", <<>>))
SerialTags == Many(boot.serial, Tag("serial", <<>>))
TagsBefore == <<Tag("core", <<>>), Tag("pagetables", <<>>)>> \o SectionTags \o ModuleTags \o VideoTags \o SerialTags
OptionTags == [i \in 1 .. Len(boot.options) |-> OptionTag(boot.options[i])]
MemoryTags == Many(boot.ranges, Tag("memory", <<>>))
VmemTags == Many(boot.mappings, Tag("vmem", <<>>))
PlatformTag == Tag("platform", <<Part("firmware", boot.firmware)>>)
TagsAfter == <<BootdevTag>> \o MemoryTags \o VmemTags \o <<PlatformTag, Tag("none", <<>>)>>

AllTags == TagsBefore \o OptionTags \o TagsAfter

(* environ_boot().  The memory alloc_tag_list() makes of the list is not   *)
(* cleared.                                                                *)
KBootLoad ==
  /\ step = "configure" /\ step' = "tags"
  /\ UNCHANGED <<boot, env, chosen, edits, tags_size, area>>

(* Whether an assertion is tripped before the next tag is added: the       *)
(* root device may have been edited since it was looked up.                *)
TagsSoFar == Cardinality({a \in DOMAIN area : area[a].kind = "tag"})
Asserts ==
  LET option == TagsSoFar - Len(TagsBefore) + 1 IN
  \/ option \in 1 .. Len(boot.options) /\ OptionAsserts(boot.options[option])
  \/ option = Len(boot.options) + 1 /\ BootdevAsserts

AddTag ==
  LET tag == AllTags[TagsSoFar + 1] IN
  /\ step = "tags" /\ ~Asserts
  /\ area' = WithTag(area, tags_size, tag)
  /\ tags_size' = tags_size + Stride(TagSize(tag))
  /\ step' = IF tags_size' > TAGS_SIZE THEN "internal_error"
             ELSE IF tag.type = "none" THEN "entered" ELSE "tags"
  /\ UNCHANGED <<boot, env, chosen, edits>>

AssertFails ==
  /\ step = "tags" /\ Asserts /\ step' = "assert"
  /\ UNCHANGED <<boot, env, chosen, edits, tags_size, area>>

TagInit ==
  /\ boot \in Boots
  /\ step = "command" /\ env = boot.environment /\ chosen = [n \in {} |-> ""] /\ edits = 0 /\ tags_size = 0
  /\ area = [a \in 0 .. 2 * TAGS_SIZE |-> Cell("other", "", a)]

TagNext == KBootCommand \/ Configure \/ KBootLoad \/ AddTag \/ AssertFails

-----------------------------------------------------------------------------
(* The tags a kernel finds that goes from one to the next as the protocol  *)
(* says, and what it reads in the i-th part of one.                        *)
RECURSIVE Walk(_, _)
Walk(at, n) ==
  IF n = 0 \/ at >= TAGS_SIZE \/ area[at].kind # "tag" THEN <<>>
  ELSE IF area[at].what = "none" THEN <<at>> ELSE <<at>> \o Walk(at + round_up8(area[at].n), n - 1)

ReadsAt(at, part) == \A k \in 0 .. part.size - 1 : area[at + k] = Cell("data", part.what, k)

(* The value of an option: what the user has entered, else what the        *)
(* configuration file has set, else the first default in the image.        *)
ValueOf(o) ==
  IF o.name \in DOMAIN chosen THEN chosen[o.name]
  ELSE IF o.name \in DOMAIN boot.environment THEN boot.environment[o.name].value
  ELSE boot.options[CHOOSE i \in 1 .. Len(boot.options) :
                      /\ boot.options[i].name = o.name
                      /\ \A j \in 1 .. i - 1 : boot.options[j].name # o.name].default

(* A kernel that is entered finds every tag of its list, in order and to   *)
(* the end, the tag of each option with the value that the user or the     *)
(* configuration chose for it, each module's name, and nothing has been    *)
(* written past the list.                                                  *)
TagsDelivered ==
  step = "entered" =>
    LET found == Walk(0, Len(AllTags))
        first == Len(TagsBefore)
        modules == Len(TagsBefore) - Len(boot.modules) - boot.video - boot.serial
    IN
    /\ Len(found) = Len(AllTags)
    /\ \A i \in 1 .. Len(found) : area[found[i]].what = AllTags[i].type
    /\ \A i \in 1 .. Len(boot.options) :
         LET o == boot.options[i] at == found[first + i] + round_up8(STRUCT_SIZE["option"]) IN
         /\ ReadsAt(at, Part(o.name, SizeOf[o.name]))
         /\ ReadsAt(at + round_up8(SizeOf[o.name]), Part(ValueOf(o), SizeOf[ValueOf(o)]))
    /\ \A i \in 1 .. Len(boot.modules) :
         ReadsAt(found[modules + i] + round_up8(STRUCT_SIZE["module"]), Part(boot.modules[i], SizeOf[boot.modules[i]]))
    /\ \A a \in DOMAIN area : a >= TAGS_SIZE => area[a].kind = "other"
=============================================================================
