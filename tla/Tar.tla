--------------------------------- MODULE Tar ---------------------------------
(***************************************************************************)
(* source/fs/tar.c.  A volume v is its headers in order, [magic, end,      *)
(* name, type, size], where the name is the list of its parts.  The whole  *)
(* tree is built when the archive is mounted: a node is [name, parent,     *)
(* type, size, offset], the root being node 1.                             *)
(***************************************************************************)
EXTENDS Integers, Sequences, SequencesExt, FiniteSets, Outcome

CONSTANT TAR_BLOCK   \* 512

TarRoot == [name |-> "", parent |-> 1, type |-> "dir", size |-> 0, offset |-> 0]

(* fs_open() of a directory in the tree so far: the last child that has    *)
(* the name is the one it returns, as the iteration is not ended early.    *)
TarChild(tree, dir, name) ==
  LET same == {i \in 2 .. Len(tree) : tree[i].parent = dir /\ tree[i].name = name}
  IN IF same = {} THEN 0 ELSE CHOOSE i \in same : \A j \in same : j <= i

RECURSIVE TarWalk(_, _, _)
TarWalk(tree, from, names) ==
  IF names = <<>> THEN Ok(from)
  ELSE IF tree[from].type # "dir" THEN Fail("not_dir")
  ELSE IF TarChild(tree, from, Head(names)) = 0 THEN Fail("not_found")
  ELSE TarWalk(tree, TarChild(tree, from, Head(names)), Tail(names))

(* The directory an entry goes to must be there before it.                 *)
TarUnder(parent, tree, Add(_)) ==
  IF Succeeds(parent) /\ tree[parent.value].type = "dir" THEN Add(parent.value) ELSE Fail("not_found")

TarData(size) == ((size + TAR_BLOCK - 1) \div TAR_BLOCK) * TAR_BLOCK

(* tar_mount(): every header from an offset on.  `at' is the number of the *)
(* header, which the device cannot read if it is bad or not there.         *)
TarNode(h, parent, offset) ==
  [name |-> Last(h.name), parent |-> parent, type |-> h.type,
   size |-> IF h.type = "reg" THEN h.size ELSE 0, offset |-> offset + TAR_BLOCK]

RECURSIVE TarHeaders(_, _, _, _, _)
TarHeaders(v, at, offset, tree, bad) ==
  LET h == v.headers[at]
      on(t) == TarHeaders(v, at + 1, offset + TAR_BLOCK + TarData(h.size), t, bad)
  IN IF <<"header", at>> \in bad THEN Fail("device_error")
     ELSE IF at > Len(v.headers) THEN Fail("end_of_file")
     ELSE IF h.end THEN Ok(tree)
     ELSE IF ~h.magic THEN Fail("corrupt_fs")
     ELSE IF h.name = <<>> \/ h.type \notin {"reg", "dir"} THEN on(tree)
     ELSE TarUnder(TarWalk(tree, 1, Front(h.name)), tree, LAMBDA parent : on(Append(tree, TarNode(h, parent, offset))))

tar_mount(v, bad) ==
  IF <<"header", 1>> \in bad THEN Fail("device_error")
  ELSE IF ~v.headers[1].magic THEN Fail("unknown_fs")
  ELSE TarHeaders(v, 1, 0, <<TarRoot>>, bad)

tar_read(node, count, offset) == Ok([i \in 1 .. count |-> node.offset + offset + i - 1])
=============================================================================
