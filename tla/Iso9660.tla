------------------------------ MODULE Iso9660 --------------------------------
(***************************************************************************)
(* source/fs/iso9660.c.  A volume v is                                     *)
(*   v.descriptors  the volume descriptors in order, [type, joliet, root]  *)
(*   v.records      extent -> offset -> directory record                   *)
(* A record is [len, hidden, special, dir, name, extent, size]: special    *)
(* for `.' and `..', and len is 0 where the rest of the block is not used. *)
(***************************************************************************)
EXTENDS Integers, Sequences, SequencesExt, FiniteSets, Outcome

CONSTANTS
  ISO9660_BLOCK_SIZE,  \* 2048
  ISO_DESCRIPTORS      \* the search ends after this many: 112

open_record(r) == [type |-> IF r.dir THEN "dir" ELSE "reg", size |-> r.size, extent |-> r.extent]

(* iso9660_mount(): at most one primary and one Joliet descriptor, the     *)
(* latter being preferred.                                                 *)
RECURSIVE IsoSearch(_, _, _, _, _)
IsoSearch(v, i, primary, supp, bad) ==
  LET d == v.descriptors[i + 1]
      found == Ok([primary |-> primary, supp |-> supp])
  IN IF i = ISO_DESCRIPTORS THEN found
     ELSE IF <<"descriptor", i>> \in bad THEN Fail("device_error")
     ELSE IF i >= Len(v.descriptors) THEN Fail("unknown_fs")
     ELSE CASE d.type = "primary" ->
                 IF primary # <<>> THEN Fail("corrupt_fs") ELSE IsoSearch(v, i + 1, <<d>>, supp, bad)
            [] d.type = "supplementary" ->
                 IF supp # <<>> THEN Fail("corrupt_fs")
                 ELSE IsoSearch(v, i + 1, primary, IF d.joliet THEN <<d>> ELSE supp, bad)
            [] d.type = "end" -> found
            [] OTHER -> IsoSearch(v, i + 1, primary, supp, bad)

iso9660_mount(v, bad) ==
  Then(IsoSearch(v, 0, <<>>, <<>>, bad), LAMBDA s :
    IF s.primary = <<>> THEN Fail("unknown_fs")
    ELSE Ok(open_record(IF s.supp # <<>> THEN Head(s.supp).root ELSE Head(s.primary).root)))

(* parse_name(): version 1 is dropped, then the dot of an empty extension. *)
parse_name(r) ==
  LET n == Len(r.name)
      plain == IF n >= 2 /\ SubSeq(r.name, n - 1, n) = <<";", "1">> THEN SubSeq(r.name, 1, n - 2) ELSE r.name
  IN IF plain # <<>> /\ Last(plain) = "." THEN Front(plain) ELSE plain

(* iso9660_iterate(): a record without a length means the next block.  A   *)
(* block that starts with one is looked at again and again.                *)
RECURSIVE IsoEntries(_, _, _)
IsoEntries(records, size, offset) ==
  LET r == records[offset]
      on == ((offset + ISO9660_BLOCK_SIZE - 1) \div ISO9660_BLOCK_SIZE) * ISO9660_BLOCK_SIZE
      rest == IsoEntries(records, size, offset + r.len)
  IN IF offset >= size THEN Ok(<<>>)
     ELSE IF r.len = 0
     THEN IF on = offset THEN [status |-> "hang", value |-> <<>>] ELSE IsoEntries(records, size, on)
     ELSE IF r.hidden THEN rest
     ELSE [rest EXCEPT !.value = <<[name |-> IF r.special THEN r.name ELSE parse_name(r), record |-> r]>> \o @]

iso9660_iterate(v, dir, name, bad) ==
  LET all == IsoEntries(v.records[dir.extent], dir.size, 0)
      found == SelectSeq(all.value, LAMBDA e : e.name = name)
  IN IF <<"extent", dir.extent>> \in bad THEN Fail("device_error")
     ELSE IF found # <<>> THEN Ok(Head(found).record)
     ELSE IF all.status = "hang" THEN Fail("hang") ELSE Fail("not_found")

iso9660_open_entry(owner, root, r) ==
  IF r.extent = owner.extent THEN owner ELSE IF r.extent = root.extent THEN root ELSE open_record(r)

iso9660_read(node, count, offset, bad) ==
  IF <<"extent", node.extent>> \in bad THEN Fail("device_error")
  ELSE Ok([i \in 1 .. count |-> node.extent * ISO9660_BLOCK_SIZE + offset + i - 1])
=============================================================================
