------------------------------ MODULE Regions ------------------------------
(* The logical memory regions: the configuration file's lines as the two   *)
(* parsers read them (RDMA_Manager::Client_Set_Up_Resources and the        *)
(* Memory_Node_Keeper constructor), the layout of the hosted regions in a  *)
(* memory node's buffer (Preregister_Memory), and the replica list with    *)
(* its two failover edits.                                                 *)
(* A line is [id, tokens]: the tokens after the logical id.  A token is    *)
(* [kind, val] with kind "number" (digits), "unit" (digits and a unit,     *)
(* val the bytes) or "word" (anything that starts with a letter).          *)
EXTENDS Integers, Sequences, FiniteSets, SequencesExt, FiniteSetsExt

CONSTANT Granu      \* define::Alloc_Granu, bytes per chunk

(* Memory node ids are the odd numbers in file order, so an index of the   *)
(* replica list is a position in the sorted ids.                           *)
PhysId(idx) == 2 * idx + 1

NumberPrefix(tokens) ==
  LET stop == SelectInSeq(tokens, LAMBDA tok : tok.kind # "number")
  IN IF stop = 0 THEN tokens ELSE SubSeq(tokens, 1, stop - 1)

(* while (iss >> mem_idx): the valid indices, in order; an empty list      *)
(* falls back to the memory node of the same id.                           *)
PhysicalRegions(id, tokens, mems) ==
  LET listed == [i \in DOMAIN NumberPrefix(tokens) |-> PhysId(tokens[i].val)]
      valid  == SelectSeq(listed, LAMBDA m : m \in mems)
  IN IF valid = <<>> /\ id \in mems THEN <<id>> ELSE valid

(* The size token.  The client takes a token that starts with a digit; the *)
(* keeper also takes a word, and then fails to parse it.                   *)
ClientTakesSize(tokens) == tokens # <<>> /\ Head(tokens).kind \in {"number", "unit"}
KeeperTakesSize(tokens) == tokens # <<>>

(* parse_size throws on a word and on zero.                                *)
ParseFails(tok) == tok.kind = "word" \/ tok.val = 0

WithGroup(groups, id, regions, bytes) ==
  [l \in DOMAIN groups \cup {id} |->
     IF l = id THEN [regions |-> regions, bytes |-> bytes] ELSE groups[l]]

(* One line of the client's loop.  A size that does not parse ends the     *)
(* process (exit(1)), which the deployments modelled do not contain.       *)
ClientLine(groups, line, mems) ==
  LET sized == ClientTakesSize(line.tokens)
      rest  == IF sized THEN Tail(line.tokens) ELSE line.tokens
      phys  == PhysicalRegions(line.id, rest, mems)
  IN IF phys = <<>> THEN groups
     ELSE WithGroup(groups, line.id, phys, IF sized THEN Head(line.tokens).val ELSE 0)

(* One line of the keeper's loop: a size that does not parse skips it.     *)
KeeperLine(groups, line, mems) ==
  LET sized == KeeperTakesSize(line.tokens)
      rest  == IF sized THEN Tail(line.tokens) ELSE line.tokens
      phys  == PhysicalRegions(line.id, rest, mems)
  IN IF phys = <<>> \/ (sized /\ ParseFails(Head(line.tokens))) THEN groups
     ELSE WithGroup(groups, line.id, phys, IF sized THEN Head(line.tokens).val ELSE 0)

IdentityGroups(mems) == [m \in mems |-> [regions |-> <<m>>, bytes |-> 0]]

NoGroups == [l \in {} |-> [regions |-> <<>>, bytes |-> 0]]

(* The whole file: the lines in order, then the identity groups when no    *)
(* line gave one.                                                          *)
ClientGroups(lines, mems) ==
  LET parsed == FoldLeft(LAMBDA g, line : ClientLine(g, line, mems), NoGroups, lines)
  IN IF DOMAIN parsed = {} THEN IdentityGroups(mems) ELSE parsed

KeeperGroups(lines, mems) ==
  LET parsed == FoldLeft(LAMBDA g, line : KeeperLine(g, line, mems), NoGroups, lines)
  IN IF DOMAIN parsed = {} THEN IdentityGroups(mems) ELSE parsed

(***************************************************************************)
(* Preregister_Memory on memory node m.                                    *)
(***************************************************************************)
Hosts(groups, m, l) == \E i \in DOMAIN groups[l].regions : groups[l].regions[i] = m

Hosted(groups, m) == {l \in DOMAIN groups : Hosts(groups, m, l)}

(* Mutant: every region starts at the buffer's start.                      *)
BasePtrNoOffset(groups, m, l) == 0

(* phys_reg.base_ptr, from the start of the node's buffer: the regions are *)
(* laid one after the other in the order of their ids.                     *)
BasePtr(groups, m, l) ==
  MapThenSumSet(LAMBDA k : groups[k].bytes, {k \in Hosted(groups, m) : k < l})

(* pre_allocated_pool[l]: the chunks' offsets from the region's base, at   *)
(* least one; a region of no declared size gets no pool.                   *)
PreAllocatedPool(groups, m, l) ==
  IF ~Hosts(groups, m, l) \/ groups[l].bytes = 0 THEN <<>>
  ELSE [i \in 1..Max({1, groups[l].bytes \div Granu}) |-> (i - 1) * Granu]

(***************************************************************************)
(* The replica list.                                                       *)
(***************************************************************************)
GetReplicaSet(groups, l) == groups[l].regions

TranslateLogicalToPhysicalAddress(groups, l, offset, m) == BasePtr(groups, m, l) + offset

(* RemoveFailedMemoryNodeFromLogicalGroups: the failed node leaves every   *)
(* list, and the next replica is the primary.                              *)
RemoveFailedMemoryNode(groups, failed) ==
  [l \in DOMAIN groups |->
     [groups[l] EXCEPT !.regions = SelectSeq(@, LAMBDA m : m # failed)]]

(* HardRemovePrimaryFromAllLogicalGroups: the first replica becomes the    *)
(* primary of every region that has one.                                   *)
HardRemovePrimary(groups) ==
  [l \in DOMAIN groups |->
     [groups[l] EXCEPT !.regions = IF Len(@) > 1 THEN Tail(@) ELSE @]]
=============================================================================
