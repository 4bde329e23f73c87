----------------------------- MODULE BLinkPage -----------------------------
(***************************************************************************)
(* One page of the B-link tree: the search in it, the insertion, the two   *)
(* splits, and the redo record each change writes (storage/page.cpp,       *)
(* storage/page.h and the Log* functions of btr/Btr.cpp).  Keys are the    *)
(* numbers Lowest+1 .. Highest-1; a record is a key with the tuple address *)
(* (leaf) or the child page (internal page).  `recs' holds the records of  *)
(* slots 0 .. last_index, shifted by one.                                  *)
(***************************************************************************)
EXTENDS Naturals, Sequences, SequencesExt

CONSTANTS LeafCardinality,      \* leaf_cardinality_: a leaf splits when it holds so many
          InternalCardinality,  \* internal_cardinality_
          Highest               \* DynamicCompoundKey::MaxValue

ASSUME CardinalitiesAssumption ==
    /\ LeafCardinality \in Nat /\ LeafCardinality >= 2
    /\ InternalCardinality \in Nat /\ InternalCardinality >= 3
    /\ Highest \in Nat

Lowest == 0     \* DynamicCompoundKey::MinValue
Null   == 0     \* GlobalAddress::Null()

Record(k, v) == [key |-> k, val |-> v]

(***************************************************************************)
(* The constructors of LeafPage and InternalPage: no records, the widest   *)
(* bounds, version 1.                                                      *)
(***************************************************************************)
EmptyPage(level) ==
    [level |-> level, low |-> Lowest, high |-> Highest, left |-> Null,
     recs |-> << >>, sib |-> Null, ver |-> 1]

\* InternalPage(left, key, right, ...): the page that becomes a new root.
RootPage(left, k, right, level) ==
    [EmptyPage(level) EXCEPT !.left = left, !.recs = <<Record(k, right)>>]

(***************************************************************************)
(* The binary search all the page functions share: from [l, r] it ends on  *)
(* the last record whose key is not above k, or on the first record.       *)
(***************************************************************************)
Bisect(recs, k) ==
    LET search[l \in 1 .. Len(recs), r \in 0 .. Len(recs)] ==
            IF l >= r THEN r
            ELSE LET mid == (l + r + 1) \div 2
                 IN  CASE k > recs[mid].key -> search[mid, r]
                       [] k < recs[mid].key -> search[l, mid - 1]
                       [] OTHER             -> mid
    IN  search[1, Len(recs)]

\* InternalPage::internal_page_search: the child that covers k.
ChildOf(pg, k) ==
    IF k < pg.recs[1].key THEN pg.left ELSE pg.recs[Bisect(pg.recs, k)].val

\* LeafPage::leaf_page_search: the record of k, if the leaf has one.
FoundIn(pg, k) ==
    /\ pg.recs # << >>
    /\ pg.recs[Bisect(pg.recs, k)].key = k

\* LeafPage::leaf_page_pos_lb: the last slot whose key is not above k, 0 for -1.
PositionOf(pg, k) ==
    IF pg.recs = << >> THEN 0
    ELSE LET mid == Bisect(pg.recs, k)
         IN  IF k < pg.recs[mid].key THEN 0 ELSE mid

\* The slot a new record goes to, in either kind of page.
InsertIndex(pg, k) ==
    IF pg.recs = << >> \/ k < pg.recs[1].key THEN 1
    ELSE Bisect(pg.recs, k) + 1

(***************************************************************************)
(* The operations of a redo record (LogCodec): memmove of n slots, a write *)
(* of one slot, of last_index, of the highest key, of the sibling pointer. *)
(***************************************************************************)
Move(dst, src, n) == [op |-> "move", dst |-> dst, src |-> src, n |-> n]
Put(i, r)         == [op |-> "put", at |-> i, rec |-> r]
Count(n)          == [op |-> "count", n |-> n]
High(k)           == [op |-> "high", key |-> k]
Sibling(s)        == [op |-> "sib", ptr |-> s]

\* What the replay of one operation does to a page.
Applied(pg, o) ==
    CASE o.op = "move" ->
           [pg EXCEPT !.recs =
              [i \in 1 .. (IF o.n = 0 THEN Len(@) ELSE o.dst + o.n - 1) |->
                 IF i >= o.dst THEN @[i - o.dst + o.src] ELSE @[i]]]
      [] o.op = "put" ->
           [pg EXCEPT !.recs = IF o.at > Len(@) THEN Append(@, o.rec)
                                                ELSE [@ EXCEPT ![o.at] = o.rec]]
      [] o.op = "count" -> [pg EXCEPT !.recs = SubSeq(@, 1, o.n)]
      [] o.op = "high"  -> [pg EXCEPT !.high = o.key]
      [] o.op = "sib"   -> [pg EXCEPT !.sib = o.ptr]

\* A copy takes a record only if the record carries its next version.
Replayed(pg, version, ops) ==
    IF version = pg.ver + 1
    THEN [FoldLeft(Applied, pg, ops) EXCEPT !.ver = version]
    ELSE pg

(***************************************************************************)
(* internal_page_store and leaf_page_store of the page: shift the records  *)
(* above, write the new one, count it, raise the version.                  *)
(***************************************************************************)
Stored(pg, k, v) ==
    [pg EXCEPT !.recs = InsertAt(@, InsertIndex(pg, k), Record(k, v)),
               !.ver  = @ + 1]


\* The redo record of that insertion, encoded from the page before it.
StoreOps(pg, k, v) ==
    LET i == InsertIndex(pg, k)
        n == Len(pg.recs)
    IN  (IF i <= n THEN <<Move(i + 1, i, n - i + 1)>> ELSE << >>)
          \o <<Put(i, Record(k, v)), Count(n + 1)>>

Capacity(pg) == IF pg.level = 0 THEN LeafCardinality ELSE InternalCardinality

NeedSplit(pg) == Len(pg.recs) = Capacity(pg)

(***************************************************************************)
(* The split of a full page: the key of slot m moves up, the records from  *)
(* m on (leaf) or above m (internal page) move to the new sibling.         *)
(***************************************************************************)
SplitSlot(pg) == Len(pg.recs) \div 2 + 1
SplitKey(pg)  == pg.recs[SplitSlot(pg)].key

LowerHalf(pg, sibling) ==
    [pg EXCEPT !.recs = SubSeq(@, 1, SplitSlot(pg) - 1),
               !.high = SplitKey(pg),
               !.sib  = sibling,
               !.ver  = @ + 1]

UpperHalf(pg) ==
    LET m == SplitSlot(pg)
    IN  [EmptyPage(pg.level) EXCEPT
           !.recs = SubSeq(pg.recs, IF pg.level = 0 THEN m ELSE m + 1, Len(pg.recs)),
           !.left = IF pg.level = 0 THEN Null ELSE pg.recs[m].val,
           !.low  = SplitKey(pg),
           !.high = pg.high,
           !.sib  = pg.sib]

\* LogLeafPageSplit, LogInternalPageSplit: the record of the page that stays.
SplitOps(pg, sibling) ==
    <<Count(SplitSlot(pg) - 1), Sibling(sibling), High(SplitKey(pg))>>

\* LogNewRootPage: a new page is logged whole at version 1; unlogged it is not seen.
CreatedCopy(pg, logged) == IF logged THEN pg ELSE [pg EXCEPT !.recs = << >>, !.ver = 0]

\* The replica's two pages after the split of `full' at address a.
SplitCopies(copies, a, full, sibling, logged) ==
    Append([copies EXCEPT ![a] =
              IF logged THEN Replayed(@, full.ver + 1, SplitOps(full, sibling)) ELSE @],
           CreatedCopy(UpperHalf(full), logged))
=============================================================================
