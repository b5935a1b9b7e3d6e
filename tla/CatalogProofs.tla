--------------------------- MODULE CatalogProofs ---------------------------
(***************************************************************************)
(* Proofs about Catalog, for every set of products and importers, all      *)
(* feeds and every batch size.                                             *)
(***************************************************************************)
EXTENDS Catalog, FiniteSetTheorems, SequenceTheorems, WellFoundedInduction, TLAPS

\* Type correctness in parts.
TableTyped ==
    /\ rowVersion \in [Products -> 0 .. MaxClock]
    /\ live \in [Products -> BOOLEAN]
    /\ shipped \in [Products -> 0 .. MaxClock]
    /\ holder \in [Products -> Importers \cup {None}]

UpdateTyped ==
    /\ clock \in 1 .. MaxClock
    /\ pc \in [Importers -> {"new", "stamped", "next", "upsert", "delete", "ok", "failed"}]
    /\ version \in [Importers -> 0 .. MaxClock]
    /\ feed \in [Importers -> Feeds \cup {<<>>}]
    /\ pos \in [Importers -> Nat]
    /\ \A i \in Importers : pos[i] <= Len(feed[i])
    /\ lists \in [Importers -> [new : SUBSET Item, updated : SUBSET Item]]
    /\ todo \in [Importers -> Seq(Products)]

DeleteTyped ==
    /\ ids \in [Importers -> Seq(Products)]
    /\ doomed \in [Importers -> Seq(Products)]
    /\ sel \in [Importers -> {"select", "send", "done"}]
    /\ del \in [Importers -> {"range", "update", "done"}]
    /\ cursor \in [Importers -> Products \cup {0}]
    /\ groupErr \in [Importers -> BOOLEAN]
    /\ removed \in [Importers -> Nat]
    /\ reported \in [Importers -> Nat]

HistoryTyped ==
    /\ newer \in [Importers -> SUBSET Products]
    /\ met \in [Importers -> SUBSET Importers]
    /\ marked \in [Importers -> SUBSET Products]

Increasing(s) == \A j, k \in DOMAIN s : j < k => s[j] < s[k]

\* A page is in the order of its ids.
PagesInv == \A i \in Importers : Increasing(ids[i])

\* Import i is under way and no other is, nor was since it started.
Alone(i) == Active(i) /\ Sole(i)

\* Imports that are active together have met, and who was met has its version.
MetInv ==
    \A i \in Importers :
        /\ \A j \in met[i] : pc[j] \notin {"new", "stamped"}
        /\ \A j \in Importers : Active(i) /\ Active(j) /\ i # j => j \in met[i]

\* Before an import deletes, DeleteOldProducts is in its initial state.
FreshInv ==
    \A i \in Importers :
        /\ pc[i] \in {"new", "stamped"} => pos[i] = 0
        /\ pc[i] # "new" => version[i] > 0
        /\ pc[i] \in {"new", "stamped", "next", "upsert"} =>
              /\ sel[i] = "select" /\ del[i] = "range" /\ cursor[i] = 0
              /\ ids[i] = <<>> /\ doomed[i] = <<>>
              /\ ~groupErr[i] /\ removed[i] = 0 /\ marked[i] = {}

\* Rows that are live have a version.
LiveInv == \A p \in Products : live[p] => rowVersion[p] > 0

\* The items of the batches an import has committed.
Stored(i) == {feed[i][k] : k \in 1 .. pos[i]}

\* What compareProducts found is still so, and what was stored has the import's
\* version or a later one.
Store(i) ==
    /\ pc[i] = "upsert" =>
          /\ lists[i].new = {item \in Range(Batch(i)) : IsNew(item)}
          /\ lists[i].updated = {item \in Range(Batch(i)) : IsUpdate(i, item)}
    /\ \A p \in ProductsOf(Stored(i)) : rowVersion[p] >= version[i]

Pages(i) == Range(ids[i]) \cup Range(doomed[i])

\* The rows to be marked are outdated, and no row is in two lists.
Doomed(i) ==
    pc[i] = "delete" =>
        /\ pos[i] = Len(feed[i])
        /\ \A p \in Pages(i) : live[p] /\ rowVersion[p] < version[i] /\ p <= cursor[i]
        /\ Range(ids[i]) \cap Range(doomed[i]) = {}
        /\ ids[i] # <<>> => sel[i] = "send" \/ groupErr[i]
        /\ doomed[i] # <<>> => del[i] = "update"

\* A row that was not newer at the start and is not lower now is one it has stored.
Sync(i) ==
    \A p \in Products \ newer[i] : rowVersion[p] >= version[i] =>
        live[p] /\ rowVersion[p] = version[i] /\ p \in ProductsOf(Stored(i))

\* Every outdated row that is live is still to be selected, sent or marked.
Pending(i) ==
    pc[i] = "delete" /\ BatchSize > 0 =>
        \A p \in Products : live[p] /\ rowVersion[p] < version[i] =>
            groupErr[i] \/ (sel[i] # "done" /\ p > cursor[i]) \/ p \in Pages(i)

\* All items of the product in the feed have shippings.
AlwaysShips(i, p) == \A item \in Range(feed[i]) : item.product = p => item.ships

\* The shippings of what was stored.
Shipped(i) ==
    \A p \in Ships(Stored(i)) \ newer[i] : AlwaysShips(i, p) => shipped[p] = version[i]

\* The count is that of the rows marked, unless the reply to an UPDATE was lost.
Count(i) ==
    pc[i] = "delete" =>
        /\ Increasing(doomed[i]) /\ IsFiniteSet(marked[i])
        /\ (~groupErr[i] => removed[i] = Cardinality(marked[i]))
        /\ \A p \in marked[i] : ~live[p]

\* The rows that import i is about to write or mark.
Rows(i) == IF pc[i] = "upsert" THEN Written(i) ELSE IF pc[i] = "delete" THEN Pages(i) ELSE {}

\* They were lower when it read them, and still are unless it was overtaken.
Race(i) == \A p \in Rows(i) : rowVersion[p] < version[i] \/ Overtaken(i, p)

RaceInv == \A i \in Importers : Race(i)

\* The inductive invariant, and what can be added to it when a SELECT that fails
\* is not taken for the last page.
Inv(i) == Store(i) /\ Doomed(i) /\ Sync(i) /\ Shipped(i) /\ Count(i)

IInv ==
    /\ TypeOK /\ MetInv /\ FreshInv /\ PagesInv /\ LiveInv /\ RaceInv
    /\ \A i \in Importers : Alone(i) => Inv(i)

PendingInv == \A i \in Importers : Alone(i) => Pending(i)

-----------------------------------------------------------------------------
(* Sequences.                                                              *)

\* Products are positive numbers.
LEMMA ProductsAreNat == Products \subseteq Nat \ {0}
  BY CatalogAssumption

\* A feed is a sequence of items.
LEMMA FeedsTyped ==
    ASSUME TypeOK, NEW i \in Importers
    PROVE  feed[i] \in Seq(Item)
<1>1. feed[i] \in Feeds \cup {<<>>}
  BY DEF TypeOK
<1>2. \A f \in Feeds : f \in Seq(Item)
  BY CatalogAssumption
<1>3. <<>> \in Seq(Item)
  OBVIOUS
<1>4. QED
  BY <1>1, <1>2, <1>3

\* Bounded sequences are sequences.
LEMMA SeqOfTyped ==
    ASSUME NEW S, NEW n \in Nat, NEW s \in SeqOf(S, n)
    PROVE  s \in Seq(S)
  BY DEF SeqOf

\* A batch is the part of the feed after what is stored.
LEMMA BatchIsPart ==
    ASSUME TypeOK, NEW i \in Importers
    PROVE  /\ Batch(i) \in Seq(Item) /\ Len(Batch(i)) \in Nat
           /\ pos[i] \in Nat /\ pos[i] + Len(Batch(i)) <= Len(feed[i])
           /\ DOMAIN Batch(i) = 1 .. Len(Batch(i))
           /\ \A k \in DOMAIN Batch(i) :
                  Batch(i)[k] \in Item /\ Batch(i)[k] = feed[i][pos[i] + k]
<1> DEFINE rest == Len(feed[i]) - pos[i]
           size == IF BatchSize = 0 \/ rest < BatchSize THEN rest ELSE BatchSize
           batch == SubSeq(feed[i], pos[i] + 1, pos[i] + size)
<1>1. pos[i] \in Nat /\ pos[i] <= Len(feed[i])
  BY DEF TypeOK
<1>2. /\ feed[i] \in Seq(Item) /\ Len(feed[i]) \in Nat
      /\ \A k \in 1 .. Len(feed[i]) : feed[i][k] \in Item
  BY FeedsTyped
<1>3. BatchSize \in Nat
  BY CatalogAssumption
<1>4. size \in Nat /\ pos[i] + size <= Len(feed[i])
  BY <1>1, <1>2, <1>3
<1>5. Batch(i) = batch
  BY DEF Batch
<1> HIDE DEF rest, size
<1>6. /\ batch \in Seq(Item) /\ Len(batch) = size
      /\ \A k \in 1 .. size : batch[k] = feed[i][pos[i] + k]
  BY <1>1, <1>2, <1>4
<1> HIDE DEF batch
<1>7. DOMAIN batch = 1 .. Len(batch) /\ \A k \in DOMAIN batch : batch[k] \in Item
  BY <1>6
<1>8. QED
  BY <1>1, <1>4, <1>5, <1>6, <1>7

\* A page is a sequence of outdated rows, and ends with the last of them.
LEMMA PageFacts ==
    ASSUME NEW i \in Importers, NEW page \in SeqOf(Products, BatchSize),
           FirstOutdated(i, page)
    PROVE  /\ page \in Seq(Products)
           /\ Increasing(page)
           /\ \A p \in Range(page) : IsOutdated(i, p)
           /\ page # <<>> => /\ Last(page) \in Range(page) /\ Last(page) \in Products
                             /\ \A p \in Range(page) : p <= Last(page)
<1>1. page \in Seq(Products)
  BY DEF SeqOf
<1>2. \A p \in Range(page) : IsOutdated(i, p)
  BY DEF FirstOutdated, Outdated
<1>3. \A j, k \in DOMAIN page : j < k => page[j] < page[k]
  BY DEF FirstOutdated
<1>4. ASSUME page # <<>>
      PROVE  /\ Last(page) \in Range(page) /\ Last(page) \in Products
             /\ \A p \in Range(page) : p <= Last(page)
  <2>1. Len(page) \in DOMAIN page /\ Len(page) \in Nat /\ DOMAIN page = 1 .. Len(page)
    BY <1>1, <1>4
  <2>2. Last(page) \in Range(page) /\ Last(page) \in Products
    BY <1>1, <2>1 DEF Range, Last
  <2>3. ASSUME NEW k \in DOMAIN page PROVE page[k] <= page[Len(page)]
    <3>1. page[k] \in Products /\ page[Len(page)] \in Products
      BY <1>1, <2>1
    <3>2. page[k] \in Nat /\ page[Len(page)] \in Nat
      BY <3>1, ProductsAreNat
    <3>3. k = Len(page) \/ k < Len(page)
      BY <2>1
    <3>4. CASE k = Len(page)
      BY <3>2, <3>4
    <3>5. CASE k < Len(page)
      BY <1>3, <2>1, <3>2, <3>5
    <3>6. QED
      BY <3>3, <3>4, <3>5
  <2>4. QED
    BY <2>2, <2>3 DEF Range, Last
<1>5. QED
  BY <1>1, <1>2, <1>3, <1>4 DEF Increasing

\* A page has as many rows as it is long.
LEMMA IncreasingCount ==
    ASSUME NEW S \in SUBSET Nat, NEW s \in Seq(S), Increasing(s)
    PROVE  IsFiniteSet(Range(s)) /\ Cardinality(Range(s)) = Len(s)
<1>1. Len(s) \in Nat /\ DOMAIN s = 1 .. Len(s) /\ \A k \in DOMAIN s : s[k] \in S
  OBVIOUS
<1>2. s \in Surjection(1 .. Len(s), Range(s))
  BY <1>1 DEF Surjection, Range
<1>3. \A k \in DOMAIN s : s[k] \in Nat
  BY <1>1
<1>4. ASSUME NEW j \in DOMAIN s, NEW k \in DOMAIN s, s[j] = s[k] PROVE j = k
  <2>1. ~(s[j] < s[k]) /\ ~(s[k] < s[j])
    BY <1>3, <1>4
  <2>2. ~(j < k) /\ ~(k < j)
    BY <2>1 DEF Increasing
  <2>3. QED
    BY <1>1, <2>2
<1>5. s \in Injection(1 .. Len(s), Range(s))
  BY <1>1, <1>2, <1>4 DEF Injection, IsInjective, Surjection
<1>6. IsFiniteSet(1 .. Len(s)) /\ Cardinality(1 .. Len(s)) = Len(s)
  BY <1>1, FS_Interval
<1>7. QED
  BY <1>2, <1>5, <1>6, FS_Surjection

\* Distinct rows, in any order.
Distinct(s) == \A j, k \in DOMAIN s : s[j] = s[k] => j = k

\* The rows of a page have an order to be locked in, and every such order is a
\* sequence of distinct rows.
LEMMA LockOrders ==
    ASSUME NEW S \in SUBSET Nat, NEW s \in Seq(S), Increasing(s)
    PROVE  /\ SetToSeqs(Range(s)) # {}
           /\ \A order \in SetToSeqs(Range(s)) : order \in Seq(S) /\ Distinct(order)
<1>1. Cardinality(Range(s)) = Len(s)
  BY IncreasingCount
<1>2. /\ Len(s) \in Nat /\ DOMAIN s = 1 .. Len(s)
      /\ \A k \in DOMAIN s : s[k] \in Nat /\ s[k] \in S
  <2>1. Len(s) \in Nat /\ DOMAIN s = 1 .. Len(s) /\ \A k \in DOMAIN s : s[k] \in S
    OBVIOUS
  <2>2. QED
    BY <2>1
<1>3. ASSUME NEW j \in DOMAIN s, NEW k \in DOMAIN s, j # k PROVE s[j] # s[k]
  <2>1. j < k \/ k < j
    BY <1>2, <1>3
  <2>2. s[j] < s[k] \/ s[k] < s[j]
    BY <2>1 DEF Increasing
  <2>3. QED
    BY <1>2, <2>2
<1>4. s \in [1 .. Len(s) -> Range(s)]
  BY <1>2 DEF Range
<1>5. s \in SetToSeqs(Range(s))
  BY <1>1, <1>2, <1>3, <1>4 DEF SetToSeqs
<1>6. ASSUME NEW order \in SetToSeqs(Range(s)) PROVE order \in Seq(S) /\ Distinct(order)
  <2>1. /\ order \in [1 .. Len(s) -> Range(s)]
        /\ \A j, k \in 1 .. Len(s) : j # k => order[j] # order[k]
    BY <1>1, <1>2 DEF SetToSeqs
  <2>2. \A p \in Range(s) : p \in S
    BY <1>2 DEF Range
  <2>3. order \in Seq(S) /\ DOMAIN order = 1 .. Len(s)
    BY <1>1, <2>1, <2>2
  <2>4. QED
    BY <2>1, <2>3 DEF Distinct
<1>7. QED
  BY <1>5, <1>6

\* What was stored is part of the feed.
LEMMA StoredProducts ==
    ASSUME TypeOK, NEW j \in Importers
    PROVE  /\ ProductsOf(Stored(j)) \subseteq Products
           /\ Stored(j) \subseteq Range(feed[j])
           /\ Range(Batch(j)) \subseteq Range(feed[j])
<1>1. pos[j] \in Nat /\ pos[j] <= Len(feed[j]) /\ feed[j] \in Seq(Item)
  BY FeedsTyped DEF TypeOK
<1>2. \A k \in 1 .. pos[j] : k \in DOMAIN feed[j] /\ feed[j][k] \in Item
  BY <1>1
<1>3. \A k \in DOMAIN Batch(j) : pos[j] + k \in DOMAIN feed[j]
  BY <1>1, BatchIsPart
<1>4. Range(Batch(j)) \subseteq Range(feed[j])
  BY <1>3, BatchIsPart DEF Range
<1>5. Stored(j) \subseteq Range(feed[j])
  BY <1>2 DEF Stored, Range
<1>6. ProductsOf(Stored(j)) \subseteq Products
  BY <1>2 DEF Stored, ProductsOf, Item
<1>7. QED
  BY <1>4, <1>5, <1>6

\* At the end of the feed all of it is stored.
LEMMA WholeFeedStored ==
    ASSUME TypeOK, NEW j \in Importers, pos[j] = Len(feed[j])
    PROVE  Stored(j) = Range(feed[j])
  BY FeedsTyped DEF Stored, Range

-----------------------------------------------------------------------------
(* Steps.                                                                  *)

\* The steps, with those that differ only in their guards taken together.
LEMMA NextSteps ==
    [Next]_vars =>
        \/ Tick \/ UNCHANGED vars
        \/ \E i \in Importers :
              \/ Timestamp(i) \/ ParseFails(i) \/ CompareProducts(i) \/ LockRow(i)
              \/ pc[i] = "upsert" /\ RollBack(i)
              \/ Commit(i) \/ CommitLost(i) \/ StartDelete(i) \/ SelectOutdated(i)
              \/ SendIds(i) \/ SendCancelled(i) \/ UpdateDeleted(i) \/ UpdateLost(i)
              \/ UpdateError(i) \/ RangeEnds(i) \/ EndDelete(i)
              \/ SelectFails(i) \/ SelectSwallowed(i)
              \/ \E f \in Feeds : StartRun(i, f)
  BY DEF Next, Start, Import, Fault, Update, Delete, DuplicateInBatch, AbortTx,
     TxFails, UpdateFails, AbortUpdate

\* TypeOK is its four parts.
LEMMA TypeParts == TypeOK <=> TableTyped /\ UpdateTyped /\ DeleteTyped /\ HistoryTyped
  BY DEF TypeOK, TableTyped, UpdateTyped, DeleteTyped, HistoryTyped

\* What a committed batch makes of the rows.
LEMMA ApplyTyped ==
    ASSUME TypeOK, NEW i \in Importers, ApplyBatch(i), Release(i)
    PROVE  TableTyped'
<1> USE TypeParts DEF TableTyped, UpdateTyped
<1>1. version[i] \in 0 .. MaxClock /\ 0 \in 0 .. MaxClock
  BY CatalogAssumption
<1>2. rowVersion' \in [Products -> 0 .. MaxClock]
  BY <1>1 DEF ApplyBatch
<1>3. live' \in [Products -> BOOLEAN]
  BY DEF ApplyBatch
<1>4. ASSUME NEW list, NEW old \in [Products -> 0 .. MaxClock]
      PROVE  ShippingsAfter(i, list, old) \in [Products -> 0 .. MaxClock]
  BY <1>1 DEF ShippingsAfter
<1>5. shipped' \in [Products -> 0 .. MaxClock]
  BY <1>4 DEF ApplyBatch
<1>6. holder' \in [Products -> Importers \cup {None}]
  BY DEF Release
<1>7. QED
  BY <1>2, <1>3, <1>5, <1>6

\* Every step keeps the types of the rows.
LEMMA TableTypedStep == TypeOK /\ [Next]_vars => TableTyped'
<1> SUFFICES ASSUME TypeOK, [Next]_vars PROVE TableTyped'
  OBVIOUS
<1> USE TypeParts DEF TableTyped, UpdateTyped, table
<1>1. ASSUME NEW i \in Importers, Timestamp(i) \/ ParseFails(i) \/ CompareProducts(i) \/
             StartDelete(i) \/ SelectOutdated(i) \/ SelectFails(i) \/ SelectSwallowed(i) \/
             SendIds(i) \/ SendCancelled(i) \/ RangeEnds(i) \/ EndDelete(i) \/ (\E f \in
             Feeds : StartRun(i, f))
      PROVE  TableTyped'
  <2>1. UNCHANGED <<table, holder>>
    BY <1>1 DEF Timestamp, Goto, StartRun, Active, ParseFails, CompareProducts, StartDelete,
       SelectOutdated, SelectFails, SelectEnds, SelectSwallowed, SendIds, SendCancelled,
       RangeEnds, EndDelete, update, delete, starts, history
  <2>2. QED
    BY <2>1
<1>2. CASE Tick \/ UNCHANGED vars
  <2>1. UNCHANGED <<table, holder>>
    BY <1>2 DEF vars, Tick, update, delete, starts, history
  <2>2. QED
    BY <2>1
<1>3. ASSUME NEW i \in Importers, LockRow(i) PROVE TableTyped'
  BY <1>3 DEF LockRow, Writing, update, delete, starts, history
<1>4. ASSUME NEW i \in Importers, pc[i] = "upsert", RollBack(i) PROVE TableTyped'
  BY <1>4 DEF RollBack, Release, Goto, update, delete, starts, history
<1>5. ASSUME NEW i \in Importers, Commit(i) PROVE TableTyped'
  BY <1>5, ApplyTyped DEF Commit
<1>6. ASSUME NEW i \in Importers, CommitLost(i) PROVE TableTyped'
  BY <1>6, ApplyTyped DEF CommitLost
<1>7. ASSUME NEW i \in Importers, UpdateDeleted(i) \/ UpdateLost(i) PROVE TableTyped'
  BY <1>7 DEF UpdateDeleted, UpdateLost, MarkDeleted, Release, update, delete, starts,
     history
<1>8. ASSUME NEW i \in Importers, UpdateError(i) PROVE TableTyped'
  BY <1>8 DEF UpdateError, Release, update, delete, starts, history
<1>9. QED
  BY <1>1, <1>2, <1>3, <1>4, <1>5, <1>6, <1>7, <1>8, NextSteps

\* Every step keeps the types of Parse and UpdateProducts.
LEMMA UpdateTypedStep == TypeOK /\ FreshInv /\ PagesInv /\ [Next]_vars => UpdateTyped'
<1> SUFFICES ASSUME TypeOK, FreshInv, PagesInv, [Next]_vars PROVE UpdateTyped'
  OBVIOUS
<1> USE TypeParts DEF UpdateTyped, update
<1>1. ASSUME NEW i \in Importers, SelectOutdated(i) \/ SelectFails(i) \/ SelectSwallowed(i)
             \/ SendCancelled(i) \/ UpdateDeleted(i) \/ UpdateLost(i) \/ RangeEnds(i)
      PROVE  UpdateTyped'
  <2>1. UNCHANGED <<clock, pc, update>>
    BY <1>1 DEF SelectOutdated, SelectFails, SelectEnds, SelectSwallowed, SendCancelled,
       UpdateDeleted, UpdateLost, MarkDeleted, Release, RangeEnds, table, delete,
       starts, history
  <2>2. QED
    BY <2>1
<1>2. CASE UNCHANGED vars
  <2>1. UNCHANGED <<clock, pc, update>>
    BY <1>2 DEF vars, table, delete, starts, history
  <2>2. QED
    BY <2>1
<1>3. CASE Tick
  BY <1>3, CatalogAssumption DEF Tick, table, delete, starts, history
<1>4. ASSUME NEW i \in Importers, Timestamp(i) PROVE UpdateTyped'
  BY <1>4 DEF Timestamp, Goto, table, delete, starts, history
<1>5. ASSUME NEW i \in Importers, NEW f \in Feeds, StartRun(i, f) PROVE UpdateTyped'
  <2>1. pos[i] = 0
    BY <1>5 DEF FreshInv, StartRun
  <2>2. Len(f) \in Nat
    BY CatalogAssumption
  <2>3. UNCHANGED <<clock, version, pos, lists, todo>>
    BY <1>5 DEF StartRun
  <2>4. feed' = [feed EXCEPT ![i] = f] /\ pc' = [pc EXCEPT ![i] = "next"]
    BY <1>5 DEF StartRun, Goto
  <2>5. \A j \in Importers : pos'[j] <= Len(feed'[j])
    BY <2>1, <2>2, <2>3, <2>4
  <2>6. QED
    BY <2>3, <2>4, <2>5
<1>6. ASSUME NEW i \in Importers, ParseFails(i) PROVE UpdateTyped'
  BY <1>6 DEF ParseFails, Goto, table, delete, starts, history
<1>7. ASSUME NEW i \in Importers, CompareProducts(i) PROVE UpdateTyped'
  <2>1. UNCHANGED <<clock, version, feed, pos>> /\ pc' = [pc EXCEPT ![i] = "upsert"]
    BY <1>7 DEF CompareProducts, Goto
  <2>2. Range(Batch(i)) \subseteq Item
    BY BatchIsPart DEF Range
  <2>3. lists' \in [Importers -> [new : SUBSET Item, updated : SUBSET Item]]
    BY <1>7, <2>2 DEF CompareProducts
  <2>4. PICK order \in SeqOf(DOMAIN Batch(i), Len(Batch(i))) :
            todo' = [todo EXCEPT ![i] = [k \in DOMAIN order |-> Batch(i)[order[k]].product]]
    BY <1>7 DEF CompareProducts
  <2>5. order \in Seq(DOMAIN Batch(i))
    BY <2>4, SeqOfTyped, BatchIsPart
  <2>6. \A k \in DOMAIN Batch(i) : Batch(i)[k].product \in Products
    BY BatchIsPart DEF Item
  <2>7. [k \in DOMAIN order |-> Batch(i)[order[k]].product] \in Seq(Products)
    <3>1. DOMAIN order = 1 .. Len(order) /\ Len(order) \in Nat
      BY <2>5
    <3>2. \A k \in DOMAIN order : Batch(i)[order[k]].product \in Products
      BY <2>5, <2>6
    <3>3. QED
      BY <3>1, <3>2
  <2>8. todo' \in [Importers -> Seq(Products)]
    BY <2>4, <2>7
  <2>9. QED
    BY <2>1, <2>3, <2>8
<1>8. ASSUME NEW i \in Importers, LockRow(i) PROVE UpdateTyped'
  BY <1>8 DEF LockRow, Writing, table, delete, starts, history
<1>9. ASSUME NEW i \in Importers, pc[i] = "upsert", RollBack(i) PROVE UpdateTyped'
  BY <1>9 DEF RollBack, Release, Goto, table, delete, starts, history
<1>10. ASSUME NEW i \in Importers, Commit(i) PROVE UpdateTyped'
  <2>1. UNCHANGED <<clock, version, feed, lists, todo>> /\ pc' = [pc EXCEPT ![i] = "next"]
    BY <1>10 DEF Commit, Goto
  <2>2. pos' = [pos EXCEPT ![i] = pos[i] + Len(Batch(i))]
    BY <1>10 DEF Commit
  <2>3. pos' \in [Importers -> Nat] /\ \A j \in Importers : pos'[j] <= Len(feed'[j])
    BY <2>1, <2>2, BatchIsPart
  <2>4. QED
    BY <2>1, <2>3
<1>11. ASSUME NEW i \in Importers, CommitLost(i) PROVE UpdateTyped'
  BY <1>11 DEF CommitLost, ApplyBatch, Release, Goto, table, delete, starts, history
<1>12. ASSUME NEW i \in Importers, StartDelete(i) PROVE UpdateTyped'
  BY <1>12 DEF StartDelete, Goto, table, delete, starts, history
<1>13. ASSUME NEW i \in Importers, SendIds(i) PROVE UpdateTyped'
  <2>1. PICK order \in SetToSeqs(Range(ids[i])) : todo' = [todo EXCEPT ![i] = order]
    BY <1>13 DEF SendIds
  <2>2. ids[i] \in Seq(Products) /\ Increasing(ids[i])
    BY DEF DeleteTyped, PagesInv
  <2>3. order \in Seq(Products)
    BY <2>2, LockOrders, ProductsAreNat
  <2>4. UNCHANGED <<clock, pc, version, feed, pos, lists>>
    BY <1>13 DEF SendIds
  <2>5. QED
    BY <2>1, <2>3, <2>4
<1>14. ASSUME NEW i \in Importers, UpdateError(i) PROVE UpdateTyped'
  BY <1>14 DEF UpdateError, Release, table, delete, starts, history
<1>15. ASSUME NEW i \in Importers, EndDelete(i) PROVE UpdateTyped'
  BY <1>15 DEF EndDelete, Goto, table, delete, starts, history
<1>16. QED
  BY <1>1, <1>2, <1>3, <1>4, <1>5, <1>6, <1>7, <1>8, <1>9, <1>10, <1>11, <1>12, <1>13,
     <1>14, <1>15, NextSteps

\* Every step keeps the types of DeleteOldProducts.
LEMMA DeleteTypedStep == TypeOK /\ [Next]_vars => DeleteTyped'
<1> SUFFICES ASSUME TypeOK, [Next]_vars PROVE DeleteTyped'
  OBVIOUS
<1> USE TypeParts DEF DeleteTyped, delete
<1>1. ASSUME NEW i \in Importers, Timestamp(i) \/ ParseFails(i) \/ CompareProducts(i) \/
             LockRow(i) \/ (pc[i] = "upsert" /\ RollBack(i)) \/ Commit(i) \/ CommitLost(i)
             \/ StartDelete(i) \/ (\E f \in Feeds : StartRun(i, f))
      PROVE  DeleteTyped'
  <2>1. UNCHANGED <<delete>>
    BY <1>1 DEF Timestamp, Goto, StartRun, Active, ParseFails, CompareProducts, LockRow,
       Writing, RollBack, Release, Commit, ApplyBatch, CommitLost, StartDelete, table,
       update, starts, history
  <2>2. QED
    BY <2>1
<1>2. CASE Tick \/ UNCHANGED vars
  <2>1. UNCHANGED <<delete>>
    BY <1>2 DEF vars, Tick, table, update, starts, history
  <2>2. QED
    BY <2>1
<1>3. ASSUME NEW i \in Importers, SelectOutdated(i) PROVE DeleteTyped'
  <2>1. PICK page \in SeqOf(Products, BatchSize) :
          /\ FirstOutdated(i, page)
          /\ ids' = [ids EXCEPT ![i] = page]
          /\ sel' = [sel EXCEPT ![i] = IF page = <<>> THEN "done" ELSE "send"]
          /\ cursor' = [cursor EXCEPT ![i] = IF page = <<>> THEN cursor[i] ELSE Last(page)]
    BY <1>3 DEF SelectOutdated
  <2>2. page \in Seq(Products) /\ (page # <<>> => Last(page) \in Products)
    BY <2>1, PageFacts
  <2>3. UNCHANGED <<del, doomed, groupErr, removed, reported>>
    BY <1>3 DEF SelectOutdated
  <2>4. QED
    BY <2>1, <2>2, <2>3
<1>4. ASSUME NEW i \in Importers, SelectFails(i) PROVE DeleteTyped'
  BY <1>4 DEF SelectFails, SelectEnds, table, update, starts, history
<1>5. ASSUME NEW i \in Importers, SelectSwallowed(i) PROVE DeleteTyped'
  BY <1>5 DEF SelectSwallowed, SelectEnds, table, update, starts, history
<1>6. ASSUME NEW i \in Importers, SendIds(i) PROVE DeleteTyped'
  BY <1>6 DEF SendIds, table, update, starts, history
<1>7. ASSUME NEW i \in Importers, SendCancelled(i) PROVE DeleteTyped'
  BY <1>7 DEF SendCancelled, table, update, starts, history
<1>8. ASSUME NEW i \in Importers, UpdateDeleted(i) \/ UpdateLost(i) PROVE DeleteTyped'
  <2>1. doomed' = [doomed EXCEPT ![i] = <<>>] /\ UNCHANGED <<ids, sel, cursor, reported>>
    BY <1>8 DEF UpdateDeleted, UpdateLost, MarkDeleted
  <2>2. Len(doomed[i]) \in Nat
    OBVIOUS
  <2>3. CASE UpdateDeleted(i)
    <3>1. /\ removed' = [removed EXCEPT ![i] = removed[i] + Len(doomed[i])]
          /\ del' = [del EXCEPT ![i] = "range"] /\ groupErr' = groupErr
      BY <2>3 DEF UpdateDeleted
    <3>2. removed[i] + Len(doomed[i]) \in Nat
      BY <2>2
    <3>3. QED
      BY <2>1, <3>1, <3>2
  <2>4. CASE UpdateLost(i)
    <3>1. /\ removed' = removed /\ del' = [del EXCEPT ![i] = "done"]
          /\ groupErr' = [groupErr EXCEPT ![i] = TRUE]
      BY <2>4 DEF UpdateLost
    <3>2. QED
      BY <2>1, <3>1
  <2>5. QED
    BY <1>8, <2>3, <2>4
<1>9. ASSUME NEW i \in Importers, UpdateError(i) PROVE DeleteTyped'
  BY <1>9 DEF UpdateError, Release, table, update, starts, history
<1>10. ASSUME NEW i \in Importers, RangeEnds(i) PROVE DeleteTyped'
  BY <1>10 DEF RangeEnds, table, update, starts, history
<1>11. ASSUME NEW i \in Importers, EndDelete(i) PROVE DeleteTyped'
  BY <1>11 DEF EndDelete, Goto, table, update, starts, history
<1>12. QED
  BY <1>1, <1>2, <1>3, <1>4, <1>5, <1>6, <1>7, <1>8, <1>9, <1>10, <1>11, NextSteps

\* Every step keeps the types of the history variables.
LEMMA HistoryTypedStep == TypeOK /\ [Next]_vars => HistoryTyped'
<1> SUFFICES ASSUME TypeOK, [Next]_vars PROVE HistoryTyped'
  OBVIOUS
<1> USE TypeParts DEF HistoryTyped, history, starts
<1>1. ASSUME NEW i \in Importers, Timestamp(i) \/ ParseFails(i) \/ CompareProducts(i) \/
             LockRow(i) \/ (pc[i] = "upsert" /\ RollBack(i)) \/ Commit(i) \/ CommitLost(i)
             \/ StartDelete(i) \/ SelectOutdated(i) \/ SelectFails(i) \/ SelectSwallowed(i)
             \/ SendIds(i) \/ SendCancelled(i) \/ UpdateError(i) \/ RangeEnds(i) \/
             EndDelete(i)
      PROVE  HistoryTyped'
  <2>1. UNCHANGED <<history>>
    BY <1>1 DEF Timestamp, Goto, ParseFails, CompareProducts, LockRow, Writing, RollBack,
       Release, Commit, ApplyBatch, CommitLost, StartDelete, SelectOutdated, SelectFails,
       SelectEnds, SelectSwallowed, SendIds, SendCancelled, UpdateError, RangeEnds,
       EndDelete, table, update, delete
  <2>2. QED
    BY <2>1
<1>2. CASE Tick \/ UNCHANGED vars
  <2>1. UNCHANGED <<history>>
    BY <1>2 DEF vars, Tick, table, update, delete
  <2>2. QED
    BY <2>1
<1>3. ASSUME NEW i \in Importers, NEW f \in Feeds, StartRun(i, f) PROVE HistoryTyped'
  BY <1>3 DEF StartRun, Goto, Active, table, update, delete
<1>4. ASSUME NEW i \in Importers, UpdateDeleted(i) \/ UpdateLost(i) PROVE HistoryTyped'
  <2>1. \A p \in Range(doomed[i]) : p \in Products
    BY DEF DeleteTyped, Range
  <2>2. QED
    BY <1>4, <2>1 DEF UpdateDeleted, UpdateLost, MarkDeleted
<1>5. QED
  BY <1>1, <1>2, <1>3, <1>4, NextSteps

\* Every step keeps FreshInv.
LEMMA FreshStep == TypeOK /\ FreshInv /\ [Next]_vars => FreshInv'
<1> SUFFICES ASSUME TypeOK, FreshInv, [Next]_vars PROVE FreshInv'
  OBVIOUS
<1> USE TypeParts DEF FreshInv, UpdateTyped, DeleteTyped, HistoryTyped, delete, history
<1>1. ASSUME NEW i \in Importers, LockRow(i)
      PROVE  FreshInv'
  <2>1. UNCHANGED <<pc, version, pos, delete, marked>>
    BY <1>1 DEF LockRow, Writing, table, update, starts
  <2>2. QED
    BY <2>1
<1>2. CASE Tick \/ UNCHANGED vars
  <2>1. UNCHANGED <<pc, version, pos, delete, marked>>
    BY <1>2 DEF vars, Tick, table, update, starts
  <2>2. QED
    BY <2>1
<1>3. ASSUME NEW i \in Importers, Timestamp(i) PROVE FreshInv'
  BY <1>3 DEF Timestamp, Goto, table, update, starts
<1>4. ASSUME NEW i \in Importers, NEW f \in Feeds, StartRun(i, f) PROVE FreshInv'
  BY <1>4 DEF StartRun, Goto, Active, table, update, starts
<1>5. ASSUME NEW i \in Importers, ParseFails(i) PROVE FreshInv'
  BY <1>5 DEF ParseFails, Goto, table, update, starts
<1>6. ASSUME NEW i \in Importers, CompareProducts(i) PROVE FreshInv'
  BY <1>6 DEF CompareProducts, Goto, table, update, starts
<1>7. ASSUME NEW i \in Importers, pc[i] = "upsert", RollBack(i) PROVE FreshInv'
  BY <1>7 DEF RollBack, Release, Goto, table, update, starts
<1>8. ASSUME NEW i \in Importers, Commit(i) PROVE FreshInv'
  BY <1>8 DEF Commit, ApplyBatch, Release, Goto, table, update, starts
<1>9. ASSUME NEW i \in Importers, CommitLost(i) PROVE FreshInv'
  BY <1>9 DEF CommitLost, ApplyBatch, Release, Goto, table, update, starts
<1>10. ASSUME NEW i \in Importers, StartDelete(i) PROVE FreshInv'
  BY <1>10 DEF StartDelete, Goto, table, update, starts
<1>11. ASSUME NEW i \in Importers, SelectOutdated(i) PROVE FreshInv'
  BY <1>11 DEF SelectOutdated, table, update, starts
<1>12. ASSUME NEW i \in Importers, SelectFails(i) PROVE FreshInv'
  BY <1>12 DEF SelectFails, SelectEnds, table, update, starts
<1>13. ASSUME NEW i \in Importers, SelectSwallowed(i) PROVE FreshInv'
  BY <1>13 DEF SelectSwallowed, SelectEnds, table, update, starts
<1>14. ASSUME NEW i \in Importers, SendIds(i) PROVE FreshInv'
  BY <1>14 DEF SendIds, table, update, starts
<1>15. ASSUME NEW i \in Importers, SendCancelled(i) PROVE FreshInv'
  BY <1>15 DEF SendCancelled, table, update, starts
<1>16. ASSUME NEW i \in Importers, UpdateDeleted(i) \/ UpdateLost(i) PROVE FreshInv'
  <2>1. pc[i] = "delete" /\ UNCHANGED <<pc, version, pos, sel, cursor, ids>>
    BY <1>16 DEF UpdateDeleted, UpdateLost, MarkDeleted, update
  <2>2. \A j \in Importers \ {i} : /\ del'[j] = del[j] /\ doomed'[j] = doomed[j]
                                  /\ groupErr'[j] = groupErr[j]
                                  /\ removed'[j] = removed[j] /\ marked'[j] = marked[j]
    BY <1>16 DEF UpdateDeleted, UpdateLost, MarkDeleted
  <2>3. QED
    BY <2>1, <2>2
<1>17. ASSUME NEW i \in Importers, UpdateError(i) PROVE FreshInv'
  BY <1>17 DEF UpdateError, Release, table, update, starts
<1>18. ASSUME NEW i \in Importers, RangeEnds(i) PROVE FreshInv'
  BY <1>18 DEF RangeEnds, table, update, starts
<1>19. ASSUME NEW i \in Importers, EndDelete(i) PROVE FreshInv'
  BY <1>19 DEF EndDelete, Goto, table, update, starts
<1>20. QED
  BY <1>1, <1>2, <1>3, <1>4, <1>5, <1>6, <1>7, <1>8, <1>9, <1>10, <1>11, <1>12, <1>13,
     <1>14, <1>15, <1>16, <1>17, <1>18, <1>19, NextSteps

\* Every step keeps LiveInv.
LEMMA LiveStep == TypeOK /\ FreshInv /\ LiveInv /\ [Next]_vars => LiveInv'
<1> SUFFICES ASSUME TypeOK, FreshInv, LiveInv, [Next]_vars PROVE LiveInv'
  OBVIOUS
<1> USE TypeParts DEF FreshInv, LiveInv, TableTyped, UpdateTyped, table
<1>1. ASSUME NEW i \in Importers, Timestamp(i) \/ ParseFails(i) \/ CompareProducts(i) \/
             LockRow(i) \/ (pc[i] = "upsert" /\ RollBack(i)) \/ StartDelete(i) \/
             SelectOutdated(i) \/ SelectFails(i) \/ SelectSwallowed(i) \/ SendIds(i) \/
             SendCancelled(i) \/ UpdateError(i) \/ RangeEnds(i) \/ EndDelete(i) \/ (\E f \in
             Feeds : StartRun(i, f))
      PROVE  LiveInv'
  <2>1. UNCHANGED <<rowVersion, live>>
    BY <1>1 DEF Timestamp, Goto, StartRun, Active, ParseFails, CompareProducts, LockRow,
       Writing, RollBack, Release, StartDelete, SelectOutdated, SelectFails, SelectEnds,
       SelectSwallowed, SendIds, SendCancelled, UpdateError, RangeEnds, EndDelete, update,
       delete, starts, history
  <2>2. QED
    BY <2>1
<1>2. CASE Tick \/ UNCHANGED vars
  <2>1. UNCHANGED <<rowVersion, live>>
    BY <1>2 DEF vars, Tick, update, delete, starts, history
  <2>2. QED
    BY <2>1
<1>3. ASSUME NEW i \in Importers, Commit(i) PROVE LiveInv'
  BY <1>3 DEF Commit, ApplyBatch, Release, Goto, update, delete, starts, history
<1>4. ASSUME NEW i \in Importers, CommitLost(i) PROVE LiveInv'
  BY <1>4 DEF CommitLost, ApplyBatch, Release, Goto, update, delete, starts, history
<1>5. ASSUME NEW i \in Importers, UpdateDeleted(i) \/ UpdateLost(i) PROVE LiveInv'
  BY <1>5 DEF UpdateDeleted, UpdateLost, MarkDeleted, Release, update, delete, starts,
     history
<1>6. QED
  BY <1>1, <1>2, <1>3, <1>4, <1>5, NextSteps

\* Every step keeps PagesInv.
LEMMA PagesStep == TypeOK /\ PagesInv /\ [Next]_vars => PagesInv'
<1> SUFFICES ASSUME TypeOK, PagesInv, [Next]_vars PROVE PagesInv'
  OBVIOUS
<1> USE TypeParts DEF DeleteTyped
<1>1. CASE UNCHANGED ids
  BY <1>1 DEF PagesInv
<1>2. ASSUME NEW i \in Importers, SelectOutdated(i) PROVE PagesInv'
  <2>1. PICK page \in SeqOf(Products, BatchSize) :
          FirstOutdated(i, page) /\ ids' = [ids EXCEPT ![i] = page]
    BY <1>2 DEF SelectOutdated
  <2>2. Increasing(page)
    BY <2>1, PageFacts
  <2>3. QED
    BY <2>1, <2>2 DEF PagesInv
<1>3. ASSUME NEW i \in Importers, SendIds(i) PROVE PagesInv'
  <2>1. ids' = [ids EXCEPT ![i] = <<>>] /\ Increasing(<<>>)
    BY <1>3 DEF SendIds, Increasing
  <2>2. QED
    BY <2>1 DEF PagesInv
<1>4. QED
  BY <1>1, <1>2, <1>3, NextSteps DEF Tick, Timestamp, StartRun, ParseFails, CompareProducts,
     LockRow, RollBack, Commit, CommitLost, StartDelete, SelectFails, SelectSwallowed,
     SelectEnds, SendCancelled, UpdateDeleted, UpdateLost, MarkDeleted, UpdateError,
     RangeEnds, EndDelete, vars, delete

\* Every step keeps MetInv.
LEMMA MetStep == TypeOK /\ MetInv /\ [Next]_vars => MetInv'
<1> SUFFICES ASSUME TypeOK, MetInv, [Next]_vars PROVE MetInv'
  OBVIOUS
<1> USE TypeParts DEF MetInv, Active, UpdateTyped, HistoryTyped, history, starts
<1>1. ASSUME NEW i \in Importers, LockRow(i) \/ SelectOutdated(i) \/ SelectFails(i) \/
             SelectSwallowed(i) \/ SendIds(i) \/ SendCancelled(i) \/ UpdateDeleted(i) \/
             UpdateLost(i) \/ UpdateError(i) \/ RangeEnds(i)
      PROVE  MetInv'
  <2>1. UNCHANGED <<pc, met>>
    BY <1>1 DEF LockRow, Writing, SelectOutdated, SelectFails, SelectEnds,
       SelectSwallowed, SendIds, SendCancelled, UpdateDeleted, UpdateLost, MarkDeleted,
       Release, UpdateError, RangeEnds, table, update, delete
  <2>2. QED
    BY <2>1
<1>2. CASE Tick \/ UNCHANGED vars
  <2>1. UNCHANGED <<pc, met>>
    BY <1>2 DEF vars, Tick, table, update, delete
  <2>2. QED
    BY <2>1
<1>3. ASSUME NEW i \in Importers, Timestamp(i) PROVE MetInv'
  BY <1>3 DEF Timestamp, Goto, table, update, delete
<1>4. ASSUME NEW i \in Importers, NEW f \in Feeds, StartRun(i, f) PROVE MetInv'
  <2>1. /\ pc[i] = "stamped" /\ pc' = [pc EXCEPT ![i] = "next"]
        /\ met' = [j \in Importers |-> IF j = i THEN {k \in Importers : Active(k)}
                                       ELSE met[j] \cup {k \in {i} : Active(j)}]
    BY <1>4 DEF StartRun, Goto
  <2>2. ASSUME NEW j \in Importers, NEW k \in met'[j] PROVE pc'[k] \notin {"new", "stamped"}
    BY <2>1, <2>2
  <2>3. ASSUME NEW j \in Importers, NEW k \in Importers, Active(j)', Active(k)', j # k
        PROVE  k \in met'[j]
    <3>1. CASE j = i
      BY <2>1, <2>3, <3>1
    <3>2. CASE k = i
      BY <2>1, <2>3, <3>2
    <3>3. CASE j # i /\ k # i
      BY <2>1, <2>3, <3>3
    <3>4. QED
      BY <3>1, <3>2, <3>3
  <2>4. QED
    BY <2>2, <2>3
<1>5. ASSUME NEW i \in Importers, ParseFails(i) PROVE MetInv'
  BY <1>5 DEF ParseFails, Goto, table, update, delete
<1>6. ASSUME NEW i \in Importers, CompareProducts(i) PROVE MetInv'
  BY <1>6 DEF CompareProducts, Goto, table, update, delete
<1>7. ASSUME NEW i \in Importers, pc[i] = "upsert", RollBack(i) PROVE MetInv'
  BY <1>7 DEF RollBack, Release, Goto, table, update, delete
<1>8. ASSUME NEW i \in Importers, Commit(i) PROVE MetInv'
  BY <1>8 DEF Commit, ApplyBatch, Release, Goto, table, update, delete
<1>9. ASSUME NEW i \in Importers, CommitLost(i) PROVE MetInv'
  BY <1>9 DEF CommitLost, ApplyBatch, Release, Goto, table, update, delete
<1>10. ASSUME NEW i \in Importers, StartDelete(i) PROVE MetInv'
  BY <1>10 DEF StartDelete, Goto, table, update, delete
<1>11. ASSUME NEW i \in Importers, EndDelete(i) PROVE MetInv'
  BY <1>11 DEF EndDelete, Goto, table, update, delete
<1>12. QED
  BY <1>1, <1>2, <1>3, <1>4, <1>5, <1>6, <1>7, <1>8, <1>9, <1>10, <1>11, NextSteps

\* The steps of an import that goes on.
Own(j) ==
    \/ CompareProducts(j) \/ LockRow(j) \/ Commit(j) \/ StartDelete(j)
    \/ SelectOutdated(j) \/ SendIds(j) \/ SendCancelled(j) \/ UpdateDeleted(j)
    \/ UpdateLost(j) \/ UpdateError(j) \/ RangeEnds(j) \/ SelectFails(j) \/ SelectSwallowed(j)

\* NextSteps with the steps of an import that goes on taken together.
LEMMA OwnSteps ==
    [Next]_vars =>
        \/ Tick \/ UNCHANGED vars
        \/ \E i \in Importers :
              \/ Timestamp(i) \/ Own(i)
              \/ ParseFails(i) \/ (pc[i] = "upsert" /\ RollBack(i)) \/ CommitLost(i) \/ EndDelete(i)
              \/ \E f \in Feeds : StartRun(i, f)
  BY NextSteps DEF Own

-----------------------------------------------------------------------------
(* Imports that overlap.                                                   *)

\* What Race(j) depends on.
LEMMA RaceFrame ==
    ASSUME NEW j \in Importers, Race(j), Rows(j)' \subseteq Rows(j),
           rowVersion' = rowVersion, version' = version, met' = met
    PROVE  Race(j)'
  BY DEF Race, Overtaken

\* A step of an import keeps what it says of its own rows.
LEMMA RaceOwn ==
    ASSUME TypeOK, FreshInv, NEW j \in Importers, Race(j),
           \/ CompareProducts(j) \/ LockRow(j) \/ StartDelete(j) \/ SelectOutdated(j)
           \/ SendIds(j) \/ SendCancelled(j) \/ UpdateDeleted(j) \/ UpdateLost(j)
           \/ UpdateError(j) \/ RangeEnds(j) \/ SelectFails(j) \/ SelectSwallowed(j)
    PROVE  Race(j)'
<1> USE TypeParts DEF TableTyped, UpdateTyped, DeleteTyped, table, update, history, starts
<1>0. UNCHANGED <<rowVersion, version, met>>
  BY DEF CompareProducts, LockRow, StartDelete, SelectOutdated, SendIds, SendCancelled,
     UpdateDeleted, UpdateLost, MarkDeleted, UpdateError, RangeEnds, SelectFails,
     SelectSwallowed, SelectEnds
<1>e. Range(<<>>) = {}
  BY DEF Range
<1>1. CASE CompareProducts(j)
  <2>1. /\ pc'[j] = "upsert" /\ pc[j] = "next"
        /\ lists'[j] = [new |-> {item \in Range(Batch(j)) : IsNew(item)},
                        updated |-> {item \in Range(Batch(j)) : IsUpdate(j, item)}]
    BY <1>1 DEF CompareProducts, Goto
  <2>2. ASSUME NEW p \in Rows(j)' PROVE rowVersion[p] < version[j]
    <3>1. PICK item \in Range(Batch(j)) : item.product = p /\ (IsNew(item) \/ IsUpdate(j, item))
      BY <2>1, <2>2 DEF Rows, Written, ProductsOf
    <3>2. p \in Products
      BY <3>1, BatchIsPart DEF Item, Range
    <3>3. rowVersion[p] \in Nat /\ version[j] \in Nat /\ version[j] > 0
      BY <2>1, <3>2 DEF FreshInv
    <3>4. QED
      BY <3>1, <3>3 DEF IsNew, IsUpdate
  <2>3. QED
    BY <1>0, <2>2 DEF Race
<1>2. CASE LockRow(j)
  <2>1. Rows(j)' = Rows(j)
    BY <1>2 DEF LockRow, delete, Rows, Written, Pages
  <2>2. QED
    BY <1>0, <2>1, RaceFrame
<1>3. CASE StartDelete(j)
  <2>1. pc'[j] = "delete" /\ ids'[j] = <<>> /\ doomed'[j] = <<>>
    BY <1>3 DEF StartDelete, Goto, FreshInv, delete
  <2>2. Rows(j)' = {}
    BY <1>e, <2>1 DEF Rows, Pages
  <2>3. QED
    BY <2>2 DEF Race
<1>4. CASE SelectOutdated(j)
  <2>1. PICK page \in SeqOf(Products, BatchSize) :
          FirstOutdated(j, page) /\ ids' = [ids EXCEPT ![j] = page]
    BY <1>4 DEF SelectOutdated
  <2>2. ids'[j] = page /\ UNCHANGED <<pc, doomed>> /\ pc[j] = "delete"
    BY <1>4, <2>1 DEF SelectOutdated
  <2>3. ASSUME NEW p \in Range(page) PROVE rowVersion[p] < version[j]
    <3>1. IsOutdated(j, p)
      BY <2>1, <2>3, PageFacts
    <3>2. QED
      BY <3>1 DEF IsOutdated
  <2>4. Rows(j)' \subseteq Rows(j) \cup Range(page)
    BY <2>2 DEF Rows, Pages
  <2>5. QED
    BY <1>0, <2>3, <2>4 DEF Race, Overtaken
<1>5. CASE SendIds(j)
  <2>1. /\ UNCHANGED pc /\ pc[j] = "delete" /\ ids'[j] = <<>> /\ doomed'[j] = ids[j]
    BY <1>5 DEF SendIds
  <2>2. Rows(j)' \subseteq Rows(j)
    BY <1>e, <2>1 DEF Rows, Pages
  <2>3. QED
    BY <1>0, <2>2, RaceFrame
<1>6. CASE SendCancelled(j) \/ UpdateDeleted(j) \/ UpdateLost(j) \/ UpdateError(j)
           \/ RangeEnds(j) \/ SelectFails(j) \/ SelectSwallowed(j)
  <2>1. /\ UNCHANGED <<pc, ids>> /\ pc[j] = "delete" /\ doomed'[j] \in {doomed[j], <<>>}
    BY <1>6 DEF SendCancelled, UpdateDeleted, UpdateLost, MarkDeleted, UpdateError, RangeEnds,
       SelectFails, SelectSwallowed, SelectEnds
  <2>2. Rows(j)' \subseteq Rows(j)
    BY <1>e, <2>1 DEF Rows, Pages
  <2>3. QED
    BY <1>0, <2>2, RaceFrame
<1>7. QED
  BY <1>1, <1>2, <1>3, <1>4, <1>5, <1>6

\* A step of another import: if it writes a row, it has overtaken this one.
LEMMA RaceOther ==
    ASSUME TypeOK, MetInv, NEW j \in Importers, Race(j), NEW i \in Importers, i # j,
           \/ Timestamp(i) \/ ParseFails(i) \/ (pc[i] = "upsert" /\ RollBack(i))
           \/ CommitLost(i) \/ EndDelete(i) \/ Own(i)
           \/ \E f \in Feeds : StartRun(i, f)
    PROVE  Race(j)'
<1> USE TypeParts DEF TableTyped, UpdateTyped, DeleteTyped, HistoryTyped, table, update, delete,
     history, starts, Goto
<1>1. /\ pc'[j] = pc[j] /\ lists'[j] = lists[j] /\ ids'[j] = ids[j] /\ doomed'[j] = doomed[j]
      /\ version'[j] = version[j] /\ met[j] \subseteq met'[j]
  BY DEF Own, Timestamp, ParseFails, RollBack, CommitLost, EndDelete, StartRun, CompareProducts,
     LockRow, Commit, StartDelete, SelectOutdated, SendIds, SendCancelled, UpdateDeleted,
     UpdateLost, MarkDeleted, UpdateError, RangeEnds, SelectFails, SelectSwallowed, SelectEnds
<1>2. Rows(j)' = Rows(j)
  BY <1>1 DEF Rows, Written, Pages
<1>3. \A k \in met[j] : version'[k] = version[k]
  <2>1. \A k \in met[j] : pc[k] # "new" /\ k \in Importers
    BY DEF MetInv
  <2>2. QED
    BY <2>1 DEF Own, Timestamp, ParseFails, RollBack, CommitLost, EndDelete, StartRun,
       CompareProducts, LockRow, Commit, StartDelete, SelectOutdated, SendIds, SendCancelled,
       UpdateDeleted, UpdateLost, MarkDeleted, UpdateError, RangeEnds, SelectFails,
       SelectSwallowed, SelectEnds
<1>4. CASE Commit(i) \/ CommitLost(i)
  <2>1. pc[i] = "upsert" /\ ApplyBatch(i) /\ UNCHANGED <<version, met>>
    BY <1>4 DEF Commit, CommitLost
  <2>2. ASSUME NEW p \in Rows(j) PROVE rowVersion'[p] < version'[j] \/ Overtaken(j, p)'
    <3>1. Active(j) /\ p \in Products
      BY <2>2 DEF Rows, Active, Written, ProductsOf, Item, Pages, Range
    <3>2. i \in met[j]
      BY <2>1, <3>1 DEF MetInv, Active
    <3>3. rowVersion'[p] = IF p \in Written(i) THEN version[i] ELSE rowVersion[p]
      BY <2>1, <3>1 DEF ApplyBatch
    <3>4. CASE p \in Written(i)
      BY <2>1, <3>2, <3>3, <3>4 DEF Overtaken
    <3>5. CASE p \notin Written(i)
      BY <2>1, <2>2, <3>3, <3>5 DEF Race, Overtaken
    <3>6. QED
      BY <3>4, <3>5
  <2>3. QED
    BY <1>2, <2>2 DEF Race
<1>5. CASE ~(Commit(i) \/ CommitLost(i))
  <2>1. UNCHANGED rowVersion
    BY <1>5 DEF Own, Timestamp, ParseFails, RollBack, EndDelete, StartRun, CompareProducts,
       LockRow, StartDelete, SelectOutdated, SendIds, SendCancelled, UpdateDeleted,
       UpdateLost, MarkDeleted, UpdateError, RangeEnds, SelectFails, SelectSwallowed, SelectEnds
  <2>2. QED
    BY <1>1, <1>2, <1>3, <2>1 DEF Race, Overtaken
<1>6. QED
  BY <1>4, <1>5

\* Every step keeps RaceInv.
LEMMA RaceStep == TypeOK /\ FreshInv /\ MetInv /\ RaceInv /\ [Next]_vars => RaceInv'
<1> SUFFICES ASSUME TypeOK, FreshInv, MetInv, RaceInv, [Next]_vars, NEW j \in Importers
             PROVE  Race(j)'
  BY DEF RaceInv
<1> USE TypeParts DEF UpdateTyped
<1>1. Race(j)
  BY DEF RaceInv
<1>2. CASE Tick \/ UNCHANGED vars
  <2>1. UNCHANGED <<pc, lists, ids, doomed, rowVersion, version, met>>
    BY <1>2 DEF Tick, vars, table, update, delete, history, starts
  <2>2. Rows(j)' = Rows(j)
    BY <2>1 DEF Rows, Written, Pages
  <2>3. QED
    BY <1>1, <2>1, <2>2, RaceFrame
<1>3. ASSUME \/ Timestamp(j) \/ ParseFails(j) \/ (pc[j] = "upsert" /\ RollBack(j))
             \/ CommitLost(j) \/ EndDelete(j) \/ Commit(j)
             \/ \E f \in Feeds : StartRun(j, f)
      PROVE  Race(j)'
  <2>1. pc'[j] \in {"stamped", "next", "ok", "failed"}
    BY <1>3 DEF Timestamp, ParseFails, RollBack, CommitLost, EndDelete, Commit, StartRun, Goto
  <2>2. QED
    BY <2>1 DEF Race, Rows
<1>4. ASSUME Own(j) PROVE Race(j)'
  BY <1>1, <1>3, <1>4, RaceOwn DEF Own
<1>5. QED
  BY <1>1, <1>2, <1>3, <1>4, RaceOther, OwnSteps

-----------------------------------------------------------------------------
(* An import that has the shop to itself.                                  *)

\* What there is of import j, and the rows.
Same(j) ==
    /\ rowVersion' = rowVersion /\ live' = live /\ shipped' = shipped
    /\ pc'[j] = pc[j] /\ version'[j] = version[j] /\ feed'[j] = feed[j] /\ pos'[j] = pos[j]
    /\ lists'[j] = lists[j] /\ sel'[j] = sel[j] /\ del'[j] = del[j]
    /\ ids'[j] = ids[j] /\ cursor'[j] = cursor[j] /\ doomed'[j] = doomed[j]
    /\ groupErr'[j] = groupErr[j] /\ removed'[j] = removed[j]
    /\ newer'[j] = newer[j] /\ marked'[j] = marked[j]

\* The steps of other imports do not matter to it.
LEMMA AloneSteps ==
    ASSUME TypeOK, MetInv, [Next]_vars, NEW j \in Importers, Alone(j)'
    PROVE  \/ \E f \in Feeds : StartRun(j, f)
           \/ Alone(j) /\ (Same(j) \/ Own(j))
<1> USE TypeParts DEF UpdateTyped, HistoryTyped, Alone, Active, Sole, Goto
<1>1. CASE Tick \/ UNCHANGED vars
  <2>1. Same(j) /\ pc' = pc /\ met' = met
    BY <1>1 DEF Tick, vars, table, update, delete, starts, history, Same
  <2>2. QED
    BY <2>1
<1>2. ASSUME NEW i \in Importers, Timestamp(i) PROVE Alone(j) /\ Same(j)
  <2>1. i # j /\ met' = met
    BY <1>2 DEF Timestamp, starts, history
  <2>2. QED
    BY <1>2, <2>1 DEF Timestamp, table, update, delete, starts, history, Same
<1>3. ASSUME NEW i \in Importers, NEW f \in Feeds, StartRun(i, f), i # j PROVE FALSE
  BY <1>3 DEF StartRun
<1>4. ASSUME NEW i \in Importers,
             \/ ParseFails(i) \/ (pc[i] = "upsert" /\ RollBack(i)) \/ CommitLost(i) \/ EndDelete(i)
             \/ Own(i)
      PROVE  Alone(j) /\ Own(j)
  <2>1. Active(i) /\ UNCHANGED met
    BY <1>4 DEF Own, Writing, ParseFails, CompareProducts, LockRow, RollBack, Commit,
       CommitLost, StartDelete, SelectOutdated, SelectFails, SelectSwallowed,
       SelectEnds, SendIds, SendCancelled, UpdateDeleted, UpdateLost, MarkDeleted,
       UpdateError, RangeEnds, EndDelete, history, starts
  <2>2. pc'[j] # pc[j] => i = j
    BY <1>4 DEF Own, ParseFails, CompareProducts, LockRow, RollBack, Commit, CommitLost,
       StartDelete, SelectOutdated, SelectFails, SelectSwallowed, SelectEnds, SendIds,
       SendCancelled, UpdateDeleted, UpdateLost, MarkDeleted, UpdateError, RangeEnds,
       EndDelete
  <2>3. i = j
    BY <2>1, <2>2 DEF MetInv
  <2>4. ~(ParseFails(i) \/ (pc[i] = "upsert" /\ RollBack(i)) \/ CommitLost(i) \/ EndDelete(i))
    BY <2>3 DEF ParseFails, RollBack, CommitLost, EndDelete
  <2>5. QED
    BY <1>4, <2>1, <2>3, <2>4
<1> HIDE DEF Alone, UpdateTyped, HistoryTyped, Active, Sole, Goto
<1>5. ASSUME NEW i \in Importers, NEW f \in Feeds, StartRun(i, f)
      PROVE  \E g \in Feeds : StartRun(j, g)
  BY <1>3, <1>5
<1>6. QED
  BY <1>1, <1>2, <1>4, <1>5, OwnSteps

\* A batch that is committed is stored.
LEMMA StoredGrows ==
    ASSUME TypeOK, NEW j \in Importers, Commit(j)
    PROVE  Stored(j)' = Stored(j) \cup Range(Batch(j))
<1>1. feed' = feed /\ pos' = [pos EXCEPT ![j] = pos[j] + Len(Batch(j))]
  BY DEF Commit
<1>2. pos'[j] = pos[j] + Len(Batch(j))
  BY <1>1 DEF TypeOK
<1>3. \A k \in 1 .. pos'[j] :
         k \in 1 .. pos[j] \/ (k - pos[j] \in DOMAIN Batch(j) /\ feed[j][k] = Batch(j)[k - pos[j]])
  BY <1>2, BatchIsPart
<1>4. \A k \in DOMAIN Batch(j) : pos[j] + k \in 1 .. pos'[j] /\ feed[j][pos[j] + k] = Batch(j)[k]
  BY <1>2, BatchIsPart
<1>5. \A k \in 1 .. pos[j] : k \in 1 .. pos'[j]
  BY <1>2, BatchIsPart
<1>6. QED
  BY <1>1, <1>3, <1>4, <1>5 DEF Stored, Range

\* What Store(j) depends on.
LEMMA StoreFrame ==
    ASSUME NEW j \in Importers, Store(j),
           /\ rowVersion' = rowVersion /\ version'[j] = version[j] /\ feed'[j] = feed[j]
           /\ pos'[j] = pos[j] /\ lists'[j] = lists[j]
           /\ (pc'[j] = "upsert" => pc[j] = "upsert")
    PROVE  Store(j)'
  BY DEF Store, Batch, Stored, IsNew, IsUpdate

\* What it has stored stays, and what it compared is still so when it commits.
LEMMA StoreStep ==
    ASSUME IInv, [Next]_vars, NEW j \in Importers, Alone(j)'
    PROVE  Store(j)'
<1> USE TypeParts DEF IInv, TableTyped, UpdateTyped, Goto, table, update, delete
<1>1. ASSUME NEW f \in Feeds, StartRun(j, f) PROVE Store(j)'
  <2>1. pc'[j] = "next" /\ pos'[j] = 0
    BY <1>1 DEF StartRun, Goto, FreshInv
  <2>2. QED
    BY <2>1 DEF Store, Stored, ProductsOf
<1> SUFFICES ASSUME Alone(j), Same(j) \/ Own(j) PROVE Store(j)'
  BY <1>1, AloneSteps DEF IInv
<1>2. Store(j)
  BY DEF IInv, Inv
<1>3. CASE Same(j)
  <2>1. /\ rowVersion' = rowVersion /\ version'[j] = version[j] /\ feed'[j] = feed[j]
        /\ pos'[j] = pos[j] /\ lists'[j] = lists[j]
        /\ (pc'[j] = "upsert" => pc[j] = "upsert")
    BY <1>3 DEF Same
  <2>2. QED
    BY <1>2, <2>1, StoreFrame
<1>4. CASE LockRow(j) \/ StartDelete(j) \/ SelectOutdated(j) \/ SelectFails(j) \/
           SelectSwallowed(j) \/ SendIds(j) \/ SendCancelled(j) \/ UpdateDeleted(j) \/
           UpdateLost(j) \/ UpdateError(j) \/ RangeEnds(j)
  <2>1. /\ rowVersion' = rowVersion /\ version'[j] = version[j] /\ feed'[j] = feed[j]
        /\ pos'[j] = pos[j] /\ lists'[j] = lists[j]
        /\ (pc'[j] = "upsert" => pc[j] = "upsert")
    BY <1>4 DEF LockRow, Writing, StartDelete, Goto, SelectOutdated, SelectFails,
       SelectEnds, SelectSwallowed, SendIds, SendCancelled, UpdateDeleted, UpdateLost,
       MarkDeleted, Release, UpdateError, RangeEnds, starts, history
  <2>2. QED
    BY <1>2, <2>1, StoreFrame
<1>5. CASE CompareProducts(j)
  <2>1. UNCHANGED <<rowVersion, version, feed, pos>>
    BY <1>2, <1>5 DEF CompareProducts, table
  <2>2. lists'[j] = [new |-> {item \in Range(Batch(j)) : IsNew(item)},
                     updated |-> {item \in Range(Batch(j)) : IsUpdate(j, item)}]
    BY <1>2, <1>5 DEF CompareProducts
  <2>3. Batch(j)' = Batch(j) /\ Stored(j)' = Stored(j)
    BY <2>1 DEF Batch, Stored
  <2>4. \A item : (IsNew(item)' <=> IsNew(item)) /\ (IsUpdate(j, item)' <=> IsUpdate(j, item))
    BY <2>1 DEF IsNew, IsUpdate
  <2>5. QED
    BY <1>2, <1>5, <2>1, <2>2, <2>3, <2>4 DEF Store
<1>6. CASE Commit(j)
  <2>1. UNCHANGED version /\ pc'[j] = "next"
    BY <1>2, <1>6 DEF Commit, Goto
  <2>2. \A p \in Products : rowVersion'[p] = IF p \in Written(j) THEN version[j] ELSE rowVersion[p]
    BY <1>2, <1>6 DEF Commit, ApplyBatch
  <2>3. ASSUME NEW p \in Products, p \in ProductsOf(Stored(j)) PROVE rowVersion'[p] >= version[j]
    <3>1. rowVersion[p] >= version[j] /\ version[j] \in Nat
      BY <1>2, <1>6, <2>3 DEF Store
    <3>2. rowVersion'[p] \in {version[j], rowVersion[p]}
      BY <2>2
    <3>3. QED
      BY <3>1, <3>2
  <2>4. ASSUME NEW item \in Range(Batch(j)) PROVE rowVersion'[item.product] >= version[j]
    <3>1. item.product \in Products
      BY BatchIsPart DEF Item, Range
    <3>2. CASE IsNew(item) \/ IsUpdate(j, item)
      <4>1. item.product \in Written(j)
        BY <1>2, <1>6, <3>2 DEF Store, Commit, Written, ProductsOf
      <4>2. QED
        BY <2>2, <3>1, <4>1
    <3>3. CASE ~IsNew(item) /\ ~IsUpdate(j, item)
      <4>1. rowVersion[item.product] \in Nat /\ version[j] \in Nat
        BY <3>1
      <4>2. rowVersion[item.product] >= version[j]
        BY <3>3, <4>1 DEF IsNew, IsUpdate
      <4>3. rowVersion'[item.product] \in {version[j], rowVersion[item.product]}
        BY <2>2, <3>1
      <4>4. QED
        BY <4>1, <4>2, <4>3
    <3>4. QED
      BY <3>2, <3>3
  <2>5. ProductsOf(Stored(j)') = ProductsOf(Stored(j)) \cup ProductsOf(Range(Batch(j)))
    BY <1>2, <1>6, StoredGrows DEF ProductsOf
  <2>6. ProductsOf(Stored(j)) \subseteq Products
    BY StoredProducts
  <2>7. \A p \in ProductsOf(Stored(j)') : rowVersion'[p] >= version[j]
    BY <2>3, <2>4, <2>5, <2>6 DEF ProductsOf
  <2>8. QED
    BY <2>1, <2>7 DEF Store, ProductsOf
<1>7. QED
  BY <1>3, <1>4, <1>5, <1>6 DEF Own

\* What Doomed(j) depends on.
LEMMA DoomedFrame ==
    ASSUME NEW j \in Importers, Doomed(j),
           /\ rowVersion' = rowVersion /\ live' = live /\ version'[j] = version[j]
           /\ pos'[j] = pos[j] /\ feed'[j] = feed[j] /\ ids'[j] = ids[j]
           /\ doomed'[j] = doomed[j] /\ cursor'[j] = cursor[j] /\ sel'[j] = sel[j]
           /\ del'[j] = del[j] /\ groupErr'[j] = groupErr[j]
           /\ (pc'[j] = "delete" => pc[j] = "delete")
    PROVE  Doomed(j)'
  BY DEF Doomed, Pages

\* What is to be marked stays outdated.
LEMMA DoomedStep ==
    ASSUME IInv, [Next]_vars, NEW j \in Importers, Alone(j)'
    PROVE  Doomed(j)'
<1> USE TypeParts DEF IInv, TableTyped, UpdateTyped, DeleteTyped, HistoryTyped, Goto, table,
     update, delete, starts, history
<1>1. ASSUME NEW f \in Feeds, StartRun(j, f) PROVE Doomed(j)'
  BY <1>1 DEF StartRun, Doomed
<1> SUFFICES ASSUME Alone(j), Same(j) \/ Own(j) PROVE Doomed(j)'
  BY <1>1, AloneSteps DEF IInv
<1>2. Doomed(j)
  BY DEF IInv, Inv
<1>3. CASE Same(j)
  <2>1. /\ rowVersion' = rowVersion /\ live' = live /\ version'[j] = version[j]
        /\ pos'[j] = pos[j] /\ feed'[j] = feed[j] /\ ids'[j] = ids[j]
        /\ doomed'[j] = doomed[j] /\ cursor'[j] = cursor[j] /\ sel'[j] = sel[j]
        /\ del'[j] = del[j] /\ groupErr'[j] = groupErr[j]
        /\ (pc'[j] = "delete" => pc[j] = "delete")
    BY <1>3 DEF Same
  <2>2. QED
    BY <1>2, <2>1, DoomedFrame
<1>4. CASE CompareProducts(j) \/ LockRow(j)
  <2>1. /\ rowVersion' = rowVersion /\ live' = live /\ version'[j] = version[j]
        /\ pos'[j] = pos[j] /\ feed'[j] = feed[j] /\ ids'[j] = ids[j]
        /\ doomed'[j] = doomed[j] /\ cursor'[j] = cursor[j] /\ sel'[j] = sel[j]
        /\ del'[j] = del[j] /\ groupErr'[j] = groupErr[j]
        /\ (pc'[j] = "delete" => pc[j] = "delete")
    BY <1>4 DEF CompareProducts, Goto, LockRow, Writing
  <2>2. QED
    BY <1>2, <2>1, DoomedFrame
<1>5. CASE Commit(j)
  BY <1>2, <1>5 DEF Commit, Doomed
<1>6. CASE StartDelete(j)
  BY <1>2, <1>6 DEF StartDelete, FreshInv, Doomed, Pages, Range
<1>7. CASE SelectOutdated(j)
  <2>1. PICK page \in SeqOf(Products, BatchSize) :
          /\ FirstOutdated(j, page)
          /\ ids' = [ids EXCEPT ![j] = page]
          /\ sel' = [sel EXCEPT ![j] = IF page = <<>> THEN "done" ELSE "send"]
          /\ cursor' = [cursor EXCEPT ![j] = IF page = <<>> THEN cursor[j] ELSE Last(page)]
    BY <1>2, <1>7 DEF SelectOutdated
  <2>2. /\ ids'[j] = page /\ sel'[j] = IF page = <<>> THEN "done" ELSE "send"
        /\ cursor'[j] = IF page = <<>> THEN cursor[j] ELSE Last(page)
    BY <2>1
  <2>3. /\ Increasing(page) /\ \A p \in Range(page) : IsOutdated(j, p)
        /\ page # <<>> => /\ Last(page) \in Range(page) /\ Last(page) \in Products
                          /\ \A p \in Range(page) : p <= Last(page)
    BY <2>1, PageFacts

  <2>4. UNCHANGED <<pc, pos, feed, doomed, del, groupErr, version, live, rowVersion>>
    BY <1>2, <1>7 DEF SelectOutdated
  <2>5. pc[j] = "delete" /\ sel[j] = "select"
    BY <1>2, <1>7 DEF SelectOutdated
  <2>6. \A p \in Products : p \in Nat
    BY ProductsAreNat
  <2>7. cursor[j] \in Nat /\ version[j] \in Nat /\ \A p \in Range(page) : p \in Products
    BY <2>1, <2>6 DEF FirstOutdated, Outdated
  <2>8. \A p \in Range(page) :
          live[p] /\ rowVersion[p] < version[j] /\ cursor[j] < p /\ p <= cursor'[j]
    <3>1. ASSUME NEW p \in Range(page) PROVE p <= cursor'[j]
      <4>1. page # <<>>
        BY <3>1 DEF Range
      <4>2. QED
        BY <2>2, <2>3, <3>1, <4>1
    <3>2. QED
      BY <2>3, <2>6, <2>7, <3>1 DEF IsOutdated
  <2>9. cursor'[j] \in Nat /\ cursor[j] <= cursor'[j]
    <3>1. CASE page = <<>>
      BY <2>2, <2>7, <3>1
    <3>2. CASE page # <<>>
      BY <2>2, <2>3, <2>6, <2>7, <2>8, <3>2
    <3>3. QED
      BY <3>1, <3>2
  <2>10. ASSUME NEW p \in Range(doomed[j])
         PROVE  /\ p \in Nat /\ live[p] /\ rowVersion[p] < version[j]
                /\ p <= cursor[j] /\ p <= cursor'[j]
    <3>1. p \in Nat
      BY <2>6, <2>10 DEF Range
    <3>2. live[p] /\ rowVersion[p] < version[j] /\ p <= cursor[j]
      BY <1>2, <1>7, <2>5, <2>10 DEF Doomed, Pages
    <3>3. QED
      BY <2>7, <2>9, <3>1, <3>2
  <2>11. Range(page) \cap Range(doomed[j]) = {}
    BY <2>6, <2>7, <2>8, <2>10
  <2>12. QED
    BY <1>2, <1>7, <2>2, <2>4, <2>5, <2>8, <2>10, <2>11 DEF Doomed, Pages
<1>8. CASE SelectFails(j)
  BY <1>2, <1>8 DEF SelectFails, SelectEnds, Doomed, Pages
<1>9. CASE SelectSwallowed(j)
  BY <1>2, <1>9 DEF SelectSwallowed, SelectEnds, Doomed, Pages
<1>10. CASE SendIds(j)
  BY <1>2, <1>10 DEF SendIds, Doomed, Pages, Range
<1>11. CASE SendCancelled(j)
  BY <1>2, <1>11 DEF SendCancelled, Doomed, Pages
<1>12. CASE UpdateDeleted(j) \/ UpdateLost(j)
  <2>1. /\ UNCHANGED <<pc, rowVersion, version, pos, feed, ids, cursor, sel>>
        /\ doomed'[j] = <<>> /\ (groupErr[j] => groupErr'[j])
        /\ \A p \in Products : live'[p] <=> p \notin Range(doomed[j]) /\ live[p]
    BY <1>2, <1>12 DEF UpdateDeleted, UpdateLost, MarkDeleted
  <2>2. Range(<<>>) = {} /\ \A p \in Range(ids[j]) : p \in Products
    BY DEF Range
  <2>3. QED
    BY <1>2, <1>12, <2>1, <2>2 DEF Doomed, Pages
<1>13. CASE UpdateError(j)
  BY <1>2, <1>13 DEF UpdateError, Release, Doomed, Pages, Range
<1>14. CASE RangeEnds(j)
  BY <1>2, <1>14 DEF RangeEnds, Doomed, Pages
<1>15. QED
  BY <1>3, <1>4, <1>5, <1>6, <1>7, <1>8, <1>9, <1>10, <1>11, <1>12, <1>13, <1>14 DEF Own

\* What Sync(j) depends on.
LEMMA SyncFrame ==
    ASSUME NEW j \in Importers, Sync(j),
           /\ rowVersion' = rowVersion /\ live' = live /\ version'[j] = version[j]
           /\ pos'[j] = pos[j] /\ feed'[j] = feed[j] /\ newer'[j] = newer[j]
    PROVE  Sync(j)'
  BY DEF Sync, Stored

\* What is not lower than its version is what it has stored.
LEMMA SyncStep ==
    ASSUME IInv, [Next]_vars, NEW j \in Importers, Alone(j)'
    PROVE  Sync(j)'
<1> USE TypeParts DEF IInv, TableTyped, UpdateTyped, DeleteTyped, HistoryTyped, Goto, table,
     update, delete, starts, history
<1>1. ASSUME NEW f \in Feeds, StartRun(j, f) PROVE Sync(j)'
  <2>1. UNCHANGED <<rowVersion, version>>
    BY <1>1 DEF StartRun
  <2>2. newer'[j] = {p \in Products : rowVersion[p] >= version[j]}
    BY <1>1 DEF StartRun
  <2>3. QED
    BY <2>1, <2>2 DEF Sync
<1> SUFFICES ASSUME Alone(j), Same(j) \/ Own(j) PROVE Sync(j)'
  BY <1>1, AloneSteps DEF IInv
<1>2. Sync(j)
  BY DEF IInv, Inv
<1>3. CASE Same(j)
  <2>1. /\ rowVersion' = rowVersion /\ live' = live /\ version'[j] = version[j]
        /\ pos'[j] = pos[j] /\ feed'[j] = feed[j] /\ newer'[j] = newer[j]
    BY <1>3 DEF Same
  <2>2. QED
    BY <1>2, <2>1, SyncFrame
<1>4. CASE CompareProducts(j) \/ LockRow(j) \/ StartDelete(j) \/ SelectOutdated(j) \/
           SelectFails(j) \/ SelectSwallowed(j) \/ SendIds(j) \/ SendCancelled(j) \/
           UpdateError(j) \/ RangeEnds(j)
  <2>1. /\ rowVersion' = rowVersion /\ live' = live /\ version'[j] = version[j]
        /\ pos'[j] = pos[j] /\ feed'[j] = feed[j] /\ newer'[j] = newer[j]
    BY <1>4 DEF CompareProducts, Goto, LockRow, Writing, StartDelete, SelectOutdated,
       SelectFails, SelectEnds, SelectSwallowed, SendIds, SendCancelled, UpdateError,
       Release, RangeEnds
  <2>2. QED
    BY <1>2, <2>1, SyncFrame
<1>5. CASE Commit(j)
  <2>1. /\ UNCHANGED <<version, feed, lists>>
        /\ \A p \in Products :
              /\ rowVersion'[p] = IF p \in Written(j) THEN version[j] ELSE rowVersion[p]
              /\ live'[p] <=> p \in Written(j) \/ live[p]
    BY <1>2, <1>5 DEF Commit, ApplyBatch
  <2>2. Written(j) \subseteq ProductsOf(Range(Batch(j)))
    BY <1>2, <1>5 DEF Commit, Inv, Store, Written, ProductsOf
  <2>3. ProductsOf(Stored(j)') = ProductsOf(Stored(j)) \cup ProductsOf(Range(Batch(j)))
    BY <1>2, <1>5, StoredGrows DEF ProductsOf
  <2>4. ASSUME NEW p \in Products \ newer[j], rowVersion'[p] >= version[j]
        PROVE  live'[p] /\ rowVersion'[p] = version[j] /\ p \in ProductsOf(Stored(j)')
    <3>1. CASE p \in Written(j)
      BY <2>1, <2>2, <2>3, <3>1
    <3>2. CASE p \notin Written(j)
      BY <1>2, <1>5, <2>1, <2>3, <2>4, <3>2 DEF Sync
    <3>3. QED
      BY <3>1, <3>2
  <2>5. UNCHANGED newer
    BY <1>2, <1>5 DEF Commit
  <2>6. QED
    BY <2>1, <2>4, <2>5 DEF Sync, ProductsOf
<1>6. CASE UpdateDeleted(j) \/ UpdateLost(j)
  <2>1. /\ UNCHANGED <<rowVersion, version, pos, feed, newer>> /\ pc[j] = "delete"
        /\ \A p \in Products : live'[p] <=> p \notin Range(doomed[j]) /\ live[p]
    BY <1>2, <1>6 DEF UpdateDeleted, UpdateLost, MarkDeleted
  <2>2. \A p \in Range(doomed[j]) : rowVersion[p] < version[j]
    BY <1>2, <1>6, <2>1 DEF Inv, Doomed, Pages
  <2>3. Stored(j)' = Stored(j)
    BY <2>1 DEF Stored
  <2>4. \A p \in Products : rowVersion[p] \in Nat /\ version[j] \in Nat
    OBVIOUS
  <2>5. QED
    BY <1>2, <1>6, <2>1, <2>2, <2>3, <2>4 DEF Sync, ProductsOf
<1>7. QED
  BY <1>3, <1>4, <1>5, <1>6 DEF Own

\* What Shipped(j) depends on.
LEMMA ShippedFrame ==
    ASSUME NEW j \in Importers, Shipped(j),
           /\ shipped' = shipped /\ version'[j] = version[j] /\ pos'[j] = pos[j]
           /\ feed'[j] = feed[j] /\ newer'[j] = newer[j]
    PROVE  Shipped(j)'
  BY DEF Shipped, Stored, AlwaysShips

\* What it has stored has its shippings.
LEMMA ShippedStep ==
    ASSUME IInv, [Next]_vars, NEW j \in Importers, Alone(j)'
    PROVE  Shipped(j)'
<1> USE TypeParts DEF IInv, TableTyped, UpdateTyped, DeleteTyped, HistoryTyped, Goto, table,
     update, delete, starts, history
<1>1. ASSUME NEW f \in Feeds, StartRun(j, f) PROVE Shipped(j)'
  <2>1. pos'[j] = 0
    BY <1>1 DEF StartRun, FreshInv
  <2>2. QED
    BY <2>1 DEF Shipped, Stored, Ships, ProductsOf
<1> SUFFICES ASSUME Alone(j), Same(j) \/ Own(j) PROVE Shipped(j)'
  BY <1>1, AloneSteps DEF IInv
<1>2. Shipped(j)
  BY DEF IInv, Inv
<1>3. CASE Same(j)
  <2>1. /\ shipped' = shipped /\ version'[j] = version[j] /\ pos'[j] = pos[j]
        /\ feed'[j] = feed[j] /\ newer'[j] = newer[j]
    BY <1>3 DEF Same
  <2>2. QED
    BY <1>2, <2>1, ShippedFrame
<1>4. CASE CompareProducts(j) \/ LockRow(j) \/ StartDelete(j) \/ SelectOutdated(j) \/
           SelectFails(j) \/ SelectSwallowed(j) \/ SendIds(j) \/ SendCancelled(j) \/
           UpdateDeleted(j) \/ UpdateLost(j) \/ UpdateError(j) \/ RangeEnds(j)
  <2>1. /\ shipped' = shipped /\ version'[j] = version[j] /\ pos'[j] = pos[j]
        /\ feed'[j] = feed[j] /\ newer'[j] = newer[j]
    BY <1>4 DEF CompareProducts, Goto, LockRow, Writing, StartDelete, SelectOutdated,
       SelectFails, SelectEnds, SelectSwallowed, SendIds, SendCancelled, UpdateDeleted,
       UpdateLost, MarkDeleted, Release, UpdateError, RangeEnds
  <2>2. QED
    BY <1>2, <2>1, ShippedFrame
<1>5. CASE Commit(j)
  <2>1. /\ UNCHANGED <<version, feed, lists>>
        /\ \A p \in Products :
              /\ rowVersion'[p] = IF p \in Written(j) THEN version[j] ELSE rowVersion[p]
              /\ live'[p] <=> p \in Written(j) \/ live[p]
    BY <1>2, <1>5 DEF Commit, ApplyBatch

  <2>4. shipped' = ShippingsAfter(j, lists[j].updated, ShippingsAfter(j, lists[j].new, shipped))
    BY <1>2, <1>5 DEF Commit, ApplyBatch
  <2>5. Range(Batch(j)) \subseteq Range(feed[j]) /\ Stored(j) \subseteq Range(feed[j])
    BY StoredProducts
  <2>6. ASSUME NEW p \in Ships(Stored(j)') \ newer[j], AlwaysShips(j, p)
        PROVE  shipped'[p] = version[j]
    <3>1. PICK item \in Stored(j) \cup Range(Batch(j)) : item.product = p
      BY <1>2, <1>5, StoredGrows DEF Ships, ProductsOf
    <3>2. p \in Products
      BY <3>1, StoredProducts, BatchIsPart DEF ProductsOf, Item, Range
    <3>3. ASSUME NEW list \in SUBSET Range(Batch(j)), p \in ProductsOf(list)
          PROVE  p \in Ships(list) /\ Ships(list) # {}
      BY <2>5, <2>6, <3>3 DEF AlwaysShips, Ships, ProductsOf
    <3>4. lists[j].new \subseteq Range(Batch(j)) /\ lists[j].updated \subseteq Range(Batch(j))
      BY <1>2, <1>5 DEF Commit, Inv, Store
    <3>5. CASE p \in ProductsOf(lists[j].updated)
      BY <2>4, <3>2, <3>3, <3>4, <3>5 DEF ShippingsAfter
    <3>6. CASE p \in ProductsOf(lists[j].new) /\ p \notin ProductsOf(lists[j].updated)
      BY <2>4, <3>2, <3>3, <3>4, <3>6 DEF ShippingsAfter
    <3>7. CASE p \notin ProductsOf(lists[j].new) /\ p \notin ProductsOf(lists[j].updated)
      <4>1. shipped'[p] = shipped[p]
        BY <2>4, <3>2, <3>7 DEF ShippingsAfter
      <4>2. p \in ProductsOf(Stored(j))
        <5>1. CASE item \in Stored(j)
          BY <3>1, <5>1 DEF ProductsOf
        <5>2. CASE item \in Range(Batch(j))
          <6>1. ~IsNew(item) /\ ~IsUpdate(j, item)
            BY <1>2, <1>5, <3>1, <3>7, <5>2 DEF Commit, Inv, Store, ProductsOf
          <6>2. rowVersion[p] \in Nat /\ version[j] \in Nat
            BY <3>2
          <6>3. rowVersion[p] >= version[j]
            BY <3>1, <6>1, <6>2 DEF IsNew, IsUpdate
          <6>4. QED
            BY <2>6, <3>2, <6>3 DEF Inv, Sync
        <5>3. QED
          BY <5>1, <5>2
      <4>3. p \in Ships(Stored(j))
        BY <2>5, <2>6, <4>2 DEF AlwaysShips, Ships, ProductsOf
      <4>4. QED
        BY <1>2, <1>5, <2>6, <4>1, <4>3 DEF Shipped
    <3>8. QED
      BY <3>5, <3>6, <3>7
  <2>7. UNCHANGED newer
    BY <1>2, <1>5 DEF Commit
  <2>8. QED
    BY <2>1, <2>6, <2>7 DEF Shipped, Ships, ProductsOf, AlwaysShips
<1>6. QED
  BY <1>3, <1>4, <1>5 DEF Own

\* What Count(j) depends on.
LEMMA CountFrame ==
    ASSUME NEW j \in Importers, Count(j),
           /\ live' = live /\ ids'[j] = ids[j] /\ doomed'[j] = doomed[j]
           /\ marked'[j] = marked[j] /\ removed'[j] = removed[j]
           /\ (groupErr[j] => groupErr'[j])
           /\ (pc'[j] = "delete" => pc[j] = "delete")
    PROVE  Count(j)'
  BY DEF Count

\* The count is exact.
LEMMA CountStep ==
    ASSUME IInv, [Next]_vars, NEW j \in Importers, Alone(j)'
    PROVE  Count(j)'
<1> USE TypeParts DEF IInv, TableTyped, UpdateTyped, DeleteTyped, HistoryTyped, Goto, table,
     update, delete, starts, history
<1>1. ASSUME NEW f \in Feeds, StartRun(j, f) PROVE Count(j)'
  BY <1>1 DEF StartRun, Count
<1> SUFFICES ASSUME Alone(j), Same(j) \/ Own(j) PROVE Count(j)'
  BY <1>1, AloneSteps DEF IInv
<1>2. Count(j)
  BY DEF IInv, Inv
<1>3. CASE Same(j)
  <2>1. /\ live' = live /\ ids'[j] = ids[j] /\ doomed'[j] = doomed[j]
        /\ marked'[j] = marked[j] /\ removed'[j] = removed[j]
        /\ (groupErr[j] => groupErr'[j])
        /\ (pc'[j] = "delete" => pc[j] = "delete")
    BY <1>3 DEF Same
  <2>2. QED
    BY <1>2, <2>1, CountFrame
<1>4. CASE CompareProducts(j) \/ LockRow(j) \/ SelectFails(j) \/ SelectSwallowed(j) \/
           SendCancelled(j) \/ RangeEnds(j)
  <2>1. /\ live' = live /\ ids'[j] = ids[j] /\ doomed'[j] = doomed[j]
        /\ marked'[j] = marked[j] /\ removed'[j] = removed[j]
        /\ (groupErr[j] => groupErr'[j])
        /\ (pc'[j] = "delete" => pc[j] = "delete")
    BY <1>4 DEF CompareProducts, Goto, LockRow, Writing, SelectFails, SelectEnds,
       SelectSwallowed, SendCancelled, RangeEnds
  <2>2. QED
    BY <1>2, <2>1, CountFrame
<1>5. CASE Commit(j)
  BY <1>2, <1>5 DEF Commit, Count
<1>6. CASE StartDelete(j)
  <2>1. IsFiniteSet({}) /\ Cardinality({}) = 0
    BY FS_EmptySet
  <2>2. ids'[j] = <<>> /\ doomed'[j] = <<>> /\ removed'[j] = 0 /\ marked'[j] = {}
    BY <1>2, <1>6 DEF StartDelete, FreshInv
  <2>3. Increasing(<<>>)
    BY DEF Increasing
  <2>4. QED
    BY <2>1, <2>2, <2>3 DEF Count
<1>7. CASE SelectOutdated(j)
  <2>1. PICK page \in SeqOf(Products, BatchSize) :
          /\ FirstOutdated(j, page)
          /\ ids' = [ids EXCEPT ![j] = page]
          /\ sel' = [sel EXCEPT ![j] = IF page = <<>> THEN "done" ELSE "send"]
          /\ cursor' = [cursor EXCEPT ![j] = IF page = <<>> THEN cursor[j] ELSE Last(page)]
    BY <1>2, <1>7 DEF SelectOutdated
  <2>2. /\ ids'[j] = page /\ sel'[j] = IF page = <<>> THEN "done" ELSE "send"
        /\ cursor'[j] = IF page = <<>> THEN cursor[j] ELSE Last(page)
    BY <2>1
  <2>3. /\ Increasing(page) /\ \A p \in Range(page) : IsOutdated(j, p)
        /\ page # <<>> => /\ Last(page) \in Range(page) /\ Last(page) \in Products
                          /\ \A p \in Range(page) : p <= Last(page)
    BY <2>1, PageFacts
  <2>4. UNCHANGED <<pc, doomed, removed, marked, live, groupErr>> /\ pc[j] = "delete"
    BY <1>2, <1>7 DEF SelectOutdated
  <2>5. QED
    BY <1>2, <1>7, <2>2, <2>3, <2>4 DEF Count
<1>8. CASE SendIds(j)
  BY <1>2, <1>8 DEF SendIds, PagesInv, Count
<1>9. CASE UpdateDeleted(j) \/ UpdateLost(j)
  <2>1. /\ UNCHANGED pc /\ pc[j] = "delete" /\ doomed'[j] = <<>>
        /\ (~groupErr'[j] => ~groupErr[j] /\ removed'[j] = removed[j] + Len(doomed[j]))
        /\ marked'[j] = marked[j] \cup {p \in Range(doomed[j]) : live[p]}
        /\ \A p \in Products : live'[p] <=> p \notin Range(doomed[j]) /\ live[p]
    BY <1>2, <1>9 DEF UpdateDeleted, UpdateLost, MarkDeleted
  <2>2. /\ IsFiniteSet(marked[j]) /\ (~groupErr[j] => removed[j] = Cardinality(marked[j]))
        /\ \A p \in marked[j] : p \in Products /\ ~live[p]
        /\ Increasing(doomed[j]) /\ doomed[j] \in Seq(Products)
    BY <1>2, <1>9, <2>1 DEF Count
  <2>3. \A p \in Range(doomed[j]) : p \in Products /\ live[p]
    <3>1. \A p \in Range(doomed[j]) : live[p]
      BY <2>1 DEF Inv, Doomed, Pages
    <3>2. QED
      BY <2>2, <3>1 DEF Range
  <2>4. marked'[j] = marked[j] \cup Range(doomed[j]) /\ marked[j] \cap Range(doomed[j]) = {}
    BY <2>1, <2>2, <2>3
  <2>5. IsFiniteSet(Range(doomed[j])) /\ Cardinality(Range(doomed[j])) = Len(doomed[j])
    BY <2>2, IncreasingCount, ProductsAreNat
  <2>6. IsFiniteSet(marked'[j]) /\ (~groupErr'[j] => Cardinality(marked'[j]) = removed'[j])
    <3>1. Cardinality({}) = 0
      BY FS_EmptySet
    <3>2. Cardinality(marked[j]) \in Nat /\ Cardinality(Range(doomed[j])) \in Nat
      BY <2>2, <2>5, FS_CardinalityType
    <3>3. /\ IsFiniteSet(marked[j] \cup Range(doomed[j]))
          /\ Cardinality(marked[j] \cup Range(doomed[j])) =
                Cardinality(marked[j]) + Cardinality(Range(doomed[j]))
                    - Cardinality(marked[j] \cap Range(doomed[j]))
      BY <2>2, <2>5, FS_Union
    <3>4. Cardinality(marked[j] \cap Range(doomed[j])) = 0
      BY <2>4, <3>1
    <3>5. /\ IsFiniteSet(marked'[j])
          /\ Cardinality(marked'[j]) = Cardinality(marked[j] \cup Range(doomed[j]))
      BY <2>4, <3>3
    <3>6. QED
      BY <2>1, <2>2, <2>5, <3>2, <3>3, <3>4, <3>5
  <2>7. \A p \in marked'[j] : ~live'[p]
    BY <2>1, <2>2, <2>3, <2>4
  <2>8. Increasing(<<>>)
    BY DEF Increasing
  <2>9. QED
    BY <2>1, <2>2, <2>6, <2>7, <2>8 DEF Count
<1>10. CASE UpdateError(j)
  <2>1. Increasing(<<>>)
    BY DEF Increasing
  <2>2. QED
    BY <1>2, <1>10, <2>1 DEF UpdateError, Count
<1>11. QED
  BY <1>3, <1>4, <1>5, <1>6, <1>7, <1>8, <1>9, <1>10 DEF Own

\* What Pending(j) depends on.
LEMMA PendingFrame ==
    ASSUME NEW j \in Importers, Pending(j),
           /\ rowVersion' = rowVersion /\ live' = live /\ version'[j] = version[j]
           /\ ids'[j] = ids[j] /\ doomed'[j] = doomed[j] /\ cursor'[j] = cursor[j]
           /\ sel'[j] = sel[j] /\ groupErr'[j] = groupErr[j]
           /\ (pc'[j] = "delete" => pc[j] = "delete")
    PROVE  Pending(j)'
  BY DEF Pending, Pages

\* Outdated rows are not forgotten.
LEMMA PendingStep ==
    ASSUME IInv, PendingInv, "select" \notin Faults, [Next]_vars,
           NEW j \in Importers, Alone(j)'
    PROVE  Pending(j)'
<1> USE TypeParts DEF IInv, TableTyped, UpdateTyped, DeleteTyped, HistoryTyped, Goto, table,
     update, delete, starts, history
<1>1. ASSUME NEW f \in Feeds, StartRun(j, f) PROVE Pending(j)'
  BY <1>1 DEF StartRun, Pending
<1> SUFFICES ASSUME Alone(j), Same(j) \/ Own(j) PROVE Pending(j)'
  BY <1>1, AloneSteps DEF IInv
<1>2. Pending(j)
  BY DEF IInv, PendingInv
<1>3. CASE Same(j)
  <2>1. /\ rowVersion' = rowVersion /\ live' = live /\ version'[j] = version[j]
        /\ ids'[j] = ids[j] /\ doomed'[j] = doomed[j] /\ cursor'[j] = cursor[j]
        /\ sel'[j] = sel[j] /\ groupErr'[j] = groupErr[j]
        /\ (pc'[j] = "delete" => pc[j] = "delete")
    BY <1>3 DEF Same
  <2>2. QED
    BY <1>2, <2>1, PendingFrame
<1>4. CASE CompareProducts(j) \/ LockRow(j) \/ RangeEnds(j)
  <2>1. /\ rowVersion' = rowVersion /\ live' = live /\ version'[j] = version[j]
        /\ ids'[j] = ids[j] /\ doomed'[j] = doomed[j] /\ cursor'[j] = cursor[j]
        /\ sel'[j] = sel[j] /\ groupErr'[j] = groupErr[j]
        /\ (pc'[j] = "delete" => pc[j] = "delete")
    BY <1>4 DEF CompareProducts, Goto, LockRow, Writing, RangeEnds
  <2>2. QED
    BY <1>2, <2>1, PendingFrame
<1>5. CASE Commit(j)
  BY <1>2, <1>5 DEF Commit, Pending
<1>6. CASE StartDelete(j)
  <2>1. cursor'[j] = 0 /\ sel'[j] = "select"
    BY <1>2, <1>6 DEF StartDelete, FreshInv
  <2>2. \A p \in Products : p > 0
    BY ProductsAreNat
  <2>3. QED
    BY <2>1, <2>2 DEF Pending
<1>7. CASE SelectOutdated(j)
  <2>1. PICK page \in SeqOf(Products, BatchSize) :
          /\ FirstOutdated(j, page)
          /\ ids' = [ids EXCEPT ![j] = page]
          /\ sel' = [sel EXCEPT ![j] = IF page = <<>> THEN "done" ELSE "send"]
          /\ cursor' = [cursor EXCEPT ![j] = IF page = <<>> THEN cursor[j] ELSE Last(page)]
    BY <1>2, <1>7 DEF SelectOutdated
  <2>2. /\ ids'[j] = page /\ sel'[j] = IF page = <<>> THEN "done" ELSE "send"
        /\ cursor'[j] = IF page = <<>> THEN cursor[j] ELSE Last(page)
    BY <2>1
  <2>3. /\ Increasing(page) /\ \A p \in Range(page) : IsOutdated(j, p)
        /\ page # <<>> => /\ Last(page) \in Range(page) /\ Last(page) \in Products
                          /\ \A p \in Range(page) : p <= Last(page)
    BY <2>1, PageFacts
  <2>4. /\ UNCHANGED <<pc, rowVersion, version, live, doomed, groupErr>>
        /\ pc[j] = "delete" /\ sel[j] = "select"
    BY <1>2, <1>7 DEF SelectOutdated
  <2>5. ASSUME NEW p \in Products, live[p], rowVersion[p] < version[j], BatchSize > 0
        PROVE  \/ groupErr[j] \/ p \in Range(page) \/ p \in Range(doomed[j])
               \/ sel'[j] # "done" /\ p > cursor'[j]
    <3>1. CASE groupErr[j] \/ p \in Pages(j)
      <4>1. p \in Range(ids[j]) => groupErr[j]
        BY <2>4 DEF Inv, Doomed, Range
      <4>2. QED
        BY <3>1, <4>1 DEF Pages
    <3>2. CASE p > cursor[j] /\ p \notin Range(page)
      <4>1. p \in Outdated(j)
        BY <2>5, <3>2 DEF LiveInv, Outdated, IsOutdated
      <4>2. Len(page) = BatchSize /\ \A q \in Range(page) : q < p
        BY <2>1, <3>2, <4>1 DEF FirstOutdated
      <4>3. page # <<>>
        BY <2>5, <4>2
      <4>4. QED
        BY <2>2, <2>3, <4>2, <4>3
    <3>3. QED
      BY <1>2, <1>7, <2>4, <2>5, <3>1, <3>2 DEF Pending
  <2>6. QED
    BY <2>2, <2>4, <2>5 DEF Pending, Pages
<1>8. CASE SelectFails(j)
  BY <1>2, <1>8 DEF SelectFails, SelectEnds, Pending, Pages
<1>9. CASE SelectSwallowed(j)
  BY <1>2, <1>9 DEF SelectSwallowed, SelectEnds, Pending, Pages
<1>10. CASE SendIds(j)
  <2>1. /\ UNCHANGED <<pc, live, rowVersion, version, cursor, groupErr>>
        /\ sel'[j] = "select" /\ ids'[j] = <<>> /\ doomed'[j] = ids[j] /\ pc[j] = "delete"
        /\ del[j] = "range" /\ sel[j] = "send"
    BY <1>2, <1>10 DEF SendIds
  <2>2. doomed[j] = <<>>
    BY <2>1 DEF Inv, Doomed
  <2>3. Range(<<>>) = {}
    BY DEF Range
  <2>4. QED
    BY <1>2, <1>10, <2>1, <2>2, <2>3 DEF Pending, Pages
<1>11. CASE SendCancelled(j)
  BY <1>2, <1>11 DEF SendCancelled, Pending, Pages
<1>12. CASE UpdateDeleted(j) \/ UpdateLost(j)
  <2>1. /\ UNCHANGED <<pc, rowVersion, version, ids, cursor, sel>>
        /\ (groupErr[j] => groupErr'[j])
        /\ \A p \in Products : live'[p] <=> p \notin Range(doomed[j]) /\ live[p]
    BY <1>2, <1>12 DEF UpdateDeleted, UpdateLost, MarkDeleted
  <2>2. QED
    BY <1>2, <1>12, <2>1 DEF Pending, Pages
<1>13. CASE UpdateError(j)
  BY <1>2, <1>13 DEF UpdateError, Release, Pending, Pages
<1>14. QED
  BY <1>3, <1>4, <1>5, <1>6, <1>7, <1>8, <1>9, <1>10, <1>11, <1>12, <1>13 DEF Own

\* The invariant is inductive.
LEMMA InvStep == IInv /\ [Next]_vars => IInv'
<1> SUFFICES ASSUME IInv, [Next]_vars PROVE IInv'
  OBVIOUS
<1>1. TypeOK'
  <2>1. TableTyped' /\ UpdateTyped' /\ DeleteTyped' /\ HistoryTyped'
    BY TableTypedStep, UpdateTypedStep, DeleteTypedStep, HistoryTypedStep DEF IInv
  <2>2. QED
    BY <2>1 DEF TypeOK, TableTyped, UpdateTyped, DeleteTyped, HistoryTyped
<1>2. MetInv' /\ FreshInv' /\ PagesInv' /\ LiveInv' /\ RaceInv'
  BY MetStep, FreshStep, PagesStep, LiveStep, RaceStep DEF IInv
<1>3. ASSUME NEW j \in Importers, Alone(j)' PROVE Inv(j)'
  <2>1. Store(j)' /\ Doomed(j)' /\ Sync(j)' /\ Shipped(j)' /\ Count(j)'
    BY <1>3, StoreStep, DoomedStep, SyncStep, ShippedStep, CountStep
  <2>2. QED
    BY <2>1 DEF Inv
<1>4. QED
  BY <1>1, <1>2, <1>3 DEF IInv

-----------------------------------------------------------------------------
(* What follows.                                                           *)

\* The invariant that the theorems below follow from.
THEOREM Invariance == Spec => []IInv
<1>1. Init => IInv
  <2> SUFFICES ASSUME Init PROVE IInv
    OBVIOUS
  <2>1. TypeOK
    <3>1. /\ 0 \in 0 .. MaxClock /\ 1 \in 0 .. MaxClock /\ 1 \in 1 .. MaxClock /\ Len(<<>>) = 0
          /\ <<>> \in Seq(Products)
          /\ [new |-> {}, updated |-> {}] \in [new : SUBSET Item, updated : SUBSET Item]
      BY CatalogAssumption
    <3>2. QED
      BY <3>1 DEF Init, TypeOK
  <2>2. \A i \in Importers : pc[i] = "new" /\ met[i] = {}
    BY DEF Init
  <2>3. MetInv /\ RaceInv /\ \A i \in Importers : ~Alone(i)
    BY <2>2 DEF MetInv, RaceInv, Race, Rows, Alone, Active
  <2>4. FreshInv
    BY DEF Init, FreshInv
  <2>5. LiveInv
    <3>1. PICK stored \in Earlier :
            /\ rowVersion = [p \in Products |-> IF p \in stored THEN 1 ELSE 0]
            /\ live = [p \in Products |-> p \in stored]
      BY DEF Init
    <3>2. ASSUME NEW p \in Products, live[p] PROVE rowVersion[p] = 1
      BY <3>1, <3>2
    <3>3. QED
      BY <3>2 DEF LiveInv
  <2>6. PagesInv
    BY DEF Init, PagesInv, Increasing
  <2>7. QED
    BY <2>1, <2>3, <2>4, <2>5, <2>6 DEF IInv
<1>2. QED
  BY <1>1, InvStep, PTL DEF Spec

\* Type correctness of the tables and of every import, for feeds of any length.
THEOREM TypeCorrect == Spec => []TypeOK
<1>1. IInv => TypeOK
  BY DEF IInv
<1>2. QED
  BY <1>1, Invariance, PTL

\* A row is written only by an import with a higher version, or by one that an
\* overlapping import has overtaken (postgres.go:118, 209).
THEOREM VersionsOnlyGrow == Spec => VersionsGrow
<1>1. IInv /\ [Next]_vars =>
        [\A p \in Products :
           rowVersion'[p] # rowVersion[p] \/ shipped'[p] # shipped[p] \/ (live'[p] /\ ~live[p]) =>
              \E i \in Importers : /\ pc[i] = "upsert" /\ pc'[i] # "upsert"
                                  /\ rowVersion'[p] = version[i]
                                  /\ (rowVersion[p] < version[i] \/ Overtaken(i, p))]_vars
  <2> DEFINE Changed(p) == \/ rowVersion'[p] # rowVersion[p] \/ shipped'[p] # shipped[p]
                           \/ (live'[p] /\ ~live[p])
             Writer(i, p) == /\ pc[i] = "upsert" /\ pc'[i] # "upsert"
                             /\ rowVersion'[p] = version[i]
                             /\ (rowVersion[p] < version[i] \/ Overtaken(i, p))
  <2> SUFFICES ASSUME IInv, [Next]_vars, NEW p \in Products, Changed(p)
               PROVE  \E i \in Importers : Writer(i, p)
    OBVIOUS
  <2>1. ASSUME NEW i \in Importers, Commit(i) \/ CommitLost(i) PROVE Writer(i, p)
    <3>1. pc[i] = "upsert" /\ ApplyBatch(i)
          /\ pc' \in {[pc EXCEPT ![i] = "next"], [pc EXCEPT ![i] = "failed"]}
      BY <2>1 DEF Commit, CommitLost, Goto
    <3>2. pc'[i] # "upsert"
      BY <3>1 DEF IInv, TypeOK
    <3>3. p \in Written(i)
      BY <3>1 DEF ApplyBatch, ShippingsAfter, Written, ProductsOf
    <3>4. rowVersion'[p] = version[i]
      BY <3>1, <3>3 DEF ApplyBatch
    <3>5. rowVersion[p] < version[i] \/ Overtaken(i, p)
      BY <3>1, <3>3 DEF IInv, RaceInv, Race, Rows
    <3>6. QED
      BY <3>1, <3>2, <3>4, <3>5
  <2>2. ASSUME ~\E i \in Importers : Commit(i) \/ CommitLost(i) PROVE FALSE
    <3>1. UNCHANGED <<rowVersion, shipped>> /\ (live'[p] => live[p])
      BY <2>2, NextSteps DEF Tick, vars, Timestamp, StartRun, ParseFails, CompareProducts,
         LockRow, RollBack, StartDelete, SelectOutdated, SelectFails, SelectSwallowed,
         SelectEnds, SendIds, SendCancelled, UpdateDeleted, UpdateLost, MarkDeleted,
         UpdateError, RangeEnds, EndDelete, table
    <3>2. QED
      BY <3>1
  <2>3. QED
    BY <2>1, <2>2
<1>2. QED
  BY <1>1, Invariance, PTL DEF Spec, VersionsGrow

\* A row is marked only by an import with a higher version, or by one that an
\* overlapping import has overtaken, and one of its own feed only if there was such
\* an overlap (postgres.go:148, 401).
THEOREM OnlyOutdatedDeleted == Spec => DeletesOnlyOutdated
<1>1. IInv /\ [Next]_vars =>
        [\A p \in Products : live[p] /\ ~live'[p] =>
           \E i \in Importers : /\ pc[i] = "delete" /\ doomed'[i] # doomed[i]
                               /\ (rowVersion[p] < version[i] \/ Overtaken(i, p))
                               /\ (p \in ProductsOf(Range(feed[i])) => ~Sole(i))]_vars
  <2> DEFINE Deleter(i, p) == /\ pc[i] = "delete" /\ doomed'[i] # doomed[i]
                              /\ (rowVersion[p] < version[i] \/ Overtaken(i, p))
                              /\ (p \in ProductsOf(Range(feed[i])) => ~Sole(i))
  <2> SUFFICES ASSUME IInv, [Next]_vars, NEW p \in Products, live[p], ~live'[p]
               PROVE  \E i \in Importers : Deleter(i, p)
    OBVIOUS
  <2>1. live' # live
    OBVIOUS
  <2>2. ASSUME NEW i \in Importers, ApplyBatch(i) PROVE FALSE
    BY <2>2 DEF ApplyBatch
  <2>3. PICK i \in Importers : MarkDeleted(i)
    BY <2>1, <2>2, NextSteps DEF Tick, vars, Timestamp, StartRun, ParseFails, CompareProducts,
       LockRow, RollBack, Commit, CommitLost, StartDelete, SelectOutdated, SelectFails,
       SelectSwallowed, SelectEnds, SendIds, SendCancelled, UpdateDeleted, UpdateLost,
       UpdateError, RangeEnds, EndDelete, table
  <2>4. pc[i] = "delete" /\ p \in Range(doomed[i]) /\ doomed'[i] = <<>>
    BY <2>3 DEF MarkDeleted, IInv, TypeOK
  <2>5. doomed'[i] # doomed[i]
    BY <2>4 DEF Range
  <2>6. rowVersion[p] < version[i] \/ Overtaken(i, p)
    BY <2>4 DEF IInv, RaceInv, Race, Rows, Pages
  <2>7. p \in ProductsOf(Range(feed[i])) => ~Sole(i)
    <3>1. SUFFICES ASSUME Sole(i), p \in ProductsOf(Range(feed[i])) PROVE FALSE
      OBVIOUS
    <3>2. Inv(i)
      BY <2>4, <3>1 DEF IInv, Alone, Active
    <3>3. rowVersion[p] < version[i] /\ pos[i] = Len(feed[i])
      BY <2>4, <3>2 DEF Inv, Doomed, Pages
    <3>4. Stored(i) = Range(feed[i])
      BY <3>3, WholeFeedStored DEF IInv
    <3>5. rowVersion[p] >= version[i]
      BY <3>1, <3>2, <3>4 DEF Inv, Store
    <3>6. rowVersion[p] \in Nat /\ version[i] \in Nat
      BY DEF IInv, TypeOK
    <3>7. QED
      BY <3>3, <3>5, <3>6
  <2>8. QED
    BY <2>4, <2>5, <2>6, <2>7
<1>2. QED
  BY <1>1, Invariance, PTL DEF Spec, DeletesOnlyOutdated

\* How an import that has the shop to itself succeeds.
LEMMA Success ==
    ASSUME IInv, [Next]_vars, NEW i \in Importers, Succeeds(i)
    PROVE  /\ Inv(i) /\ Stored(i) = Range(feed[i])
           /\ ids[i] = <<>> /\ doomed[i] = <<>> /\ sel[i] = "done" /\ ~groupErr[i]
           /\ Alone(i) /\ reported'[i] = removed[i]
<1> USE DEF IInv, Succeeds
<1>1. pc \in [Importers -> {"new", "stamped", "next", "upsert", "delete", "ok", "failed"}]
      /\ reported \in [Importers -> Nat]
  BY DEF TypeOK
<1>2. EndDelete(i)
  <2>1. pc[i] = "delete" /\ pc'[i] = "ok"
    OBVIOUS
  <2>2. ~Tick /\ ~UNCHANGED vars
    BY <2>1 DEF Tick, vars
  <2>3. ASSUME NEW k \in Importers,
               \/ Timestamp(k) \/ ParseFails(k) \/ RollBack(k) \/ CommitLost(k) \/ Own(k)
               \/ \E f \in Feeds : StartRun(k, f)
        PROVE  pc'[i] \in {pc[i], "stamped", "next", "upsert", "delete", "failed"}
    BY <1>1, <2>3 DEF Own, Timestamp, ParseFails, CompareProducts, LockRow, RollBack,
       Commit, CommitLost, StartDelete, SelectOutdated, SelectFails, SelectSwallowed,
       SelectEnds, SendIds, SendCancelled, UpdateDeleted, UpdateLost, MarkDeleted,
       UpdateError, RangeEnds, StartRun, Goto
  <2>4. ASSUME NEW k \in Importers, EndDelete(k) PROVE k = i
    BY <1>1, <2>1, <2>4 DEF EndDelete, Goto
  <2>5. QED
    BY <2>1, <2>2, <2>3, <2>4, OwnSteps
<1>3. ~groupErr[i] /\ reported'[i] = removed[i] /\ sel[i] = "done" /\ del[i] = "done"
  BY <1>1, <1>2 DEF EndDelete, Goto
<1>4. Alone(i) /\ Inv(i)
  BY DEF Alone, Active
<1>5. pos[i] = Len(feed[i]) /\ ids[i] = <<>> /\ doomed[i] = <<>>
  BY <1>3, <1>4 DEF Inv, Doomed
<1>6. QED
  BY <1>3, <1>4, <1>5, WholeFeedStored

\* A successful import has stored its shippings.
THEOREM ShippingsAreStored == Spec => ShippingsStored
<1>1. IInv /\ [Next]_vars =>
        [\A i \in Importers : Succeeds(i) =>
            \A p \in Ships(Range(feed[i])) \ newer[i] :
                (\A item \in Range(feed[i]) : item.product = p => item.ships)
                    => shipped[p] = version[i]]_vars
  BY Success DEF Inv, Shipped, AlwaysShips
<1>2. QED
  BY <1>1, Invariance, PTL DEF Spec, ShippingsStored

\* ... and reports every row it marked once, however the two goroutines of
\* DeleteOldProducts interleave (postgres.go:352-409).
THEOREM CountIsExact == Spec => DeletedIsExact
<1>1. IInv /\ [Next]_vars =>
        [\A i \in Importers : Succeeds(i) => reported'[i] = Cardinality(marked[i])]_vars
  BY Success DEF Succeeds, Inv, Count
<1>2. QED
  BY <1>1, Invariance, PTL DEF Spec, DeletedIsExact

\* If a SELECT that fails is not taken for the last page, a successful import leaves
\* exactly its feed, in all rows that were not newer (README.md:9).
THEOREM SuccessSyncs == ASSUME "select" \notin Faults PROVE Spec => SyncOnSuccess
<1> DEFINE Synced(i, p) ==
               /\ p \in ProductsOf(Range(feed[i])) => live[p] /\ rowVersion[p] = version[i]
               /\ live[p] => p \in ProductsOf(Range(feed[i])) \/ BatchSize = 0
<1>1. Init => PendingInv
  BY DEF Init, PendingInv, Alone, Active
<1>2. IInv /\ PendingInv /\ [Next]_vars => PendingInv'
  BY PendingStep DEF PendingInv
<1>3. IInv /\ PendingInv /\ [Next]_vars =>
        [\A i \in Importers : Succeeds(i) => \A p \in Products \ newer[i] : Synced(i, p)]_vars
  <2> SUFFICES ASSUME IInv, PendingInv, [Next]_vars, NEW i \in Importers, Succeeds(i),
                      NEW p \in Products \ newer[i]
               PROVE  Synced(i, p)
    OBVIOUS
  <2>1. /\ Inv(i) /\ Stored(i) = Range(feed[i]) /\ Pending(i) /\ pc[i] = "delete"
        /\ ids[i] = <<>> /\ doomed[i] = <<>> /\ sel[i] = "done" /\ ~groupErr[i]
    BY Success DEF PendingInv, Succeeds
  <2>2. Pages(i) = {}
    BY <2>1 DEF Pages, Range
  <2>3. rowVersion[p] \in Nat /\ version[i] \in Nat
    BY DEF IInv, TypeOK
  <2>4. ASSUME live[p], BatchSize > 0 PROVE p \in ProductsOf(Range(feed[i]))
    <3>1. ~(rowVersion[p] < version[i])
      BY <2>1, <2>2, <2>4 DEF Pending
    <3>2. QED
      BY <2>1, <2>3, <3>1 DEF Inv, Sync
  <2>5. ASSUME p \in ProductsOf(Range(feed[i])) PROVE live[p] /\ rowVersion[p] = version[i]
    <3>1. rowVersion[p] >= version[i]
      BY <2>1, <2>5 DEF Inv, Store
    <3>2. QED
      BY <2>1, <3>1 DEF Inv, Sync
  <2>6. BatchSize = 0 \/ BatchSize > 0
    BY CatalogAssumption
  <2>7. QED
    BY <2>4, <2>5, <2>6
<1>4. QED
  BY <1>1, <1>2, <1>3, Invariance, PTL DEF Spec, SyncOnSuccess

-----------------------------------------------------------------------------
(* Progress: what ImportsEnd needs but fairness itself.                    *)

\* An import has rows to lock, or has locked some, only in a statement; an UPDATE of
\* DeleteOldProducts locks each of its rows once.
Work(i) ==
    /\ todo[i] # <<>> => Writing(i)
    /\ \A p \in Products : holder[p] = i => Writing(i)
    /\ pc[i] = "delete" =>
          /\ Distinct(todo[i])
          /\ \A p \in Products : holder[p] = i => \A k \in DOMAIN todo[i] : p # todo[i][k]
          /\ sel[i] # "done" /\ del[i] = "done" => groupErr[i]

WorkInv == \A i \in Importers : Work(i)

\* What Work(i) depends on.
LEMMA WorkFrame ==
    ASSUME NEW i \in Importers, Work(i),
           /\ pc'[i] = pc[i] /\ todo'[i] = todo[i]
           /\ sel'[i] = sel[i] /\ del'[i] = del[i] /\ groupErr'[i] = groupErr[i]
           /\ \A p \in Products : holder'[p] = i => holder[p] = i
    PROVE  Work(i)'
  BY DEF Work, Writing

\* The rest of a sequence of distinct rows does not have its head.
LEMMA DistinctTail ==
    ASSUME NEW S, NEW s \in Seq(S), Distinct(s), s # <<>>
    PROVE  /\ Distinct(Tail(s))
           /\ \A k \in DOMAIN Tail(s) : Head(s) # Tail(s)[k]
           /\ \A k \in DOMAIN Tail(s) : \E l \in DOMAIN s : Tail(s)[k] = s[l]
<1>1. /\ Len(s) \in Nat /\ DOMAIN s = 1 .. Len(s) /\ Len(s) > 0
      /\ Tail(s) \in Seq(S) /\ Len(Tail(s)) = Len(s) - 1
      /\ DOMAIN Tail(s) = 1 .. Len(s) - 1 /\ Head(s) = s[1]
  OBVIOUS
<1>2. \A k \in DOMAIN Tail(s) : Tail(s)[k] = s[k + 1]
  OBVIOUS
<1>3. \A k \in DOMAIN Tail(s) : k + 1 \in DOMAIN s /\ 1 \in DOMAIN s /\ k + 1 # 1
  BY <1>1
<1>4. \A j, k \in DOMAIN Tail(s) : j + 1 = k + 1 => j = k
  BY <1>1
<1>5. QED
  BY <1>1, <1>2, <1>3, <1>4 DEF Distinct

\* A step of one import leaves what Work says of another alone.
LEMMA WorkOthers ==
    ASSUME TypeOK, WorkInv, NEW i \in Importers, NEW j \in Importers, i # j,
           \/ Timestamp(i) \/ ParseFails(i) \/ CompareProducts(i) \/ LockRow(i)
           \/ RollBack(i)
           \/ Commit(i) \/ CommitLost(i) \/ StartDelete(i) \/ SelectOutdated(i)
           \/ SendIds(i) \/ SendCancelled(i) \/ UpdateDeleted(i) \/ UpdateLost(i)
           \/ UpdateError(i) \/ RangeEnds(i) \/ EndDelete(i)
           \/ SelectFails(i) \/ SelectSwallowed(i)
           \/ \E f \in Feeds : StartRun(i, f)
    PROVE  Work(j)'
<1> USE TypeParts DEF TableTyped, UpdateTyped, DeleteTyped, Goto, update, delete
<1>1. CASE Timestamp(i) \/ ParseFails(i) \/ CompareProducts(i) \/ StartDelete(i)
           \/ SelectOutdated(i) \/ SendIds(i) \/ SendCancelled(i) \/ RangeEnds(i)
           \/ EndDelete(i) \/ SelectFails(i) \/ SelectSwallowed(i)
           \/ \E f \in Feeds : StartRun(i, f)
  <2>1. /\ pc'[j] = pc[j] /\ todo'[j] = todo[j]
        /\ sel'[j] = sel[j] /\ del'[j] = del[j] /\ groupErr'[j] = groupErr[j]
        /\ holder' = holder
    BY <1>1 DEF Timestamp, ParseFails, CompareProducts, StartDelete, SelectOutdated, SendIds,
       SendCancelled, RangeEnds, EndDelete, SelectFails, SelectSwallowed, SelectEnds, StartRun
  <2>2. QED
    BY <2>1, WorkFrame DEF WorkInv
<1>2. CASE LockRow(i)
  <2>1. /\ pc'[j] = pc[j] /\ todo'[j] = todo[j]
        /\ sel'[j] = sel[j] /\ del'[j] = del[j] /\ groupErr'[j] = groupErr[j]
        /\ \A p \in Products : holder'[p] = j => holder[p] = j
    BY <1>2 DEF LockRow
  <2>2. QED
    BY <2>1, WorkFrame DEF WorkInv
<1>3. CASE RollBack(i) \/ Commit(i) \/ CommitLost(i) \/ UpdateDeleted(i)
           \/ UpdateLost(i) \/ UpdateError(i)
  <2>1. /\ pc'[j] = pc[j] /\ todo'[j] = todo[j]
        /\ sel'[j] = sel[j] /\ del'[j] = del[j] /\ groupErr'[j] = groupErr[j]
    BY <1>3 DEF RollBack, Commit, CommitLost, UpdateDeleted, UpdateLost, MarkDeleted,
       UpdateError
  <2>2. \A p \in Products : holder'[p] = j => holder[p] = j
    <3>1. None # j
      BY CatalogAssumption
    <3>2. QED
      BY <1>3, <3>1 DEF RollBack, Commit, CommitLost, UpdateDeleted, UpdateLost,
         MarkDeleted, UpdateError, Release
  <2>3. QED
    BY <2>1, <2>2, WorkFrame DEF WorkInv
<1>4. QED
  BY <1>1, <1>2, <1>3

\* Every step keeps rows and locks to statements.
LEMMA WorkStep == TypeOK /\ FreshInv /\ PagesInv /\ WorkInv /\ [Next]_vars => WorkInv'
<1> SUFFICES ASSUME TypeOK, FreshInv, PagesInv, WorkInv, [Next]_vars PROVE WorkInv'
  OBVIOUS
<1> USE TypeParts DEF TableTyped, UpdateTyped, DeleteTyped, Goto, update, delete
<1>n. \A i \in Importers : i # None
  BY CatalogAssumption
<1>r. ASSUME NEW i \in Importers, Release(i), NEW p \in Products PROVE holder'[p] # i
  BY <1>n, <1>r DEF Release
<1>e. Distinct(<<>>)
  BY DEF Distinct
<1>1. CASE Tick \/ UNCHANGED vars
  <2>1. UNCHANGED <<pc, todo, sel, del, groupErr, holder>>
    BY <1>1 DEF Tick, vars
  <2>2. QED
    BY <2>1, WorkFrame DEF WorkInv
<1>2. ASSUME NEW i \in Importers, Timestamp(i) \/ ParseFails(i) \/ \E f \in Feeds : StartRun(i, f)
      PROVE  Work(i)'
  <2>1. /\ UNCHANGED <<todo, holder>> /\ ~Writing(i)
        /\ pc'[i] # "delete"
    BY <1>2 DEF Timestamp, ParseFails, StartRun, Writing
  <2>2. QED
    BY <2>1 DEF WorkInv, Work
<1>3. ASSUME NEW i \in Importers, CompareProducts(i) PROVE Work(i)'
  <2>1. UNCHANGED holder /\ pc'[i] = "upsert"
    BY <1>3 DEF CompareProducts
  <2>2. QED
    BY <2>1 DEF Work, Writing
<1>4. ASSUME NEW i \in Importers, LockRow(i) PROVE Work(i)'
  <2>1. /\ UNCHANGED <<pc, sel, del, groupErr>> /\ Writing(i) /\ todo[i] # <<>>
        /\ todo'[i] = Tail(todo[i])
        /\ \A p \in Products : holder'[p] = i => holder[p] = i \/ p = Head(todo[i])
    BY <1>4 DEF LockRow
  <2>2. Writing(i)' /\ Work(i)
    BY <2>1 DEF Writing, WorkInv
  <2>3. CASE pc[i] = "delete"
    <3>1. Distinct(todo[i]) /\ todo[i] \in Seq(Products)
      BY <2>2, <2>3 DEF Work
    <3>2. /\ Distinct(Tail(todo[i]))
          /\ \A k \in DOMAIN Tail(todo[i]) : Head(todo[i]) # Tail(todo[i])[k]
          /\ \A k \in DOMAIN Tail(todo[i]) : \E l \in DOMAIN todo[i] : Tail(todo[i])[k] = todo[i][l]
      BY <2>1, <3>1, DistinctTail
    <3>3. ASSUME NEW p \in Products, holder'[p] = i, NEW k \in DOMAIN Tail(todo[i])
          PROVE  p # Tail(todo[i])[k]
      <4>1. CASE p = Head(todo[i])
        BY <3>2, <4>1
      <4>2. CASE holder[p] = i
        <5>1. \A l \in DOMAIN todo[i] : p # todo[i][l]
          BY <2>2, <2>3, <4>2 DEF Work
        <5>2. QED
          BY <3>2, <5>1
      <4>3. QED
        BY <2>1, <3>3, <4>1, <4>2
    <3>4. sel[i] # "done" /\ del[i] = "done" => groupErr[i]
      BY <2>2, <2>3 DEF Work
    <3>5. QED
      BY <2>1, <2>2, <3>2, <3>3, <3>4 DEF Work
  <2>4. CASE pc[i] # "delete"
    BY <2>1, <2>2, <2>4 DEF Work
  <2>5. QED
    BY <2>3, <2>4
<1>5. ASSUME NEW i \in Importers, (pc[i] = "upsert" /\ RollBack(i)) \/ Commit(i) \/ CommitLost(i)
      PROVE  Work(i)'
  <2>1. todo'[i] = <<>> /\ pc'[i] \in {"next", "failed"} /\ Release(i)
    BY <1>5 DEF RollBack, Commit, CommitLost
  <2>2. QED
    BY <2>1, <1>r DEF Work
<1>6. ASSUME NEW i \in Importers, StartDelete(i) PROVE Work(i)'
  <2>1. /\ UNCHANGED <<todo, holder, sel, del>> /\ ~Writing(i)
        /\ sel[i] = "select" /\ del[i] = "range"
    BY <1>6 DEF StartDelete, Writing, FreshInv
  <2>2. QED
    BY <1>e, <2>1 DEF WorkInv, Work
<1>7. ASSUME NEW i \in Importers, SelectOutdated(i) PROVE Work(i)'
  <2>1. UNCHANGED <<pc, todo, holder, del, groupErr>> /\ pc[i] = "delete" /\ Work(i)
        /\ sel[i] = "select"
    BY <1>7 DEF SelectOutdated, WorkInv
  <2>2. QED
    BY <2>1 DEF Work, Writing
<1>8. ASSUME NEW i \in Importers, SelectFails(i) \/ SelectSwallowed(i) \/ SendCancelled(i)
      PROVE  Work(i)'
  <2>1. /\ UNCHANGED <<pc, todo, holder, del>> /\ sel'[i] = "done" /\ Work(i)
    BY <1>8 DEF SelectFails, SelectSwallowed, SelectEnds, SendCancelled, WorkInv
  <2>2. QED
    BY <2>1 DEF Work, Writing
<1>9. ASSUME NEW i \in Importers, SendIds(i) PROVE Work(i)'
  <2>1. PICK order \in SetToSeqs(Range(ids[i])) : todo' = [todo EXCEPT ![i] = order]
    BY <1>9 DEF SendIds
  <2>2. Distinct(order)
    BY LockOrders, ProductsAreNat DEF PagesInv
  <2>3. /\ UNCHANGED <<pc, holder>> /\ pc[i] = "delete" /\ ~Writing(i) /\ Work(i)
        /\ del'[i] = "update" /\ todo'[i] = order
    BY <1>9, <2>1 DEF SendIds, Writing, WorkInv
  <2>4. QED
    BY <2>2, <2>3 DEF Work, Writing
<1>10. ASSUME NEW i \in Importers, UpdateDeleted(i) \/ UpdateLost(i) \/ UpdateError(i)
       PROVE  Work(i)'
  <2>1. /\ UNCHANGED <<pc, sel>> /\ pc[i] = "delete" /\ todo'[i] = <<>> /\ Work(i)
        /\ Release(i)
        /\ del'[i] = "done" => groupErr'[i]
    BY <1>10 DEF UpdateDeleted, UpdateLost, MarkDeleted, UpdateError, WorkInv
  <2>2. QED
    BY <1>e, <1>r, <2>1 DEF Work
<1>11. ASSUME NEW i \in Importers, RangeEnds(i) \/ EndDelete(i) PROVE Work(i)'
  <2>1. /\ UNCHANGED <<todo, holder, sel>> /\ ~Writing(i) /\ sel[i] = "done" /\ Work(i)
        /\ pc[i] = "delete"
    BY <1>11 DEF RangeEnds, EndDelete, Writing, WorkInv
  <2>2. QED
    BY <2>1 DEF Work
<1>12. QED
  <2>1. ASSUME NEW i \in Importers, NEW j \in Importers,
               \/ Timestamp(i) \/ ParseFails(i) \/ CompareProducts(i) \/ LockRow(i)
               \/ pc[i] = "upsert" /\ RollBack(i)
               \/ Commit(i) \/ CommitLost(i) \/ StartDelete(i) \/ SelectOutdated(i)
               \/ SendIds(i) \/ SendCancelled(i) \/ UpdateDeleted(i) \/ UpdateLost(i)
               \/ UpdateError(i) \/ RangeEnds(i) \/ EndDelete(i)
               \/ SelectFails(i) \/ SelectSwallowed(i)
               \/ \E f \in Feeds : StartRun(i, f)
        PROVE  Work(j)'
    <3>1. CASE i = j
      BY <2>1, <3>1, <1>2, <1>3, <1>4, <1>5, <1>6, <1>7, <1>8, <1>9, <1>10, <1>11
    <3>2. CASE i # j
      BY <2>1, <3>2, WorkOthers
    <3>3. QED
      BY <3>1, <3>2
  <2>2. QED
    BY <1>1, <2>1, NextSteps DEF WorkInv

\* The order of numbers as a relation.
Below == {n \in Nat \X Nat : n[1] < n[2]}

\* A set of numbers that is not empty has a least one.
LEMMA LeastNumber ==
    ASSUME NEW T, T \subseteq Nat, T # {}
    PROVE  \E n \in T : \A m \in T : n <= m
<1>1. IsWellFoundedOn(Below, Nat)
  BY NatLessThanWellFounded DEF OpToRel, Below
<1>2. PICK n \in T : \A m \in T : <<m, n>> \notin Below
  BY <1>1, WFMin
<1>3. \A m \in T : ~(m < n)
  BY <1>2 DEF Below
<1>4. QED
  BY <1>3

\* s lists the first elements of S in order: all of them, or n.
Firsts(s, S, n) ==
    /\ Len(s) <= n /\ Increasing(s)
    /\ \A p \in S \ Range(s) : Len(s) = n /\ \A q \in Range(s) : q < p

\* Every set of numbers has such a list: ORDER BY and LIMIT always have an answer.
LEMMA FirstsExist ==
    ASSUME NEW S \in SUBSET Nat, NEW n \in Nat
    PROVE  \E s \in Seq(S) : Firsts(s, S, n)
<1> DEFINE Good(m) == \E s \in Seq(S) : Firsts(s, S, m)
           Bad == {m \in Nat : ~Good(m)}
<1>1. Good(0)
  <2>1. <<>> \in Seq(S) /\ Len(<<>>) = 0 /\ Range(<<>>) = {} /\ Increasing(<<>>)
    BY DEF Range, Increasing
  <2>2. Firsts(<<>>, S, 0)
    BY <2>1 DEF Firsts
  <2>3. QED
    BY <2>1, <2>2
<1>2. ASSUME NEW m \in Nat, Good(m) PROVE Good(m + 1)
  <2>1. PICK s \in Seq(S) : Firsts(s, S, m)
    BY <1>2
  <2>2. Len(s) \in Nat /\ DOMAIN s = 1 .. Len(s) /\ \A k \in DOMAIN s : s[k] \in S
    OBVIOUS
  <2>3. CASE S \ Range(s) = {}
    <3>1. Len(s) <= m /\ Increasing(s)
      BY <2>1 DEF Firsts
    <3>2. Len(s) <= m + 1
      BY <2>2, <3>1
    <3>3. Firsts(s, S, m + 1)
      BY <2>3, <3>1, <3>2 DEF Firsts
    <3>4. QED
      BY <3>3
  <2>4. CASE S \ Range(s) # {}
    <3>1. PICK x \in S \ Range(s) : \A y \in S \ Range(s) : x <= y
      BY <2>4, LeastNumber
    <3> DEFINE t == Append(s, x)
    <3>2. /\ t \in Seq(S) /\ Len(t) = Len(s) + 1 /\ DOMAIN t = 1 .. Len(s) + 1
          /\ t[Len(s) + 1] = x /\ \A k \in DOMAIN s : t[k] = s[k]
      BY <2>2, <3>1
    <3> HIDE DEF t
    <3>3. Len(s) = m /\ \A q \in Range(s) : q < x
      BY <2>1, <3>1 DEF Firsts
    <3>4. Range(t) = Range(s) \cup {x}
      BY <2>2, <3>2 DEF Range
    <3>5. ASSUME NEW j \in DOMAIN t, NEW k \in DOMAIN t, j < k PROVE t[j] < t[k]
      <4>1. j \in DOMAIN s
        BY <2>2, <3>2, <3>5
      <4>2. CASE k \in DOMAIN s
        BY <2>1, <3>2, <3>5, <4>1, <4>2 DEF Firsts, Increasing
      <4>3. CASE k = Len(s) + 1
        BY <3>2, <3>3, <4>1, <4>3 DEF Range
      <4>4. QED
        BY <2>2, <3>2, <4>2, <4>3
    <3>6. ASSUME NEW p \in S \ Range(t), NEW q \in Range(t) PROVE q < p
      <4>1. p \in S \ Range(s) /\ p # x /\ x <= p
        BY <3>1, <3>4
      <4>2. CASE q = x
        BY <4>1, <4>2
      <4>3. CASE q \in Range(s)
        BY <2>1, <4>1, <4>3 DEF Firsts
      <4>4. QED
        BY <3>4, <4>2, <4>3
    <3>7. Firsts(t, S, m + 1)
      BY <2>2, <3>2, <3>3, <3>5, <3>6 DEF Firsts, Increasing
    <3>8. QED
      BY <3>2, <3>7
  <2>5. QED
    BY <2>3, <2>4
<1> HIDE DEF Good
<1>3. ASSUME Bad # {} PROVE FALSE
  <2>1. PICK m \in Bad : \A k \in Bad : m <= k
    BY <1>3, LeastNumber
  <2>2. m \in Nat /\ m # 0 /\ ~Good(m)
    BY <1>1, <2>1
  <2>3. m - 1 \in Nat /\ m - 1 \notin Bad
    BY <2>1, <2>2
  <2>4. Good(m - 1)
    BY <2>3
  <2>5. Good((m - 1) + 1)
    BY <1>2, <2>3, <2>4
  <2>6. (m - 1) + 1 = m
    BY <2>2
  <2>7. QED
    BY <2>2, <2>5, <2>6
<1>4. Good(n)
  BY <1>3
<1>5. QED
  BY <1>4 DEF Good

\* All places of a batch that a test selects can be listed in order.
LEMMA PlacesListed ==
    ASSUME NEW n \in Nat, NEW S \in SUBSET (1 .. n)
    PROVE  /\ IsFiniteSet(S)
           /\ \E s \in Seq(S) : Increasing(s) /\ Range(s) = S /\ Len(s) = Cardinality(S)
<1>1. IsFiniteSet(1 .. n) /\ Cardinality(1 .. n) = n
  BY FS_Interval
<1>n. S \in SUBSET Nat
  OBVIOUS
<1>2. PICK s \in Seq(S) : Firsts(s, S, n)
  BY <1>n, FirstsExist
<1>3. Increasing(s) /\ Range(s) \subseteq S /\ Range(s) \in SUBSET (1 .. n)
  <2>1. \A k \in DOMAIN s : s[k] \in S
    OBVIOUS
  <2>2. QED
    BY <1>2, <2>1 DEF Firsts, Range
<1>4. Cardinality(Range(s)) = Len(s)
  BY <1>n, <1>3, IncreasingCount
<1>5. Range(s) = S
  <2>1. SUFFICES ASSUME NEW p \in S, p \notin Range(s) PROVE FALSE
    BY <1>3
  <2>2. Cardinality(Range(s)) = Cardinality(1 .. n)
    BY <1>1, <1>2, <1>4, <2>1 DEF Firsts
  <2>3. Range(s) = 1 .. n
    BY <1>1, <1>3, <2>2, FS_Subset
  <2>4. QED
    BY <2>1, <2>3
<1>6. IsFiniteSet(S)
  BY <1>1, FS_Subset
<1>7. QED
  BY <1>3, <1>4, <1>5, <1>6

\* compareProducts has an order to write every batch in.
LEMMA OrderExists ==
    ASSUME TypeOK, NEW i \in Importers
    PROVE  \E order \in SeqOf(DOMAIN Batch(i), Len(Batch(i))) : InWriteOrder(i, order)
<1> DEFINE b == Batch(i)
           n == Len(b)
           N == {k \in DOMAIN b : IsNew(b[k])}
           U == {k \in DOMAIN b : ~IsNew(b[k]) /\ IsUpdate(i, b[k])}
<1>1. n \in Nat /\ DOMAIN b = 1 .. n
  BY BatchIsPart
<1> HIDE DEF b, n
<1>2. N \in SUBSET (1 .. n) /\ U \in SUBSET (1 .. n) /\ N \cap U = {}
  BY <1>1
<1>d. /\ \A k \in N : IsNew(b[k])
      /\ \A k \in U : ~IsNew(b[k])
      /\ N \cup U = {k \in DOMAIN b : IsNew(b[k]) \/ IsUpdate(i, b[k])}
  OBVIOUS
<1> HIDE DEF N, U
<1>3. PICK sn \in Seq(N) : Increasing(sn) /\ Range(sn) = N /\ Len(sn) = Cardinality(N)
  BY <1>1, <1>2, PlacesListed
<1>4. PICK su \in Seq(U) : Increasing(su) /\ Range(su) = U /\ Len(su) = Cardinality(U)
  BY <1>1, <1>2, PlacesListed
<1>5. Len(sn) + Len(su) <= n
  <2>1. IsFiniteSet(N) /\ IsFiniteSet(U)
    BY <1>1, <1>2, PlacesListed
  <2>2. /\ IsFiniteSet(N \cup U)
        /\ Cardinality(N \cup U) = Cardinality(N) + Cardinality(U) - Cardinality(N \cap U)
    BY <2>1, FS_Union
  <2>3. Cardinality(N \cap U) = 0
    BY <1>2, FS_EmptySet
  <2>4. Cardinality(N) \in Nat /\ Cardinality(U) \in Nat
    BY <2>1, FS_CardinalityType
  <2>5. IsFiniteSet(1 .. n) /\ Cardinality(1 .. n) = n
    BY <1>1, FS_Interval
  <2>6. N \cup U \in SUBSET (1 .. n)
    BY <1>2
  <2>7. Cardinality(N \cup U) <= n
    BY <2>5, <2>6, FS_Subset
  <2>8. QED
    BY <1>3, <1>4, <2>2, <2>3, <2>4, <2>7
<1> DEFINE order == sn \o su
<1>6. /\ Len(sn) \in Nat /\ DOMAIN sn = 1 .. Len(sn) /\ \A k \in DOMAIN sn : sn[k] \in N
      /\ Len(su) \in Nat /\ DOMAIN su = 1 .. Len(su) /\ \A k \in DOMAIN su : su[k] \in U
  OBVIOUS
<1>7. /\ order \in Seq(N \cup U)
      /\ Len(order) = Len(sn) + Len(su) /\ DOMAIN order = 1 .. Len(sn) + Len(su)
      /\ \A k \in 1 .. Len(sn) + Len(su) :
             order[k] = IF k <= Len(sn) THEN sn[k] ELSE su[k - Len(sn)]
  <2>1. sn \in Seq(N \cup U) /\ su \in Seq(N \cup U)
    BY <1>6
  <2>2. QED
    BY <1>6, <2>1, ConcatProperties
<1> HIDE DEF order
<1>8. ASSUME NEW k \in DOMAIN order
      PROVE  \/ k \in DOMAIN sn /\ order[k] = sn[k] /\ order[k] \in N
             \/ k > Len(sn) /\ k - Len(sn) \in DOMAIN su /\ order[k] = su[k - Len(sn)]
                /\ order[k] \in U
  BY <1>6, <1>7
<1>9. order \in SeqOf(DOMAIN b, n)
  <2>1. \A k \in DOMAIN order : order[k] \in DOMAIN b
    BY <1>1, <1>2, <1>8
  <2>2. order \in [1 .. Len(sn) + Len(su) -> DOMAIN b]
    BY <1>7, <2>1
  <2>3. Len(sn) + Len(su) \in 0 .. n
    BY <1>1, <1>5, <1>6
  <2>4. QED
    BY <2>2, <2>3 DEF SeqOf
<1>10. Range(order) = N \cup U
  <2>1. ASSUME NEW p \in N PROVE p \in Range(order)
    <3>1. PICK k \in DOMAIN sn : sn[k] = p
      BY <1>3, <2>1 DEF Range
    <3>2. k \in DOMAIN order /\ order[k] = p
      BY <1>6, <1>7, <3>1
    <3>3. QED
      BY <3>2 DEF Range
  <2>2. ASSUME NEW p \in U PROVE p \in Range(order)
    <3>1. PICK k \in DOMAIN su : su[k] = p
      BY <1>4, <2>2 DEF Range
    <3>2. k + Len(sn) \in DOMAIN order /\ order[k + Len(sn)] = p
      BY <1>6, <1>7, <3>1
    <3>3. QED
      BY <3>2 DEF Range
  <2>3. QED
    BY <1>8, <2>1, <2>2 DEF Range
<1>11. ASSUME NEW j \in DOMAIN order, NEW k \in DOMAIN order, j < k
       PROVE  IF IsNew(b[order[j]]) = IsNew(b[order[k]])
              THEN order[j] < order[k] ELSE IsNew(b[order[j]])
  <2>1. CASE k \in DOMAIN sn
    <3>1. j \in DOMAIN sn
      BY <1>6, <1>7, <1>11, <2>1
    <3>2. order[j] = sn[j] /\ order[k] = sn[k] /\ sn[j] \in N /\ sn[k] \in N
      BY <1>6, <1>8, <2>1, <3>1
    <3>3. sn[j] < sn[k]
      BY <1>3, <1>11, <2>1, <3>1 DEF Increasing
    <3>4. QED
      BY <1>d, <3>2, <3>3
  <2>2. CASE k > Len(sn) /\ j \in DOMAIN sn
    <3>1. order[j] \in N /\ order[k] \in U
      BY <1>6, <1>8, <2>2
    <3>2. QED
      BY <1>d, <3>1
  <2>3. CASE k > Len(sn) /\ j > Len(sn)
    <3>1. /\ order[j] = su[j - Len(sn)] /\ order[k] = su[k - Len(sn)]
          /\ order[j] \in U /\ order[k] \in U
          /\ j - Len(sn) \in DOMAIN su /\ k - Len(sn) \in DOMAIN su
      BY <1>6, <1>8, <2>3
    <3>2. j - Len(sn) < k - Len(sn)
      BY <1>6, <1>7, <1>11
    <3>3. su[j - Len(sn)] < su[k - Len(sn)]
      BY <1>4, <3>1, <3>2 DEF Increasing
    <3>4. order[j] < order[k] /\ ~IsNew(b[order[j]]) /\ ~IsNew(b[order[k]])
      BY <1>d, <3>1, <3>3
    <3>5. QED
      BY <3>4 DEF IsNew
  <2>4. QED
    BY <1>6, <1>8, <2>1, <2>2, <2>3
<1>12. InWriteOrder(i, order)
  BY <1>d, <1>10, <1>11 DEF InWriteOrder, b
<1>13. QED
  BY <1>9, <1>12 DEF b, n

\* ORDER BY and LIMIT have an answer.
LEMMA PageExists ==
    ASSUME NEW i \in Importers
    PROVE  \E page \in SeqOf(Products, BatchSize) : FirstOutdated(i, page)
<1>1. Outdated(i) \in SUBSET Nat /\ Outdated(i) \subseteq Products
  BY ProductsAreNat DEF Outdated
<1>2. BatchSize \in Nat
  BY CatalogAssumption
<1>3. PICK page \in Seq(Outdated(i)) : Firsts(page, Outdated(i), BatchSize)
  BY <1>1, <1>2, FirstsExist
<1>4. /\ Len(page) \in 0 .. BatchSize /\ DOMAIN page = 1 .. Len(page)
      /\ \A k \in DOMAIN page : page[k] \in Outdated(i)
  BY <1>2, <1>3 DEF Firsts
<1>5. page \in [1 .. Len(page) -> Products]
  BY <1>1, <1>3, <1>4
<1>6. page \in SeqOf(Products, BatchSize)
  BY <1>4, <1>5 DEF SeqOf
<1>7. FirstOutdated(i, page)
  BY <1>3, <1>4 DEF FirstOutdated, Firsts, Increasing, Range
<1>8. QED
  BY <1>6, <1>7

\* The statement of an import can go on: its next row is free, it has all, it meets
\* its own row a second time, or Postgres aborts it.
StatementRuns(i) ==
    /\ Writing(i)
    /\ \/ todo[i] = <<>>
       \/ holder[Head(todo[i])] = None
       \/ pc[i] = "upsert" /\ holder[Head(todo[i])] = i
       \/ pc[i] = "delete" /\ groupErr[i]
       \/ InDeadlock(i)

\* Import(i) can take a step: the guards of its disjuncts.
CanGoOn(i) ==
    \/ /\ pc[i] = "next" /\ pos[i] < Len(feed[i])
       /\ \E order \in SeqOf(DOMAIN Batch(i), Len(Batch(i))) : InWriteOrder(i, order)
    \/ pc[i] = "next" /\ pos[i] = Len(feed[i])
    \/ StatementRuns(i)
    \/ /\ pc[i] = "delete"
       /\ \/ sel[i] = "select" /\ \E page \in SeqOf(Products, BatchSize) : FirstOutdated(i, page)
          \/ sel[i] = "send" /\ groupErr[i]
          \/ sel[i] = "send" /\ del[i] = "range" /\ SetToSeqs(Range(ids[i])) # {}
          \/ sel[i] = "done" /\ del[i] # "update"

\* It waits for a row that the statement of another import has locked.
WaitsForOther(i) ==
    /\ Writing(i) /\ todo[i] # <<>>
    /\ holder[Head(todo[i])] \in Importers \ {i}
    /\ Writing(holder[Head(todo[i])])

\* No row stays locked by who is not in a statement, whatever failed there; an
\* import goes on or waits for one that is; and they do not all wait.
NobodyStuck ==
    /\ \A p \in Products : holder[p] # None => Writing(holder[p])
    /\ \A i \in Importers : Active(i) => CanGoOn(i) \/ WaitsForOther(i)
    /\ (\E i \in Importers : Active(i)) => \E i \in Importers : CanGoOn(i)

\* Whatever imports overlap and fail: none is blocked but by a row that another one
\* is writing, and some import can always go on.
THEOREM NeverStuck == Spec => []NobodyStuck
<1>1. Init => WorkInv
  BY CatalogAssumption DEF Init, WorkInv, Work
<1>2. Spec => [](IInv /\ WorkInv)
  <2>1. IInv /\ WorkInv /\ [Next]_vars => WorkInv'
    BY WorkStep DEF IInv
  <2>2. QED
    BY <1>1, <2>1, Invariance, PTL DEF Spec
<1>3. ASSUME IInv, WorkInv PROVE NobodyStuck
  <2> USE <1>3, TypeParts DEF IInv, TableTyped, UpdateTyped, DeleteTyped
  <2>1. ASSUME NEW p \in Products, holder[p] # None
        PROVE  holder[p] \in Importers /\ Writing(holder[p])
    BY <2>1 DEF WorkInv, Work
  <2>2. ASSUME NEW i \in Importers, Active(i), ~CanGoOn(i) PROVE WaitsForOther(i)
    <3>1. pc[i] # "next"
      <4>1. pos[i] \in Nat /\ Len(feed[i]) \in Nat /\ pos[i] <= Len(feed[i])
        BY FeedsTyped
      <4>2. QED
        BY <2>2, <4>1, OrderExists DEF CanGoOn
    <3>2. Writing(i)
      <4>1. pc[i] = "upsert" \/ pc[i] = "delete"
        BY <2>2, <3>1 DEF Active
      <4>2. CASE pc[i] = "delete" /\ del[i] # "update"
        <5>1. sel[i] # "select"
          BY <2>2, <4>2, PageExists DEF CanGoOn
        <5>n. SetToSeqs(Range(ids[i])) # {}
          BY LockOrders, ProductsAreNat DEF PagesInv
        <5>2. sel[i] = "send" /\ del[i] = "done" /\ ~groupErr[i]
          BY <2>2, <4>2, <5>1, <5>n DEF CanGoOn
        <5>3. QED
          BY <4>2, <5>2 DEF WorkInv, Work
      <4>3. QED
        BY <4>1, <4>2 DEF Writing
    <3>3. /\ todo[i] # <<>> /\ holder[Head(todo[i])] # None
          /\ ~(pc[i] = "upsert" /\ holder[Head(todo[i])] = i)
      BY <2>2, <3>2 DEF CanGoOn, StatementRuns
    <3>4. Head(todo[i]) \in Products /\ 1 \in DOMAIN todo[i] /\ todo[i][1] = Head(todo[i])
      BY <3>3
    <3>5. ~(pc[i] = "delete" /\ holder[Head(todo[i])] = i)
      <4>1. SUFFICES ASSUME pc[i] = "delete", holder[Head(todo[i])] = i PROVE FALSE
        OBVIOUS
      <4>2. Head(todo[i]) # todo[i][1]
        BY <3>4, <4>1 DEF WorkInv, Work
      <4>3. QED
        BY <3>4, <4>2
    <3>6. QED
      BY <2>1, <3>2, <3>3, <3>4, <3>5 DEF WaitsForOther, Writing
  <2>3. ASSUME NEW i \in Importers, Active(i), \A j \in Importers : ~CanGoOn(j) PROVE FALSE
    <3> DEFINE D == {j \in Importers : WaitsForOther(j)}
    <3>1. i \in D
      BY <2>2, <2>3
    <3>2. ASSUME NEW j \in D
          PROVE  /\ Writing(j) /\ todo[j] # <<>>
                 /\ holder[Head(todo[j])] \in D \ {j}
      <4>1. /\ Writing(j) /\ todo[j] # <<>>
            /\ holder[Head(todo[j])] \in Importers \ {j}
            /\ Writing(holder[Head(todo[j])])
        BY <3>2 DEF WaitsForOther
      <4>2. Active(holder[Head(todo[j])])
        BY <4>1 DEF Active, Writing
      <4>3. QED
        BY <2>2, <2>3, <4>1, <4>2
    <3>3. InDeadlock(i)
      <4>1. D \in SUBSET Importers
        OBVIOUS
      <4>2. QED
        BY <3>1, <3>2, <4>1 DEF InDeadlock
    <3>4. QED
      BY <2>3, <3>1, <3>3 DEF CanGoOn, StatementRuns, WaitsForOther
  <2>4. QED
    BY <2>1, <2>2, <2>3 DEF NobodyStuck
<1>4. QED
  BY <1>2, <1>3, PTL
=============================================================================
