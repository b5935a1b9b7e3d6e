------------------------------ MODULE Catalog ------------------------------
(***************************************************************************)
(* The product and shipping tables of one shop under Parser.Parse: after   *)
(* StartRun an import upserts its feed batch by batch                      *)
(* (Postgres.UpdateProducts, one transaction each) and then marks what the *)
(* feed no longer has as deleted (Postgres.DeleteOldProducts, two          *)
(* goroutines on connections of their own).                                *)
(*                                                                         *)
(* A product is the id of its row.  Of a row the model keeps its version,  *)
(* whether deleted_at is NULL, and the import its shippings came from.     *)
(* Transactions run at READ COMMITTED: a statement sees what is committed, *)
(* and a row written by an open transaction is locked until it ends.       *)
(*                                                                         *)
(* Imports of a shop may overlap: Runs shows when they do.  What is only   *)
(* promised to an import that has the shop to itself says so (Sole), and   *)
(* what another one may spoil says by whom (Overtaken).                    *)
(***************************************************************************)
EXTENDS Integers, FiniteSets, Sequences, SequencesExt, FiniteSetsExt

CONSTANTS Products,   \* row ids of the products of the shop
          Importers,  \* calls of Parse for the shop
          Feeds,      \* what a feed may hold: sequences of Items
          Earlier,    \* which of them an import before these may have stored
          BatchSize,  \* Parser.batchSize
          MaxClock,   \* bound: clock readings are 1 .. MaxClock
          None,       \* no importer
          Faults

Item == [product : Products, ships : BOOLEAN]   \* ships: it has shippings

ASSUME CatalogAssumption ==
    /\ Products \subseteq Nat \ {0}
    /\ Feeds \subseteq Seq(Item)
    /\ Earlier \subseteq SUBSET Products
    /\ BatchSize \in Nat
    /\ MaxClock \in Nat \ {0}
    /\ None \notin Importers
    /\ Faults \subseteq {"feed", "database", "select"}

VARIABLES
    rowVersion,  \* product.version, 0 when there is no row
    live,        \* product.deleted_at IS NULL
    shipped,     \* version of the import that wrote the shippings, 0 for none
    holder,      \* the importer that has the row locked
    clock,       \* systemClock.Timestamp
    pc,          \* where each import is
    version,     \* Parse: version
    feed,        \* the feed that was fetched
    pos,         \* items of it in committed batches
    lists,       \* compareProducts: the items in newProducts and updatedProducts
    todo,        \* rows the current statements still have to lock
    sel,         \* getOutdatedProductsAsync: where it is
    del,         \* deleteProductsAsync: where it is
    ids,         \* getOutdatedProductsAsync: ids
    cursor,      \* getOutdatedProductsAsync: previousID
    doomed,      \* deleteProductsAsync: batch
    groupErr,    \* DeleteOldProducts' errgroup has an error
    removed,     \* deleteProductsAsync: deletedCount
    reported,    \* run.deleted_products
    newer,       \* history: rows whose version was not lower at StartRun
    marked,      \* history: live rows the import has marked as deleted
    met          \* history: the imports that were active while this one was

table  == <<rowVersion, live, shipped>>
update == <<version, feed, pos, lists, todo>>
delete == <<sel, del, ids, cursor, doomed, groupErr, removed, reported>>
starts == <<newer, met>>
history == <<starts, marked>>
vars   == <<table, holder, clock, pc, update, delete, history>>

Init ==
    /\ \E stored \in Earlier :
        /\ rowVersion = [p \in Products |-> IF p \in stored THEN 1 ELSE 0]
        /\ live = [p \in Products |-> p \in stored]
        /\ shipped = rowVersion
    /\ holder = [p \in Products |-> None]
    /\ clock = 1
    /\ pc = [i \in Importers |-> "new"]
    /\ version = [i \in Importers |-> 0]
    /\ feed = [i \in Importers |-> <<>>]
    /\ pos = [i \in Importers |-> 0]
    /\ lists = [i \in Importers |-> [new |-> {}, updated |-> {}]]
    /\ todo = [i \in Importers |-> <<>>]
    /\ sel = [i \in Importers |-> "select"]
    /\ del = [i \in Importers |-> "range"]
    /\ ids = [i \in Importers |-> <<>>]
    /\ cursor = [i \in Importers |-> 0]
    /\ doomed = [i \in Importers |-> <<>>]
    /\ groupErr = [i \in Importers |-> FALSE]
    /\ removed = [i \in Importers |-> 0]
    /\ reported = [i \in Importers |-> 0]
    /\ newer = [i \in Importers |-> {}]
    /\ met = [i \in Importers |-> {}]
    /\ marked = [i \in Importers |-> {}]

Active(i) == pc[i] \in {"next", "upsert", "delete"}
Ended(i)  == pc[i] \in {"ok", "failed"}
Goto(i, l) == pc' = [pc EXCEPT ![i] = l]
ProductsOf(items) == {item.product : item \in items}

-----------------------------------------------------------------------------
(* Parser.Parse around the storage.                                        *)

Tick ==
    /\ clock < MaxClock
    /\ clock' = clock + 1
    /\ UNCHANGED <<table, holder, pc, update, delete, history>>

\* The version is read before StartRun, however long that takes.
Timestamp(i) ==
    /\ pc[i] = "new"
    /\ version' = [version EXCEPT ![i] = clock]
    /\ Goto(i, "stamped")
    /\ UNCHANGED <<table, holder, clock, feed, pos, lists, todo, delete, history>>

\* StartRun succeeds and the feed is fetched.
StartRun(i, f) ==
    /\ pc[i] = "stamped"
    /\ feed' = [feed EXCEPT ![i] = f]
    /\ newer' = [newer EXCEPT ![i] = {p \in Products : rowVersion[p] >= version[i]}]
    /\ met' = [j \in Importers |-> IF j = i THEN {k \in Importers : Active(k)}
                                   ELSE met[j] \cup {k \in {i} : Active(j)}]
    /\ Goto(i, "next")
    /\ UNCHANGED <<table, holder, clock, version, pos, lists, todo, delete,
                   marked>>

\* Fetching or decoding fails, the context is done, or a transaction does not
\* begin: nothing more is stored.
ParseFails(i) ==
    /\ "feed" \in Faults
    /\ pc[i] = "next"
    /\ Goto(i, "failed")
    /\ UNCHANGED <<table, holder, clock, update, delete, history>>

-----------------------------------------------------------------------------
(* Postgres.UpdateProducts.                                                *)

\* The next batch of filterProducts; the whole feed with batch size 0.
Batch(i) ==
    LET rest == Len(feed[i]) - pos[i]
        size == IF BatchSize = 0 \/ rest < BatchSize THEN rest ELSE BatchSize
    IN SubSeq(feed[i], pos[i] + 1, pos[i] + size)

IsUpdate_Always(i, item) == rowVersion[item.product] # 0

\* compareProducts: parsed[ix].Version > version.
IsUpdate(i, item) == rowVersion[item.product] \in 1 .. version[i] - 1

\* compareProducts: there is no row.
IsNew(item) == rowVersion[item.product] = 0

\* The items to write, new ones first, each list in the order of the batch.
InWriteOrder(i, order) ==
    LET item(k) == Batch(i)[order[k]]
    IN /\ Range(order) = {k \in DOMAIN Batch(i) :
                             IsNew(Batch(i)[k]) \/ IsUpdate(i, Batch(i)[k])}
       /\ \A j, k \in DOMAIN order : j < k =>
              IF IsNew(item(j)) = IsNew(item(k)) THEN order[j] < order[k] ELSE IsNew(item(j))

\* getProductsVersions and compareProducts, in a new transaction.  Products
\* stored with this version or a later one are left out.
CompareProducts(i) ==
    /\ pc[i] = "next"
    /\ pos[i] < Len(feed[i])
    /\ lists' = [lists EXCEPT ![i] =
                    [new |-> {item \in Range(Batch(i)) : IsNew(item)},
                     updated |-> {item \in Range(Batch(i)) : IsUpdate(i, item)}]]
    /\ \E order \in SeqOf(DOMAIN Batch(i), Len(Batch(i))) :
        /\ InWriteOrder(i, order)
        /\ todo' = [todo EXCEPT ![i] = [k \in DOMAIN order |-> Batch(i)[order[k]].product]]
    /\ Goto(i, "upsert")
    /\ UNCHANGED <<table, holder, clock, version, feed, pos, delete, history>>

\* A statement with rows to write: upsertProducts' or deleteProductsAsync's.
Writing(i) == pc[i] = "upsert" \/ (pc[i] = "delete" /\ del[i] = "update")

\* The next row is free: it is locked, or inserted and locked.
LockRow(i) ==
    /\ Writing(i) /\ todo[i] # <<>>
    /\ holder[Head(todo[i])] = None
    /\ holder' = [holder EXCEPT ![Head(todo[i])] = i]
    /\ todo' = [todo EXCEPT ![i] = Tail(@)]
    /\ UNCHANGED <<table, clock, pc, version, feed, pos, lists, delete, history>>

Release_Leak(i) == holder' = holder

Release(i) == holder' = [p \in Products |-> IF holder[p] = i THEN None ELSE holder[p]]

RollBack(i) ==
    /\ Release(i)
    /\ todo' = [todo EXCEPT ![i] = <<>>]
    /\ Goto(i, "failed")
    /\ UNCHANGED <<table, clock, version, feed, pos, lists, delete, history>>

\* Postgres ends a circle of transactions that wait for each other by aborting
\* one of them.
InDeadlock(i) ==
    \E D \in SUBSET Importers :
        /\ i \in D
        /\ \A j \in D : /\ Writing(j) /\ todo[j] # <<>>
                        /\ holder[Head(todo[j])] \in D \ {j}

\* A product twice in one INSERT: ON CONFLICT DO UPDATE "cannot affect row a
\* second time".
DuplicateInBatch(i) ==
    /\ pc[i] = "upsert" /\ todo[i] # <<>>
    /\ holder[Head(todo[i])] = i
    /\ RollBack(i)

AbortTx(i) ==
    /\ pc[i] = "upsert"
    /\ InDeadlock(i)
    /\ RollBack(i)

\* A statement fails, or the context is done.
TxFails(i) ==
    /\ "database" \in Faults
    /\ pc[i] = "upsert"
    /\ RollBack(i)

Written(i) == ProductsOf(lists[i].new \cup lists[i].updated)
Ships(items) == ProductsOf({item \in items : item.ships})

ShippingsAfter_InsertFirst(i, list, old) ==
    [p \in Products |-> IF Ships(list) # {} /\ p \in ProductsOf(list) THEN 0 ELSE old[p]]

\* insertShippings: when no product of the list has shippings it returns early,
\* before it deletes the old ones.
ShippingsAfter(i, list, old) ==
    [p \in Products |->
        IF Ships(list) # {} /\ p \in ProductsOf(list)
        THEN IF p \in Ships(list) THEN version[i] ELSE 0
        ELSE old[p]]

\* What the transaction leaves: upsertProducts sets every column of the rows,
\* the version whatever it is by now and deleted_at to NULL.
ApplyBatch(i) ==
    /\ rowVersion' = [p \in Products |->
                        IF p \in Written(i) THEN version[i] ELSE rowVersion[p]]
    /\ live' = [p \in Products |-> p \in Written(i) \/ live[p]]
    /\ shipped' = ShippingsAfter(i, lists[i].updated,
                                 ShippingsAfter(i, lists[i].new, shipped))

Commit_FullBatch(i) ==
    /\ pc[i] = "upsert" /\ todo[i] = <<>>
    /\ ApplyBatch(i)
    /\ Release(i)
    /\ pos' = [pos EXCEPT ![i] = @ + BatchSize]
    /\ Goto(i, "next")
    /\ UNCHANGED <<clock, version, feed, lists, todo, delete, history>>

Commit(i) ==
    /\ pc[i] = "upsert" /\ todo[i] = <<>>
    /\ ApplyBatch(i)
    /\ Release(i)
    /\ pos' = [pos EXCEPT ![i] = @ + Len(Batch(i))]
    /\ Goto(i, "next")
    /\ UNCHANGED <<clock, version, feed, lists, todo, delete, history>>

\* The server commits and the reply is lost.
CommitLost(i) ==
    /\ "database" \in Faults
    /\ pc[i] = "upsert" /\ todo[i] = <<>>
    /\ ApplyBatch(i)
    /\ Release(i)
    /\ Goto(i, "failed")
    /\ UNCHANGED <<clock, update, delete, history>>

-----------------------------------------------------------------------------
(* Postgres.DeleteOldProducts.                                             *)

\* Every batch is stored.
StartDelete(i) ==
    /\ pc[i] = "next"
    /\ pos[i] = Len(feed[i])
    /\ Goto(i, "delete")
    /\ UNCHANGED <<table, holder, clock, update, delete, history>>

IsOutdated_NotNewer(i, p) ==
    rowVersion[p] \in 1 .. version[i] /\ live[p] /\ p > cursor[i]

\* Version.LT(version), DeletedAt.IS_NULL, ID.GT(previousID).
IsOutdated(i, p) ==
    rowVersion[p] \in 1 .. version[i] - 1 /\ live[p] /\ p > cursor[i]

Outdated(i) == {p \in Products : IsOutdated(i, p)}

FirstOutdated_Descending(i, page) ==
    /\ Range(page) \subseteq Outdated(i)
    /\ \A j, k \in DOMAIN page : j < k => page[j] > page[k]
    /\ \A p \in Outdated(i) \ Range(page) :
           Len(page) = BatchSize /\ \A q \in Range(page) : p < q

\* ORDER_BY(ID.ASC) LIMIT(batchSize).
FirstOutdated(i, page) ==
    /\ Range(page) \subseteq Outdated(i)
    /\ \A j, k \in DOMAIN page : j < k => page[j] < page[k]
    /\ \A p \in Outdated(i) \ Range(page) :
           Len(page) = BatchSize /\ \A q \in Range(page) : q < p

SelectOutdated_NoCursor(i) ==
    /\ pc[i] = "delete" /\ sel[i] = "select"
    /\ \E page \in SeqOf(Products, BatchSize) :
        /\ FirstOutdated(i, page)
        /\ ids' = [ids EXCEPT ![i] = page]
        /\ sel' = [sel EXCEPT ![i] = IF page = <<>> THEN "done" ELSE "send"]
    /\ UNCHANGED <<table, holder, clock, pc, update, cursor, del, doomed, groupErr,
                   removed, reported, history>>

SelectOutdated(i) ==
    /\ pc[i] = "delete" /\ sel[i] = "select"
    /\ \E page \in SeqOf(Products, BatchSize) :
        /\ FirstOutdated(i, page)
        /\ ids' = [ids EXCEPT ![i] = page]
        /\ sel' = [sel EXCEPT ![i] = IF page = <<>> THEN "done" ELSE "send"]
        /\ cursor' = [cursor EXCEPT ![i] = IF page = <<>> THEN @ ELSE Last(page)]
    /\ UNCHANGED <<table, holder, clock, pc, update, del, doomed, groupErr,
                   removed, reported, history>>

SelectEnds(i, e) ==
    /\ pc[i] = "delete" /\ sel[i] = "select"
    /\ sel' = [sel EXCEPT ![i] = "done"]
    /\ groupErr' = [groupErr EXCEPT ![i] = e]
    /\ UNCHANGED <<table, holder, clock, pc, update, del, ids, cursor, doomed,
                   removed, reported, history>>

\* The SELECT fails after it has returned rows: the error is returned.
SelectFails(i) == "database" \in Faults /\ SelectEnds(i, TRUE)

\* It fails without a row, as it does when the errgroup's context is done: this
\* is taken for the end, since len(products) is tested before err.
SelectSwallowed(i) ==
    /\ "select" \in Faults \/ groupErr[i]
    /\ SelectEnds(i, groupErr[i])

\* toDelete <- ids meets the range of deleteProductsAsync.  The ids are passed in
\* order; the UPDATE locks their rows in the order its scan finds them.
SendIds(i) ==
    /\ pc[i] = "delete" /\ sel[i] = "send" /\ del[i] = "range"
    /\ sel' = [sel EXCEPT ![i] = "select"]
    /\ del' = [del EXCEPT ![i] = "update"]
    /\ doomed' = [doomed EXCEPT ![i] = ids[i]]
    /\ \E order \in SetToSeqs(Range(ids[i])) : todo' = [todo EXCEPT ![i] = order]
    /\ ids' = [ids EXCEPT ![i] = <<>>]
    /\ UNCHANGED <<table, holder, clock, pc, version, feed, pos, lists, cursor,
                   groupErr, removed, reported, history>>

\* getOutdatedProductsAsync's select picks ctx.Done.
SendCancelled(i) ==
    /\ pc[i] = "delete" /\ sel[i] = "send"
    /\ groupErr[i]
    /\ sel' = [sel EXCEPT ![i] = "done"]
    /\ UNCHANGED <<table, holder, clock, pc, update, del, ids, cursor, doomed,
                   groupErr, removed, reported, history>>

\* What the UPDATE leaves, on a connection of its own: committed whatever comes
\* later.  Its condition is the id alone, so the rows are marked whatever version
\* they have by now.
MarkDeleted(i) ==
    /\ pc[i] = "delete" /\ del[i] = "update" /\ todo[i] = <<>>
    /\ live' = [p \in Products |-> p \notin Range(doomed[i]) /\ live[p]]
    /\ marked' = [marked EXCEPT ![i] = @ \cup {p \in Range(doomed[i]) : live[p]}]
    /\ Release(i)
    /\ doomed' = [doomed EXCEPT ![i] = <<>>]
    /\ UNCHANGED <<rowVersion, shipped, clock, pc, update, sel, ids, cursor, reported, starts>>

UpdateDeleted(i) ==
    /\ MarkDeleted(i)
    /\ removed' = [removed EXCEPT ![i] = @ + Len(doomed[i])]
    /\ del' = [del EXCEPT ![i] = "range"]
    /\ UNCHANGED groupErr

\* The server has done the UPDATE and the reply is lost, or the errgroup's context
\* is done before it arrives: for DeleteOldProducts it failed.
UpdateLost(i) ==
    /\ "database" \in Faults \/ groupErr[i]
    /\ MarkDeleted(i)
    /\ del' = [del EXCEPT ![i] = "done"]
    /\ groupErr' = [groupErr EXCEPT ![i] = TRUE]
    /\ UNCHANGED removed

\* The UPDATE fails, and with it DeleteOldProducts.
UpdateError(i) ==
    /\ pc[i] = "delete" /\ del[i] = "update"
    /\ Release(i)
    /\ todo' = [todo EXCEPT ![i] = <<>>]
    /\ doomed' = [doomed EXCEPT ![i] = <<>>]
    /\ del' = [del EXCEPT ![i] = "done"]
    /\ groupErr' = [groupErr EXCEPT ![i] = TRUE]
    /\ UNCHANGED <<table, clock, pc, version, feed, pos, lists, sel, ids, cursor,
                   removed, reported, history>>

UpdateFails(i) == "database" \in Faults /\ UpdateError(i)

\* The errgroup's context is done, or Postgres aborts the UPDATE.
AbortUpdate(i) == (groupErr[i] \/ InDeadlock(i)) /\ UpdateError(i)

\* toDelete is closed.
RangeEnds(i) ==
    /\ pc[i] = "delete" /\ sel[i] = "done" /\ del[i] = "range"
    /\ del' = [del EXCEPT ![i] = "done"]
    /\ UNCHANGED <<table, holder, clock, pc, update, sel, ids, cursor, doomed,
                   groupErr, removed, reported, history>>

\* Both goroutines have returned: DeleteOldProducts returns its count, or 0 and
\* the error (its own transaction, which did nothing, may also fail to commit).
EndDelete(i) ==
    /\ pc[i] = "delete" /\ sel[i] = "done" /\ del[i] = "done"
    /\ \/ /\ ~groupErr[i]
          /\ reported' = [reported EXCEPT ![i] = removed[i]]
          /\ Goto(i, "ok")
       \/ /\ groupErr[i] \/ "database" \in Faults
          /\ Goto(i, "failed")
          /\ UNCHANGED reported
    /\ UNCHANGED <<table, holder, clock, update, sel, del, ids, cursor, doomed,
                   groupErr, removed, history>>

Update(i) == CompareProducts(i) \/ DuplicateInBatch(i) \/ AbortTx(i) \/ Commit(i)
Delete(i) == StartDelete(i) \/ SelectOutdated(i) \/ SelectSwallowed(i) \/ SendIds(i)
             \/ SendCancelled(i) \/ UpdateDeleted(i) \/ AbortUpdate(i)
             \/ RangeEnds(i) \/ EndDelete(i)
Import(i) == LockRow(i) \/ Update(i) \/ Delete(i)
Fault(i)  == ParseFails(i) \/ TxFails(i) \/ CommitLost(i) \/ SelectFails(i) \/ UpdateFails(i)
             \/ UpdateLost(i)
Start(i)  == Timestamp(i) \/ \E f \in Feeds : StartRun(i, f)

Next == Tick \/ \E i \in Importers : Start(i) \/ Import(i) \/ Fault(i)

Spec == Init /\ [][Next]_vars

\* The database answers, ends deadlocks, and goroutines are scheduled.  No fault
\* is relied on.
FairSpec == Spec /\ \A i \in Importers : WF_vars(Import(i))

-----------------------------------------------------------------------------
(* Properties.                                                             *)

\* Type invariant of the tables and of every import.
TypeOK ==
    /\ rowVersion \in [Products -> 0 .. MaxClock]
    /\ live \in [Products -> BOOLEAN]
    /\ shipped \in [Products -> 0 .. MaxClock]
    /\ holder \in [Products -> Importers \cup {None}]
    /\ clock \in 1 .. MaxClock
    /\ pc \in [Importers -> {"new", "stamped", "next", "upsert", "delete", "ok", "failed"}]
    /\ version \in [Importers -> 0 .. MaxClock]
    /\ feed \in [Importers -> Feeds \cup {<<>>}]
    /\ pos \in [Importers -> Nat]
    /\ \A i \in Importers : pos[i] <= Len(feed[i])
    /\ lists \in [Importers -> [new : SUBSET Item, updated : SUBSET Item]]
    /\ todo \in [Importers -> Seq(Products)]
    /\ ids \in [Importers -> Seq(Products)]
    /\ doomed \in [Importers -> Seq(Products)]
    /\ sel \in [Importers -> {"select", "send", "done"}]
    /\ del \in [Importers -> {"range", "update", "done"}]
    /\ cursor \in [Importers -> Products \cup {0}]
    /\ groupErr \in [Importers -> BOOLEAN]
    /\ removed \in [Importers -> Nat]
    /\ reported \in [Importers -> Nat]
    /\ newer \in [Importers -> SUBSET Products]
    /\ met \in [Importers -> SUBSET Importers]
    /\ marked \in [Importers -> SUBSET Products]

\* No other import was active while import i was.
Sole(i) == met[i] = {}

\* Import i succeeds, and had the shop to itself.
Succeeds(i) == pc[i] = "delete" /\ pc'[i] = "ok" /\ Sole(i)

\* An import that overlaps with import i has written the row.
Overtaken(i, p) == \E j \in met[i] : version[j] = rowVersion[p]

\* README.md:9: when an import succeeds, the live products are exactly those of its
\* feed, with its version.  Left out are the rows that already had this version or a
\* later one, for Timestamp is read before StartRun (parser.go:91-94), and the rows
\* that LIMIT 0 never selects (postgres.go:362).
SyncOnSuccess ==
    [][\A i \in Importers : Succeeds(i) =>
        \A p \in Products \ newer[i] :
            /\ p \in ProductsOf(Range(feed[i])) => live[p] /\ rowVersion[p] = version[i]
            /\ live[p] => p \in ProductsOf(Range(feed[i])) \/ BatchSize = 0]_vars

\* The same import leaves the feed's shippings with each product that has some
\* (postgres.go:128-134).
ShippingsStored ==
    [][\A i \in Importers : Succeeds(i) =>
        \A p \in Ships(Range(feed[i])) \ newer[i] :
            (\A item \in Range(feed[i]) : item.product = p => item.ships)
                => shipped[p] = version[i]]_vars

\* README.md:9, init.sql:34: a row is written or revived only by an import with a
\* higher version, an older import that runs later included; or else by one that an
\* overlapping import overtook between its comparison and its commit, which may
\* lower the version (postgres.go:118, 209).
VersionsGrow ==
    [][\A p \in Products :
        rowVersion'[p] # rowVersion[p] \/ shipped'[p] # shipped[p] \/ (live'[p] /\ ~live[p]) =>
            \E i \in Importers : /\ pc[i] = "upsert" /\ pc'[i] # "upsert"
                                /\ rowVersion'[p] = version[i]
                                /\ (rowVersion[p] < version[i] \/ Overtaken(i, p))]_vars

\* postgres.go:148: a row is marked only by an import with a higher version, or by
\* one that an overlapping import overtook between its SELECT and its UPDATE
\* (postgres.go:353, 401); a row of its own feed only if there was such an overlap.
DeletesOnlyOutdated ==
    [][\A p \in Products : live[p] /\ ~live'[p] =>
        \E i \in Importers : /\ pc[i] = "delete" /\ doomed'[i] # doomed[i]
                            /\ (rowVersion[p] < version[i] \/ Overtaken(i, p))
                            /\ (p \in ProductsOf(Range(feed[i])) => ~Sole(i))]_vars

\* init.sql:36: a successful import reports each product it deleted once,
\* although pages are selected while earlier ones are still being marked
\* (postgres.go:359, 378).  One that fails reports none of those it marked
\* (postgres.go:172-174).
DeletedIsExact ==
    [][\A i \in Importers : Succeeds(i) => reported'[i] = Cardinality(marked[i])]_vars

\* Imports that overlap on the same rows do not block each other for ever: a
\* transaction that fails, for whatever reason, leaves no row locked.
ImportsEnd == \A i \in Importers : Active(i) ~> Ended(i)

\* postgres.go:148: after a successful import no product with a lower version
\* is live.
OutdatedAreDeleted ==
    [][\A i \in Importers : Succeeds(i) =>
        \A p \in Products : live[p] => rowVersion[p] >= version[i]]_vars

\* postgres.go:103: products are upserted with their shippings.  A product that
\* was upserted has no shippings of an older import.
ShippingsFollowProduct ==
    [][\A i \in Importers : pc[i] = "upsert" /\ pc'[i] = "next" /\ Sole(i) =>
        \A p \in Written(i) : shipped'[p] \in {0, version[i]}]_vars
=============================================================================
