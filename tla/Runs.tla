-------------------------------- MODULE Runs --------------------------------
(***************************************************************************)
(* The life of a parsing run: Parser.Parse around Postgres.StartRun and    *)
(* Postgres.FinishRun, by workers that share one database.                 *)
(*                                                                         *)
(* A worker is one replica of the service: its consumer handles a command  *)
(* at a time.  StartRun is a transaction at Postgres' default isolation,   *)
(* READ COMMITTED: each of its statements is a step that sees what is      *)
(* committed and what the transaction itself wrote.                        *)
(*                                                                         *)
(* run.created_at is now(), the start of the inserting transaction.  Here  *)
(* it is the number of that transaction, which also names the row: ids are *)
(* only ever compared for equality.                                        *)
(***************************************************************************)
EXTENDS Integers

CONSTANTS Workers,    \* replicas of the service
          Shops,      \* shop URLs commands may name
          MaxBegins,  \* bound: StartRun transactions ever begun
          Faults      \* what the environment may do to a worker

ASSUME RunsAssumption ==
    /\ MaxBegins \in Nat
    /\ Faults \subseteq {"crash", "shutdown", "database"}

Stamps  == 1 .. MaxBegins
States  == {"running", "ok", "failed"}
Row     == [shop : Shops, state : States]
TxPcs   == {"getShop", "insertShop", "getLastRun", "insertRun", "commit"}
RunPcs  == {"work", "finish"}

VARIABLES
    shops,      \* table shop: the committed urls
    runs,       \* table run: created_at -> committed row
    clock,      \* transactions begun so far
    pc,         \* where each worker is in Parse
    shopOf,     \* Parse's shopURL
    stamp,      \* now() of the worker's StartRun transaction
    newShop,    \* the open transaction has inserted the shop
    outcome,    \* finishParsing: IsSuccess
    cancelled   \* the worker's context is done

vars == <<shops, runs, clock, pc, shopOf, stamp, newShop, outcome, cancelled>>

Init ==
    /\ shops = {}
    /\ runs = [r \in {} |-> {}]
    /\ clock = 0
    /\ pc = [w \in Workers |-> "idle"]
    /\ shopOf \in [Workers -> Shops]
    /\ stamp = [w \in Workers |-> 0]
    /\ newShop = [w \in Workers |-> FALSE]
    /\ outcome = [w \in Workers |-> "failed"]
    /\ cancelled = [w \in Workers |-> FALSE]

Goto(w, l) == pc' = [pc EXCEPT ![w] = l]

\* A call to the database may succeed, or may fail: always once the context is
\* done, and at any time if the database is at fault.
CallOk(w)   == ~cancelled[w]
CallFails(w) == cancelled[w] \/ "database" \in Faults

-----------------------------------------------------------------------------
(* Postgres.StartRun.                                                      *)

\* The handler calls Parse with the shop of a command, and StartRun begins its
\* transaction.  When BeginTx fails Parse returns and nothing has happened.
Parse(w, s) ==
    /\ pc[w] = "idle" /\ CallOk(w)
    /\ clock < MaxBegins
    /\ clock' = clock + 1
    /\ shopOf' = [shopOf EXCEPT ![w] = s]
    /\ stamp' = [stamp EXCEPT ![w] = clock + 1]
    /\ Goto(w, "getShop")
    /\ UNCHANGED <<shops, runs, newShop, outcome, cancelled>>

\* The transaction is rolled back and Parse returns an error.
Rollback(w) ==
    /\ Goto(w, "idle")
    /\ newShop' = [newShop EXCEPT ![w] = FALSE]
    /\ UNCHANGED <<shops, runs, clock, shopOf, stamp, outcome, cancelled>>

GetShop(w) ==
    /\ pc[w] = "getShop" /\ CallOk(w)
    /\ Goto(w, IF shopOf[w] \in shops THEN "getLastRun" ELSE "insertShop")
    /\ UNCHANGED <<shops, runs, clock, shopOf, stamp, newShop, outcome, cancelled>>

\* Another transaction holds an uncommitted row with the same url.
UrlLocked(w) == \E v \in Workers \ {w} : newShop[v] /\ shopOf[v] = shopOf[w]

InsertShop_OutsideTx(w) ==
    /\ pc[w] = "insertShop" /\ CallOk(w)
    /\ shops' = shops \cup {shopOf[w]}
    /\ Goto(w, "getLastRun")
    /\ UNCHANGED <<runs, clock, shopOf, stamp, newShop, outcome, cancelled>>

InsertShop_NoConflict(w) ==
    /\ pc[w] = "insertShop" /\ CallOk(w)
    /\ shopOf[w] \notin shops /\ ~UrlLocked(w)
    /\ newShop' = [newShop EXCEPT ![w] = TRUE]
    /\ Goto(w, "getLastRun")
    /\ UNCHANGED <<shops, runs, clock, shopOf, stamp, outcome, cancelled>>

InsertShop_NotUnique(w) ==
    /\ pc[w] = "insertShop" /\ CallOk(w)
    /\ newShop' = [newShop EXCEPT ![w] = TRUE]
    /\ Goto(w, "getLastRun")
    /\ UNCHANGED <<shops, runs, clock, shopOf, stamp, outcome, cancelled>>

\* INSERT INTO shop: waits for a transaction that is inserting the same url,
\* then fails on unique_shop_url if that one committed.
InsertShop(w) ==
    /\ pc[w] = "insertShop" /\ CallOk(w)
    /\ \/ /\ shopOf[w] \in shops
          /\ Rollback(w)
       \/ /\ shopOf[w] \notin shops /\ ~UrlLocked(w)
          /\ newShop' = [newShop EXCEPT ![w] = TRUE]
          /\ Goto(w, "getLastRun")
          /\ UNCHANGED <<shops, runs, clock, shopOf, stamp, outcome, cancelled>>

RunsOf(s) == {r \in DOMAIN runs : runs[r].shop = s}

IsLast_Oldest(r, s) == r \in RunsOf(s) /\ \A q \in RunsOf(s) : r <= q

\* ORDER BY created_at DESC LIMIT 1.
IsLast(r, s) == r \in RunsOf(s) /\ \A q \in RunsOf(s) : q <= r

AlreadyRunning(s) == \E r \in RunsOf(s) : IsLast(r, s) /\ runs[r].state = "running"

\* getLastRun and the test of its result.
GetLastRun(w) ==
    /\ pc[w] = "getLastRun" /\ CallOk(w)
    /\ \/ /\ AlreadyRunning(shopOf[w])
          /\ Rollback(w)
       \/ /\ ~AlreadyRunning(shopOf[w])
          /\ Goto(w, "insertRun")
          /\ UNCHANGED <<shops, runs, clock, shopOf, stamp, newShop, outcome, cancelled>>

\* INSERT INTO run, uncommitted: no other worker sees it yet.
InsertRun(w) ==
    /\ pc[w] = "insertRun" /\ CallOk(w)
    /\ Goto(w, "commit")
    /\ UNCHANGED <<shops, runs, clock, shopOf, stamp, newShop, outcome, cancelled>>

NewRow_NoState(s) == [shop |-> s, state |-> "new"]
NewRow(s) == [shop |-> s, state |-> "running"]

\* What the committed transaction leaves in the tables.
Publish(w) ==
    /\ shops' = IF newShop[w] THEN shops \cup {shopOf[w]} ELSE shops
    /\ runs' = [r \in DOMAIN runs \cup {stamp[w]} |->
                    IF r = stamp[w] THEN NewRow(shopOf[w]) ELSE runs[r]]
    /\ newShop' = [newShop EXCEPT ![w] = FALSE]

CommitTx(w) ==
    /\ pc[w] = "commit" /\ CallOk(w)
    /\ Publish(w)
    /\ Goto(w, "work")
    /\ UNCHANGED <<clock, shopOf, stamp, outcome, cancelled>>

\* The server commits and the reply is lost: StartRun returns an error, and
\* Parse returns it without finishing the run (parser.go:94-97).
CommitLost(w) ==
    /\ pc[w] = "commit" /\ CallOk(w)
    /\ "database" \in Faults
    /\ Publish(w)
    /\ Goto(w, "idle")
    /\ UNCHANGED <<clock, shopOf, stamp, outcome, cancelled>>

\* A statement of StartRun fails.
StartFails(w) ==
    /\ pc[w] \in TxPcs /\ CallFails(w)
    /\ Rollback(w)

-----------------------------------------------------------------------------
(* The rest of Parse.                                                      *)

\* Fetching, parsing and deleting end, and finishParsing gets their status.
\* Success needs the last of their calls to have been made in time.
EndWork(w) ==
    /\ pc[w] = "work"
    /\ \/ /\ ~cancelled[w]
          /\ outcome' = [outcome EXCEPT ![w] = "ok"]
       \/ outcome' = [outcome EXCEPT ![w] = "failed"]
    /\ Goto(w, "finish")
    /\ UNCHANGED <<shops, runs, clock, shopOf, stamp, newShop, cancelled>>

ToFinish_ByShop(w) == RunsOf(shopOf[w])

\* WHERE run.id = ...
ToFinish(w) == {stamp[w]}

\* Postgres.FinishRun: one UPDATE, committed by itself.
FinishRun(w) ==
    /\ pc[w] = "finish" /\ CallOk(w)
    /\ runs' = [r \in DOMAIN runs |->
                    IF r \in ToFinish(w) THEN [runs[r] EXCEPT !.state = outcome[w]]
                                         ELSE runs[r]]
    /\ Goto(w, "idle")
    /\ UNCHANGED <<shops, clock, shopOf, stamp, newShop, outcome, cancelled>>

\* The UPDATE fails: finishParsing only reports it (parser.go:247-254).
FinishFails(w) ==
    /\ pc[w] = "finish" /\ CallFails(w)
    /\ Goto(w, "idle")
    /\ UNCHANGED <<shops, runs, clock, shopOf, stamp, newShop, outcome, cancelled>>

-----------------------------------------------------------------------------
(* The environment.                                                        *)

\* SIGTERM: main cancels the context all of Parse runs under.
Shutdown(w) ==
    /\ "shutdown" \in Faults
    /\ ~cancelled[w]
    /\ cancelled' = [cancelled EXCEPT ![w] = TRUE]
    /\ UNCHANGED <<shops, runs, clock, pc, shopOf, stamp, newShop, outcome>>

\* The process that was shut down is replaced.
Restart(w) ==
    /\ cancelled[w] /\ pc[w] = "idle"
    /\ cancelled' = [cancelled EXCEPT ![w] = FALSE]
    /\ UNCHANGED <<shops, runs, clock, pc, shopOf, stamp, newShop, outcome>>

\* The process dies, is replaced, and Postgres rolls its transaction back.
Crash(w) ==
    /\ "crash" \in Faults
    /\ pc[w] # "idle"
    /\ Goto(w, "idle")
    /\ newShop' = [newShop EXCEPT ![w] = FALSE]
    /\ cancelled' = [cancelled EXCEPT ![w] = FALSE]
    /\ UNCHANGED <<shops, runs, clock, shopOf, stamp, outcome>>

StartStep(w) == GetShop(w) \/ InsertShop(w) \/ GetLastRun(w)
                \/ InsertRun(w) \/ CommitTx(w) \/ CommitLost(w) \/ StartFails(w)
Step(w) == StartStep(w) \/ EndWork(w) \/ FinishRun(w) \/ FinishFails(w)
Command(w) == \E s \in Shops : Parse(w, s)
Environment(w) == Shutdown(w) \/ Restart(w) \/ Crash(w)

Next == \E w \in Workers : Command(w) \/ Step(w) \/ Environment(w)

Spec == Init /\ [][Next]_vars

\* A worker inside Parse keeps going: fetching and decoding end (Pipeline,
\* http.Client.Timeout), the database answers, and a call under a context that
\* is done fails.  No fault of the database is relied on.
Progress(w) ==
    \/ GetShop(w) \/ InsertShop(w) \/ GetLastRun(w) \/ InsertRun(w) \/ CommitTx(w)
    \/ EndWork(w) \/ FinishRun(w)
    \/ cancelled[w] /\ (StartFails(w) \/ FinishFails(w))

FairSpec == Spec /\ \A w \in Workers : WF_vars(Progress(w))

-----------------------------------------------------------------------------
(* Properties.                                                             *)

\* Type invariant of the two tables and of the workers.
TypeOK ==
    /\ shops \subseteq Shops
    /\ DOMAIN runs \subseteq Stamps
    /\ \A r \in DOMAIN runs : runs[r] \in Row
    /\ clock \in 0 .. MaxBegins
    /\ pc \in [Workers -> {"idle"} \cup TxPcs \cup RunPcs]
    /\ shopOf \in [Workers -> Shops]
    /\ stamp \in [Workers -> 0 .. MaxBegins]
    /\ newShop \in [Workers -> BOOLEAN]
    /\ outcome \in [Workers -> States \ {"running"}]
    /\ cancelled \in [Workers -> BOOLEAN]

Running(r) == r \in DOMAIN runs /\ runs[r].state = "running"
Owns(w, r) == pc[w] \in RunPcs /\ stamp[w] = r
Orphan(r) == Running(r) /\ \A w \in Workers : ~Owns(w, r)

\* Between StartRun and FinishRun a worker's run is in the table, for its shop
\* and unfinished: no other worker ever finishes it (postgres.go:88-90), however
\* many overlap.
OwnRunIsRunning ==
    \A w \in Workers : pc[w] \in RunPcs =>
        stamp[w] \in DOMAIN runs /\ runs[stamp[w]] = NewRow(shopOf[w])

\* StartRun commits a new shop and its first run together or not at all: a shop
\* is in the database exactly when it has a run (postgres.go:43-76).
ShopsHaveRuns == shops = {runs[r].shop : r \in DOMAIN runs}

\* A finished run keeps its outcome: it is never reopened, finished again or
\* removed (postgres.go:85-101).
FinishedIsFinal ==
    [][\A r \in DOMAIN runs : ~Running(r) =>
            r \in DOMAIN runs' /\ runs'[r] = runs[r]]_vars

\* A run no worker owns stays unfinished for good: nothing in the service
\* finishes the run of a process that crashed or was shut down.
OrphanIsForever == [][\A r \in Stamps : Orphan(r) => Orphan(r)']_vars

\* While an orphan is unfinished its shop gets no new run, so its feed is never
\* imported again.  With one worker: the test of StartRun looks at the last run
\* only (postgres.go:51-59), which with more need not be the orphan.
OrphanBlocksShop ==
    [][\A r, q \in Stamps :
        Orphan(r) /\ q \in DOMAIN runs' \ DOMAIN runs => runs'[q].shop # runs[r].shop]_vars

\* The first run of a shop is exclusive: unique_shop_url (init.sql:8) keeps every
\* other StartRun of the shop before its look at the runs, as long as the
\* transaction that inserted the shop is open.
FirstStartIsExclusive ==
    \A v, w \in Workers :
        newShop[w] /\ v # w /\ shopOf[v] = shopOf[w] =>
            pc[v] \notin {"getLastRun", "insertRun", "commit"}

\* README.md:7: parsing starts only if no other parsing is performed for the
\* shop at the same time.
AtMostOneRunning ==
    \A q, r \in DOMAIN runs :
        Running(q) /\ Running(r) /\ runs[q].shop = runs[r].shop => q = r

\* main.go:82: a graceful shutdown.  Every unfinished run has a worker that
\* will finish it.
NoOrphan == \A r \in Stamps : ~Orphan(r)

\* Parse returns, faults or not: in particular a StartRun that waits for the
\* insertion of the same shop does not wait for ever.
ParseReturns == \A w \in Workers : pc[w] # "idle" ~> pc[w] = "idle"
=============================================================================
