----------------------------- MODULE RunsProofs -----------------------------
(***************************************************************************)
(* Proofs about Runs, for every set of workers and shops, every bound and  *)
(* every choice of faults.                                                 *)
(***************************************************************************)
EXTENDS Runs, TLAPS

\* StartRun, past the point where it has a shop.
HasShopPcs == {"getLastRun", "insertRun", "commit"}

\* created_at is in the past, and a row that StartRun has not committed is not
\* in the table.
StampsArePast ==
    /\ \A r \in DOMAIN runs : r <= clock
    /\ \A w \in Workers : stamp[w] <= clock
    /\ \A w \in Workers : pc[w] # "idle" => stamp[w] \in Stamps
    /\ \A w \in Workers : pc[w] \in TxPcs => stamp[w] \notin DOMAIN runs

\* Two workers inside Parse have runs of their own.
StampsDiffer ==
    \A v, w \in Workers :
        pc[v] # "idle" /\ pc[w] # "idle" /\ v # w => stamp[v] # stamp[w]

\* StartRun has its shop from the table or has inserted it, and what it has
\* inserted is not in the table.
ShopIsKnown ==
    \A w \in Workers :
        /\ pc[w] \in HasShopPcs => newShop[w] \/ shopOf[w] \in shops
        /\ newShop[w] => pc[w] \in HasShopPcs /\ shopOf[w] \notin shops

StampInv == StampsArePast /\ StampsDiffer
ShopInv  == ShopIsKnown /\ FirstStartIsExclusive /\ ShopsHaveRuns

\* The inductive invariant.
IInv == TypeOK /\ StampInv /\ OwnRunIsRunning /\ ShopInv

-----------------------------------------------------------------------------
(* Type correctness.                                                       *)

\* A committed StartRun leaves well-typed tables (postgres.go:61-76).
LEMMA PublishTyped ==
    ASSUME TypeOK, NEW w \in Workers, stamp[w] \in Stamps, Publish(w)
    PROVE  /\ shops' \subseteq Shops
           /\ DOMAIN runs' \subseteq Stamps
           /\ \A r \in DOMAIN runs' : runs'[r] \in Row
           /\ newShop' \in [Workers -> BOOLEAN]
  BY DEF TypeOK, Publish, NewRow, Row, States

\* Every step keeps the types.
LEMMA TypingStep == IInv /\ [Next]_vars => TypeOK'
<1> SUFFICES ASSUME IInv, [Next]_vars PROVE TypeOK'
  OBVIOUS
<1> USE RunsAssumption DEF IInv, TypeOK, TxPcs, RunPcs, States, Stamps, Row
<1>1. ASSUME NEW w \in Workers, NEW s \in Shops, Parse(w, s) PROVE TypeOK'
  BY <1>1 DEF Parse, CallOk, Goto
<1>2. ASSUME NEW w \in Workers, GetShop(w) PROVE TypeOK'
  BY <1>2 DEF GetShop, Goto
<1>3. ASSUME NEW w \in Workers, InsertShop(w) PROVE TypeOK'
  BY <1>3 DEF InsertShop, Rollback, UrlLocked, Goto
<1>4. ASSUME NEW w \in Workers, GetLastRun(w) PROVE TypeOK'
  BY <1>4 DEF GetLastRun, Rollback, Goto
<1>5. ASSUME NEW w \in Workers, InsertRun(w) PROVE TypeOK'
  BY <1>5 DEF InsertRun, Goto
<1>6. ASSUME NEW w \in Workers, CommitTx(w) PROVE TypeOK'
  <2>1. Publish(w) /\ stamp[w] \in Stamps
    BY <1>6 DEF CommitTx, StampInv, StampsArePast
  <2>2. QED
    BY <1>6, <2>1, PublishTyped DEF CommitTx, Goto
<1>7. ASSUME NEW w \in Workers, CommitLost(w) PROVE TypeOK'
  <2>1. Publish(w) /\ stamp[w] \in Stamps
    BY <1>7 DEF CommitLost, StampInv, StampsArePast
  <2>2. QED
    BY <1>7, <2>1, PublishTyped DEF CommitLost, Goto
<1>8. ASSUME NEW w \in Workers, StartFails(w) PROVE TypeOK'
  BY <1>8 DEF StartFails, Rollback, Goto
<1>9. ASSUME NEW w \in Workers, EndWork(w) PROVE TypeOK'
  BY <1>9 DEF EndWork, Goto
<1>10. ASSUME NEW w \in Workers, FinishRun(w) PROVE TypeOK'
  BY <1>10 DEF FinishRun, ToFinish, Goto
<1>11. ASSUME NEW w \in Workers, FinishFails(w) PROVE TypeOK'
  BY <1>11 DEF FinishFails, Goto
<1>12. ASSUME NEW w \in Workers, Shutdown(w) PROVE TypeOK'
  BY <1>12 DEF Shutdown, Goto
<1>13. ASSUME NEW w \in Workers, Restart(w) PROVE TypeOK'
  BY <1>13 DEF Restart, Goto
<1>14. ASSUME NEW w \in Workers, Crash(w) PROVE TypeOK'
  BY <1>14 DEF Crash, Goto
<1>15. CASE UNCHANGED vars
  BY <1>15 DEF vars
<1>16. QED
  BY <1>1, <1>2, <1>3, <1>4, <1>5, <1>6, <1>7, <1>8,
     <1>9, <1>10, <1>11, <1>12, <1>13, <1>14, <1>15
  DEF Next, Command, Step, StartStep, Environment

\* Every step keeps stamps past and distinct.
LEMMA StampsStep == IInv /\ [Next]_vars => StampInv'
<1> SUFFICES ASSUME IInv, [Next]_vars PROVE StampInv'
  OBVIOUS
<1> USE RunsAssumption DEF IInv, StampInv, TypeOK, StampsArePast, StampsDiffer, TxPcs, Stamps
<1>1. ASSUME NEW w \in Workers, NEW s \in Shops, Parse(w, s) PROVE StampInv'
  BY <1>1 DEF Parse, CallOk, Goto
<1>2. ASSUME NEW w \in Workers, GetShop(w) PROVE StampInv'
  BY <1>2 DEF GetShop, Goto
<1>3. ASSUME NEW w \in Workers, InsertShop(w) PROVE StampInv'
  BY <1>3 DEF InsertShop, Rollback, UrlLocked, Goto
<1>4. ASSUME NEW w \in Workers, GetLastRun(w) PROVE StampInv'
  BY <1>4 DEF GetLastRun, Rollback, Goto
<1>5. ASSUME NEW w \in Workers, InsertRun(w) PROVE StampInv'
  BY <1>5 DEF InsertRun, Goto
<1>6. ASSUME NEW w \in Workers, CommitTx(w) PROVE StampInv'
  BY <1>6 DEF CommitTx, Publish, NewRow, Goto
<1>7. ASSUME NEW w \in Workers, CommitLost(w) PROVE StampInv'
  BY <1>7 DEF CommitLost, Publish, NewRow, Goto
<1>8. ASSUME NEW w \in Workers, StartFails(w) PROVE StampInv'
  BY <1>8 DEF StartFails, Rollback, Goto
<1>9. ASSUME NEW w \in Workers, EndWork(w) PROVE StampInv'
  BY <1>9 DEF EndWork, Goto
<1>10. ASSUME NEW w \in Workers, FinishRun(w) PROVE StampInv'
  BY <1>10 DEF FinishRun, ToFinish, Goto
<1>11. ASSUME NEW w \in Workers, FinishFails(w) PROVE StampInv'
  BY <1>11 DEF FinishFails, Goto
<1>12. ASSUME NEW w \in Workers, Shutdown(w) PROVE StampInv'
  BY <1>12 DEF Shutdown, Goto
<1>13. ASSUME NEW w \in Workers, Restart(w) PROVE StampInv'
  BY <1>13 DEF Restart, Goto
<1>14. ASSUME NEW w \in Workers, Crash(w) PROVE StampInv'
  BY <1>14 DEF Crash, Goto
<1>15. CASE UNCHANGED vars
  BY <1>15 DEF vars
<1>16. QED
  BY <1>1, <1>2, <1>3, <1>4, <1>5, <1>6, <1>7, <1>8,
     <1>9, <1>10, <1>11, <1>12, <1>13, <1>14, <1>15
  DEF Next, Command, Step, StartStep, Environment

\* No step of one worker finishes the run of another (postgres.go:88-90).
LEMMA OwnRunStep == IInv /\ [Next]_vars => OwnRunIsRunning'
<1> SUFFICES ASSUME IInv, [Next]_vars PROVE OwnRunIsRunning'
  OBVIOUS
<1> USE RunsAssumption DEF IInv, StampInv, TypeOK, StampsArePast, StampsDiffer, OwnRunIsRunning,
       TxPcs, RunPcs, NewRow
<1>1. ASSUME NEW w \in Workers, NEW s \in Shops, Parse(w, s) PROVE OwnRunIsRunning'
  BY <1>1 DEF Parse, CallOk, Goto
<1>2. ASSUME NEW w \in Workers, GetShop(w) PROVE OwnRunIsRunning'
  BY <1>2 DEF GetShop, Goto
<1>3. ASSUME NEW w \in Workers, InsertShop(w) PROVE OwnRunIsRunning'
  BY <1>3 DEF InsertShop, Rollback, UrlLocked, Goto
<1>4. ASSUME NEW w \in Workers, GetLastRun(w) PROVE OwnRunIsRunning'
  BY <1>4 DEF GetLastRun, Rollback, Goto
<1>5. ASSUME NEW w \in Workers, InsertRun(w) PROVE OwnRunIsRunning'
  BY <1>5 DEF InsertRun, Goto
<1>6. ASSUME NEW w \in Workers, CommitTx(w) PROVE OwnRunIsRunning'
  BY <1>6 DEF CommitTx, Publish, NewRow, Goto
<1>7. ASSUME NEW w \in Workers, CommitLost(w) PROVE OwnRunIsRunning'
  BY <1>7 DEF CommitLost, Publish, NewRow, Goto
<1>8. ASSUME NEW w \in Workers, StartFails(w) PROVE OwnRunIsRunning'
  BY <1>8 DEF StartFails, Rollback, Goto
<1>9. ASSUME NEW w \in Workers, EndWork(w) PROVE OwnRunIsRunning'
  BY <1>9 DEF EndWork, Goto
<1>10. ASSUME NEW w \in Workers, FinishRun(w) PROVE OwnRunIsRunning'
  BY <1>10 DEF FinishRun, ToFinish, Goto
<1>11. ASSUME NEW w \in Workers, FinishFails(w) PROVE OwnRunIsRunning'
  BY <1>11 DEF FinishFails, Goto
<1>12. ASSUME NEW w \in Workers, Shutdown(w) PROVE OwnRunIsRunning'
  BY <1>12 DEF Shutdown, Goto
<1>13. ASSUME NEW w \in Workers, Restart(w) PROVE OwnRunIsRunning'
  BY <1>13 DEF Restart, Goto
<1>14. ASSUME NEW w \in Workers, Crash(w) PROVE OwnRunIsRunning'
  BY <1>14 DEF Crash, Goto
<1>15. CASE UNCHANGED vars
  BY <1>15 DEF vars
<1>16. QED
  BY <1>1, <1>2, <1>3, <1>4, <1>5, <1>6, <1>7, <1>8,
     <1>9, <1>10, <1>11, <1>12, <1>13, <1>14, <1>15
  DEF Next, Command, Step, StartStep, Environment

\* Every step keeps shops and their first runs together.
LEMMA ShopStep == IInv /\ [Next]_vars => ShopInv'
<1> SUFFICES ASSUME IInv, [Next]_vars PROVE ShopInv'
  OBVIOUS
<1> USE RunsAssumption DEF IInv, ShopInv, StampInv, TypeOK, StampsArePast, ShopIsKnown,
   FirstStartIsExclusive,
       ShopsHaveRuns, HasShopPcs, TxPcs, RunPcs
<1>1. ASSUME NEW w \in Workers, NEW s \in Shops, Parse(w, s) PROVE ShopInv'
  BY <1>1 DEF Parse, CallOk, Goto
<1>2. ASSUME NEW w \in Workers, GetShop(w) PROVE ShopInv'
  BY <1>2 DEF GetShop, Goto
<1>3. ASSUME NEW w \in Workers, InsertShop(w) PROVE ShopInv'
  BY <1>3 DEF InsertShop, Rollback, UrlLocked, Goto
<1>4. ASSUME NEW w \in Workers, GetLastRun(w) PROVE ShopInv'
  BY <1>4 DEF GetLastRun, Rollback, Goto
<1>5. ASSUME NEW w \in Workers, InsertRun(w) PROVE ShopInv'
  BY <1>5 DEF InsertRun, Goto
<1>6. ASSUME NEW w \in Workers, CommitTx(w) PROVE ShopInv'
  BY <1>6 DEF CommitTx, Publish, NewRow, Goto
<1>7. ASSUME NEW w \in Workers, CommitLost(w) PROVE ShopInv'
  BY <1>7 DEF CommitLost, Publish, NewRow, Goto
<1>8. ASSUME NEW w \in Workers, StartFails(w) PROVE ShopInv'
  BY <1>8 DEF StartFails, Rollback, Goto
<1>9. ASSUME NEW w \in Workers, EndWork(w) PROVE ShopInv'
  BY <1>9 DEF EndWork, Goto
<1>10. ASSUME NEW w \in Workers, FinishRun(w) PROVE ShopInv'
  BY <1>10 DEF FinishRun, ToFinish, Goto
<1>11. ASSUME NEW w \in Workers, FinishFails(w) PROVE ShopInv'
  BY <1>11 DEF FinishFails, Goto
<1>12. ASSUME NEW w \in Workers, Shutdown(w) PROVE ShopInv'
  BY <1>12 DEF Shutdown, Goto
<1>13. ASSUME NEW w \in Workers, Restart(w) PROVE ShopInv'
  BY <1>13 DEF Restart, Goto
<1>14. ASSUME NEW w \in Workers, Crash(w) PROVE ShopInv'
  BY <1>14 DEF Crash, Goto
<1>15. CASE UNCHANGED vars
  BY <1>15 DEF vars
<1>16. QED
  BY <1>1, <1>2, <1>3, <1>4, <1>5, <1>6, <1>7, <1>8,
     <1>9, <1>10, <1>11, <1>12, <1>13, <1>14, <1>15
  DEF Next, Command, Step, StartStep, Environment

-----------------------------------------------------------------------------
(* The invariant and what follows from it.                                 *)

\* The empty tables have every part of it.
LEMMA InitIInv == Init => IInv
  BY RunsAssumption DEF Init, IInv, TypeOK, StampInv, StampsArePast, StampsDiffer,
     OwnRunIsRunning, ShopInv, ShopIsKnown, FirstStartIsExclusive, ShopsHaveRuns,
     Stamps, States, RunPcs, TxPcs, HasShopPcs

\* IInv holds in every reachable state.
THEOREM Invariance == Spec => []IInv
<1>1. Init => IInv
  BY InitIInv
<1>2. IInv /\ [Next]_vars => IInv'
  BY TypingStep, StampsStep, OwnRunStep, ShopStep DEF IInv
<1>3. QED
  BY <1>1, <1>2, PTL DEF Spec

\* The tables and the workers keep their types.
THEOREM TypeCorrect == Spec => []TypeOK
<1>1. IInv => TypeOK
  BY DEF IInv
<1>2. QED
  BY <1>1, Invariance, PTL

\* However many workers overlap, crash or lose the database, a run that its
\* worker will finish is in the table, unfinished (postgres.go:88-90).
THEOREM OwnRunSafe == Spec => []OwnRunIsRunning
<1>1. IInv => OwnRunIsRunning
  BY DEF IInv
<1>2. QED
  BY <1>1, Invariance, PTL

\* A shop and its first run are committed together (postgres.go:43-76).
THEOREM ShopsAlwaysHaveRuns == Spec => []ShopsHaveRuns
<1>1. IInv => ShopsHaveRuns
  BY DEF IInv, ShopInv
<1>2. QED
  BY <1>1, Invariance, PTL

\* unique_shop_url makes the first StartRun of a shop exclusive, whatever the
\* number of workers (postgres.go:288-290, 303-310).
THEOREM FirstStartExclusive == Spec => []FirstStartIsExclusive
<1>1. IInv => FirstStartIsExclusive
  BY DEF IInv, ShopInv
<1>2. QED
  BY <1>1, Invariance, PTL

\* No step changes a finished run: FinishRun writes one row, and it is the
\* worker's own, which is unfinished (postgres.go:85-101).
THEOREM FinishedStaysFinal == Spec => FinishedIsFinal
<1>1. IInv /\ [Next]_vars =>
        [\A r \in DOMAIN runs : ~Running(r) => r \in DOMAIN runs' /\ runs'[r] = runs[r]]_vars
  <2> SUFFICES ASSUME IInv, Next, NEW r \in DOMAIN runs, ~Running(r)
               PROVE  r \in DOMAIN runs' /\ runs'[r] = runs[r]
    BY DEF vars
  <2>1. CASE UNCHANGED runs
    BY <2>1
  <2>2. ASSUME NEW w \in Workers, stamp[w] \notin DOMAIN runs, Publish(w)
        PROVE  r \in DOMAIN runs' /\ runs'[r] = runs[r]
    BY <2>2 DEF Publish
  <2>3. ASSUME NEW w \in Workers, FinishRun(w)
        PROVE  r \in DOMAIN runs' /\ runs'[r] = runs[r]
    <3>1. runs[stamp[w]] = [shop |-> shopOf[w], state |-> "running"]
      BY <2>3 DEF FinishRun, IInv, OwnRunIsRunning, RunPcs, NewRow
    <3>2. r # stamp[w]
      BY <3>1 DEF Running
    <3>3. QED
      BY <2>3, <3>2 DEF FinishRun, ToFinish
  <2>4. QED
    BY <2>1, <2>2, <2>3 DEF Next, Command, Step, StartStep, Environment, Parse,
       GetShop, InsertShop, GetLastRun, InsertRun, CommitTx, CommitLost, StartFails,
       Rollback, EndWork, FinishFails, Shutdown, Restart, Crash, IInv, StampInv,
       StampsArePast, TxPcs
<1>2. QED
  BY <1>1, Invariance, PTL DEF Spec, FinishedIsFinal

\* No step finishes a run that no worker owns, or gives it an owner: FinishRun
\* writes the worker's own run, and StartRun begins a new one (postgres.go:61-101).
THEOREM OrphansStay == Spec => OrphanIsForever
<1>1. IInv /\ [Next]_vars => [\A r \in Stamps : Orphan(r) => Orphan(r)']_vars
  <2> SUFFICES ASSUME IInv, Next, NEW r \in Stamps, Orphan(r) PROVE Orphan(r)'
    BY DEF vars
  <2> USE DEF Orphan, Running, Owns
  <2>1. ASSUME UNCHANGED <<runs, stamp>>,
               \A w \in Workers : pc'[w] \in RunPcs => pc[w] \in RunPcs
        PROVE  Orphan(r)'
    BY <2>1
  <2>2. ASSUME NEW w \in Workers, NEW s \in Shops, Parse(w, s) PROVE Orphan(r)'
    <3>1. \A v \in Workers : pc'[v] \in RunPcs => v # w /\ pc[v] \in RunPcs /\ stamp'[v] = stamp[v]
      BY <2>2 DEF Parse, CallOk, Goto, RunPcs, IInv, TypeOK
    <3>2. runs' = runs
      BY <2>2 DEF Parse
    <3>3. QED
      BY <3>1, <3>2
  <2>3. ASSUME NEW w \in Workers, CommitTx(w) \/ CommitLost(w) PROVE Orphan(r)'
    <3>1. stamp[w] # r /\ Publish(w) /\ stamp' = stamp
      BY <2>3 DEF CommitTx, CommitLost, IInv, StampInv, StampsArePast, TxPcs
    <3>2. r \in DOMAIN runs' /\ runs'[r] = runs[r]
      BY <3>1 DEF Publish
    <3>3. \A v \in Workers : pc'[v] \in RunPcs => v = w \/ pc[v] \in RunPcs
      BY <2>3 DEF CommitTx, CommitLost, Goto, RunPcs, IInv, TypeOK
    <3>4. QED
      BY <3>1, <3>2, <3>3
  <2>4. ASSUME NEW w \in Workers, FinishRun(w) PROVE Orphan(r)'
    <3>1. stamp[w] # r /\ stamp' = stamp
      BY <2>4 DEF FinishRun, RunPcs
    <3>2. r \in DOMAIN runs' /\ runs'[r] = runs[r]
      BY <2>4, <3>1 DEF FinishRun, ToFinish
    <3>3. \A v \in Workers : pc'[v] \in RunPcs => pc[v] \in RunPcs
      BY <2>4 DEF FinishRun, Goto, RunPcs, IInv, TypeOK
    <3>4. QED
      BY <3>1, <3>2, <3>3
  <2>5. ASSUME NEW w \in Workers,
               \/ GetShop(w) \/ InsertShop(w) \/ GetLastRun(w) \/ InsertRun(w)
               \/ StartFails(w) \/ EndWork(w) \/ FinishFails(w) \/ Environment(w)
        PROVE  Orphan(r)'
    BY <2>1, <2>5 DEF GetShop, InsertShop, GetLastRun, InsertRun, StartFails, Rollback,
       EndWork, FinishFails, Environment, Shutdown, Restart, Crash, Goto, RunPcs, IInv, TypeOK
  <2>6. QED
    BY <2>2, <2>3, <2>4, <2>5 DEF Next, Command, Step, StartStep
<1>2. QED
  BY <1>1, Invariance, PTL DEF Spec, OrphanIsForever

-----------------------------------------------------------------------------
(* One worker at work.  The test of StartRun looks at the last run only:   *)
(* it is enough because no earlier run can be unfinished.                  *)

\* An unfinished run is the last of its shop.
OnlyLastRuns ==
    \A q, r \in DOMAIN runs :
        Running(r) /\ runs[q].shop = runs[r].shop => q <= r

\* Past StartRun's test no run of the shop is unfinished, and the run to be
\* inserted will be the last.
StartIsAlone ==
    \A w \in Workers :
        /\ pc[w] \in TxPcs => stamp[w] = clock
        /\ pc[w] \in {"insertRun", "commit"} =>
              \A r \in DOMAIN runs : runs[r].shop = shopOf[w] => ~Running(r)

SingleInv == OnlyLastRuns /\ StartIsAlone

\* No worker but u is at work.
Sole(u) == \A w \in Workers \ {u} : pc[w] = "idle"

\* The test of StartRun rules out every unfinished run of the shop.
LEMMA LastRunTest ==
    ASSUME TypeOK, OnlyLastRuns, NEW s \in Shops, ~AlreadyRunning(s),
           NEW r \in DOMAIN runs, runs[r].shop = s
    PROVE  ~Running(r)
  BY DEF AlreadyRunning, IsLast, RunsOf, OnlyLastRuns, Running

\* Every step that leaves at most the one worker at work keeps the runs in
\* sequence.
LEMMA SingleStep ==
    ASSUME NEW u, IInv, SingleInv, Sole(u), Sole(u)', [Next]_vars
    PROVE  SingleInv'
<1> USE DEF SingleInv, IInv, TypeOK, Sole
<1>1. ASSUME NEW w \in Workers, NEW s \in Shops, Parse(w, s) PROVE SingleInv'
  BY <1>1 DEF Parse, Goto, OnlyLastRuns, StartIsAlone, Running, TxPcs
<1>2. ASSUME NEW w \in Workers, GetLastRun(w) PROVE SingleInv'
  <2>1. CASE Rollback(w)
    BY <1>2, <2>1 DEF Rollback, Goto, OnlyLastRuns, StartIsAlone, Running, TxPcs
  <2>2. CASE ~AlreadyRunning(shopOf[w]) /\ Goto(w, "insertRun")
    <3>1. \A r \in DOMAIN runs : runs[r].shop = shopOf[w] => ~Running(r)
      BY <2>2, LastRunTest
    <3>2. UNCHANGED <<runs, clock, shopOf, stamp>>
      BY <1>2 DEF GetLastRun, Rollback
    <3>3. pc[w] \in TxPcs
      BY <1>2 DEF GetLastRun, TxPcs
    <3>4. QED
      BY <2>2, <3>1, <3>2, <3>3 DEF Goto, OnlyLastRuns, StartIsAlone, Running, TxPcs
  <2>3. QED
    BY <1>2, <2>1, <2>2 DEF GetLastRun
<1>3. ASSUME NEW w \in Workers, pc[w] = "commit", Publish(w), pc'[w] \notin TxPcs,
             UNCHANGED <<clock, shopOf, stamp>>
      PROVE  SingleInv'
  <2>1. stamp[w] = clock /\ \A r \in DOMAIN runs : r \in Int /\ r <= clock
    BY <1>3 DEF StartIsAlone, TxPcs, StampInv, StampsArePast, Stamps
  <2>2. \A r \in DOMAIN runs : runs[r].shop = shopOf[w] => ~Running(r)
    BY <1>3 DEF StartIsAlone
  <2>3. OnlyLastRuns'
    BY <1>3, <2>1, <2>2, RunsAssumption DEF Publish, NewRow, OnlyLastRuns, Running
  <2>4. StartIsAlone'
    BY <1>3 DEF StartIsAlone, TxPcs
  <2>5. QED
    BY <2>3, <2>4
<1>4. ASSUME NEW w \in Workers, FinishRun(w) PROVE SingleInv'
  <2>1. OnlyLastRuns'
    BY <1>4 DEF FinishRun, ToFinish, OnlyLastRuns, Running
  <2>2. StartIsAlone'
    BY <1>4 DEF FinishRun, Goto, StartIsAlone, TxPcs
  <2>3. QED
    BY <2>1, <2>2
<1>5. ASSUME UNCHANGED <<runs, clock, shopOf, stamp>>,
             \A w \in Workers :
                /\ pc'[w] \in TxPcs => pc[w] \in TxPcs
                /\ pc'[w] \in {"insertRun", "commit"} => pc[w] \in {"insertRun", "commit"}
      PROVE  SingleInv'
  BY <1>5 DEF OnlyLastRuns, StartIsAlone, Running
<1>6. CASE UNCHANGED vars
  BY <1>6, <1>5 DEF vars
<1>7. QED
  <2>1. ASSUME NEW w \in Workers, GetShop(w) \/ InsertShop(w) \/ InsertRun(w) \/ StartFails(w)
        PROVE  SingleInv'
    BY <1>5, <2>1 DEF GetShop, InsertShop, InsertRun, StartFails, Rollback, Goto, TxPcs
  <2>2. ASSUME NEW w \in Workers, EndWork(w) \/ FinishFails(w) \/ Environment(w)
        PROVE  SingleInv'
    BY <1>5, <2>2 DEF EndWork, FinishFails, Environment, Shutdown, Restart, Crash, Goto, TxPcs
  <2>3. ASSUME NEW w \in Workers, CommitTx(w) \/ CommitLost(w) PROVE SingleInv'
    BY <1>3, <2>3 DEF CommitTx, CommitLost, Goto, TxPcs
  <2>4. QED
    BY <1>1, <1>2, <1>4, <1>6, <2>1, <2>2, <2>3 DEF Next, Command, Step, StartStep

\* With one worker both invariants hold in every reachable state.
LEMMA SingleInvariance ==
    ASSUME NEW u, Workers = {u}
    PROVE  Spec => [](IInv /\ SingleInv)
<1>1. Init => SingleInv
  BY DEF Init, SingleInv, OnlyLastRuns, StartIsAlone, TxPcs
<1>2. IInv /\ SingleInv /\ [Next]_vars => SingleInv'
  BY SingleStep DEF Sole
<1>3. QED
  BY <1>1, <1>2, Invariance, PTL DEF Spec

\* With its runs in sequence a shop never has two unfinished ones,
LEMMA LastIsOnly == IInv /\ SingleInv => AtMostOneRunning
  BY DEF IInv, TypeOK, Stamps, SingleInv, OnlyLastRuns, AtMostOneRunning

\* ... and StartRun adds none to a shop that has an orphan.
LEMMA OrphanStep ==
    ASSUME IInv, SingleInv, [Next]_vars, NEW r \in Stamps, NEW q \in Stamps,
           Orphan(r), q \in DOMAIN runs' \ DOMAIN runs
    PROVE  runs'[q].shop # runs[r].shop
<1>1. PICK w \in Workers : pc[w] = "commit" /\ Publish(w)
  BY DEF Next, vars, Command, Step, StartStep, Environment, Parse, GetShop, InsertShop,
     GetLastRun, InsertRun, CommitTx, CommitLost, StartFails, Rollback, EndWork,
     FinishRun, FinishFails, Shutdown, Restart, Crash
<1>2. runs'[q].shop = shopOf[w]
  BY <1>1 DEF Publish, NewRow
<1>3. runs[r].shop # shopOf[w]
  BY <1>1 DEF SingleInv, StartIsAlone, Orphan, Running
<1>4. QED
  BY <1>2, <1>3

\* README.md:7 with one worker, whatever fails: a shop never has two unfinished
\* runs.
THEOREM SingleWorkerExclusion ==
    ASSUME NEW u, Workers = {u}
    PROVE  Spec => []AtMostOneRunning
  BY LastIsOnly, SingleInvariance, PTL

\* With one worker, the run left by a crash or a shutdown ends all imports of
\* its shop.
THEOREM SingleWorkerOrphanBlocks ==
    ASSUME NEW u, Workers = {u}
    PROVE  Spec => OrphanBlocksShop
<1>1. IInv /\ SingleInv /\ [Next]_vars =>
        [\A r, q \in Stamps : Orphan(r) /\ q \in DOMAIN runs' \ DOMAIN runs =>
            runs'[q].shop # runs[r].shop]_vars
  BY OrphanStep
<1>2. QED
  BY <1>1, SingleInvariance, PTL DEF Spec, OrphanBlocksShop

-----------------------------------------------------------------------------
(* Without faults.                                                         *)

\* Every unfinished run has its worker, which is not cancelled.
OwnedInv ==
    /\ \A r \in DOMAIN runs : Running(r) => \E w \in Workers : Owns(w, r)
    /\ \A w \in Workers : ~cancelled[w]

\* Without faults every step keeps runs owned.
LEMMA OwnedStep ==
    ASSUME Faults = {}, IInv, OwnedInv, [Next]_vars
    PROVE  OwnedInv'
<1> USE DEF IInv, TypeOK, OwnedInv, Owns, Running, CallFails, RunPcs, Goto
<1>1. ASSUME NEW w \in Workers,
             \/ \E s \in Shops : Parse(w, s)
             \/ GetShop(w) \/ InsertShop(w) \/ GetLastRun(w) \/ InsertRun(w)
      PROVE  OwnedInv'
  <2>1. /\ UNCHANGED <<runs, cancelled>> /\ pc[w] \notin RunPcs
        /\ \A v \in Workers : v # w => pc'[v] = pc[v] /\ stamp'[v] = stamp[v]
    BY <1>1 DEF Parse, GetShop, InsertShop, Rollback, GetLastRun, InsertRun
  <2>2. QED
    BY <2>1
<1>2. ASSUME NEW w \in Workers, CommitTx(w) PROVE OwnedInv'
  <2>1. /\ UNCHANGED <<stamp, cancelled>> /\ pc[w] = "commit" /\ pc'[w] = "work"
        /\ \A v \in Workers : v # w => pc'[v] = pc[v]
    BY <1>2 DEF CommitTx
  <2>2. /\ DOMAIN runs' = DOMAIN runs \cup {stamp[w]}
        /\ \A r \in DOMAIN runs : r # stamp[w] => runs'[r] = runs[r]
    BY <1>2 DEF CommitTx, Publish
  <2>3. QED
    BY <2>1, <2>2
<1>3. ASSUME NEW w \in Workers, EndWork(w) PROVE OwnedInv'
  <2>1. /\ UNCHANGED <<runs, stamp, cancelled>> /\ pc'[w] = "finish"
        /\ \A v \in Workers : v # w => pc'[v] = pc[v]
    BY <1>3 DEF EndWork
  <2>2. QED
    BY <2>1
<1>4. ASSUME NEW w \in Workers, FinishRun(w) PROVE OwnedInv'
  <2>1. /\ UNCHANGED <<stamp, cancelled>>
        /\ \A v \in Workers : v # w => pc'[v] = pc[v]
        /\ DOMAIN runs' = DOMAIN runs
        /\ \A r \in DOMAIN runs : r # stamp[w] => runs'[r] = runs[r]
    BY <1>4 DEF FinishRun, ToFinish
  <2>2. stamp[w] \in DOMAIN runs => runs'[stamp[w]].state = outcome[w]
    <3>1. runs[stamp[w]] = [shop |-> shopOf[w], state |-> "running"] /\ stamp[w] \in DOMAIN runs
      BY <1>4 DEF FinishRun, OwnRunIsRunning, NewRow
    <3>2. runs'[stamp[w]] = [runs[stamp[w]] EXCEPT !.state = outcome[w]]
      BY <1>4, <3>1 DEF FinishRun, ToFinish
    <3>3. QED
      BY <3>1, <3>2
  <2>3. outcome[w] # "running"
    OBVIOUS
  <2>4. QED
    BY <2>1, <2>2, <2>3
<1>5. ASSUME NEW w \in Workers,
             CommitLost(w) \/ StartFails(w) \/ FinishFails(w) \/ Environment(w)
      PROVE  FALSE
  BY <1>5 DEF CommitLost, StartFails, FinishFails, Environment, Shutdown, Restart, Crash
<1>6. CASE UNCHANGED vars
  BY <1>6 DEF vars
<1>7. QED
  BY <1>1, <1>2, <1>3, <1>4, <1>5, <1>6 DEF Next, Command, Step, StartStep

\* Without a crash, a shutdown or a failing call no run is ever orphaned, however
\* many replicas overlap: runs are lost to faults only, never to a race.
THEOREM OrphansTakeFaults == ASSUME Faults = {} PROVE Spec => []NoOrphan
<1>1. Init => OwnedInv
  BY DEF Init, OwnedInv, Running
<1>2. IInv /\ OwnedInv /\ [Next]_vars => OwnedInv'
  BY OwnedStep
<1>3. OwnedInv => NoOrphan
  BY DEF OwnedInv, NoOrphan, Orphan, Running
<1>4. QED
  BY <1>1, <1>2, <1>3, Invariance, PTL DEF Spec

-----------------------------------------------------------------------------
(* Progress: what ParseReturns needs but fairness itself.                  *)

\* Progress(w) can take a step: the guards of its disjuncts.
CanGoOn(w) ==
    \/ pc[w] \in {"getShop", "getLastRun", "insertRun", "commit", "finish"}
    \/ pc[w] = "insertShop" /\ (cancelled[w] \/ shopOf[w] \in shops \/ ~UrlLocked(w))
    \/ pc[w] = "work"

\* Who waits at the unique url waits for a StartRun that goes on itself.
NobodyStuck ==
    \A w \in Workers : pc[w] # "idle" =>
        \/ CanGoOn(w)
        \/ \E v \in Workers \ {w} : newShop[v] /\ shopOf[v] = shopOf[w] /\ CanGoOn(v)

\* The steps left in Parse.
StepsLeft(w) ==
    CASE pc[w] = "idle"       -> 0
      [] pc[w] = "finish"     -> 1
      [] pc[w] = "work"       -> 2
      [] pc[w] = "commit"     -> 3
      [] pc[w] = "insertRun"  -> 4
      [] pc[w] = "getLastRun" -> 5
      [] pc[w] = "insertShop" -> 6
      [] OTHER                -> 7

\* A worker in Parse only moves towards its return, in at most 7 steps, and no step
\* of another moves it.
EndsInTime ==
    [][\A w \in Workers :
        /\ Step(w) => pc[w] # "idle" /\ pc'[w] # pc[w]
        /\ pc[w] # "idle" /\ pc'[w] # pc[w] => StepsLeft(w)' < StepsLeft(w)]_vars

\* For any number of replicas and all faults: nobody in Parse is stuck, nor goes in
\* circles.
THEOREM NeverStuck == Spec => []NobodyStuck /\ EndsInTime
<1>1. IInv => NobodyStuck
  <2> SUFFICES ASSUME IInv, NEW w \in Workers, pc[w] # "idle", ~CanGoOn(w)
               PROVE  \E v \in Workers \ {w} :
                          newShop[v] /\ shopOf[v] = shopOf[w] /\ CanGoOn(v)
    BY DEF NobodyStuck
  <2>1. UrlLocked(w)
    BY DEF IInv, TypeOK, TxPcs, RunPcs, CanGoOn
  <2>2. PICK v \in Workers \ {w} : newShop[v] /\ shopOf[v] = shopOf[w]
    BY <2>1 DEF UrlLocked
  <2>3. pc[v] \in HasShopPcs
    BY <2>2 DEF IInv, ShopInv, ShopIsKnown
  <2>4. QED
    BY <2>2, <2>3 DEF CanGoOn, HasShopPcs
<1>2. ASSUME IInv, NEW v \in Workers, Step(v)
      PROVE  /\ pc[v] # "idle" /\ pc'[v] # pc[v] /\ StepsLeft(v)' < StepsLeft(v)
             /\ \A w \in Workers : w # v => pc'[w] = pc[w]
  <2> USE <1>2 DEF IInv, TypeOK, TxPcs, RunPcs, Goto, StepsLeft
  <2>1. CASE GetShop(v) \/ InsertShop(v) \/ GetLastRun(v) \/ InsertRun(v)
    BY <2>1 DEF GetShop, InsertShop, Rollback, GetLastRun, InsertRun
  <2>2. CASE CommitTx(v) \/ CommitLost(v) \/ StartFails(v)
    BY <2>2 DEF CommitTx, CommitLost, StartFails, Rollback
  <2>3. CASE EndWork(v) \/ FinishRun(v) \/ FinishFails(v)
    BY <2>3 DEF EndWork, FinishRun, FinishFails
  <2>4. QED
    BY <2>1, <2>2, <2>3 DEF Step, StartStep
<1>3. ASSUME IInv, NEW v \in Workers, Command(v) \/ Environment(v), NEW w \in Workers, pc[w] # "idle"
      PROVE  pc'[w] = pc[w] \/ (pc'[w] = "idle" /\ StepsLeft(w)' < StepsLeft(w))
  <2>1. pc'[w] = pc[w] \/ pc'[w] = "idle"
    BY <1>3 DEF IInv, TypeOK, Command, Parse, Environment, Shutdown, Restart, Crash, Goto
  <2>2. pc'[w] = "idle" => StepsLeft(w)' < StepsLeft(w)
    BY <1>3 DEF StepsLeft
  <2>3. QED
    BY <2>1, <2>2
<1>4. IInv /\ [Next]_vars =>
        [\A w \in Workers :
            /\ Step(w) => pc[w] # "idle" /\ pc'[w] # pc[w]
            /\ pc[w] # "idle" /\ pc'[w] # pc[w] => StepsLeft(w)' < StepsLeft(w)]_vars
  <2> SUFFICES ASSUME IInv, Next, NEW w \in Workers
               PROVE  /\ Step(w) => pc[w] # "idle" /\ pc'[w] # pc[w]
                      /\ pc[w] # "idle" /\ pc'[w] # pc[w] => StepsLeft(w)' < StepsLeft(w)
    OBVIOUS
  <2>1. PICK v \in Workers : Command(v) \/ Step(v) \/ Environment(v)
    BY DEF Next
  <2>2. Step(w) => pc[w] # "idle" /\ pc'[w] # pc[w]
    BY <1>2
  <2>3. ASSUME pc[w] # "idle", pc'[w] # pc[w] PROVE StepsLeft(w)' < StepsLeft(w)
    BY <1>2, <1>3, <2>1, <2>3
  <2>4. QED
    BY <2>2, <2>3
<1>5. QED
  BY <1>1, <1>4, Invariance, PTL DEF Spec, EndsInTime
=============================================================================
