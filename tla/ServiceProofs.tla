--------------------------- MODULE ServiceProofs ---------------------------
(***************************************************************************)
(* Proofs about Service, for every set of replicas, commands and shops,    *)
(* and every number of breaks.                                             *)
(*                                                                         *)
(* Every step of the service is a step of Consumer and one of Runs, or     *)
(* leaves them alone: so what ConsumerProofs and RunsProofs prove of the   *)
(* parts holds in the whole.                                               *)
(***************************************************************************)
EXTENDS Service, FiniteSetTheorems, TLAPS

CP == INSTANCE ConsumerProofs WITH Faults <- {"signal", "crash", "connection"}
RP == INSTANCE RunsProofs WITH Workers <- Replicas,
                               Faults <- {"crash", "shutdown", "database"}

\* A Parse is under way only while the loop of a living replica handles a
\* command, and it is about the shop of that command.
Coupled ==
    \A r \in Replicas : pc[r] # "idle" =>
        C!Alive(r) /\ loop[r] = "handle" /\ shopOf[r] = url[cur[r]]

\* What is chosen once, and the bound.
SettingInv ==
    /\ url \in Bodies /\ deployed \in SUBSET Replicas \ {{}}
    /\ breaks \in 0 .. MaxBreaks

-----------------------------------------------------------------------------
(* The parts.                                                              *)

\* The assumptions of the parts hold.
LEMMA PartsAssumption == CP!ConsumerAssumption /\ RP!RunsAssumption
<1>1. Cardinality(Commands) \in Nat
  BY ServiceAssumption, FS_CardinalityType
<1>2. MaxBegins \in Nat
  BY <1>1, ServiceAssumption DEF MaxBegins
<1>3. QED
  BY <1>2, ServiceAssumption DEF CP!ConsumerAssumption, RP!RunsAssumption

\* The parts are the same specifications in their modules of proofs.
LEMMA SameConsumer == C!Spec <=> CP!Spec
  BY DEF C!HeldFor, CP!HeldFor, C!Requeue, CP!Requeue, C!Settle, CP!Settle, C!GotoLoop,
     CP!GotoLoop, C!Alive, CP!Alive, C!Cancelled, CP!Cancelled, C!broker, CP!broker, C!history,
     CP!history, C!Publish, CP!Publish, C!Deliver, CP!Deliver, C!Receive, CP!Receive, C!RangeEnds,
     CP!RangeEnds, C!HandleOk, CP!HandleOk, C!HandleErr, CP!HandleErr, C!Nack, CP!Nack, C!Ack,
     CP!Ack, C!AckLost, CP!AckLost, C!SettleFails, CP!SettleFails, C!CheckContext, CP!CheckContext,
     C!Signal, CP!Signal, C!CloseConnections, CP!CloseConnections, C!Exit, CP!Exit, C!Fresh,
     CP!Fresh, C!Restart, CP!Restart, C!Crash, CP!Crash, C!ConnectionLost, CP!ConnectionLost,
     C!BrokerRestart, CP!BrokerRestart, C!Loop, CP!Loop, C!Main, CP!Main, C!Failure, CP!Failure,
     C!Next, CP!Next, C!vars, CP!vars, C!Init, CP!Init, C!Spec, CP!Spec

\* R and RP are Runs under the same substitution: their definitions are the same
\* formulas, so that what RunsProofs says of RP!Next is about the R of Service.
LEMMA SameRuns ==
    (R!Init <=> RP!Init) /\ ([R!Next]_(R!vars) <=> [RP!Next]_(RP!vars))
  BY DEF R!Goto, RP!Goto, R!CallOk, RP!CallOk, R!CallFails, RP!CallFails, R!Parse, RP!Parse,
     R!Rollback, RP!Rollback, R!GetShop, RP!GetShop, R!UrlLocked, RP!UrlLocked, R!InsertShop,
     RP!InsertShop, R!RunsOf, RP!RunsOf, R!IsLast, RP!IsLast, R!AlreadyRunning, RP!AlreadyRunning,
     R!GetLastRun, RP!GetLastRun, R!InsertRun, RP!InsertRun, R!NewRow, RP!NewRow, R!Publish,
     RP!Publish, R!CommitTx, RP!CommitTx, R!CommitLost, RP!CommitLost, R!StartFails, RP!StartFails,
     R!EndWork, RP!EndWork, R!ToFinish, RP!ToFinish, R!FinishRun, RP!FinishRun, R!FinishFails,
     RP!FinishFails, R!Shutdown, RP!Shutdown, R!Restart, RP!Restart, R!Crash, RP!Crash,
     R!StartStep, RP!StartStep, R!Step, RP!Step, R!Command, RP!Command, R!Environment,
     RP!Environment, R!Next, RP!Next, R!vars, RP!vars, R!Init, RP!Init, R!Spec, RP!Spec, R!TxPcs,
     RP!TxPcs, R!RunPcs, RP!RunPcs

\* Every step of the service is one of Consumer.
LEMMA ConsumerStep == SettingInv /\ [Next]_vars => [C!Next]_(C!vars)
<1> SUFFICES ASSUME SettingInv, [Next]_vars PROVE [C!Next]_(C!vars)
  OBVIOUS
<1>1. deployed \subseteq Replicas
  BY DEF SettingInv
<1>2. ASSUME UNCHANGED consumer PROVE UNCHANGED C!vars
  BY <1>2 DEF consumer, C!vars
<1>3. ASSUME NEW m \in Commands, Publish(m) PROVE C!Next
  BY <1>3 DEF Publish, C!Next
<1>4. ASSUME Deliver PROVE C!Next
  BY <1>1, <1>4 DEF Deliver, C!Next
<1>5. ASSUME NEW r \in Replicas, Consume(r) PROVE C!Next
  <2>1. C!Loop(r) \/ C!Ack(r) \/ C!Nack(r)
    BY <1>5 DEF Consume, C!Loop
  <2>2. QED
    BY <2>1 DEF C!Loop, C!Next
<1>6. ASSUME NEW r \in Replicas, Handle(r) \/ DatabaseFails(r) PROVE C!Next \/ UNCHANGED C!vars
  <2>1. C!HandleOk(r) \/ C!HandleErr(r) \/ UNCHANGED consumer
    BY <1>6 DEF Handle, StartHandling, RefuseHandling, ParseGoesOn, ReturnNil, ReturnError,
       DatabaseFails
  <2>2. QED
    BY <1>2, <2>1 DEF C!Loop, C!Next
<1>7. ASSUME NEW r \in Replicas, Signal(r) \/ Main(r) \/ Restart(r) PROVE C!Next
  BY <1>7 DEF Signal, Main, Restart, C!Failure, C!Next
<1>8. ASSUME NEW r \in Replicas, Crash(r) \/ LoseConnection(r) PROVE C!Next
  BY <1>8 DEF Crash, LoseConnection, C!Failure, C!Next
<1>9. ASSUME UNCHANGED vars PROVE UNCHANGED C!vars
  BY <1>2, <1>9 DEF vars
<1>10. QED
  BY <1>1, <1>3, <1>4, <1>5, <1>6, <1>7, <1>8, <1>9 DEF Next, Smooth, Break

\* What one call of Parse's, in the run of r, does to the workers.
LEMMA WorkerStep ==
    ASSUME NEW r \in Replicas, R!Progress(r) \/ R!StartFails(r) \/ R!CommitLost(r)
                               \/ R!FinishFails(r) \/ R!FinishRun(r)
    PROVE  /\ pc[r] # "idle" /\ R!Step(r)
           /\ \E l : pc' = [pc EXCEPT ![r] = l]
           /\ shopOf' = shopOf /\ stamp' = stamp
  BY DEF R!Progress, R!Step, R!StartStep, R!GetShop, R!InsertShop, R!GetLastRun, R!InsertRun,
     R!CommitTx, R!CommitLost, R!StartFails, R!EndWork, R!FinishRun, R!FinishFails,
     R!Rollback, R!Goto, R!TxPcs

\* A process whose main goes on or ends: what its context is then.
LEMMA ContextOf ==
    ASSUME CP!TypeOK, NEW r \in Replicas, NEW l, main' = [main EXCEPT ![r] = l]
    PROVE  cancelled' = [cancelled EXCEPT ![r] = l \in {"draining", "closed"}]
  BY DEF CP!TypeOK, cancelled

\* Every step keeps what is chosen once, and the bound.
LEMMA SettingStep == SettingInv /\ [Next]_vars => SettingInv'
  BY ServiceAssumption DEF SettingInv, Next, setting, vars

\* Every step keeps the handler and its Parse together.
LEMMA CoupledStep ==
    CP!IInv /\ RP!TypeOK /\ SettingInv /\ Coupled /\ [Next]_vars => Coupled'
<1> SUFFICES ASSUME CP!IInv, RP!TypeOK, SettingInv, Coupled, [Next]_vars PROVE Coupled'
  OBVIOUS
<1> USE DEF CP!IInv, CP!TypeOK, RP!TypeOK, Coupled, C!Alive
<1>1. deployed \subseteq Replicas
  BY DEF SettingInv
<1>2. UNCHANGED url
  BY DEF Next, setting, vars
<1>3. ASSUME NEW m \in Commands, Publish(m) PROVE Coupled'
  BY <1>2, <1>3 DEF Publish, C!Publish, database
<1>4. ASSUME Deliver PROVE Coupled'
  BY <1>2, <1>4 DEF Deliver, C!Deliver, database
<1>5. ASSUME NEW r \in Replicas, Consume(r) PROVE Coupled'
  <2>1. loop[r] # "handle"
    BY <1>5 DEF Consume, C!Receive, C!RangeEnds, C!Ack, C!Nack, C!SettleFails, C!CheckContext
  <2>2. \A q \in Replicas \ {r} : loop'[q] = loop[q] /\ cur'[q] = cur[q]
    BY <1>5 DEF Consume, C!Receive, C!RangeEnds, C!Ack, C!Nack, C!SettleFails, C!CheckContext,
       C!GotoLoop
  <2>3. UNCHANGED <<main, pc, shopOf>>
    BY <1>5 DEF Consume, C!Receive, C!RangeEnds, C!Ack, C!Nack, C!SettleFails, C!CheckContext,
       database
  <2>4. QED
    BY <1>2, <2>1, <2>2, <2>3
<1>6. ASSUME NEW r \in Replicas, StartHandling(r) PROVE Coupled'
  BY <1>2, <1>6 DEF StartHandling, consumer, R!Parse, R!Goto
<1>7. ASSUME NEW r \in Replicas, RefuseHandling(r) PROVE Coupled'
  BY <1>2, <1>7 DEF RefuseHandling, C!HandleErr, C!GotoLoop, database
<1>8. ASSUME NEW r \in Replicas, ParseGoesOn(r) PROVE Coupled'
  BY <1>2, <1>8, WorkerStep DEF ParseGoesOn, consumer
<1>9. ASSUME NEW r \in Replicas, NEW l, pc' = [pc EXCEPT ![r] = l], pc'[r] = "idle",
             shopOf' = shopOf, C!HandleOk(r) \/ C!HandleErr(r)
      PROVE  Coupled'
  BY <1>2, <1>9 DEF C!HandleOk, C!HandleErr, C!GotoLoop
<1>10. ASSUME NEW r \in Replicas, ReturnNil(r) PROVE Coupled'
  <2>1. pc' = [pc EXCEPT ![r] = "idle"] /\ shopOf' = shopOf
    BY <1>10 DEF ReturnNil, R!FinishRun, R!Goto
  <2>2. QED
    BY <1>9, <1>10, <2>1 DEF ReturnNil
<1>11. ASSUME NEW r \in Replicas, ReturnError(r) PROVE Coupled'
  BY <1>9, <1>11, WorkerStep DEF ReturnError
<1>12. ASSUME NEW r \in Replicas, DatabaseFails(r) PROVE Coupled'
  <2>1. CASE pc[r] = "idle" /\ UNCHANGED database
    BY <1>9, <1>12, <2>1 DEF DatabaseFails, database
  <2>2. CASE R!StartFails(r) \/ R!CommitLost(r) \/ R!FinishFails(r) \/ R!FinishRun(r)
    <3>1. pc' = [pc EXCEPT ![r] = "idle"] /\ shopOf' = shopOf
      BY <2>2 DEF R!StartFails, R!CommitLost, R!FinishFails, R!FinishRun, R!Rollback, R!Goto
    <3>2. QED
      BY <1>9, <1>12, <3>1 DEF DatabaseFails
  <2>3. QED
    BY <1>12, <2>1, <2>2 DEF DatabaseFails
<1>13. ASSUME NEW r \in Replicas, Signal(r) PROVE Coupled'
  BY <1>2, <1>13 DEF Signal, C!Signal, database
<1>14. ASSUME NEW r \in Replicas, Main(r) PROVE Coupled'
  BY <1>2, <1>14 DEF Main, C!Main, C!CloseConnections, C!Exit, CP!ConnInv, database
<1>15. ASSUME NEW r \in Replicas, Restart(r) PROVE Coupled'
  BY <1>2, <1>15 DEF Restart, C!Restart, C!Fresh, database
<1>16. ASSUME NEW r \in Replicas, Crash(r) PROVE Coupled'
  BY <1>2, <1>16 DEF Crash, C!Crash, R!Crash, R!Goto, database
<1>17. ASSUME NEW r \in Replicas, LoseConnection(r) PROVE Coupled'
  BY <1>2, <1>17 DEF LoseConnection, C!ConnectionLost, C!AckLost, C!GotoLoop, database
<1>18. CASE UNCHANGED vars
  BY <1>18 DEF vars, consumer, database, setting
<1>19. QED
  BY <1>1, <1>3, <1>4, <1>5, <1>6, <1>7, <1>8, <1>10, <1>11, <1>12, <1>13,
     <1>14, <1>15, <1>16, <1>17, <1>18
     DEF Next, Smooth, Handle, Break

\* Every step of the service is one of Runs, or leaves the database alone.
LEMMA RunsStep ==
    CP!IInv /\ RP!TypeOK /\ SettingInv /\ Coupled /\ [Next]_vars => [R!Next]_(R!vars)
<1> SUFFICES ASSUME CP!IInv, RP!TypeOK, SettingInv, Coupled, [Next]_vars
             PROVE  [R!Next]_(R!vars)
  OBVIOUS
<1> USE DEF CP!IInv
<1>1. deployed \subseteq Replicas
  BY DEF SettingInv
<1>2. ASSUME UNCHANGED database, UNCHANGED main PROVE UNCHANGED R!vars
  BY <1>2 DEF database, R!vars, cancelled
<1>3. ASSUME NEW r \in Replicas, R!Step(r) \/ R!Environment(r) PROVE R!Next
  BY <1>3 DEF R!Next
<1>4. ASSUME NEW m \in Commands, Publish(m) PROVE UNCHANGED R!vars
  BY <1>2, <1>4 DEF Publish, C!Publish
<1>5. ASSUME Deliver PROVE UNCHANGED R!vars
  BY <1>2, <1>5 DEF Deliver, C!Deliver
<1>6. ASSUME NEW r \in Replicas, Consume(r) PROVE UNCHANGED R!vars
  BY <1>2, <1>6 DEF Consume, C!Receive, C!RangeEnds, C!Ack, C!Nack, C!SettleFails, C!CheckContext
<1>7. ASSUME NEW r \in Replicas, StartHandling(r) PROVE R!Next
  <2>1. cur[r] \in Commands
    BY <1>7 DEF StartHandling, CP!HandInv, CP!HandPcs
  <2>2. url[cur[r]] \in Shops
    BY <1>7, <2>1, ServiceAssumption DEF StartHandling, SettingInv
  <2>3. QED
    BY <1>7, <2>2 DEF StartHandling, R!Command, R!Next
<1>8. ASSUME NEW r \in Replicas, RefuseHandling(r) PROVE UNCHANGED R!vars
  BY <1>2, <1>8 DEF RefuseHandling, C!HandleErr
<1>9. ASSUME NEW r \in Replicas, ParseGoesOn(r) \/ ReturnNil(r) \/ ReturnError(r) PROVE R!Next
  BY <1>3, <1>9, WorkerStep DEF ParseGoesOn, ReturnNil, ReturnError
<1>10. ASSUME NEW r \in Replicas, DatabaseFails(r) PROVE [R!Next]_(R!vars)
  BY <1>2, <1>3, <1>10, WorkerStep DEF DatabaseFails, C!HandleErr
<1>11. ASSUME NEW r \in Replicas, Signal(r) PROVE R!Next
  <2>1. main[r] = "serving" /\ cancelled' = [cancelled EXCEPT ![r] = TRUE]
    BY <1>11, ContextOf DEF Signal, C!Signal
  <2>2. ~cancelled[r]
    BY <2>1 DEF cancelled
  <2>3. R!Shutdown(r)
    BY <1>11, <2>1, <2>2 DEF Signal, R!Shutdown, database
  <2>4. QED
    BY <1>3, <2>3 DEF R!Environment
<1>12. ASSUME NEW r \in Replicas, pc[r] = "idle", UNCHANGED database,
              main' = [main EXCEPT ![r] = "exited"]
       PROVE  [R!Next]_(R!vars)
  <2>1. cancelled' = [cancelled EXCEPT ![r] = FALSE]
    <3>1. cancelled' = [cancelled EXCEPT ![r] = "exited" \in {"draining", "closed"}]
      BY <1>12, ContextOf
    <3>2. ("exited" \in {"draining", "closed"}) = FALSE
      OBVIOUS
    <3>3. QED
      BY <3>1, <3>2, Zenon
  <2>2. CASE cancelled[r]
    <3>1. R!Restart(r)
      BY <1>12, <2>1, <2>2 DEF R!Restart, database
    <3>2. QED
      BY <1>3, <3>1 DEF R!Environment
  <2>3. CASE ~cancelled[r]
    <3>1. main[r] \notin {"draining", "closed"}
      BY <2>3 DEF cancelled
    <3>2. cancelled' = cancelled
      BY <1>12, <3>1 DEF cancelled, CP!TypeOK
    <3>3. QED
      BY <1>12, <3>2 DEF R!vars, database
  <2>4. QED
    BY <2>2, <2>3
<1>13. ASSUME NEW r \in Replicas, Main(r) PROVE [R!Next]_(R!vars)
  <2>1. CASE C!CloseConnections(r)
    <3>1. main[r] = "draining" /\ main' = [main EXCEPT ![r] = "closed"]
      BY <2>1 DEF C!CloseConnections
    <3>2. cancelled' = cancelled
      BY <3>1 DEF cancelled, CP!TypeOK
    <3>3. QED
      BY <1>13, <3>2 DEF Main, R!vars, database
  <2>2. CASE C!Exit(r)
    <3>1. pc[r] = "idle"
      BY <2>2 DEF C!Exit, Coupled, CP!ConnInv
    <3>2. QED
      BY <1>12, <1>13, <2>2, <3>1 DEF C!Exit, Main
  <2>3. QED
    BY <1>13, <2>1, <2>2 DEF Main, C!Main
<1>14. ASSUME NEW r \in Replicas, Restart(r) PROVE UNCHANGED R!vars
  <2>1. main[r] = "exited" /\ main' = [main EXCEPT ![r] = "serving"]
    BY <1>14 DEF Restart, C!Restart, C!Fresh
  <2>2. cancelled' = cancelled
    BY <2>1 DEF cancelled, CP!TypeOK
  <2>3. QED
    BY <1>14, <2>2 DEF Restart, R!vars, database
<1>15. ASSUME NEW r \in Replicas, Crash(r) PROVE [R!Next]_(R!vars)
  BY <1>3, <1>12, <1>15 DEF Crash, C!Crash, R!Environment
<1>16. ASSUME NEW r \in Replicas, LoseConnection(r) PROVE UNCHANGED R!vars
  BY <1>2, <1>16 DEF LoseConnection, C!ConnectionLost, C!AckLost
<1>17. CASE UNCHANGED vars
  BY <1>2, <1>17 DEF vars, consumer
<1>18. QED
  BY <1>1, <1>4, <1>5, <1>6, <1>7, <1>8, <1>9, <1>10, <1>11, <1>13,
     <1>14, <1>15, <1>16, <1>17
     DEF Next, Smooth, Handle, Break

-----------------------------------------------------------------------------
(* The whole implements its parts.                                         *)

\* In the service the commands and the replicas behave as in Consumer, so that
\* what is proved of it holds here.
THEOREM ImplementsConsumer == Spec => C!Spec
<1>1. Init => C!Init /\ SettingInv
  BY ServiceAssumption DEF Init, SettingInv
<1>2. SettingInv /\ [Next]_vars => SettingInv'
  BY SettingStep
<1>3. SettingInv /\ [Next]_vars => [C!Next]_(C!vars)
  BY ConsumerStep
<1>4. QED
  BY <1>1, <1>2, <1>3, PTL DEF Spec, C!Spec

\* ConsumerProofs' invariant.
LEMMA ConsumerInvariance == Spec => []CP!IInv
<1>1. CP!Spec => []CP!IInv
  BY PartsAssumption, CP!Invariance DEF CP!Invariance
<1>2. QED
  BY <1>1, ImplementsConsumer, SameConsumer, PTL

\* The inductive invariant.
IInv == CP!IInv /\ RP!IInv /\ SettingInv /\ Coupled

\* Every step keeps RunsProofs' invariant.
LEMMA RunsInvStep == IInv /\ [Next]_vars => RP!IInv'
<1> SUFFICES ASSUME IInv, [Next]_vars PROVE RP!IInv'
  OBVIOUS
<1>1. RP!IInv /\ RP!TypeOK
  BY DEF IInv, RP!IInv
<1>2. [RP!Next]_(RP!vars)
  BY <1>1, RunsStep, SameRuns DEF IInv
<1>3. RP!TypeOK' /\ RP!StampInv' /\ RP!OwnRunIsRunning' /\ RP!ShopInv'
  BY <1>1, <1>2, PartsAssumption, RP!TypingStep, RP!StampsStep, RP!OwnRunStep, RP!ShopStep
     DEF RP!TypingStep, RP!StampsStep, RP!OwnRunStep, RP!ShopStep
<1>4. QED
  BY <1>3 DEF RP!IInv

\* The service starts with what is not Consumer's of it.
LEMMA InitIInv == Init => RP!IInv /\ SettingInv /\ Coupled
<1> SUFFICES ASSUME Init PROVE RP!IInv /\ SettingInv /\ Coupled
  OBVIOUS
<1>1. RP!IInv
  BY PartsAssumption, SameRuns, RP!InitIInv DEF Init, RP!InitIInv
<1>2. SettingInv /\ Coupled
  BY ServiceAssumption DEF Init, SettingInv, Coupled, R!Init
<1>3. QED
  BY <1>1, <1>2

\* IInv holds in every reachable state.
THEOREM Invariance == Spec => []IInv
<1>1. Init => RP!IInv /\ SettingInv /\ Coupled
  BY InitIInv
<1>2. CP!IInv /\ RP!IInv /\ SettingInv /\ Coupled /\ [Next]_vars
        => (RP!IInv /\ SettingInv /\ Coupled)'
  BY RunsInvStep, CoupledStep, SettingStep DEF IInv, RP!IInv
<1>3. Spec => []CP!IInv
  BY ConsumerInvariance
<1>4. QED
  BY <1>1, <1>2, <1>3, PTL DEF Spec, IInv

\* Runs is what the service does to the database: a graceful shutdown ends the
\* process only between two calls of Parse (main.go:93-94).
THEOREM RunsRefinement == Spec => ImplementsRuns
<1>1. Init => R!Init
  BY DEF Init
<1>2. IInv /\ [Next]_vars => [R!Next]_(R!vars)
  BY RunsStep DEF IInv, RP!IInv
<1>3. QED
  BY <1>1, <1>2, Invariance, PTL DEF Spec, R!Spec, ImplementsRuns

\* Type correctness of the whole.
THEOREM TypeCorrect == Spec => []TypeOK
<1>1. IInv => TypeOK
  BY DEF IInv, CP!IInv, RP!IInv, Coupled, SettingInv, TypeOK, C!TypeOK, CP!TypeOK,
     R!TypeOK, RP!TypeOK, C!Fates, CP!Fates, R!Stamps, RP!Stamps, R!Row, RP!Row,
     R!States, RP!States, R!TxPcs, RP!TxPcs, R!RunPcs, RP!RunPcs
<1>2. QED
  BY <1>1, Invariance, PTL

-----------------------------------------------------------------------------
(* Acknowledged commands have runs.                                        *)

ImportedOf(s) == {m \in imported : url[m] = s}

\* Each command that was imported has a successful run of its own.
ImportsHaveRuns ==
    \A s \in Shops : Cardinality(ImportedOf(s)) <= Cardinality(Successes(s))

FiniteCounts ==
    \A s \in Shops :
        /\ IsFiniteSet(ImportedOf(s)) /\ Cardinality(ImportedOf(s)) \in Nat
        /\ IsFiniteSet(Successes(s)) /\ Cardinality(Successes(s)) \in Nat

\* The sets that are counted are finite.
LEMMA CountsFinite == IInv => FiniteCounts
<1> SUFFICES ASSUME IInv, NEW s \in Shops
             PROVE  /\ IsFiniteSet(ImportedOf(s)) /\ Cardinality(ImportedOf(s)) \in Nat
                    /\ IsFiniteSet(Successes(s)) /\ Cardinality(Successes(s)) \in Nat
  BY DEF FiniteCounts
<1>1. IsFiniteSet(1 .. MaxBegins)
  BY PartsAssumption, FS_Interval DEF RP!RunsAssumption
<1>2. Successes(s) \subseteq 1 .. MaxBegins
  BY DEF IInv, RP!IInv, RP!TypeOK, RP!Stamps, Successes, R!RunsOf
<1>3. ImportedOf(s) \subseteq Commands
  BY DEF IInv, CP!IInv, CP!TypeOK, ImportedOf
<1>4. QED
  BY <1>1, <1>2, <1>3, ServiceAssumption, FS_Subset, FS_CardinalityType

\* The run that FinishRun finishes is the worker's own, and unfinished.
LEMMA OwnRun ==
    ASSUME IInv, NEW r \in Replicas, R!FinishRun(r)
    PROVE  /\ stamp[r] \in DOMAIN runs
           /\ runs[stamp[r]].shop = shopOf[r] /\ shopOf[r] = url[cur[r]]
           /\ runs[stamp[r]].state = "running"
<1>1. pc[r] = "finish"
  BY DEF R!FinishRun
<1>2. stamp[r] \in DOMAIN runs /\ runs[stamp[r]] = [shop |-> shopOf[r], state |-> "running"]
  BY <1>1 DEF IInv, RP!IInv, RP!OwnRunIsRunning, RP!RunPcs, RP!NewRow
<1>3. shopOf[r] = url[cur[r]]
  BY <1>1 DEF IInv, Coupled
<1>4. QED
  BY <1>2, <1>3

\* No successful run is lost (postgres.go:85-101).
LEMMA SuccessesGrow ==
    ASSUME IInv, [Next]_vars, NEW s \in Shops
    PROVE  Successes(s) \subseteq Successes(s)'
<1>1. CASE UNCHANGED runs
  BY <1>1 DEF Successes, R!RunsOf
<1>2. ASSUME NEW r \in Replicas, stamp[r] \notin DOMAIN runs, R!Publish(r)
      PROVE  Successes(s) \subseteq Successes(s)'
  BY <1>2 DEF R!Publish, Successes, R!RunsOf
<1>3. ASSUME NEW r \in Replicas, R!FinishRun(r)
      PROVE  Successes(s) \subseteq Successes(s)'
  <2>1. runs[stamp[r]].state = "running"
    BY <1>3, OwnRun
  <2>2. \A q \in DOMAIN runs : q # stamp[r] => q \in DOMAIN runs' /\ runs'[q] = runs[q]
    BY <1>3 DEF R!FinishRun, R!ToFinish
  <2>3. QED
    BY <2>1, <2>2 DEF Successes, R!RunsOf
<1>4. [R!Next]_(R!vars)
  BY RunsStep DEF IInv, RP!IInv
<1>5. QED
  BY <1>1, <1>2, <1>3, <1>4 DEF R!Next, R!vars, R!Command, R!Step, R!StartStep, R!Environment,
     R!Parse, R!GetShop, R!InsertShop, R!GetLastRun, R!InsertRun, R!CommitTx, R!CommitLost,
     R!StartFails, R!Rollback, R!EndWork, R!FinishFails, R!Shutdown, R!Restart, R!Crash,
     IInv, RP!IInv, RP!StampInv, RP!StampsArePast, RP!TxPcs

\* Only a Parse that returns nil makes a command imported.
LEMMA ImportedBy ==
    IInv /\ [Next]_vars => imported' = imported \/ \E r \in Replicas : ReturnNil(r)
  BY DEF Next, vars, consumer, Smooth, Break, Publish, Deliver, Consume, Handle, Signal, Main,
     Restart, StartHandling, RefuseHandling, ParseGoesOn, ReturnError, Crash, LoseConnection,
     DatabaseFails, C!Publish, C!Deliver, C!Receive, C!RangeEnds, C!Ack, C!Nack, C!SettleFails,
     C!CheckContext, C!HandleErr, C!Signal, C!Main, C!CloseConnections, C!Exit, C!Restart,
     C!Crash, C!ConnectionLost, C!AckLost, C!history, IInv, SettingInv

\* ... and with it goes a run.
LEMMA ImportsStep == IInv /\ IInv' /\ ImportsHaveRuns /\ [Next]_vars => ImportsHaveRuns'
<1> SUFFICES ASSUME IInv, IInv', ImportsHaveRuns, [Next]_vars, NEW s \in Shops
             PROVE  Cardinality(ImportedOf(s)') <= Cardinality(Successes(s)')
  BY DEF ImportsHaveRuns
<1>1. url' = url
  BY DEF Next, setting, vars
<1>2. /\ IsFiniteSet(ImportedOf(s)) /\ Cardinality(ImportedOf(s)) \in Nat
      /\ IsFiniteSet(Successes(s)) /\ Cardinality(Successes(s)) \in Nat
  BY CountsFinite DEF FiniteCounts
<1>3. IsFiniteSet(Successes(s)') /\ Cardinality(Successes(s)') \in Nat
  <2>1. FiniteCounts'
    BY CountsFinite, PTL
  <2>2. QED
    BY <2>1 DEF FiniteCounts
<1>4. CASE imported' = imported
  <2>1. ImportedOf(s)' = ImportedOf(s)
    BY <1>1, <1>4 DEF ImportedOf
  <2>2. Cardinality(Successes(s)) <= Cardinality(Successes(s)')
    BY <1>3, SuccessesGrow, FS_Subset
  <2>3. QED
    BY <1>2, <1>3, <2>1, <2>2 DEF ImportsHaveRuns
<1>5. ASSUME NEW r \in Replicas, ReturnNil(r)
      PROVE  Cardinality(ImportedOf(s)') <= Cardinality(Successes(s)')
  <2>1. CASE s # url[cur[r]]
    <3>1. ImportedOf(s)' = ImportedOf(s)
      BY <1>1, <1>5, <2>1 DEF ReturnNil, C!HandleOk, ImportedOf
    <3>2. Cardinality(Successes(s)) <= Cardinality(Successes(s)')
      BY <1>3, SuccessesGrow, FS_Subset
    <3>3. QED
      BY <1>2, <1>3, <3>1, <3>2 DEF ImportsHaveRuns
  <2>2. CASE s = url[cur[r]]
    <3>1. /\ stamp[r] \in DOMAIN runs /\ runs[stamp[r]].shop = s
          /\ runs[stamp[r]].state = "running"
      BY <1>5, <2>2, OwnRun DEF ReturnNil
    <3>2. stamp[r] \notin Successes(s)
      BY <3>1 DEF Successes
    <3>3. stamp[r] \in Successes(s)'
      BY <1>5, <3>1 DEF ReturnNil, R!FinishRun, R!ToFinish, Successes, R!RunsOf, IInv,
         RP!IInv, RP!TypeOK, RP!Row
    <3>4. ImportedOf(s)' \subseteq ImportedOf(s) \cup {cur[r]}
      BY <1>1, <1>5 DEF ReturnNil, C!HandleOk, ImportedOf
    <3>5. /\ IsFiniteSet(ImportedOf(s) \cup {cur[r]})
          /\ Cardinality(ImportedOf(s) \cup {cur[r]}) <= Cardinality(ImportedOf(s)) + 1
      BY <1>2, FS_AddElement
    <3>6. Cardinality(Successes(s) \cup {stamp[r]}) = Cardinality(Successes(s)) + 1
      BY <1>2, <3>2, FS_AddElement
    <3>7. Successes(s) \cup {stamp[r]} \subseteq Successes(s)'
      BY <3>3, SuccessesGrow
    <3>8. Cardinality(Successes(s)) + 1 <= Cardinality(Successes(s)')
      BY <1>3, <3>6, <3>7, FS_Subset
    <3>9. /\ Cardinality(ImportedOf(s)') \in Nat
          /\ Cardinality(ImportedOf(s)') <= Cardinality(ImportedOf(s) \cup {cur[r]})
          /\ Cardinality(ImportedOf(s) \cup {cur[r]}) \in Nat
      BY <3>4, <3>5, FS_Subset, FS_CardinalityType
    <3>10. QED
      BY <1>2, <1>3, <3>5, <3>8, <3>9 DEF ImportsHaveRuns
  <2>3. QED
    BY <2>1, <2>2
<1>6. imported' = imported \/ \E r \in Replicas : ReturnNil(r)
  BY ImportedBy
<1>7. QED
  BY <1>4, <1>5, <1>6

\* An acknowledged command has a successful run of its own in the database,
\* whatever is delivered twice, crashes or fails (rabbitmq.go:91-100).
THEOREM AckedCommandsHaveRuns == Spec => []AckedHaveRuns
<1>1. Init => ImportsHaveRuns
  <2> SUFFICES ASSUME Init, NEW s \in Shops
               PROVE  Cardinality(ImportedOf(s)) <= Cardinality(Successes(s))
    BY DEF ImportsHaveRuns
  <2>1. ImportedOf(s) = {} /\ Successes(s) = {}
    BY DEF Init, C!Init, R!Init, ImportedOf, Successes, R!RunsOf
  <2>2. QED
    BY <2>1, FS_EmptySet
<1>2. IInv /\ ImportsHaveRuns => AckedHaveRuns
  <2> SUFFICES ASSUME IInv, ImportsHaveRuns, NEW s \in Shops
               PROVE  Cardinality(CommandsOf(s, {"acked"})) <= Cardinality(Successes(s))
    BY DEF AckedHaveRuns
  <2>1. CommandsOf(s, {"acked"}) \subseteq ImportedOf(s)
    BY DEF CommandsOf, ImportedOf, IInv, CP!IInv, CP!SettledAsHandled
  <2>2. /\ Cardinality(CommandsOf(s, {"acked"})) \in Nat
        /\ Cardinality(CommandsOf(s, {"acked"})) <= Cardinality(ImportedOf(s))
    BY <2>1, CountsFinite, FS_Subset, FS_CardinalityType DEF FiniteCounts
  <2>3. QED
    BY <2>2, CountsFinite DEF ImportsHaveRuns, FiniteCounts
<1>3. QED
  BY <1>1, <1>2, ImportsStep, Invariance, PTL DEF Spec
-----------------------------------------------------------------------------
(* Duplicates.  Each Parse that may still succeed is a job, and a break    *)
(* makes no more jobs than there are commands.                             *)

\* The command is in the queue, or with its owner and not handled yet.
Pending(m) ==
    \/ where[m] = "ready"
    \/ where[m] = "unacked" /\ ~(loop[owner[m]] \in {"ack", "nack"} /\ cur[owner[m]] = m)

\* The replica has the command from a connection that broke, and will handle it
\* or does.
Stale(r, m) ==
    /\ ~conn[r] /\ C!Alive(r)
    /\ \/ loop[r] # "stopped" /\ m \in buffer[r]
       \/ loop[r] = "handle" /\ cur[r] = m

Jobs(s) ==
    {j \in (Replicas \cup {None}) \X Commands :
        /\ url[j[2]] = s
        /\ IF j[1] = None THEN Pending(j[2]) ELSE Stale(j[1], j[2])}

\* The job a replica's handler is at.
HandJob(r) == <<IF conn[r] THEN None ELSE r, cur[r]>>

Sent(s) == CommandsOf(s, C!Fates \ {"unsent"})

\* Every break pays for the commands of each shop once more.
ChargeInv ==
    \A s \in Shops :
        Cardinality(Successes(s)) + Cardinality(Jobs(s)) <= (breaks + 1) * Cardinality(Sent(s))

FiniteJobs ==
    \A s \in Shops :
        /\ IsFiniteSet(Jobs(s)) /\ Cardinality(Jobs(s)) \in Nat
        /\ IsFiniteSet(Sent(s)) /\ Cardinality(Sent(s)) \in Nat

\* Jobs and commands sent can be counted.
LEMMA JobsFinite == FiniteJobs
<1> SUFFICES ASSUME NEW s \in Shops
             PROVE  /\ IsFiniteSet(Jobs(s)) /\ Cardinality(Jobs(s)) \in Nat
                    /\ IsFiniteSet(Sent(s)) /\ Cardinality(Sent(s)) \in Nat
  BY DEF FiniteJobs
<1>1. IsFiniteSet((Replicas \cup {None}) \X Commands)
  BY ServiceAssumption, FS_AddElement, FS_Product
<1>2. Jobs(s) \subseteq (Replicas \cup {None}) \X Commands /\ Sent(s) \subseteq Commands
  BY DEF Jobs, Sent, CommandsOf
<1>3. QED
  BY <1>1, <1>2, ServiceAssumption, FS_Subset, FS_CardinalityType

\* Without new pending or stale commands there is no new job.
LEMMA JobsFrame ==
    ASSUME NEW s \in Shops, url' = url,
           \A m \in Commands : Pending(m)' => Pending(m),
           \A r \in Replicas, m \in Commands : Stale(r, m)' => Stale(r, m)
    PROVE  Jobs(s)' \subseteq Jobs(s)
  BY DEF Jobs

\* What the queue, the loop and main do between two calls of the handler makes
\* no job.
LEMMA QuietStep ==
    ASSUME IInv, url' = url, NEW s \in Shops, NEW r \in Replicas,
           \/ \E m \in Commands : C!Deliver(r, m) \/ C!Receive(r, m)
           \/ C!RangeEnds(r) \/ C!Ack(r) \/ C!Nack(r) \/ C!SettleFails(r) \/ C!CheckContext(r)
           \/ C!Signal(r) \/ C!Main(r) \/ C!Restart(r) \/ UNCHANGED consumer
    PROVE  Jobs(s)' \subseteq Jobs(s)
<1> USE DEF IInv, CP!IInv, CP!TypeOK, CP!ConnInv, CP!HandInv, CP!HandPcs, CP!MineInv, CP!Mine,
     Pending, Stale, C!Alive, C!GotoLoop, C!broker
<1> DEFINE Goal == /\ \A m \in Commands : Pending(m)' => Pending(m)
                   /\ \A q \in Replicas, m \in Commands : Stale(q, m)' => Stale(q, m)
<1>1. ASSUME NEW n \in Commands, C!Deliver(r, n) PROVE Goal
  BY <1>1 DEF C!Deliver
<1>2. ASSUME NEW n \in Commands, C!Receive(r, n) PROVE Goal
  <2>1. \A m \in Commands : Pending(m)' => Pending(m)
    BY <1>2 DEF C!Receive
  <2>2. ASSUME NEW q \in Replicas, NEW m \in Commands, Stale(q, m)' PROVE Stale(q, m)
    <3>1. CASE q = r
      BY <1>2, <2>2, <3>1 DEF C!Receive
    <3>2. CASE q # r
      BY <1>2, <2>2, <3>2 DEF C!Receive
    <3>3. QED
      BY <3>1, <3>2
  <2>3. QED
    BY <2>1, <2>2
<1>3. ASSUME C!RangeEnds(r) PROVE Goal
  BY <1>3 DEF C!RangeEnds
<1>4. ASSUME C!Ack(r) \/ C!Nack(r) PROVE Goal
  BY <1>4 DEF C!Ack, C!Nack, C!Settle
<1>5. ASSUME C!SettleFails(r) PROVE Goal
  BY <1>5 DEF C!SettleFails
<1>6. ASSUME C!CheckContext(r) PROVE Goal
  BY <1>6 DEF C!CheckContext
<1>7. ASSUME C!Signal(r) PROVE Goal
  BY <1>7 DEF C!Signal
<1>8. ASSUME C!CloseConnections(r) PROVE Goal
  BY <1>8 DEF C!CloseConnections, C!Requeue, C!HeldFor
<1>9. ASSUME C!Exit(r) PROVE Goal
  BY <1>9 DEF C!Exit
<1>10. ASSUME C!Restart(r) PROVE Goal
  BY <1>10 DEF C!Restart, C!Fresh
<1>11. ASSUME UNCHANGED consumer PROVE Goal
  BY <1>11 DEF consumer
<1>12. Goal
  BY <1>1, <1>2, <1>3, <1>4, <1>5, <1>6, <1>7, <1>8, <1>9, <1>10, <1>11 DEF C!Main
<1>13. QED
  BY <1>12, JobsFrame

\* The command in the handler is a job.
LEMMA HandIsJob ==
    ASSUME IInv, NEW r \in Replicas, loop[r] = "handle", C!Alive(r)
    PROVE  /\ cur[r] \in Commands /\ HandJob(r) \in Jobs(url[cur[r]])
           /\ IF conn[r] THEN Pending(cur[r]) ELSE Stale(r, cur[r])
<1> USE DEF IInv, CP!IInv, CP!TypeOK, CP!HandInv, CP!HandPcs, CP!MineInv, CP!Mine, Pending, Stale
<1>1. cur[r] \in Commands /\ r # None
  BY ServiceAssumption
<1>2. IF conn[r] THEN Pending(cur[r]) ELSE Stale(r, cur[r])
  OBVIOUS
<1>3. QED
  BY <1>1, <1>2 DEF Jobs, HandJob

\* When the handler returns, its job is done.
LEMMA HandledStep ==
    ASSUME IInv, url' = url, NEW r \in Replicas, C!HandleOk(r) \/ C!HandleErr(r)
    PROVE  /\ HandJob(r) \in Jobs(url[cur[r]])
           /\ \A s \in Shops : Jobs(s)' \subseteq Jobs(s) \ {HandJob(r)}
<1> USE DEF IInv, CP!IInv, CP!TypeOK, CP!ConnInv, CP!HandInv, CP!HandPcs, CP!MineInv, CP!Mine,
     Pending, Stale, C!Alive, C!GotoLoop, C!broker
<1>1. /\ loop[r] = "handle" /\ C!Alive(r) /\ cur[r] \in Commands
      /\ loop' = [loop EXCEPT ![r] = loop'[r]] /\ loop'[r] \in {"ack", "nack"}
      /\ UNCHANGED <<where, owner, buffer, conn, cur, main>>
  BY DEF C!HandleOk, C!HandleErr
<1>2. /\ \A m \in Commands : Pending(m)' => Pending(m)
      /\ \A q \in Replicas, m \in Commands : Stale(q, m)' => Stale(q, m)
  BY <1>1
<1>3. \A s \in Shops : Jobs(s)' \subseteq Jobs(s)
  BY <1>2, JobsFrame
<1>4. r # None
  BY ServiceAssumption
<1>5. CASE conn[r]
  <2>1. ~Pending(cur[r])'
    BY <1>1, <1>5
  <2>2. \A s \in Shops : HandJob(r) \notin Jobs(s)'
    BY <1>1, <1>5, <2>1 DEF Jobs, HandJob
  <2>3. QED
    BY <1>1, <1>3, <2>2, HandIsJob
<1>6. CASE ~conn[r]
  <2>1. ~Stale(r, cur[r])'
    BY <1>1, <1>6
  <2>2. \A s \in Shops : HandJob(r) \notin Jobs(s)'
    BY <1>1, <1>4, <1>6, <2>1 DEF Jobs, HandJob
  <2>3. QED
    BY <1>1, <1>3, <2>2, HandIsJob
<1>7. QED
  BY <1>5, <1>6

\* The job a break makes of a command the replica holds: to be delivered again
\* if it was handled, and to be handled without its connection if not.
Lost(r) ==
    [m \in Commands |->
        <<IF loop[r] \in {"ack", "nack"} /\ cur[r] = m THEN None ELSE r, m>>]

\* A break makes at most one job of each command that was sent.
LEMMA BreakStep ==
    ASSUME IInv, url' = url, NEW s \in Shops, NEW r \in Replicas,
           C!Crash(r) \/ C!ConnectionLost(r) \/ C!AckLost(r)
    PROVE  Jobs(s)' \subseteq Jobs(s) \cup {Lost(r)[m] : m \in Sent(s)}
<1> USE DEF IInv, CP!IInv, CP!TypeOK, CP!ConnInv, CP!HandInv, CP!HandPcs, CP!MineInv, CP!Mine,
     CP!NothingForgotten, CP!InHand, Pending, Stale, C!Alive, C!GotoLoop
<1>1. /\ where' = [m \in Commands |-> IF m \in C!HeldFor(r) THEN "ready" ELSE where[m]]
      /\ owner' = [m \in Commands |-> IF m \in C!HeldFor(r) THEN None ELSE owner[m]]
      /\ conn' = [conn EXCEPT ![r] = FALSE]
      /\ UNCHANGED <<buffer, cur>>
      /\ \A q \in Replicas \ {r} : loop'[q] = loop[q] /\ main'[q] = main[q]
  BY DEF C!Crash, C!ConnectionLost, C!AckLost, C!Requeue
<1>2. /\ C!Alive(r)' => conn[r] /\ C!Alive(r)
      /\ loop'[r] # "stopped" => loop[r] # "stopped"
      /\ loop'[r] = "handle" => loop[r] = "handle"
  BY DEF C!Crash, C!ConnectionLost, C!AckLost
<1>3. ASSUME NEW m \in Commands, Pending(m)', ~Pending(m)
      PROVE  m \in C!HeldFor(r) /\ loop[r] \in {"ack", "nack"} /\ cur[r] = m
  BY <1>1, <1>3 DEF C!HeldFor
<1>4. ASSUME NEW q \in Replicas, NEW m \in Commands, Stale(q, m)', ~Stale(q, m)
      PROVE  q = r /\ m \in C!HeldFor(r) /\ ~(loop[r] \in {"ack", "nack"} /\ cur[r] = m)
  <2>1. q = r
    BY <1>1, <1>4
  <2>2. conn[r] /\ (m \in buffer[r] \/ (loop[r] = "handle" /\ cur[r] = m))
    BY <1>1, <1>2, <1>4, <2>1
  <2>3. QED
    BY <2>1, <2>2 DEF C!HeldFor
<1>5. \A m \in C!HeldFor(r) : where[m] = "unacked" /\ m \in Commands
  BY DEF C!HeldFor
<1>6. SUFFICES ASSUME NEW j \in Jobs(s)', j \notin Jobs(s)
               PROVE  j \in {Lost(r)[m] : m \in Sent(s)}
  OBVIOUS
<1>7. PICK q \in Replicas \cup {None}, m \in Commands :
          j = <<q, m>> /\ url[m] = s /\ (IF q = None THEN Pending(m)' ELSE Stale(q, m)')
  BY <1>6 DEF Jobs
<1>8. IF q = None THEN ~Pending(m) ELSE ~Stale(q, m)
  BY <1>6, <1>7 DEF Jobs
<1>9. m \in C!HeldFor(r) /\ j = Lost(r)[m]
  <2>1. CASE q = None
    BY <1>3, <1>7, <1>8, <2>1 DEF Lost
  <2>2. CASE q # None
    <3>1. q \in Replicas /\ Stale(q, m)' /\ ~Stale(q, m)
      BY <1>7, <1>8, <2>2
    <3>2. QED
      BY <1>4, <1>7, <3>1 DEF Lost
  <2>3. QED
    BY <2>1, <2>2
<1>10. m \in Sent(s)
  BY <1>5, <1>7, <1>9 DEF Sent, CommandsOf, C!Fates
<1>11. QED
  BY <1>9, <1>10

\* A command that is sent is a job.
LEMMA PublishStep ==
    ASSUME IInv, url' = url, NEW s \in Shops, NEW m \in Commands, C!Publish(m)
    PROVE  \/ Jobs(s)' \subseteq Jobs(s)
           \/ /\ m \in Sent(s)' /\ m \notin Sent(s)
              /\ Jobs(s)' \subseteq Jobs(s) \cup {<<None, m>>}
<1> USE DEF IInv, CP!IInv, CP!TypeOK, Pending, Stale, C!Alive
<1>1. /\ where[m] = "unsent" /\ where' = [where EXCEPT ![m] = "ready"]
      /\ UNCHANGED <<owner, buffer, conn, loop, cur, main>>
  BY DEF C!Publish
<1>2. /\ \A n \in Commands : Pending(n)' => Pending(n) \/ n = m
      /\ \A q \in Replicas, n \in Commands : Stale(q, n)' => Stale(q, n)
  BY <1>1
<1>3. CASE url[m] = s
  <2>1. m \in Sent(s)' /\ m \notin Sent(s)
    BY <1>1, <1>3 DEF Sent, CommandsOf, C!Fates
  <2>2. Jobs(s)' \subseteq Jobs(s) \cup {<<None, m>>}
    BY <1>2 DEF Jobs
  <2>3. QED
    BY <2>1, <2>2
<1>4. CASE url[m] # s
  BY <1>2, <1>4 DEF Jobs
<1>5. QED
  BY <1>3, <1>4

\* Only FinishRun makes a run a success: its worker's, of the shop in hand.
LEMMA SuccessesBy ==
    ASSUME IInv, NEW s \in Shops, NEW r \in Replicas, UNCHANGED runs \/ R!Step(r)
    PROVE  \/ Successes(s)' \subseteq Successes(s)
           \/ /\ R!FinishRun(r) /\ s = url[cur[r]]
              /\ Successes(s)' \subseteq Successes(s) \cup {stamp[r]}
<1>1. CASE UNCHANGED runs
  BY <1>1 DEF Successes, R!RunsOf
<1>2. CASE R!Publish(r)
  BY <1>2 DEF R!Publish, R!NewRow, Successes, R!RunsOf
<1>3. CASE R!FinishRun(r)
  <2>1. /\ DOMAIN runs' = DOMAIN runs /\ \A q \in DOMAIN runs : q # stamp[r] => runs'[q] = runs[q]
        /\ runs'[stamp[r]].shop = url[cur[r]]
    BY <1>3, OwnRun DEF R!FinishRun, R!ToFinish, IInv, RP!IInv, RP!TypeOK, RP!Row
  <2>2. QED
    BY <1>3, <2>1 DEF Successes, R!RunsOf
<1>4. QED
  BY <1>1, <1>2, <1>3 DEF R!Step, R!StartStep, R!GetShop, R!InsertShop, R!GetLastRun,
     R!InsertRun, R!CommitTx, R!CommitLost, R!StartFails, R!Rollback, R!EndWork, R!FinishFails

\* What a step does to the jobs of a shop and its successful runs.
LEMMA Deltas ==
    ASSUME IInv, [Next]_vars, NEW s \in Shops
    PROVE  \/ Jobs(s)' \subseteq Jobs(s) /\ Successes(s)' \subseteq Successes(s)
           \/ \E m : /\ m \in Sent(s)' /\ m \notin Sent(s)
                     /\ Jobs(s)' \subseteq Jobs(s) \cup {<<None, m>>}
                     /\ Successes(s)' \subseteq Successes(s)
           \/ /\ \E j \in Jobs(s) : Jobs(s)' \subseteq Jobs(s) \ {j}
              /\ \E q : Successes(s)' \subseteq Successes(s) \cup {q}
           \/ /\ breaks' = breaks + 1
              /\ \E r : Jobs(s)' \subseteq Jobs(s) \cup {Lost(r)[m] : m \in Sent(s)}
              /\ Successes(s)' \subseteq Successes(s)
<1> DEFINE Goal == \/ Jobs(s)' \subseteq Jobs(s) /\ Successes(s)' \subseteq Successes(s)
                   \/ \E m : /\ m \in Sent(s)' /\ m \notin Sent(s)
                             /\ Jobs(s)' \subseteq Jobs(s) \cup {<<None, m>>}
                             /\ Successes(s)' \subseteq Successes(s)
                   \/ /\ \E j \in Jobs(s) : Jobs(s)' \subseteq Jobs(s) \ {j}
                      /\ \E q : Successes(s)' \subseteq Successes(s) \cup {q}
<1>1. url' = url /\ deployed \subseteq Replicas
  BY DEF Next, vars, setting, IInv, SettingInv
<1>2. UNCHANGED runs => Successes(s)' \subseteq Successes(s)
  BY DEF Successes, R!RunsOf
<1>3. ASSUME NEW m \in Commands, Publish(m) PROVE Goal
  BY <1>1, <1>2, <1>3, PublishStep DEF Publish, database
<1>4. ASSUME Deliver PROVE Goal
  BY <1>1, <1>2, <1>4, QuietStep DEF Deliver, database
<1>5. ASSUME NEW r \in Replicas, Consume(r) \/ Signal(r) \/ Main(r) \/ Restart(r) PROVE Goal
  BY <1>1, <1>2, <1>5, QuietStep DEF Consume, Signal, Main, Restart, database
<1>6. ASSUME NEW r \in Replicas, StartHandling(r) PROVE Goal
  BY <1>1, <1>2, <1>6, QuietStep DEF StartHandling, R!Parse
<1>7. ASSUME NEW r \in Replicas, ParseGoesOn(r) PROVE Goal
  <2>1. R!Step(r) /\ pc'[r] # "idle" /\ UNCHANGED consumer
    BY <1>7, WorkerStep DEF ParseGoesOn
  <2>2. ~R!FinishRun(r)
    BY <2>1 DEF R!FinishRun, R!Goto, IInv, RP!IInv, RP!TypeOK
  <2>3. QED
    BY <1>1, <2>1, <2>2, QuietStep, SuccessesBy
<1>8. ASSUME NEW r \in Replicas, C!HandleOk(r) \/ C!HandleErr(r), UNCHANGED runs \/ R!Step(r)
      PROVE  Goal
  <2>1. /\ HandJob(r) \in Jobs(url[cur[r]])
        /\ \A t \in Shops : Jobs(t)' \subseteq Jobs(t) \ {HandJob(r)}
    BY <1>1, <1>8, HandledStep
  <2>2. Jobs(s)' \subseteq Jobs(s) \ {HandJob(r)}
    BY <2>1
  <2>3. CASE Successes(s)' \subseteq Successes(s)
    BY <2>2, <2>3
  <2>4. CASE s = url[cur[r]] /\ Successes(s)' \subseteq Successes(s) \cup {stamp[r]}
    BY <2>1, <2>2, <2>4
  <2>5. QED
    BY <1>8, <2>3, <2>4, SuccessesBy
<1>9. ASSUME NEW r \in Replicas, RefuseHandling(r) \/ ReturnNil(r) \/ ReturnError(r) PROVE Goal
  BY <1>8, <1>9, WorkerStep DEF RefuseHandling, ReturnNil, ReturnError, database
<1>10. ASSUME NEW r \in Replicas, DatabaseFails(r) PROVE Goal
  BY <1>8, <1>10, WorkerStep DEF DatabaseFails, database
<1>11. ASSUME NEW r \in Replicas, Crash(r) \/ LoseConnection(r)
       PROVE  /\ \E q : Jobs(s)' \subseteq Jobs(s) \cup {Lost(q)[m] : m \in Sent(s)}
              /\ Successes(s)' \subseteq Successes(s)
  BY <1>1, <1>2, <1>11, BreakStep DEF Crash, LoseConnection, R!Crash, database
<1>12. CASE UNCHANGED vars
  <2>1. Jobs(s)' = Jobs(s)
    BY <1>12 DEF vars, consumer, setting, Jobs, Pending, Stale, C!Alive
  <2>2. QED
    BY <1>2, <1>12, <2>1 DEF vars, database
<1>13. QED
  BY <1>1, <1>3, <1>4, <1>5, <1>6, <1>7, <1>9, <1>10, <1>11, <1>12
     DEF Next, Smooth, Break, Handle

\* No command that was sent becomes unsent.
LEMMA StaysSent ==
    ASSUME IInv, [Next]_vars
    PROVE  \A m \in Commands : where'[m] = "unsent" => where[m] = "unsent"
<1>1. [C!Next]_(C!vars)
  BY ConsumerStep DEF IInv
<1>2. QED
  BY <1>1 DEF IInv, CP!IInv, CP!TypeOK, C!Next, C!vars, C!broker, C!Publish, C!Deliver, C!Loop,
     C!Main, C!Failure, C!Receive, C!RangeEnds, C!HandleOk, C!HandleErr, C!Nack, C!Ack, C!Settle,
     C!SettleFails, C!CheckContext, C!CloseConnections, C!Exit, C!Restart, C!Signal, C!Crash,
     C!ConnectionLost, C!AckLost, C!Requeue, C!HeldFor, C!BrokerRestart

LEMMA SentGrows ==
    ASSUME IInv, IInv', [Next]_vars, NEW s \in Shops
    PROVE  Sent(s) \subseteq Sent(s)'
<1>1. url' = url
  BY DEF Next, vars, setting
<1>2. QED
  BY <1>1, StaysSent DEF Sent, CommandsOf, C!Fates, CP!Fates, IInv, CP!IInv, CP!TypeOK

\* What one command or one break adds to the number of imports.
LEMMA Budget ==
    ASSUME NEW b \in Nat, NEW c \in Nat, NEW m \in Nat, NEW n \in Nat, b <= c, m <= n
    PROVE  /\ (b + 1) * m \in Nat /\ (c + 1) * n \in Nat
           /\ (b + 1) * m <= (c + 1) * n
           /\ m < n => (b + 1) * m + 1 <= (c + 1) * n
           /\ c = b + 1 => (b + 1) * m + m <= (c + 1) * n
<1>1. (b + 1) * m \in Nat /\ (c + 1) * n \in Nat
  OBVIOUS
<1>2. (b + 1) * m <= (c + 1) * n
  OBVIOUS
<1>3. m < n => (b + 1) * m + 1 <= (c + 1) * n
  OBVIOUS
<1>4. c = b + 1 => (b + 1) * m + m <= (c + 1) * n
  OBVIOUS
<1>5. QED
  BY <1>1, <1>2, <1>3, <1>4

\* A function's values are no more than its arguments.
LEMMA ImageBound ==
    ASSUME NEW S, IsFiniteSet(S), NEW f, S \subseteq DOMAIN f
    PROVE  IsFiniteSet({f[x] : x \in S}) /\ Cardinality({f[x] : x \in S}) <= Cardinality(S)
<1> DEFINE T == {f[x] : x \in S}
           g == [x \in S |-> f[x]]
<1>1. g \in Surjection(S, T)
  BY DEF Surjection
<1>2. QED
  BY <1>1, FS_Surjection

\* The ledger of what was done and the jobs left: a command sent brings a job, a job
\* gives one thing done, a break at most one job for each command.
LEMMA Ledger ==
    ASSUME NEW b \in Nat, NEW c \in Nat, b <= c,
           NEW sent, NEW sent2, IsFiniteSet(sent2), sent \subseteq sent2,
           NEW jobs, NEW jobs2, IsFiniteSet(jobs), NEW done \in Nat, NEW done2 \in Nat,
           done + Cardinality(jobs) <= (b + 1) * Cardinality(sent),
           \/ jobs2 \subseteq jobs /\ done2 <= done
           \/ \E m, j : /\ m \in sent2 \ sent /\ jobs2 \subseteq jobs \cup {j}
                        /\ done2 <= done
           \/ \E j \in jobs : jobs2 \subseteq jobs \ {j} /\ done2 <= done + 1
           \/ /\ c = b + 1 /\ done2 <= done
              /\ \E f : sent \subseteq DOMAIN f /\ jobs2 \subseteq jobs \cup {f[m] : m \in sent}
    PROVE  done2 + Cardinality(jobs2) <= (c + 1) * Cardinality(sent2)
<1> DEFINE n == Cardinality(jobs)   k == Cardinality(sent)
           n2 == Cardinality(jobs2) k2 == Cardinality(sent2)
           Goal == done2 + n2 <= (c + 1) * k2
<1>1. IsFiniteSet(sent) /\ n \in Nat /\ k \in Nat /\ k2 \in Nat /\ k <= k2
  BY FS_Subset, FS_CardinalityType
<1>2. /\ (b + 1) * k \in Nat /\ (c + 1) * k2 \in Nat
      /\ (b + 1) * k <= (c + 1) * k2
      /\ k < k2 => (b + 1) * k + 1 <= (c + 1) * k2
      /\ c = b + 1 => (b + 1) * k + k <= (c + 1) * k2
  BY <1>1, Budget
<1>3. CASE jobs2 \subseteq jobs /\ done2 <= done
  <2>1. n2 <= n /\ n2 \in Nat
    BY <1>3, FS_Subset, FS_CardinalityType
  <2>2. QED
    BY <1>1, <1>2, <1>3, <2>1
<1>4. ASSUME NEW m, NEW j, m \in sent2 \ sent, jobs2 \subseteq jobs \cup {j}, done2 <= done
      PROVE  Goal
  <2>1. k < k2
    <3>1. k # k2
      BY <1>4, FS_Subset
    <3>2. QED
      BY <1>1, <3>1
  <2>2. /\ IsFiniteSet(jobs \cup {j})
        /\ Cardinality(jobs \cup {j}) \in {n, n + 1}
    BY FS_AddElement
  <2>3. n2 <= Cardinality(jobs \cup {j}) /\ n2 \in Nat
    BY <1>4, <2>2, FS_Subset, FS_CardinalityType
  <2>4. QED
    BY <1>1, <1>2, <1>4, <2>1, <2>2, <2>3
<1>5. ASSUME NEW j \in jobs, jobs2 \subseteq jobs \ {j}, done2 <= done + 1 PROVE Goal
  <2>1. IsFiniteSet(jobs \ {j}) /\ Cardinality(jobs \ {j}) = n - 1
    BY <1>5, FS_RemoveElement
  <2>2. n2 <= n - 1 /\ n2 \in Nat
    BY <1>5, <2>1, FS_Subset, FS_CardinalityType
  <2>3. QED
    BY <1>1, <1>2, <1>5, <2>2
<1>6. ASSUME c = b + 1, done2 <= done, NEW f, sent \subseteq DOMAIN f,
             jobs2 \subseteq jobs \cup {f[m] : m \in sent}
      PROVE  Goal
  <2> DEFINE new == {f[m] : m \in sent}
  <2>1. IsFiniteSet(new) /\ Cardinality(new) <= k
    BY <1>1, <1>6, ImageBound
  <2>2. /\ IsFiniteSet(jobs \cup new)
        /\ Cardinality(jobs \cup new) = n + Cardinality(new) - Cardinality(jobs \cap new)
    BY <2>1, FS_Union
  <2>3. Cardinality(new) \in Nat /\ Cardinality(jobs \cap new) \in Nat
    BY <2>1, FS_Intersection, FS_CardinalityType
  <2>4. n2 <= Cardinality(jobs \cup new) /\ n2 \in Nat
    BY <1>6, <2>2, FS_Subset, FS_CardinalityType
  <2> HIDE DEF new
  <2>5. QED
    BY <1>1, <1>2, <1>6, <2>1, <2>2, <2>3, <2>4
<1>7. QED
  BY <1>3, <1>4, <1>5, <1>6

\* Every step keeps what is charged.
LEMMA ChargeStep == IInv /\ IInv' /\ ChargeInv /\ [Next]_vars => ChargeInv'
<1> SUFFICES ASSUME IInv, IInv', ChargeInv, [Next]_vars, NEW s \in Shops
             PROVE  Cardinality(Successes(s)') + Cardinality(Jobs(s)')
                      <= (breaks' + 1) * Cardinality(Sent(s)')
  BY DEF ChargeInv
<1> DEFINE done == Cardinality(Successes(s))
<1>1. IsFiniteSet(Jobs(s)) /\ IsFiniteSet(Successes(s)) /\ done \in Nat
  BY JobsFinite, CountsFinite DEF FiniteJobs, FiniteCounts
<1>2. IsFiniteSet(Sent(s)') /\ IsFiniteSet(Successes(s)') /\ done' \in Nat
  <2>1. FiniteCounts'
    BY CountsFinite, PTL
  <2>2. FiniteJobs'
    BY JobsFinite, PTL
  <2>3. QED
    BY <2>1, <2>2 DEF FiniteCounts, FiniteJobs
<1>3. Sent(s) \subseteq Sent(s)'
  BY SentGrows
<1>4. breaks \in Nat /\ breaks' \in Nat /\ breaks <= breaks'
  BY ServiceAssumption DEF IInv, SettingInv, Next, vars
<1>5. done + Cardinality(Jobs(s)) <= (breaks + 1) * Cardinality(Sent(s))
  BY DEF ChargeInv
<1>6. Successes(s)' \subseteq Successes(s) => done' <= done
  BY <1>1, FS_Subset
<1>7. ASSUME NEW q, Successes(s)' \subseteq Successes(s) \cup {q} PROVE done' <= done + 1
  <2>1. /\ IsFiniteSet(Successes(s) \cup {q})
        /\ Cardinality(Successes(s) \cup {q}) \in {done, done + 1}
    BY <1>1, FS_AddElement
  <2>2. done' <= Cardinality(Successes(s) \cup {q})
    BY <1>7, <2>1, FS_Subset
  <2>3. QED
    BY <1>1, <1>2, <2>1, <2>2
<1>8. \A r : Sent(s) \subseteq DOMAIN Lost(r)
  BY DEF Lost, Sent, CommandsOf
<1>9. \/ Jobs(s)' \subseteq Jobs(s) /\ done' <= done
      \/ \E m, j : /\ m \in Sent(s)' \ Sent(s) /\ Jobs(s)' \subseteq Jobs(s) \cup {j}
                   /\ done' <= done
      \/ \E j \in Jobs(s) : Jobs(s)' \subseteq Jobs(s) \ {j} /\ done' <= done + 1
      \/ /\ breaks' = breaks + 1 /\ done' <= done
         /\ \E f : /\ Sent(s) \subseteq DOMAIN f
                   /\ Jobs(s)' \subseteq Jobs(s) \cup {f[m] : m \in Sent(s)}
  BY <1>6, <1>7, <1>8, Deltas
<1> HIDE DEF done
<1>10. QED
  BY <1>1, <1>2, <1>3, <1>4, <1>5, <1>9, Ledger DEF done

\* A shop is imported at most once for each command sent, and once more for each
\* of them and each break (rabbitmq.go:90-101, main.go:93-117).
THEOREM DuplicatesAreBreaks == Spec => []DuplicatesNeedBreaks
<1>1. Init => ChargeInv
  <2> SUFFICES ASSUME Init, NEW s \in Shops
               PROVE  Cardinality(Successes(s)) + Cardinality(Jobs(s))
                        <= (breaks + 1) * Cardinality(Sent(s))
    BY DEF ChargeInv
  <2>1. Successes(s) = {} /\ breaks = 0
    BY DEF Init, R!Init, Successes, R!RunsOf
  <2>2. Jobs(s) = {}
    BY DEF Init, C!Init, Jobs, Pending, Stale
  <2>3. Cardinality(Sent(s)) \in Nat
    BY JobsFinite DEF FiniteJobs
  <2>4. QED
    BY <2>1, <2>2, <2>3, FS_EmptySet
<1>2. IInv /\ ChargeInv => DuplicatesNeedBreaks
  <2> SUFFICES ASSUME IInv, ChargeInv, NEW s \in Shops
               PROVE  Cardinality(Successes(s)) <= (breaks + 1) * Cardinality(Sent(s))
    BY DEF DuplicatesNeedBreaks, Sent
  <2>1. Cardinality(Successes(s)) \in Nat /\ Cardinality(Jobs(s)) \in Nat
    BY JobsFinite, CountsFinite DEF FiniteJobs, FiniteCounts
  <2>2. (breaks + 1) * Cardinality(Sent(s)) \in Nat
    BY JobsFinite, ServiceAssumption DEF FiniteJobs, IInv, SettingInv
  <2>3. QED
    BY <2>1, <2>2 DEF ChargeInv
<1>3. QED
  BY <1>1, <1>2, ChargeStep, Invariance, PTL DEF Spec

-----------------------------------------------------------------------------
(* One replica.                                                            *)

\* Replicas that are not deployed do nothing.
IdleInv == \A r \in Replicas \ deployed : pc[r] = "idle"

\* With one replica deployed an unfinished run is the last of its shop.
SequenceInv == Single => RP!SingleInv

\* Every step is by a deployed replica.
LEMMA IdleStep == IInv /\ IdleInv /\ [Next]_vars => IdleInv'
<1> SUFFICES ASSUME IInv, IdleInv, [Next]_vars PROVE IdleInv'
  OBVIOUS
<1> USE DEF IdleInv
<1>1. deployed' = deployed /\ deployed \subseteq Replicas /\ DOMAIN pc = Replicas
  BY DEF Next, vars, setting, IInv, SettingInv, RP!IInv, RP!TypeOK
<1>2. CASE pc' = pc
  BY <1>1, <1>2
<1>3. ASSUME NEW r \in deployed, NEW l, pc' = [pc EXCEPT ![r] = l] PROVE IdleInv'
  BY <1>1, <1>3
<1>4. ASSUME NEW r \in deployed, StartHandling(r) PROVE IdleInv'
  BY <1>3, <1>4 DEF StartHandling, R!Parse, R!Goto
<1>5. ASSUME NEW r \in deployed, ParseGoesOn(r) \/ ReturnNil(r) \/ ReturnError(r) PROVE IdleInv'
  BY <1>1, <1>3, <1>5, WorkerStep DEF ParseGoesOn, ReturnNil, ReturnError
<1>6. ASSUME NEW r \in deployed, DatabaseFails(r) PROVE IdleInv'
  BY <1>1, <1>2, <1>3, <1>6, WorkerStep DEF DatabaseFails, database
<1>7. ASSUME NEW r \in deployed, Crash(r) PROVE IdleInv'
  BY <1>2, <1>3, <1>7 DEF Crash, R!Crash, R!Goto, database
<1>8. QED
  BY <1>2, <1>4, <1>5, <1>6, <1>7
     DEF Next, vars, database, Smooth, Publish, Deliver, Consume, Handle, RefuseHandling,
         Signal, Main, Restart, Break, LoseConnection

\* RunsProofs' argument about a single worker.
LEMMA SequenceStep == IInv /\ IdleInv /\ SequenceInv /\ [Next]_vars => SequenceInv'
<1> SUFFICES ASSUME IInv, IdleInv, SequenceInv, [Next]_vars, Single' PROVE RP!SingleInv'
  BY DEF SequenceInv
<1>1. deployed' = deployed
  BY DEF Next, vars, setting
<1>2. Single /\ IsFiniteSet(deployed)
  BY <1>1, ServiceAssumption, FS_Subset DEF Single, IInv, SettingInv
<1>3. PICK u : deployed = {u}
  BY <1>2, FS_Singleton DEF Single
<1>4. RP!Sole(u) /\ RP!Sole(u)'
  BY <1>1, <1>3, IdleStep DEF IdleInv, RP!Sole
<1>5. RP!IInv /\ [RP!Next]_(RP!vars)
  BY RunsStep, SameRuns DEF IInv, RP!IInv
<1>6. QED
  BY <1>2, <1>4, <1>5, PartsAssumption, RP!SingleStep DEF RP!SingleStep, SequenceInv

\* Both hold in every reachable state.
LEMMA SequenceInvariance == Spec => [](IInv /\ SequenceInv)
<1>1. Init => IdleInv /\ SequenceInv
  BY DEF Init, R!Init, IdleInv, SequenceInv, RP!SingleInv, RP!OnlyLastRuns, RP!StartIsAlone,
     RP!TxPcs
<1>2. QED
  BY <1>1, IdleStep, SequenceStep, Invariance, PTL DEF Spec

\* README.md:7, of a service with one replica out of any number: however often a
\* command is delivered, a shop never has two unfinished runs.
THEOREM SingleReplicaExclusion == Spec => []AtMostOneRunning
<1>1. IInv /\ SequenceInv => AtMostOneRunning
  BY PartsAssumption, RP!LastIsOnly
     DEF RP!LastIsOnly, IInv, SequenceInv, AtMostOneRunning, R!AtMostOneRunning,
         RP!AtMostOneRunning, R!Running, RP!Running
<1>2. QED
  BY <1>1, SequenceInvariance, PTL

\* ... and a shop with an orphaned run gets no new run (postgres.go:51-59).
THEOREM SingleReplicaOrphanBlocks == Spec => OrphanBlocksShop
<1>1. IInv /\ SequenceInv /\ [Next]_vars =>
        [\A q \in R!Stamps, s \in Shops :
            /\ Single
            /\ \E r \in R!RunsOf(s) : R!Orphan(r)
            /\ q \in DOMAIN runs' \ DOMAIN runs
            => runs'[q].shop # s]_vars
  <2> SUFFICES ASSUME IInv, SequenceInv, [Next]_vars, NEW q \in R!Stamps, NEW s \in Shops,
                      Single, NEW r \in R!RunsOf(s), R!Orphan(r),
                      q \in DOMAIN runs' \ DOMAIN runs
               PROVE  runs'[q].shop # s
    OBVIOUS
  <2>1. [RP!Next]_(RP!vars) /\ RP!IInv /\ RP!SingleInv
    BY RunsStep, SameRuns DEF IInv, RP!IInv, SequenceInv
  <2>2. r \in RP!Stamps /\ q \in RP!Stamps /\ RP!Orphan(r) /\ runs[r].shop = s
    BY <2>1 DEF RP!IInv, RP!TypeOK, R!RunsOf, R!Orphan, R!Running, R!Owns, R!RunPcs, R!Stamps,
       RP!Orphan, RP!Running, RP!Owns, RP!RunPcs, RP!Stamps
  <2>3. QED
    BY <2>1, <2>2, PartsAssumption, RP!OrphanStep DEF RP!OrphanStep
<1>2. QED
  BY <1>1, SequenceInvariance, PTL DEF Spec, OrphanBlocksShop

\* ... and no command for it is imported (postgres.go:57-59, rabbitmq.go:95).
THEOREM SingleReplicaOrphanRefuses == Spec => OrphanedShopRefuses
<1>1. IInv /\ SequenceInv /\ [Next]_vars =>
        [\A m \in Commands :
            /\ Single
            /\ \E r \in R!RunsOf(url[m]) : R!Orphan(r)
            => m \notin imported' \ imported]_vars
  <2> SUFFICES ASSUME IInv, SequenceInv, [Next]_vars, NEW m \in Commands, Single,
                      NEW q \in R!RunsOf(url[m]), R!Orphan(q), m \in imported' \ imported
               PROVE  FALSE
    OBVIOUS
  <2>1. PICK r \in Replicas : ReturnNil(r)
    BY ImportedBy
  <2>2. m = cur[r]
    BY <2>1 DEF ReturnNil, C!HandleOk
  <2>3. /\ stamp[r] \in DOMAIN runs /\ runs[stamp[r]].shop = url[m]
        /\ runs[stamp[r]].state = "running"
    BY <2>1, <2>2, OwnRun DEF ReturnNil
  <2>4. R!Owns(r, stamp[r])
    BY <2>1 DEF ReturnNil, R!FinishRun, R!Owns, R!RunPcs
  <2>5. R!AtMostOneRunning
    BY PartsAssumption, RP!LastIsOnly
       DEF RP!LastIsOnly, IInv, SequenceInv, R!AtMostOneRunning, RP!AtMostOneRunning,
           R!Running, RP!Running
  <2>6. stamp[r] = q
    BY <2>3, <2>5 DEF R!AtMostOneRunning, R!Orphan, R!Running, R!RunsOf
  <2>7. QED
    BY <2>4, <2>6 DEF R!Orphan
<1>2. QED
  BY <1>1, SequenceInvariance, PTL DEF Spec, OrphanedShopRefuses

-----------------------------------------------------------------------------
(* How often StartRun is called.                                           *)

AllJobs   == UNION {Jobs(s) : s \in Shops}
Started   == {HandJob(r) : r \in {q \in Replicas : pc[q] # "idle"}}

\* The jobs whose Parse has not reached the database.
Unstarted == AllJobs \ Started

AllSent == {m \in Commands : where[m] # "unsent"}

\* Every break pays for one more StartRun of every command.
StartInv == clock + Cardinality(Unstarted) <= (breaks + 1) * Cardinality(AllSent)

\* StartRun is called at most once for each command, and once more for each of them
\* and each break: no error of the handler has a command tried again
\* (rabbitmq.go:90-101, 128).
StartsAreBounded == clock <= (breaks + 1) * Cardinality(AllSent)

\* MaxBegins keeps no handler from calling StartRun.
BoundIsFree ==
    \A r \in Replicas :
        C!Alive(r) /\ loop[r] = "handle" /\ pc[r] = "idle" /\ url[cur[r]] # None
            => clock < MaxBegins

\* Two handlers are at two jobs.
LEMMA HandJobsDiffer ==
    ASSUME IInv, NEW q \in Replicas, NEW r \in Replicas, q # r,
           loop[q] = "handle", loop[r] = "handle"
    PROVE  HandJob(q) # HandJob(r)
  BY ServiceAssumption
     DEF HandJob, IInv, CP!IInv, CP!TypeOK, CP!HandPcs, CP!MineInv, CP!Mine

\* A handler that has not called StartRun has its job still to begin.
LEMMA WaitingHand ==
    ASSUME IInv, NEW r \in Replicas, C!Alive(r), loop[r] = "handle", pc[r] = "idle",
           url[cur[r]] # None
    PROVE  HandJob(r) \in Unstarted
<1>1. cur[r] \in Commands /\ HandJob(r) \in Jobs(url[cur[r]])
  BY HandIsJob
<1>2. url[cur[r]] \in Shops
  BY <1>1, ServiceAssumption DEF IInv, SettingInv
<1>3. \A q \in Replicas : pc[q] # "idle" => loop[q] = "handle" /\ q # r
  BY DEF IInv, Coupled
<1>4. HandJob(r) \notin Started
  BY <1>3, HandJobsDiffer DEF Started
<1>5. QED
  BY <1>1, <1>2, <1>4 DEF Unstarted, AllJobs

\* A step that brings no job and leaves the Parses under way where they are.
LEMMA UnstartedFrame ==
    ASSUME \A s \in Shops : Jobs(s)' \subseteq Jobs(s),
           \A q \in Replicas : pc[q] # "idle" => pc'[q] # "idle" /\ HandJob(q)' = HandJob(q)
    PROVE  Unstarted' \subseteq Unstarted
<1>1. AllJobs' \subseteq AllJobs
  BY DEF AllJobs
<1>2. Started \subseteq Started'
  BY DEF Started
<1>3. QED
  BY <1>1, <1>2 DEF Unstarted

\* A command whose Parse has begun, or that was handled, will be delivered again, the
\* others are handled without their connection.
Again(r) ==
    [m \in Commands |->
        <<IF cur[r] = m /\ (loop[r] \in {"ack", "nack"} \/ pc[r] # "idle") THEN None ELSE r, m>>]

\* A break makes at most one job of each command sent that has not begun.
LEMMA UnstartedBreak ==
    ASSUME IInv, url' = url, NEW r \in Replicas, Crash(r) \/ LoseConnection(r)
    PROVE  /\ clock' = clock
           /\ \E f : /\ AllSent \subseteq DOMAIN f
                     /\ Unstarted' \subseteq Unstarted \cup {f[m] : m \in AllSent}
<1>1. /\ C!Crash(r) \/ C!ConnectionLost(r) \/ C!AckLost(r)
      /\ clock' = clock /\ cur' = cur
      /\ \A q \in Replicas \ {r} : pc'[q] = pc[q] /\ conn'[q] = conn[q]
  BY DEF Crash, LoseConnection, R!Crash, R!Goto, database, C!Crash, C!ConnectionLost, C!AckLost,
     C!Requeue, IInv, CP!IInv, CP!TypeOK, RP!IInv, RP!TypeOK
<1>2. \/ ~C!Alive(r)'
      \/ C!ConnectionLost(r) /\ conn[r] /\ ~conn'[r] /\ pc' = pc
      \/ C!AckLost(r) /\ conn[r] /\ pc' = pc
  BY DEF Crash, LoseConnection, C!Crash, C!ConnectionLost, C!AckLost, C!Requeue, C!Alive,
     database, IInv, CP!IInv, CP!TypeOK
<1>3. pc[r] # "idle" => loop[r] = "handle" /\ C!Alive(r)
  BY DEF IInv, Coupled
<1>4. SUFFICES ASSUME NEW j \in Unstarted', j \notin Unstarted
               PROVE  j \in {Again(r)[m] : m \in AllSent}
  BY <1>1 DEF Again, AllSent
<1>5. PICK s \in Shops : j \in Jobs(s)'
  BY <1>4 DEF Unstarted, AllJobs
<1>6. j \notin Started'
  BY <1>4 DEF Unstarted
<1>7. CASE j \in Jobs(s)
  <2>1. PICK q \in Replicas : pc[q] # "idle" /\ j = HandJob(q)
    BY <1>4, <1>7 DEF Unstarted, AllJobs, Started
  <2>2. q = r
    BY <1>1, <1>6, <2>1 DEF Started, HandJob
  <2>3. conn[r]
    <3>1. SUFFICES ASSUME ~conn[r] PROVE FALSE
      OBVIOUS
    <3>2. j = <<r, cur[r]>> /\ r # None
      BY <2>1, <2>2, <3>1, ServiceAssumption DEF HandJob
    <3>3. C!Alive(r)'
      BY <1>5, <3>2 DEF Jobs, Stale
    <3>4. QED
      BY <1>2, <3>1, <3>3
  <2>4. where[cur[r]] = "unacked" /\ cur[r] \in Commands
    BY <1>3, <2>1, <2>2, <2>3 DEF IInv, CP!IInv, CP!HandInv, CP!HandPcs, CP!MineInv, CP!Mine
  <2>5. j = Again(r)[cur[r]] /\ cur[r] \in AllSent
    BY <2>1, <2>2, <2>3, <2>4 DEF HandJob, Again, AllSent
  <2>6. QED
    BY <2>5
<1>8. CASE j \notin Jobs(s)
  <2>1. PICK m \in Sent(s) : j = Lost(r)[m]
    BY <1>1, <1>5, <1>8, BreakStep
  <2>2. m \in AllSent /\ m \in Commands
    BY DEF Sent, CommandsOf, AllSent
  <2>3. CASE cur[r] = m /\ pc[r] # "idle"
    <3>1. j = <<r, m>> /\ r # None
      BY <1>3, <2>1, <2>2, <2>3, ServiceAssumption DEF Lost
    <3>2. C!Alive(r)'
      BY <1>5, <3>1 DEF Jobs, Stale
    <3>3. ~conn'[r] /\ pc'[r] # "idle" /\ cur'[r] = m
      BY <1>1, <1>2, <1>3, <2>3, <3>2 DEF C!AckLost
    <3>4. HandJob(r)' = j
      BY <3>1, <3>3 DEF HandJob
    <3>5. QED
      BY <1>6, <3>3, <3>4 DEF Started
  <2>4. CASE ~(cur[r] = m /\ pc[r] # "idle")
    <3>1. Lost(r)[m] = Again(r)[m]
      BY <2>2, <2>4 DEF Lost, Again
    <3>2. QED
      BY <2>1, <2>2, <3>1
  <2>5. QED
    BY <2>3, <2>4
<1>9. QED
  BY <1>7, <1>8

\* What a step does to the jobs that have not begun, and to the number of begins.
LEMMA UnstartedDeltas ==
    ASSUME IInv, [Next]_vars
    PROVE  \/ Unstarted' \subseteq Unstarted /\ clock' = clock
           \/ \E m, j : /\ m \in AllSent' \ AllSent /\ Unstarted' \subseteq Unstarted \cup {j}
                        /\ clock' = clock
           \/ \E j \in Unstarted : Unstarted' \subseteq Unstarted \ {j} /\ clock' = clock + 1
           \/ /\ breaks' = breaks + 1 /\ clock' = clock
              /\ \E f : /\ AllSent \subseteq DOMAIN f
                        /\ Unstarted' \subseteq Unstarted \cup {f[m] : m \in AllSent}
<1> DEFINE Keeps == Unstarted' \subseteq Unstarted /\ clock' = clock
<1>1. /\ url' = url /\ deployed \subseteq Replicas
      /\ \A q \in Replicas : pc[q] # "idle" => C!Alive(q) /\ loop[q] = "handle"
      /\ DOMAIN pc = Replicas /\ DOMAIN conn = Replicas /\ DOMAIN cur = Replicas
  BY DEF Next, vars, setting, IInv, SettingInv, Coupled, CP!IInv, CP!TypeOK, RP!IInv, RP!TypeOK
<1>2. ASSUME NEW m \in Commands, Publish(m)
      PROVE  \/ Keeps
             \/ \E n, j : /\ n \in AllSent' \ AllSent /\ Unstarted' \subseteq Unstarted \cup {j}
                          /\ clock' = clock
  <2>1. UNCHANGED <<conn, cur, pc, clock>>
    BY <1>2 DEF Publish, C!Publish, database
  <2>2. Started' = Started
    BY <2>1 DEF Started, HandJob
  <2>3. m \in AllSent' \ AllSent
    BY <1>2 DEF Publish, C!Publish, AllSent, IInv, CP!IInv, CP!TypeOK
  <2>4. \A s \in Shops : Jobs(s)' \subseteq Jobs(s) \cup {<<None, m>>}
    BY <1>1, <1>2, PublishStep DEF Publish
  <2>5. Unstarted' \subseteq Unstarted \cup {<<None, m>>}
    BY <2>2, <2>4 DEF Unstarted, AllJobs
  <2>6. QED
    BY <2>1, <2>3, <2>5
<1>3. ASSUME UNCHANGED <<conn, cur, pc, clock>>, \A s \in Shops : Jobs(s)' \subseteq Jobs(s)
      PROVE  Keeps
  BY <1>3, UnstartedFrame DEF HandJob
<1>4. ASSUME Deliver PROVE Keeps
  <2>1. \A s \in Shops : Jobs(s)' \subseteq Jobs(s)
    BY <1>1, <1>4, QuietStep DEF Deliver
  <2>2. QED
    BY <1>3, <1>4, <2>1 DEF Deliver, C!Deliver, database
<1>5. ASSUME NEW r \in Replicas, Consume(r) \/ Signal(r) \/ Main(r) \/ Restart(r) PROVE Keeps
  <2>1. \A s \in Shops : Jobs(s)' \subseteq Jobs(s)
    BY <1>1, <1>5, QuietStep DEF Consume, Signal, Main, Restart
  <2>2. UNCHANGED <<pc, clock>>
    BY <1>5 DEF Consume, Signal, Main, Restart, database
  <2>3. \/ UNCHANGED <<conn, cur>>
        \/ /\ ~(C!Alive(r) /\ loop[r] = "handle")
           /\ \A q \in Replicas \ {r} : conn'[q] = conn[q] /\ cur'[q] = cur[q]
    BY <1>1, <1>5 DEF Consume, Signal, Main, Restart, C!Receive, C!RangeEnds, C!Ack, C!Nack,
       C!SettleFails, C!CheckContext, C!Signal, C!Main, C!CloseConnections, C!Requeue, C!Exit,
       C!Restart, C!Fresh, C!Alive
  <2>4. \A q \in Replicas : pc[q] # "idle" => pc'[q] # "idle" /\ HandJob(q)' = HandJob(q)
    BY <1>1, <2>2, <2>3 DEF HandJob
  <2>5. QED
    BY <2>1, <2>2, <2>4, UnstartedFrame
<1>6. ASSUME NEW r \in Replicas, StartHandling(r)
      PROVE  \E j \in Unstarted : Unstarted' \subseteq Unstarted \ {j} /\ clock' = clock + 1
  <2>1. /\ UNCHANGED consumer /\ clock' = clock + 1
        /\ pc[r] = "idle" /\ pc' = [pc EXCEPT ![r] = "getShop"]
        /\ loop[r] = "handle" /\ C!Alive(r) /\ url[cur[r]] # None
    BY <1>6 DEF StartHandling, R!Parse, R!Goto
  <2>2. \A s \in Shops : Jobs(s)' \subseteq Jobs(s)
    BY <1>1, <2>1, QuietStep
  <2>3. \A q \in Replicas : HandJob(q)' = HandJob(q)
    BY <2>1 DEF consumer, HandJob
  <2>4. Started' = Started \cup {HandJob(r)}
    <3>1. {q \in Replicas : pc'[q] # "idle"} = {q \in Replicas : pc[q] # "idle"} \cup {r}
      BY <1>1, <2>1
    <3>2. QED
      BY <2>3, <3>1 DEF Started
  <2>5. HandJob(r) \in Unstarted
    BY <2>1, WaitingHand
  <2>6. Unstarted' \subseteq Unstarted \ {HandJob(r)}
    BY <2>2, <2>4 DEF Unstarted, AllJobs
  <2>7. QED
    BY <2>1, <2>5, <2>6
<1>7. ASSUME NEW r \in Replicas, ParseGoesOn(r) PROVE Keeps
  <2>1. /\ UNCHANGED consumer /\ pc'[r] # "idle" /\ R!Step(r)
        /\ \E l : pc' = [pc EXCEPT ![r] = l]
    BY <1>7, WorkerStep DEF ParseGoesOn
  <2>2. \A s \in Shops : Jobs(s)' \subseteq Jobs(s)
    BY <1>1, <2>1, QuietStep
  <2>3. clock' = clock
    BY <2>1 DEF R!Step, R!StartStep, R!GetShop, R!InsertShop, R!GetLastRun, R!InsertRun,
       R!CommitTx, R!CommitLost, R!StartFails, R!Rollback, R!EndWork, R!FinishRun, R!FinishFails
  <2>4. \A q \in Replicas : pc[q] # "idle" => pc'[q] # "idle" /\ HandJob(q)' = HandJob(q)
    BY <1>1, <2>1 DEF consumer, HandJob
  <2>5. QED
    BY <2>2, <2>3, <2>4, UnstartedFrame
<1>8. ASSUME NEW r \in Replicas, C!HandleOk(r) \/ C!HandleErr(r),
             UNCHANGED database \/ R!Step(r), pc'[r] = "idle"
      PROVE  Keeps
  <2>1. \A s \in Shops : Jobs(s)' \subseteq Jobs(s) \ {HandJob(r)}
    BY <1>1, <1>8, HandledStep
  <2>2. /\ clock' = clock
        /\ \A q \in Replicas \ {r} : pc'[q] = pc[q]
    BY <1>1, <1>8 DEF database, R!Step, R!StartStep, R!GetShop, R!InsertShop, R!GetLastRun,
       R!InsertRun, R!CommitTx, R!CommitLost, R!StartFails, R!Rollback, R!EndWork, R!FinishRun,
       R!FinishFails, R!Goto
  <2>3. \A q \in Replicas : HandJob(q)' = HandJob(q)
    BY <1>8 DEF C!HandleOk, C!HandleErr, HandJob
  <2>4. Started \subseteq Started' \cup {HandJob(r)}
    BY <2>2, <2>3 DEF Started
  <2>5. Unstarted' \subseteq Unstarted
    BY <2>1, <2>4 DEF Unstarted, AllJobs
  <2>6. QED
    BY <2>2, <2>5
<1>9. ASSUME NEW r \in Replicas, RefuseHandling(r) \/ ReturnNil(r) \/ ReturnError(r) PROVE Keeps
  <2>1. CASE RefuseHandling(r)
    BY <1>8, <2>1 DEF RefuseHandling, database
  <2>2. CASE ReturnNil(r)
    <3>1. R!Step(r) /\ pc'[r] = "idle"
      BY <1>1, <2>2 DEF ReturnNil, R!Step, R!FinishRun, R!Goto
    <3>2. QED
      BY <1>8, <2>2, <3>1 DEF ReturnNil
  <2>3. CASE ReturnError(r)
    BY <1>8, <2>3, WorkerStep DEF ReturnError
  <2>4. QED
    BY <1>9, <2>1, <2>2, <2>3
<1>10. ASSUME NEW r \in Replicas, DatabaseFails(r) PROVE Keeps
  <2>1. CASE pc[r] = "idle" /\ UNCHANGED database
    BY <1>8, <1>10, <2>1 DEF DatabaseFails, database
  <2>2. CASE R!StartFails(r) \/ R!CommitLost(r) \/ R!FinishFails(r) \/ R!FinishRun(r)
    <3>1. R!Step(r) /\ pc'[r] = "idle"
      BY <1>1, <2>2 DEF R!Step, R!StartStep, R!StartFails, R!Rollback, R!CommitLost,
         R!FinishFails, R!FinishRun, R!Goto
    <3>2. QED
      BY <1>8, <1>10, <3>1 DEF DatabaseFails
  <2>3. QED
    BY <1>10, <2>1, <2>2 DEF DatabaseFails
<1>11. ASSUME NEW r \in Replicas, Crash(r) \/ LoseConnection(r)
       PROVE  /\ clock' = clock
              /\ \E f : /\ AllSent \subseteq DOMAIN f
                        /\ Unstarted' \subseteq Unstarted \cup {f[m] : m \in AllSent}
  BY <1>1, <1>11, UnstartedBreak
<1>12. CASE UNCHANGED vars
  <2>1. \A s \in Shops : Jobs(s)' = Jobs(s)
    BY <1>12 DEF vars, consumer, setting, Jobs, Pending, Stale, C!Alive
  <2>2. QED
    BY <1>3, <1>12, <2>1 DEF vars, consumer, database
<1>13. QED
  BY <1>1, <1>2, <1>4, <1>5, <1>6, <1>7, <1>9, <1>10, <1>11, <1>12
     DEF Next, Smooth, Break, Handle

\* Every step keeps what the begins are charged to.
LEMMA StartStep == IInv /\ IInv' /\ StartInv /\ [Next]_vars => StartInv'
<1> SUFFICES ASSUME IInv, IInv', StartInv, [Next]_vars PROVE StartInv'
  OBVIOUS
<1>1. clock \in Nat /\ clock' \in Nat
  <2>1. MaxBegins \in Nat
    BY PartsAssumption DEF RP!RunsAssumption
  <2>2. clock \in 0 .. MaxBegins /\ clock' \in 0 .. MaxBegins
    BY DEF IInv, RP!IInv, RP!TypeOK
  <2>3. QED
    BY <2>1, <2>2
<1>2. IsFiniteSet(Unstarted)
  <2>1. AllJobs \subseteq (Replicas \cup {None}) \X Commands
    BY DEF AllJobs, Jobs
  <2>2. IsFiniteSet((Replicas \cup {None}) \X Commands)
    BY ServiceAssumption, FS_AddElement, FS_Product
  <2>3. QED
    BY <2>1, <2>2, FS_Subset DEF Unstarted
<1>3. IsFiniteSet(AllSent')
  BY ServiceAssumption, FS_Subset DEF AllSent
<1>4. AllSent \subseteq AllSent'
  BY StaysSent DEF AllSent
<1>5. breaks \in Nat /\ breaks' \in Nat /\ breaks <= breaks'
  BY ServiceAssumption DEF IInv, SettingInv, Next, vars
<1>6. clock + Cardinality(Unstarted) <= (breaks + 1) * Cardinality(AllSent)
  BY DEF StartInv
<1>7. \/ Unstarted' \subseteq Unstarted /\ clock' <= clock
      \/ \E m, j : /\ m \in AllSent' \ AllSent /\ Unstarted' \subseteq Unstarted \cup {j}
                   /\ clock' <= clock
      \/ \E j \in Unstarted : Unstarted' \subseteq Unstarted \ {j} /\ clock' <= clock + 1
      \/ /\ breaks' = breaks + 1 /\ clock' <= clock
         /\ \E f : /\ AllSent \subseteq DOMAIN f
                   /\ Unstarted' \subseteq Unstarted \cup {f[m] : m \in AllSent}
  <2>1. (clock' = clock => clock' <= clock) /\ (clock' = clock + 1 => clock' <= clock + 1)
    BY <1>1
  <2>2. QED
    BY <2>1, UnstartedDeltas
<1>8. clock' + Cardinality(Unstarted') <= (breaks' + 1) * Cardinality(AllSent')
  BY <1>1, <1>2, <1>3, <1>4, <1>5, <1>6, <1>7, Ledger
<1>9. QED
  BY <1>8 DEF StartInv

\* For any number of replicas, commands and shops: the number of runs begun is bounded
\* by the commands and the breaks, so that the bound of the model is never reached.
THEOREM StartsBounded == Spec => [](StartsAreBounded /\ BoundIsFree)
<1>1. Init => StartInv
  <2> SUFFICES ASSUME Init PROVE StartInv
    OBVIOUS
  <2>1. clock = 0 /\ breaks = 0 /\ \A s \in Shops : Jobs(s) = {}
    BY DEF Init, R!Init, C!Init, Jobs, Pending, Stale
  <2>2. AllSent = {} /\ Unstarted = {}
    BY <2>1 DEF Init, C!Init, AllSent, Unstarted, AllJobs
  <2>3. QED
    BY <2>1, <2>2, FS_EmptySet DEF StartInv
<1>2. IInv /\ StartInv => StartsAreBounded /\ BoundIsFree
  <2> SUFFICES ASSUME IInv, StartInv PROVE StartsAreBounded /\ BoundIsFree
    OBVIOUS
  <2> DEFINE n == Cardinality(Unstarted)
             k == Cardinality(AllSent)
  <2>1. clock \in Nat /\ breaks \in 0 .. MaxBreaks /\ MaxBreaks \in Nat
    BY PartsAssumption, ServiceAssumption
       DEF IInv, SettingInv, RP!IInv, RP!TypeOK, RP!RunsAssumption
  <2>2. IsFiniteSet(Unstarted) /\ n \in Nat
    <3>1. AllJobs \subseteq (Replicas \cup {None}) \X Commands
      BY DEF AllJobs, Jobs
    <3>2. IsFiniteSet((Replicas \cup {None}) \X Commands)
      BY ServiceAssumption, FS_AddElement, FS_Product
    <3>3. QED
      BY <3>1, <3>2, FS_Subset, FS_CardinalityType DEF Unstarted
  <2>3. k \in Nat /\ Cardinality(Commands) \in Nat /\ k <= Cardinality(Commands)
    <3>1. AllSent \subseteq Commands
      BY DEF AllSent
    <3>2. QED
      BY <3>1, ServiceAssumption, FS_Subset, FS_CardinalityType
  <2>4. clock + n <= (breaks + 1) * k
    BY DEF StartInv
  <2>5. (breaks + 1) * k \in Nat /\ (breaks + 1) * k <= MaxBegins
    <3>1. (breaks + 1) * k <= (MaxBreaks + 1) * Cardinality(Commands)
      BY <2>1, <2>3, Budget
    <3>2. (MaxBreaks + 1) * Cardinality(Commands) = MaxBegins
      BY <2>1, <2>3 DEF MaxBegins
    <3>3. QED
      BY <2>1, <2>3, <3>1, <3>2, Budget
  <2>6. MaxBegins \in Nat
    BY PartsAssumption DEF RP!RunsAssumption
  <2>7. StartsAreBounded
    BY <2>1, <2>2, <2>4, <2>5 DEF StartsAreBounded
  <2>8. BoundIsFree
    <3> SUFFICES ASSUME NEW r \in Replicas, C!Alive(r), loop[r] = "handle", pc[r] = "idle",
                        url[cur[r]] # None
                 PROVE  clock < MaxBegins
      BY DEF BoundIsFree
    <3>1. HandJob(r) \in Unstarted
      BY WaitingHand
    <3>2. n # 0
      BY <2>2, <3>1, FS_EmptySet
    <3>3. QED
      BY <2>1, <2>2, <2>4, <2>5, <2>6, <3>2
  <2>9. QED
    BY <2>7, <2>8
<1>3. QED
  BY <1>1, <1>2, StartStep, Invariance, PTL DEF Spec

-----------------------------------------------------------------------------
(* Progress of the whole.                                                  *)

\* consumeMessages can take a step besides the handler's.
ConsumeReady(r) ==
    /\ C!Alive(r)
    /\ \/ loop[r] = "receive" /\ (buffer[r] # {} \/ ~conn[r])
       \/ loop[r] \in {"ack", "nack", "check"}

\* The handler calls Parse or refuses the command, or Parse goes on.
HandlerReady(r) ==
    C!Alive(r) /\ loop[r] = "handle" /\ (pc[r] = "idle" \/ RP!CanGoOn(r))

Ready(r) == r \in deployed /\ (ConsumeReady(r) \/ HandlerReady(r) \/ CP!CanMain(r))

\* Its Parse waits at the unique url for a StartRun of the same shop that can go on.
WaitsForReady(r) ==
    \E v \in Replicas : newShop[v] /\ shopOf[v] = shopOf[r] /\ Ready(v)

\* The loop is in range deliveries, with nothing to receive.
IsIdle(r) == loop[r] = "receive" /\ conn[r] /\ buffer[r] = {}

\* Handler, Parse, loop and main wait for each other only in the two ways the parts
\* allow: who has a command in hand goes on with it, or its StartRun waits for one
\* that goes on; a process that is there does so too, or has nothing to receive, or
\* lost its connection (rabbitmq.go:90, main.go:93-94, postgres.go:299-310).
NobodyStuck ==
    /\ \A m \in Commands : where[m] = "unacked" => Ready(owner[m]) \/ WaitsForReady(owner[m])
    /\ \A r \in deployed :
          C!Alive(r) => Ready(r) \/ WaitsForReady(r) \/ IsIdle(r) \/ CP!Zombie(r)

\* Unacknowledged commands are with deployed replicas.
ServedInv == \A m \in Commands : where[m] = "unacked" => owner[m] \in deployed

\* The broker delivers to deployed replicas only.
LEMMA ServedStep == IInv /\ ServedInv /\ [Next]_vars => ServedInv'
<1> SUFFICES ASSUME IInv, ServedInv, [Next]_vars PROVE ServedInv'
  OBVIOUS
<1> USE DEF ServedInv
<1>1. deployed' = deployed /\ where \in [Commands -> C!Fates] /\ DOMAIN owner = Commands
  BY DEF Next, vars, setting, IInv, CP!IInv, CP!TypeOK, C!Fates, CP!Fates
<1>2. CASE UNCHANGED <<where, owner>>
  BY <1>1, <1>2
<1>3. ASSUME NEW m \in Commands, Publish(m) PROVE ServedInv'
  BY <1>1, <1>3 DEF Publish, C!Publish
<1>4. CASE Deliver
  BY <1>1, <1>4 DEF Deliver, C!Deliver
<1>5. ASSUME NEW r \in deployed, C!Ack(r) \/ C!Nack(r) PROVE ServedInv'
  BY <1>1, <1>5 DEF C!Ack, C!Nack, C!Settle
<1>6. ASSUME NEW r \in deployed, C!Requeue(r) PROVE ServedInv'
  BY <1>1, <1>6 DEF C!Requeue, C!HeldFor
<1>7. ASSUME NEW r \in deployed, Consume(r) PROVE ServedInv'
  BY <1>2, <1>5, <1>7 DEF Consume, C!Receive, C!RangeEnds, C!SettleFails, C!CheckContext, C!broker
<1>8. ASSUME NEW r \in deployed, Handle(r) \/ DatabaseFails(r) PROVE ServedInv'
  BY <1>2, <1>8 DEF Handle, StartHandling, RefuseHandling, ParseGoesOn, ReturnNil, ReturnError,
     DatabaseFails, C!HandleOk, C!HandleErr, C!broker, consumer
<1>9. ASSUME NEW r \in deployed, Signal(r) \/ Main(r) \/ Restart(r) PROVE ServedInv'
  BY <1>2, <1>6, <1>9 DEF Signal, Main, Restart, C!Signal, C!Main, C!CloseConnections, C!Exit,
     C!Restart, C!broker
<1>10. ASSUME NEW r \in deployed, Crash(r) \/ LoseConnection(r) PROVE ServedInv'
  BY <1>6, <1>10 DEF Crash, LoseConnection, C!Crash, C!ConnectionLost, C!AckLost
<1>11. QED
  BY <1>2, <1>3, <1>4, <1>7, <1>8, <1>9, <1>10 DEF Next, vars, consumer, Smooth, Break

\* A Parse under way goes on, or waits for one that does.
LEMMA ParseReady ==
    ASSUME IInv, IdleInv, RP!NobodyStuck, NEW r \in Replicas, pc[r] # "idle"
    PROVE  Ready(r) \/ WaitsForReady(r)
<1>1. ASSUME NEW v \in Replicas, RP!CanGoOn(v) PROVE Ready(v)
  <2>1. pc[v] # "idle"
    BY <1>1 DEF RP!CanGoOn
  <2>2. C!Alive(v) /\ loop[v] = "handle" /\ v \in deployed
    BY <2>1 DEF IInv, Coupled, IdleInv
  <2>3. QED
    BY <1>1, <2>2 DEF Ready, HandlerReady
<1>2. CASE RP!CanGoOn(r)
  BY <1>1, <1>2
<1>3. CASE ~RP!CanGoOn(r)
  <2>1. PICK v \in Replicas : newShop[v] /\ shopOf[v] = shopOf[r] /\ RP!CanGoOn(v)
    BY <1>3 DEF RP!NobodyStuck
  <2>2. QED
    BY <1>1, <2>1 DEF WaitsForReady
<1>4. QED
  BY <1>2, <1>3

\* For any number of replicas, commands, shops and breaks: joining the queue, the
\* loops and the database makes no new way to wait.
THEOREM NeverStuck == Spec => []NobodyStuck
<1>1. Init => IdleInv /\ ServedInv
  BY DEF Init, R!Init, C!Init, IdleInv, ServedInv
<1>2. Spec => [](IInv /\ IdleInv /\ ServedInv)
  BY <1>1, IdleStep, ServedStep, Invariance, PTL DEF Spec
<1>3. Spec => []RP!NobodyStuck
  <2>1. RP!Spec => []RP!NobodyStuck /\ RP!EndsInTime
    BY PartsAssumption, RP!NeverStuck DEF RP!NeverStuck
  <2>2. QED
    BY <2>1, RunsRefinement, SameRuns, PTL DEF ImplementsRuns, R!Spec, RP!Spec
<1>4. Spec => []CP!NobodyStuck
  <2>1. CP!Spec => []CP!NobodyStuck
    BY PartsAssumption, CP!NeverStuck DEF CP!NeverStuck
  <2>2. QED
    BY <2>1, ImplementsConsumer, SameConsumer, PTL
<1>5. ASSUME IInv, IdleInv, ServedInv, RP!NobodyStuck, CP!NobodyStuck PROVE NobodyStuck
  <2> USE <1>5 DEF IInv, CP!IInv, CP!TypeOK, C!Alive, CP!Alive
  <2>1. ASSUME NEW r \in deployed, C!Alive(r), loop[r] = "handle"
        PROVE  Ready(r) \/ WaitsForReady(r)
    <3>1. CASE pc[r] = "idle"
      BY <2>1, <3>1 DEF Ready, HandlerReady
    <3>2. CASE pc[r] # "idle"
      BY <2>1, <3>2, ParseReady DEF SettingInv
    <3>3. QED
      BY <3>1, <3>2
  <2>2. ASSUME NEW m \in Commands, where[m] = "unacked"
        PROVE  Ready(owner[m]) \/ WaitsForReady(owner[m])
    <3>1. owner[m] \in deployed /\ (CP!CanLoop(owner[m]) \/ CP!CanMain(owner[m]))
      BY <2>2 DEF ServedInv, CP!NobodyStuck, CP!HolderGoesOn
    <3>2. QED
      BY <2>1, <3>1 DEF Ready, ConsumeReady, CP!CanLoop
  <2>3. ASSUME NEW r \in deployed, C!Alive(r)
        PROVE  Ready(r) \/ WaitsForReady(r) \/ IsIdle(r) \/ CP!Zombie(r)
    <3>1. r \in Replicas
      BY DEF SettingInv
    <3>2. CASE loop[r] = "handle"
      BY <2>1, <2>3, <3>2
    <3>3. CASE loop[r] \in {"receive", "ack", "nack", "check"}
      BY <2>3, <3>3 DEF Ready, ConsumeReady, IsIdle
    <3>4. CASE loop[r] = "stopped"
      BY <2>3, <3>1, <3>4 DEF Ready, CP!CanMain, CP!Zombie
    <3>5. QED
      BY <3>1, <3>2, <3>3, <3>4
  <2>4. QED
    BY <2>2, <2>3 DEF NobodyStuck
<1>6. QED
  BY <1>2, <1>3, <1>4, <1>5, PTL
=============================================================================
