--------------------------- MODULE ConsumerProofs ---------------------------
(***************************************************************************)
(* Proofs about Consumer, for every set of replicas and commands and every *)
(* choice of faults.                                                       *)
(***************************************************************************)
EXTENDS Consumer, TLAPS

\* consumeMessages has a delivery that is not settled yet.
HandPcs == {"handle", "ack", "nack"}

\* The delivery in hand is a command, and the handler has returned what it is
\* going to be settled as.
HandInv ==
    \A r \in Replicas :
        /\ loop[r] \in HandPcs => cur[r] \in Commands
        /\ loop[r] = "ack" => cur[r] \in imported
        /\ loop[r] = "nack" => cur[r] \in refused

\* Unacknowledged commands are with a replica whose connection is open, which
\* that of a process that ends is not.
ConnInv ==
    /\ \A m \in Commands : where[m] = "unacked" => owner[m] \in Replicas /\ conn[owner[m]]
    /\ \A r \in Replicas : main[r] \in {"closed", "exited"} => ~conn[r]
    /\ \A r \in Replicas : main[r] = "closed" => loop[r] = "stopped"

Mine(r, m) == where[m] = "unacked" /\ owner[m] = r

\* A replica has a command once, in the library's buffer or in hand, and with its
\* connection open only commands that are its own.
MineInv ==
    \A r \in Replicas :
        /\ loop[r] \in HandPcs => cur[r] \notin buffer[r]
        /\ conn[r] => \A m \in buffer[r] : Mine(r, m)
        /\ conn[r] /\ loop[r] \in HandPcs => Mine(r, cur[r])

\* The inductive invariant.
IInv == TypeOK /\ HandInv /\ SettledAsHandled /\ ConnInv /\ NothingForgotten /\ MineInv

-----------------------------------------------------------------------------
(* Steps.                                                                  *)

\* Every step keeps the types.
LEMMA TypingStep == IInv /\ [Next]_vars => TypeOK'
<1> SUFFICES ASSUME IInv, [Next]_vars PROVE TypeOK'
  OBVIOUS
<1> USE ConsumerAssumption DEF IInv, TypeOK, Fates, broker, history, HandInv, HandPcs
<1>1. ASSUME NEW m \in Commands, Publish(m) PROVE TypeOK'
  BY <1>1 DEF Publish
<1>2. ASSUME NEW r \in Replicas, NEW m \in Commands, Deliver(r, m) PROVE TypeOK'
  BY <1>2 DEF Deliver
<1>3. ASSUME NEW r \in Replicas, NEW m \in Commands, Receive(r, m) PROVE TypeOK'
  BY <1>3 DEF Receive, GotoLoop
<1>4. ASSUME NEW r \in Replicas, RangeEnds(r) PROVE TypeOK'
  BY <1>4 DEF RangeEnds, GotoLoop
<1>5. ASSUME NEW r \in Replicas, HandleOk(r) PROVE TypeOK'
  BY <1>5 DEF HandleOk, GotoLoop
<1>6. ASSUME NEW r \in Replicas, HandleErr(r) PROVE TypeOK'
  BY <1>6 DEF HandleErr, GotoLoop
<1>7. ASSUME NEW r \in Replicas, Nack(r) PROVE TypeOK'
  BY <1>7 DEF Nack, Settle, GotoLoop
<1>8. ASSUME NEW r \in Replicas, Ack(r) PROVE TypeOK'
  BY <1>8 DEF Ack, Settle, GotoLoop
<1>9. ASSUME NEW r \in Replicas, SettleFails(r) PROVE TypeOK'
  BY <1>9 DEF SettleFails, GotoLoop
<1>10. ASSUME NEW r \in Replicas, CheckContext(r) PROVE TypeOK'
  BY <1>10 DEF CheckContext, GotoLoop
<1>11. ASSUME NEW r \in Replicas, CloseConnections(r) PROVE TypeOK'
  BY <1>11 DEF CloseConnections, Requeue, HeldFor
<1>12. ASSUME NEW r \in Replicas, Exit(r) PROVE TypeOK'
  BY <1>12 DEF Exit
<1>13. ASSUME NEW r \in Replicas, Restart(r) PROVE TypeOK'
  BY <1>13 DEF Restart, Fresh
<1>14. ASSUME NEW r \in Replicas, Signal(r) PROVE TypeOK'
  BY <1>14 DEF Signal
<1>15. ASSUME NEW r \in Replicas, Crash(r) PROVE TypeOK'
  BY <1>15 DEF Crash, Requeue, HeldFor
<1>16. ASSUME NEW r \in Replicas, ConnectionLost(r) PROVE TypeOK'
  BY <1>16 DEF ConnectionLost, Requeue, HeldFor
<1>17. ASSUME NEW r \in Replicas, AckLost(r) PROVE TypeOK'
  BY <1>17 DEF AckLost, Requeue, HeldFor, GotoLoop
<1>18. CASE BrokerRestart
  BY <1>18 DEF BrokerRestart
<1>19. CASE UNCHANGED vars
  BY <1>19 DEF vars
<1>20. QED
  BY <1>1, <1>2, <1>3, <1>4, <1>5, <1>6, <1>7, <1>8, <1>9, <1>10,
     <1>11, <1>12, <1>13, <1>14, <1>15, <1>16, <1>17, <1>18, <1>19
     DEF Next, Loop, Main, Failure

\* Every step keeps what is in hand, and settles it as what the handler returned.
LEMMA HandStep == IInv /\ [Next]_vars => (HandInv /\ SettledAsHandled)'
<1> SUFFICES ASSUME IInv, [Next]_vars PROVE (HandInv /\ SettledAsHandled)'
  OBVIOUS
<1> USE ConsumerAssumption DEF IInv, TypeOK, Fates, broker, history, HandInv, HandPcs,
   SettledAsHandled
<1>1. ASSUME NEW m \in Commands, Publish(m) PROVE (HandInv /\ SettledAsHandled)'
  BY <1>1 DEF Publish
<1>2. ASSUME NEW r \in Replicas, NEW m \in Commands, Deliver(r, m) PROVE (HandInv /\ SettledAsHandled)'
  BY <1>2 DEF Deliver
<1>3. ASSUME NEW r \in Replicas, NEW m \in Commands, Receive(r, m) PROVE (HandInv /\ SettledAsHandled)'
  BY <1>3 DEF Receive, GotoLoop
<1>4. ASSUME NEW r \in Replicas, RangeEnds(r) PROVE (HandInv /\ SettledAsHandled)'
  BY <1>4 DEF RangeEnds, GotoLoop
<1>5. ASSUME NEW r \in Replicas, HandleOk(r) PROVE (HandInv /\ SettledAsHandled)'
  BY <1>5 DEF HandleOk, GotoLoop
<1>6. ASSUME NEW r \in Replicas, HandleErr(r) PROVE (HandInv /\ SettledAsHandled)'
  BY <1>6 DEF HandleErr, GotoLoop
<1>7. ASSUME NEW r \in Replicas, Nack(r) PROVE (HandInv /\ SettledAsHandled)'
  BY <1>7 DEF Nack, Settle, GotoLoop
<1>8. ASSUME NEW r \in Replicas, Ack(r) PROVE (HandInv /\ SettledAsHandled)'
  BY <1>8 DEF Ack, Settle, GotoLoop
<1>9. ASSUME NEW r \in Replicas, SettleFails(r) PROVE (HandInv /\ SettledAsHandled)'
  BY <1>9 DEF SettleFails, GotoLoop
<1>10. ASSUME NEW r \in Replicas, CheckContext(r) PROVE (HandInv /\ SettledAsHandled)'
  BY <1>10 DEF CheckContext, GotoLoop
<1>11. ASSUME NEW r \in Replicas, CloseConnections(r) PROVE (HandInv /\ SettledAsHandled)'
  BY <1>11 DEF CloseConnections, Requeue, HeldFor
<1>12. ASSUME NEW r \in Replicas, Exit(r) PROVE (HandInv /\ SettledAsHandled)'
  BY <1>12 DEF Exit
<1>13. ASSUME NEW r \in Replicas, Restart(r) PROVE (HandInv /\ SettledAsHandled)'
  BY <1>13 DEF Restart, Fresh
<1>14. ASSUME NEW r \in Replicas, Signal(r) PROVE (HandInv /\ SettledAsHandled)'
  BY <1>14 DEF Signal
<1>15. ASSUME NEW r \in Replicas, Crash(r) PROVE (HandInv /\ SettledAsHandled)'
  BY <1>15 DEF Crash, Requeue, HeldFor
<1>16. ASSUME NEW r \in Replicas, ConnectionLost(r) PROVE (HandInv /\ SettledAsHandled)'
  BY <1>16 DEF ConnectionLost, Requeue, HeldFor
<1>17. ASSUME NEW r \in Replicas, AckLost(r) PROVE (HandInv /\ SettledAsHandled)'
  BY <1>17 DEF AckLost, Requeue, HeldFor, GotoLoop
<1>18. CASE BrokerRestart
  BY <1>18 DEF BrokerRestart
<1>19. CASE UNCHANGED vars
  BY <1>19 DEF vars
<1>20. QED
  BY <1>1, <1>2, <1>3, <1>4, <1>5, <1>6, <1>7, <1>8, <1>9, <1>10,
     <1>11, <1>12, <1>13, <1>14, <1>15, <1>16, <1>17, <1>18, <1>19
     DEF Next, Loop, Main, Failure

\* Every step keeps unacknowledged commands on open connections.
LEMMA ConnStep == IInv /\ [Next]_vars => ConnInv'
<1> SUFFICES ASSUME IInv, [Next]_vars PROVE ConnInv'
  OBVIOUS
<1> USE ConsumerAssumption DEF IInv, TypeOK, Fates, broker, history, ConnInv, Alive
<1>1. ASSUME NEW m \in Commands, Publish(m) PROVE ConnInv'
  BY <1>1 DEF Publish
<1>2. ASSUME NEW r \in Replicas, NEW m \in Commands, Deliver(r, m) PROVE ConnInv'
  BY <1>2 DEF Deliver
<1>3. ASSUME NEW r \in Replicas, NEW m \in Commands, Receive(r, m) PROVE ConnInv'
  BY <1>3 DEF Receive, GotoLoop
<1>4. ASSUME NEW r \in Replicas, RangeEnds(r) PROVE ConnInv'
  BY <1>4 DEF RangeEnds, GotoLoop
<1>5. ASSUME NEW r \in Replicas, HandleOk(r) PROVE ConnInv'
  BY <1>5 DEF HandleOk, GotoLoop
<1>6. ASSUME NEW r \in Replicas, HandleErr(r) PROVE ConnInv'
  BY <1>6 DEF HandleErr, GotoLoop
<1>7. ASSUME NEW r \in Replicas, Nack(r) PROVE ConnInv'
  BY <1>7 DEF Nack, Settle, GotoLoop
<1>8. ASSUME NEW r \in Replicas, Ack(r) PROVE ConnInv'
  BY <1>8 DEF Ack, Settle, GotoLoop
<1>9. ASSUME NEW r \in Replicas, SettleFails(r) PROVE ConnInv'
  BY <1>9 DEF SettleFails, GotoLoop
<1>10. ASSUME NEW r \in Replicas, CheckContext(r) PROVE ConnInv'
  BY <1>10 DEF CheckContext, GotoLoop
<1>11. ASSUME NEW r \in Replicas, CloseConnections(r) PROVE ConnInv'
  BY <1>11 DEF CloseConnections, Requeue, HeldFor
<1>12. ASSUME NEW r \in Replicas, Exit(r) PROVE ConnInv'
  BY <1>12 DEF Exit
<1>13. ASSUME NEW r \in Replicas, Restart(r) PROVE ConnInv'
  BY <1>13 DEF Restart, Fresh
<1>14. ASSUME NEW r \in Replicas, Signal(r) PROVE ConnInv'
  BY <1>14 DEF Signal
<1>15. ASSUME NEW r \in Replicas, Crash(r) PROVE ConnInv'
  BY <1>15 DEF Crash, Requeue, HeldFor
<1>16. ASSUME NEW r \in Replicas, ConnectionLost(r) PROVE ConnInv'
  BY <1>16 DEF ConnectionLost, Requeue, HeldFor
<1>17. ASSUME NEW r \in Replicas, AckLost(r) PROVE ConnInv'
  BY <1>17 DEF AckLost, Requeue, HeldFor, GotoLoop
<1>18. CASE BrokerRestart
  BY <1>18 DEF BrokerRestart
<1>19. CASE UNCHANGED vars
  BY <1>19 DEF vars
<1>20. QED
  BY <1>1, <1>2, <1>3, <1>4, <1>5, <1>6, <1>7, <1>8, <1>9, <1>10,
     <1>11, <1>12, <1>13, <1>14, <1>15, <1>16, <1>17, <1>18, <1>19
     DEF Next, Loop, Main, Failure

\* No step lets a replica forget a command.
LEMMA ForgottenStep == IInv /\ [Next]_vars => NothingForgotten'
<1> SUFFICES ASSUME IInv, [Next]_vars PROVE NothingForgotten'
  OBVIOUS
<1> USE ConsumerAssumption DEF IInv, TypeOK, Fates, broker, history, ConnInv, NothingForgotten,
   InHand
<1>1. ASSUME NEW m \in Commands, Publish(m) PROVE NothingForgotten'
  BY <1>1 DEF Publish
<1>2. ASSUME NEW r \in Replicas, NEW m \in Commands, Deliver(r, m) PROVE NothingForgotten'
  BY <1>2 DEF Deliver
<1>3. ASSUME NEW r \in Replicas, NEW m \in Commands, Receive(r, m) PROVE NothingForgotten'
  BY <1>3 DEF Receive, GotoLoop
<1>4. ASSUME NEW r \in Replicas, RangeEnds(r) PROVE NothingForgotten'
  BY <1>4 DEF RangeEnds, GotoLoop
<1>5. ASSUME NEW r \in Replicas, HandleOk(r) PROVE NothingForgotten'
  BY <1>5 DEF HandleOk, GotoLoop
<1>6. ASSUME NEW r \in Replicas, HandleErr(r) PROVE NothingForgotten'
  BY <1>6 DEF HandleErr, GotoLoop
<1>7. ASSUME NEW r \in Replicas, Nack(r) PROVE NothingForgotten'
  BY <1>7 DEF Nack, Settle, GotoLoop
<1>8. ASSUME NEW r \in Replicas, Ack(r) PROVE NothingForgotten'
  BY <1>8 DEF Ack, Settle, GotoLoop
<1>9. ASSUME NEW r \in Replicas, SettleFails(r) PROVE NothingForgotten'
  BY <1>9 DEF SettleFails, GotoLoop
<1>10. ASSUME NEW r \in Replicas, CheckContext(r) PROVE NothingForgotten'
  BY <1>10 DEF CheckContext, GotoLoop
<1>11. ASSUME NEW r \in Replicas, CloseConnections(r) PROVE NothingForgotten'
  BY <1>11 DEF CloseConnections, Requeue, HeldFor
<1>12. ASSUME NEW r \in Replicas, Exit(r) PROVE NothingForgotten'
  BY <1>12 DEF Exit
<1>13. ASSUME NEW r \in Replicas, Restart(r) PROVE NothingForgotten'
  BY <1>13 DEF Restart, Fresh
<1>14. ASSUME NEW r \in Replicas, Signal(r) PROVE NothingForgotten'
  BY <1>14 DEF Signal
<1>15. ASSUME NEW r \in Replicas, Crash(r) PROVE NothingForgotten'
  BY <1>15 DEF Crash, Requeue, HeldFor
<1>16. ASSUME NEW r \in Replicas, ConnectionLost(r) PROVE NothingForgotten'
  BY <1>16 DEF ConnectionLost, Requeue, HeldFor
<1>17. ASSUME NEW r \in Replicas, AckLost(r) PROVE NothingForgotten'
  BY <1>17 DEF AckLost, Requeue, HeldFor, GotoLoop
<1>18. CASE BrokerRestart
  BY <1>18 DEF BrokerRestart
<1>19. CASE UNCHANGED vars
  BY <1>19 DEF vars
<1>20. QED
  BY <1>1, <1>2, <1>3, <1>4, <1>5, <1>6, <1>7, <1>8, <1>9, <1>10,
     <1>11, <1>12, <1>13, <1>14, <1>15, <1>16, <1>17, <1>18, <1>19
     DEF Next, Loop, Main, Failure

\* Every step keeps the commands of a replica its own.
LEMMA MineStep == IInv /\ [Next]_vars => MineInv'
<1> SUFFICES ASSUME IInv, [Next]_vars PROVE MineInv'
  OBVIOUS
<1> USE ConsumerAssumption DEF IInv, TypeOK, Fates, broker, history, ConnInv, HandInv, HandPcs,
   MineInv, Mine
<1>1. ASSUME NEW m \in Commands, Publish(m) PROVE MineInv'
  BY <1>1 DEF Publish
<1>2. ASSUME NEW r \in Replicas, NEW m \in Commands, Deliver(r, m) PROVE MineInv'
  BY <1>2 DEF Deliver
<1>3. ASSUME NEW r \in Replicas, NEW m \in Commands, Receive(r, m) PROVE MineInv'
  BY <1>3 DEF Receive, GotoLoop
<1>4. ASSUME NEW r \in Replicas, RangeEnds(r) PROVE MineInv'
  BY <1>4 DEF RangeEnds, GotoLoop
<1>5. ASSUME NEW r \in Replicas, HandleOk(r) PROVE MineInv'
  BY <1>5 DEF HandleOk, GotoLoop
<1>6. ASSUME NEW r \in Replicas, HandleErr(r) PROVE MineInv'
  BY <1>6 DEF HandleErr, GotoLoop
<1>7. ASSUME NEW r \in Replicas, Nack(r) PROVE MineInv'
  BY <1>7 DEF Nack, Settle, GotoLoop
<1>8. ASSUME NEW r \in Replicas, Ack(r) PROVE MineInv'
  BY <1>8 DEF Ack, Settle, GotoLoop
<1>9. ASSUME NEW r \in Replicas, SettleFails(r) PROVE MineInv'
  BY <1>9 DEF SettleFails, GotoLoop
<1>10. ASSUME NEW r \in Replicas, CheckContext(r) PROVE MineInv'
  BY <1>10 DEF CheckContext, GotoLoop
<1>11. ASSUME NEW r \in Replicas, CloseConnections(r) PROVE MineInv'
  BY <1>11 DEF CloseConnections, Requeue, HeldFor
<1>12. ASSUME NEW r \in Replicas, Exit(r) PROVE MineInv'
  BY <1>12 DEF Exit
<1>13. ASSUME NEW r \in Replicas, Restart(r) PROVE MineInv'
  BY <1>13 DEF Restart, Fresh
<1>14. ASSUME NEW r \in Replicas, Signal(r) PROVE MineInv'
  BY <1>14 DEF Signal
<1>15. ASSUME NEW r \in Replicas, Crash(r) PROVE MineInv'
  BY <1>15 DEF Crash, Requeue, HeldFor
<1>16. ASSUME NEW r \in Replicas, ConnectionLost(r) PROVE MineInv'
  BY <1>16 DEF ConnectionLost, Requeue, HeldFor
<1>17. ASSUME NEW r \in Replicas, AckLost(r) PROVE MineInv'
  BY <1>17 DEF AckLost, Requeue, HeldFor, GotoLoop
<1>18. CASE BrokerRestart
  BY <1>18 DEF BrokerRestart
<1>19. CASE UNCHANGED vars
  BY <1>19 DEF vars
<1>20. QED
  BY <1>1, <1>2, <1>3, <1>4, <1>5, <1>6, <1>7, <1>8, <1>9, <1>10,
     <1>11, <1>12, <1>13, <1>14, <1>15, <1>16, <1>17, <1>18, <1>19
     DEF Next, Loop, Main, Failure

-----------------------------------------------------------------------------
(* What follows.                                                           *)

\* The invariant that the theorems below follow from.
THEOREM Invariance == Spec => []IInv
<1>1. Init => IInv
  BY ConsumerAssumption DEF Init, IInv, TypeOK, Fates, HandInv, HandPcs, SettledAsHandled,
     ConnInv, NothingForgotten, MineInv
<1>2. IInv /\ [Next]_vars => IInv'
  BY TypingStep, HandStep, ConnStep, ForgottenStep, MineStep DEF IInv
<1>3. QED
  BY <1>1, <1>2, PTL DEF Spec

\* Type correctness of the broker, the library and the replicas.
THEOREM TypeCorrect == Spec => []TypeOK
  BY Invariance, PTL DEF IInv

\* Whatever crashes, breaks or is delivered again: acknowledged commands were
\* imported, dropped ones were refused.
THEOREM SettlingIsHonest == Spec => []SettledAsHandled
  BY Invariance, PTL DEF IInv

\* Whatever crashes, breaks or is delivered again: a replica that the broker
\* counts on for a command has that command.
THEOREM NobodyForgets == Spec => []NothingForgotten
  BY Invariance, PTL DEF IInv

\* For any number of replicas: two handle the same command only after the
\* connection of one of them broke.
THEOREM HandlingIsExclusive == Spec => []NoConcurrentHandling
<1>1. IInv => NoConcurrentHandling
  BY DEF IInv, ConnInv, MineInv, Mine, HandPcs, NoConcurrentHandling, Handles
<1>2. QED
  BY <1>1, Invariance, PTL

\* The fate of a command is never undone: not by a late Ack or Nack, not by a
\* connection that closes, not by the broker.
FateIsFinal == \A m \in Commands : Settled(m) => where'[m] = where[m]

\* A delivered command comes back to the queue only with the connection it was
\* delivered on: a failing command does not circulate (rabbitmq.go:128).
ComesBackByClose ==
    \A m \in Commands :
        where[m] = "unacked" /\ where'[m] = "ready" =>
            conn[owner[m]] /\ ~conn'[owner[m]]

\* For any number of replicas: what is acknowledged, dropped or lost stays so, and
\* redelivery takes a broken or closed connection.
THEOREM FatesAreFinal == Spec => [][FateIsFinal /\ ComesBackByClose]_vars
<1>0. IInv /\ Next => FateIsFinal /\ ComesBackByClose
  <2> SUFFICES ASSUME IInv, Next PROVE FateIsFinal /\ ComesBackByClose
    OBVIOUS
  <2> USE ConsumerAssumption DEF IInv, TypeOK, Fates, broker, HandPcs, ConnInv, MineInv, Mine,
      FateIsFinal, ComesBackByClose, Settled
  <2>1. ASSUME NEW m \in Commands, Publish(m) PROVE FateIsFinal /\ ComesBackByClose
    BY <2>1 DEF Publish
  <2>2. ASSUME NEW r \in Replicas, NEW m \in Commands, Deliver(r, m)
        PROVE  FateIsFinal /\ ComesBackByClose
    BY <2>2 DEF Deliver
  <2>3. ASSUME UNCHANGED where PROVE FateIsFinal /\ ComesBackByClose
    BY <2>3
  <2>4. ASSUME NEW r \in Replicas, Loop(r) PROVE FateIsFinal /\ ComesBackByClose
    <3>1. CASE Nack(r) \/ Ack(r)
      BY <3>1 DEF Nack, Ack, Settle
    <3>2. CASE ~(Nack(r) \/ Ack(r))
      BY <2>3, <2>4, <3>2
         DEF Loop, Receive, RangeEnds, HandleOk, HandleErr, SettleFails, CheckContext
    <3>3. QED
      BY <3>1, <3>2
  <2>5. ASSUME NEW r \in Replicas, Requeue(r) PROVE FateIsFinal /\ ComesBackByClose
    BY <2>5 DEF Requeue, HeldFor
  <2>6. ASSUME NEW r \in Replicas, Main(r) \/ Restart(r) \/ Failure(r)
        PROVE  FateIsFinal /\ ComesBackByClose
    BY <2>3, <2>5, <2>6 DEF Main, CloseConnections, Exit, Restart,
       Failure, Signal, Crash, ConnectionLost, AckLost
  <2>7. CASE BrokerRestart
    BY <2>7 DEF BrokerRestart
  <2>8. QED
    BY <2>1, <2>2, <2>4, <2>6, <2>7 DEF Next
<1>1. IInv /\ [Next]_vars => [FateIsFinal /\ ComesBackByClose]_vars
  BY <1>0
<1>2. QED
  BY <1>1, Invariance, PTL DEF Spec

-----------------------------------------------------------------------------
(* Progress: what SettlesIfServed needs but fairness itself.  The guards   *)
(* are those of the actions Fairness names.                                *)

CanDeliver(r) == conn[r] /\ \E m \in Commands : where[m] = "ready"

\* consumeMessages waits for nothing but a delivery or the end of them.
CanLoop(r) ==
    /\ Alive(r)
    /\ \/ loop[r] = "receive" /\ (buffer[r] # {} \/ ~conn[r])
       \/ loop[r] \in {"handle", "ack", "nack", "check"}

CanMain(r)    == (main[r] = "draining" /\ loop[r] = "stopped") \/ main[r] = "closed"
CanRestart(r) == main[r] = "exited"

\* Whoever has a command can go on with it, or give it back by closing.
HolderGoesOn ==
    \A m \in Commands : where[m] = "unacked" => CanLoop(owner[m]) \/ CanMain(owner[m])

\* A command in the queue waits for nothing but zombies.
OnlyZombiesAreStuck ==
    (\E m \in Commands : where[m] = "ready") =>
        \/ \E r \in Replicas : CanDeliver(r) \/ CanLoop(r) \/ CanMain(r) \/ CanRestart(r)
        \/ \A r \in Replicas : Zombie(r)

\* A signal is waited out for one reason only: the loop blocks in range deliveries
\* with nothing to receive (rabbitmq.go:90, main.go:93-94).
OnlyIdleDrains ==
    \A r \in Replicas :
        main[r] = "draining" =>
            \/ CanLoop(r) \/ CanMain(r)
            \/ loop[r] = "receive" /\ conn[r] /\ buffer[r] = {}

NobodyStuck == HolderGoesOn /\ OnlyZombiesAreStuck /\ OnlyIdleDrains

\* The loop stops with its connection open only when the context is done.
StopInv == \A r \in Replicas : loop[r] = "stopped" /\ conn[r] => main[r] # "serving"

\* Every step keeps the loop going.
LEMMA StopStep == IInv /\ StopInv /\ [Next]_vars => StopInv'
<1> SUFFICES ASSUME IInv, StopInv, [Next]_vars PROVE StopInv'
  OBVIOUS
<1> USE DEF IInv, TypeOK, broker, history, StopInv, Cancelled
<1>1. ASSUME NEW m \in Commands, Publish(m) PROVE StopInv'
  BY <1>1 DEF Publish
<1>2. ASSUME NEW r \in Replicas, NEW m \in Commands, Deliver(r, m) PROVE StopInv'
  BY <1>2 DEF Deliver
<1>3. ASSUME NEW r \in Replicas, NEW m \in Commands, Receive(r, m) PROVE StopInv'
  BY <1>3 DEF Receive, GotoLoop
<1>4. ASSUME NEW r \in Replicas, RangeEnds(r) PROVE StopInv'
  BY <1>4 DEF RangeEnds, GotoLoop
<1>5. ASSUME NEW r \in Replicas, HandleOk(r) PROVE StopInv'
  BY <1>5 DEF HandleOk, GotoLoop
<1>6. ASSUME NEW r \in Replicas, HandleErr(r) PROVE StopInv'
  BY <1>6 DEF HandleErr, GotoLoop
<1>7. ASSUME NEW r \in Replicas, Nack(r) PROVE StopInv'
  BY <1>7 DEF Nack, Settle, GotoLoop
<1>8. ASSUME NEW r \in Replicas, Ack(r) PROVE StopInv'
  BY <1>8 DEF Ack, Settle, GotoLoop
<1>9. ASSUME NEW r \in Replicas, SettleFails(r) PROVE StopInv'
  BY <1>9 DEF SettleFails, GotoLoop
<1>10. ASSUME NEW r \in Replicas, CheckContext(r) PROVE StopInv'
  BY <1>10 DEF CheckContext, GotoLoop
<1>11. ASSUME NEW r \in Replicas, CloseConnections(r) PROVE StopInv'
  BY <1>11 DEF CloseConnections, Requeue, HeldFor
<1>12. ASSUME NEW r \in Replicas, Exit(r) PROVE StopInv'
  BY <1>12 DEF Exit
<1>13. ASSUME NEW r \in Replicas, Restart(r) PROVE StopInv'
  BY <1>13 DEF Restart, Fresh
<1>14. ASSUME NEW r \in Replicas, Signal(r) PROVE StopInv'
  BY <1>14 DEF Signal
<1>15. ASSUME NEW r \in Replicas, Crash(r) PROVE StopInv'
  BY <1>15 DEF Crash, Requeue, HeldFor
<1>16. ASSUME NEW r \in Replicas, ConnectionLost(r) PROVE StopInv'
  BY <1>16 DEF ConnectionLost, Requeue, HeldFor
<1>17. ASSUME NEW r \in Replicas, AckLost(r) PROVE StopInv'
  BY <1>17 DEF AckLost, Requeue, HeldFor, GotoLoop
<1>18. CASE BrokerRestart
  BY <1>18 DEF BrokerRestart
<1>19. CASE UNCHANGED vars
  BY <1>19 DEF vars
<1>20. QED
  BY <1>1, <1>2, <1>3, <1>4, <1>5, <1>6, <1>7, <1>8, <1>9, <1>10,
     <1>11, <1>12, <1>13, <1>14, <1>15, <1>16, <1>17, <1>18, <1>19
     DEF Next, Loop, Main, Failure

\* For any number of replicas, whatever crashed or broke: an unacknowledged command
\* is with somebody who can go on, and one in the queue is stuck only with zombies.
THEOREM NeverStuck == Spec => []NobodyStuck
<1>1. Init => StopInv
  BY DEF Init, StopInv
<1>2. Spec => [](IInv /\ StopInv)
  BY <1>1, StopStep, Invariance, PTL DEF Spec
<1>3. ASSUME IInv, StopInv PROVE NobodyStuck
  <2> USE <1>3 DEF IInv, TypeOK, ConnInv, StopInv, CanLoop, CanMain, Alive
  <2>1. HolderGoesOn
    <3> SUFFICES ASSUME NEW m \in Commands, where[m] = "unacked"
                 PROVE  CanLoop(owner[m]) \/ CanMain(owner[m])
      BY DEF HolderGoesOn
    <3> DEFINE r == owner[m]
    <3>1. r \in Replicas /\ conn[r] /\ main[r] \in {"serving", "draining"}
      OBVIOUS
    <3>2. CASE loop[r] = "receive"
      BY <3>1, <3>2 DEF NothingForgotten, InHand
    <3>3. CASE loop[r] = "stopped"
      BY <3>1, <3>3
    <3>4. QED
      BY <3>1, <3>2, <3>3
  <2>2. OnlyZombiesAreStuck
    BY DEF OnlyZombiesAreStuck, CanDeliver, CanRestart, Zombie
  <2>3. OnlyIdleDrains
    BY DEF OnlyIdleDrains
  <2>4. QED
    BY <2>1, <2>2, <2>3 DEF NobodyStuck
<1>4. QED
  BY <1>2, <1>3, PTL
=============================================================================
