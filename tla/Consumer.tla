------------------------------ MODULE Consumer ------------------------------
(***************************************************************************)
(* Parse commands on their way from ParseCommander through a RabbitMQ      *)
(* queue to the handler: RabbitMQ.consumeMessages and the life of main, in *)
(* every replica of the service.                                           *)
(*                                                                         *)
(* The broker's queue and the amqp library are external; they are modelled *)
(* as the calls in src use them.  No prefetch limit is set, so the broker  *)
(* may push every ready command to one replica.  A command carries only a  *)
(* shop URL: the order of commands is not modelled.  Handling one is       *)
(* handler.Start's function with Parser.Parse inside (Runs, Pipeline): it  *)
(* returns nil or an error.                                                *)
(***************************************************************************)
EXTENDS Integers, FiniteSets

CONSTANTS Replicas,   \* processes of the service
          Commands,   \* commands that may be sent
          None,       \* no replica, no command
          Faults      \* what may go wrong around a replica

ASSUME ConsumerAssumption ==
    /\ None \notin Replicas \cup Commands
    /\ Faults \subseteq {"signal", "crash", "connection", "broker", "unroutable"}

VARIABLES
    where,     \* broker: the fate of each command
    owner,     \* broker: the replica an unacknowledged command was sent to
    buffer,    \* amqp library: deliveries a replica has not received yet
    conn,      \* the replica's amqp connection is open
    loop,      \* where consumeMessages is
    cur,       \* consumeMessages: delivery
    main,      \* where main is
    imported,  \* commands Parse once returned nil for
    refused    \* commands the handler once returned an error for

vars == <<where, owner, buffer, conn, loop, cur, main, imported, refused>>
broker == <<where, owner>>
history == <<imported, refused>>

Init ==
    /\ where = [m \in Commands |-> "unsent"]
    /\ owner = [m \in Commands |-> None]
    /\ buffer = [r \in Replicas |-> {}]
    /\ conn = [r \in Replicas |-> TRUE]
    /\ loop = [r \in Replicas |-> "receive"]
    /\ cur = [r \in Replicas |-> None]
    /\ main = [r \in Replicas |-> "serving"]
    /\ imported = {}
    /\ refused = {}

\* The context consumeMessages and the handler run under is done.
Cancelled(r) == main[r] # "serving"

\* The process is there: main has not returned.
Alive(r) == main[r] # "exited"

GotoLoop(r, l) == loop' = [loop EXCEPT ![r] = l]

-----------------------------------------------------------------------------
(* The broker.                                                             *)

\* ParseCommander.SendParseCommand and RabbitMQ.Publish.  Not mandatory and
\* without confirms: a command no queue is bound for is lost, with a nil error.
Publish(m) ==
    /\ where[m] = "unsent"
    /\ \/ where' = [where EXCEPT ![m] = "ready"]
       \/ /\ "unroutable" \in Faults
          /\ where' = [where EXCEPT ![m] = "lost"]
    /\ UNCHANGED <<owner, buffer, conn, loop, cur, main, history>>

\* No Qos: the broker pushes to any consumer, however busy.
Deliver(r, m) ==
    /\ where[m] = "ready"
    /\ conn[r]
    /\ where' = [where EXCEPT ![m] = "unacked"]
    /\ owner' = [owner EXCEPT ![m] = r]
    /\ buffer' = [buffer EXCEPT ![r] = @ \cup {m}]
    /\ UNCHANGED <<conn, loop, cur, main, history>>

HeldFor(r) == {m \in Commands : where[m] = "unacked" /\ owner[m] = r}

\* A closed connection: what was unacknowledged on it is ready again.
Requeue(r) ==
    /\ where' = [m \in Commands |-> IF m \in HeldFor(r) THEN "ready" ELSE where[m]]
    /\ owner' = [m \in Commands |-> IF m \in HeldFor(r) THEN None ELSE owner[m]]
    /\ conn' = [conn EXCEPT ![r] = FALSE]

Settle(m, fate) ==
    /\ where' = [where EXCEPT ![m] = fate]
    /\ owner' = [owner EXCEPT ![m] = None]

-----------------------------------------------------------------------------
(* RabbitMQ.consumeMessages.                                               *)

\* range deliveries: the context is not looked at here, and the deliveries the
\* library buffered may still come after the connection closed.
Receive(r, m) ==
    /\ loop[r] = "receive" /\ Alive(r)
    /\ m \in buffer[r]
    /\ buffer' = [buffer EXCEPT ![r] = @ \ {m}]
    /\ cur' = [cur EXCEPT ![r] = m]
    /\ GotoLoop(r, "handle")
    /\ UNCHANGED <<broker, conn, main, history>>

RangeEnds_ZeroDelivery(r) ==
    /\ loop[r] = "receive" /\ Alive(r)
    /\ ~conn[r]
    /\ buffer' = [buffer EXCEPT ![r] = {}]
    /\ cur' = [cur EXCEPT ![r] = None]
    /\ GotoLoop(r, "handle")
    /\ UNCHANGED <<broker, conn, main, history>>

\* The library closes deliveries after the connection, with what it buffered.
RangeEnds(r) ==
    /\ loop[r] = "receive" /\ Alive(r)
    /\ ~conn[r]
    /\ buffer' = [buffer EXCEPT ![r] = {}]
    /\ GotoLoop(r, "stopped")
    /\ UNCHANGED <<broker, conn, cur, main, history>>

\* handler returned nil: FinishRun, its last call, had the context not done.
HandleOk(r) ==
    /\ loop[r] = "handle" /\ Alive(r)
    /\ ~Cancelled(r)
    /\ imported' = imported \cup {cur[r]}
    /\ GotoLoop(r, "ack")
    /\ UNCHANGED <<broker, buffer, conn, cur, main, refused>>

HandleErr_SkipNack(r) ==
    /\ loop[r] = "handle" /\ Alive(r)
    /\ refused' = refused \cup {cur[r]}
    /\ GotoLoop(r, "receive")
    /\ UNCHANGED <<broker, buffer, conn, cur, main, imported>>

HandleErr_Ack(r) ==
    /\ loop[r] = "handle" /\ Alive(r)
    /\ refused' = refused \cup {cur[r]}
    /\ GotoLoop(r, "ack")
    /\ UNCHANGED <<broker, buffer, conn, cur, main, imported>>

\* handler returned an error: the body is not JSON, the shop is already being
\* parsed, the run failed, or the context is done.  pushError waits for the
\* goroutine that logs, or gives up when the context is done: either way on.
HandleErr(r) ==
    /\ loop[r] = "handle" /\ Alive(r)
    /\ refused' = refused \cup {cur[r]}
    /\ GotoLoop(r, "nack")
    /\ UNCHANGED <<broker, buffer, conn, cur, main, imported>>

Nack_Requeue(r) ==
    /\ loop[r] = "nack" /\ Alive(r)
    /\ conn[r]
    /\ Settle(cur[r], "ready")
    /\ GotoLoop(r, "receive")
    /\ UNCHANGED <<buffer, conn, cur, main, history>>

\* Nack(false, false): without requeue the broker drops the command (no dead
\* letter exchange is declared).  The loop goes on, whatever the context.
Nack(r) ==
    /\ loop[r] = "nack" /\ Alive(r)
    /\ conn[r]
    /\ Settle(cur[r], "dropped")
    /\ GotoLoop(r, "receive")
    /\ UNCHANGED <<buffer, conn, cur, main, history>>

Ack_Multiple(r) ==
    /\ loop[r] = "ack" /\ Alive(r)
    /\ conn[r]
    /\ where' = [m \in Commands |-> IF m \in HeldFor(r) THEN "acked" ELSE where[m]]
    /\ owner' = [m \in Commands |-> IF m \in HeldFor(r) THEN None ELSE owner[m]]
    /\ GotoLoop(r, "check")
    /\ UNCHANGED <<buffer, conn, cur, main, history>>

\* Ack(false).
Ack(r) ==
    /\ loop[r] = "ack" /\ Alive(r)
    /\ conn[r]
    /\ Settle(cur[r], "acked")
    /\ GotoLoop(r, "check")
    /\ UNCHANGED <<buffer, conn, cur, main, history>>

\* The acknowledgement was written and the connection broke before the broker
\* read it.
AckLost(r) ==
    /\ "connection" \in Faults
    /\ loop[r] \in {"ack", "nack"} /\ Alive(r)
    /\ conn[r]
    /\ Requeue(r)
    /\ GotoLoop(r, IF loop[r] = "ack" THEN "check" ELSE "receive")
    /\ UNCHANGED <<buffer, cur, main, history>>

\* Ack or Nack fails on a closed connection.  The error is logged and the loop
\* goes on; only if pushError sees the context done does it stop.
SettleFails(r) ==
    /\ loop[r] \in {"ack", "nack"} /\ Alive(r)
    /\ ~conn[r]
    /\ \/ GotoLoop(r, IF loop[r] = "ack" THEN "check" ELSE "receive")
       \/ Cancelled(r) /\ GotoLoop(r, "stopped")
    /\ UNCHANGED <<broker, buffer, conn, cur, main, history>>

\* The only look at the context: after a success.
CheckContext(r) ==
    /\ loop[r] = "check" /\ Alive(r)
    /\ GotoLoop(r, IF Cancelled(r) THEN "stopped" ELSE "receive")
    /\ UNCHANGED <<broker, buffer, conn, cur, main, history>>

-----------------------------------------------------------------------------
(* main.                                                                   *)

\* SIGINT or SIGTERM: cancel().
Signal(r) ==
    /\ "signal" \in Faults
    /\ main[r] = "serving"
    /\ main' = [main EXCEPT ![r] = "draining"]
    /\ UNCHANGED <<broker, buffer, conn, loop, cur, history>>

CloseConnections_NoWait(r) ==
    /\ main[r] = "draining"
    /\ main' = [main EXCEPT ![r] = "closed"]
    /\ Requeue(r)
    /\ UNCHANGED <<buffer, loop, cur, history>>

\* <-conn.Done(), then both connections are closed.
CloseConnections(r) ==
    /\ main[r] = "draining"
    /\ loop[r] = "stopped"
    /\ main' = [main EXCEPT ![r] = "closed"]
    /\ Requeue(r)
    /\ UNCHANGED <<buffer, loop, cur, history>>

\* main returns, and with it the process.
Exit(r) ==
    /\ main[r] = "closed"
    /\ main' = [main EXCEPT ![r] = "exited"]
    /\ UNCHANGED <<broker, buffer, conn, loop, cur, history>>

\* A new process, consuming: amqp.Dial and RabbitMQ.Consume.
Fresh(r) ==
    /\ main' = [main EXCEPT ![r] = "serving"]
    /\ loop' = [loop EXCEPT ![r] = "receive"]
    /\ buffer' = [buffer EXCEPT ![r] = {}]
    /\ cur' = [cur EXCEPT ![r] = None]
    /\ conn' = [conn EXCEPT ![r] = TRUE]

\* The deployment replaces a process that ended.
Restart(r) ==
    /\ main[r] = "exited"
    /\ Fresh(r)
    /\ UNCHANGED <<broker, history>>

-----------------------------------------------------------------------------
(* Failures.                                                               *)

\* The process is killed and replaced; its connection breaks.
Crash(r) ==
    /\ "crash" \in Faults
    /\ Alive(r)
    /\ main' = [main EXCEPT ![r] = "exited"]
    /\ Requeue(r)
    /\ UNCHANGED <<buffer, loop, cur, history>>

ConnectionLost(r) ==
    /\ "connection" \in Faults
    /\ conn[r]
    /\ Requeue(r)
    /\ UNCHANGED <<buffer, loop, cur, main, history>>

\* The broker restarts: commands are published transient, so none survives.
BrokerRestart ==
    /\ "broker" \in Faults
    /\ where' = [m \in Commands |->
                    IF where[m] \in {"ready", "unacked"} THEN "lost" ELSE where[m]]
    /\ owner' = [m \in Commands |-> None]
    /\ conn' = [r \in Replicas |-> FALSE]
    /\ UNCHANGED <<buffer, loop, cur, main, history>>

Loop(r) == \/ \E m \in Commands : Receive(r, m)
           \/ RangeEnds(r) \/ HandleOk(r) \/ HandleErr(r) \/ Nack(r) \/ Ack(r)
           \/ SettleFails(r) \/ CheckContext(r)
Main(r) == CloseConnections(r) \/ Exit(r)
Failure(r) == Signal(r) \/ Crash(r) \/ ConnectionLost(r) \/ AckLost(r)

Next == \/ \E m \in Commands : Publish(m)
        \/ \E r \in Replicas, m \in Commands : Deliver(r, m)
        \/ \E r \in Replicas : Loop(r) \/ Main(r) \/ Restart(r) \/ Failure(r)
        \/ BrokerRestart

Spec == Init /\ [][Next]_vars

\* The broker delivers to a consumer if there is one, handling a command ends
\* (Runs!ParseReturns), main and the deployment do their part.  Nothing is
\* assumed of senders, signals and failures.
Fairness ==
    /\ WF_vars(\E r \in Replicas, m \in Commands : Deliver(r, m))
    /\ \A r \in Replicas : WF_vars(Loop(r)) /\ WF_vars(Main(r)) /\ WF_vars(Restart(r))

FairSpec == Spec /\ Fairness

-----------------------------------------------------------------------------
(* Properties.                                                             *)

Fates == {"unsent", "ready", "unacked", "acked", "dropped", "lost"}

\* Type invariant of the broker, the library and the replicas.
TypeOK ==
    /\ where \in [Commands -> Fates]
    /\ owner \in [Commands -> Replicas \cup {None}]
    /\ buffer \in [Replicas -> SUBSET Commands]
    /\ conn \in [Replicas -> BOOLEAN]
    /\ loop \in [Replicas -> {"receive", "handle", "ack", "nack", "check", "stopped"}]
    /\ cur \in [Replicas -> Commands \cup {None}]
    /\ main \in [Replicas -> {"serving", "draining", "closed", "exited"}]
    /\ imported \subseteq Commands
    /\ refused \subseteq Commands

\* A command is acknowledged only if some Parse of it succeeded, and dropped
\* only if the handler once returned an error for it (rabbitmq.go:91-101), even
\* when deliveries of one command overlap after a connection broke.
SettledAsHandled ==
    /\ \A m \in Commands : where[m] = "acked" => m \in imported
    /\ \A m \in Commands : where[m] = "dropped" => m \in refused

\* What consumeMessages has in hand.
InHand(r) == IF loop[r] \in {"handle", "ack", "nack"} THEN {cur[r]} ELSE {}

\* No replica forgets a command: what the broker takes for delivered is still
\* in the library's buffer or in the loop's hands, so it will be settled, or
\* given back when the connection closes (rabbitmq.go:90-101, main.go:94-117).
NothingForgotten ==
    \A m \in Commands : where[m] = "unacked" =>
        m \in buffer[owner[m]] \cup InHand(owner[m])

\* The replica is at work, and its connection was not lost by accident.
Handles(r) == Alive(r) /\ loop[r] = "handle" /\ (conn[r] \/ main[r] = "closed")

\* Two replicas never handle the same command at once, as long as the connection
\* it came on did not break under them: main waits for the loop before it closes
\* that connection (main.go:94), whatever crashes elsewhere.
NoConcurrentHandling ==
    \A q, r \in Replicas :
        /\ Handles(q) /\ Handles(r)
        /\ cur[q] = cur[r]
        => q = r

Settled(m) == where[m] \in {"acked", "dropped", "lost"}

\* A connection broke, the loop is over, and main waits for a signal.
Zombie(r) == loop[r] = "stopped" /\ main[r] = "serving"

Break == \E r \in Replicas : Crash(r) \/ ConnectionLost(r) \/ AckLost(r)

\* If nothing breaks any more every command sent is settled in the end, through
\* shutdowns and redeliveries: a failing one does not circulate (rabbitmq.go:128)
\* and no replica keeps one for ever.  The exception: every replica has lost its
\* connection, and nobody noticed (main.go:85-89, rabbitmq.go:76-79).
SettlesIfServed ==
    <>[][~Break]_vars =>
        \A m \in Commands :
            where[m] # "unsent" ~> Settled(m) \/ \A r \in Replicas : Zombie(r)

\* main.go:82, 93: a signal leads to a graceful shutdown, which waits for the
\* consumer to finish.
ShutdownCompletes ==
    \A r \in Replicas : main[r] = "draining" ~> main[r] # "draining"
=============================================================================
