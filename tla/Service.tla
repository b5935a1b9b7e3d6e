------------------------------ MODULE Service ------------------------------
(***************************************************************************)
(* The whole service: Consumer's queue, loops and processes, where the     *)
(* handler of a command is Runs' Parse on the shared database.             *)
(*                                                                         *)
(* Consumer leaves open what a handler returns and when; Runs leaves open  *)
(* when commands come and when a process ends.  Here each answers the      *)
(* other: Parse is called with the shop of the command in hand, the        *)
(* command is settled by what Parse returns, Parse's context is main's,    *)
(* and a process that ends takes its Parse with it.                        *)
(***************************************************************************)
EXTENDS Integers, FiniteSets

CONSTANTS Replicas, Commands, Shops, None,
          Bodies,     \* what the commands may say: the shop of each, None for
                      \* a body that is not JSON
          MaxBreaks   \* bound: crashes, broken connections, database failures

ASSUME ServiceAssumption ==
    /\ IsFiniteSet(Replicas) /\ IsFiniteSet(Commands)
    /\ None \notin Replicas \cup Commands \cup Shops
    /\ Bodies \subseteq [Commands -> Shops \cup {None}]
    /\ MaxBreaks \in Nat

VARIABLES where, owner, buffer, conn, loop, cur, main, imported, refused,
          shops, runs, clock, pc, shopOf, stamp, newShop, outcome,
          url,        \* the commands' bodies, chosen once
          deployed,   \* the replicas that are run, chosen once
          breaks      \* breaks so far

C == INSTANCE Consumer WITH Faults <- {"signal", "crash", "connection"}

\* A delivery is handled once, and a break gives a command at most one more.
MaxBegins == Cardinality(Commands) * (MaxBreaks + 1)

\* main cancels the context; a process that is gone has none.
cancelled == [r \in Replicas |-> main[r] \in {"draining", "closed"}]

R == INSTANCE Runs WITH Workers <- Replicas,
                        Faults <- {"crash", "shutdown", "database"}

consumer == <<where, owner, buffer, conn, loop, cur, main, imported, refused>>
database == <<shops, runs, clock, pc, shopOf, stamp, newShop, outcome>>
setting  == <<url, deployed>>
vars     == <<consumer, database, setting, breaks>>

Init ==
    /\ C!Init
    /\ R!Init
    /\ url \in Bodies
    /\ deployed \in SUBSET Replicas \ {{}}
    /\ breaks = 0

-----------------------------------------------------------------------------
(* handler.Start's function.                                               *)

\* decodeMessage succeeds, and Parse reaches the database.
StartHandling(r) ==
    /\ C!Alive(r) /\ loop[r] = "handle"
    /\ url[cur[r]] # None
    /\ UNCHANGED consumer
    /\ R!Parse(r, url[cur[r]])

\* It does not: bad JSON, or BeginTx under a context that is done.
RefuseHandling(r) ==
    /\ loop[r] = "handle" /\ pc[r] = "idle"
    /\ url[cur[r]] = None \/ C!Cancelled(r)
    /\ C!HandleErr(r)
    /\ UNCHANGED database

\* Between two calls of Parse.
ParseGoesOn(r) ==
    /\ UNCHANGED consumer
    /\ R!Progress(r)
    /\ pc'[r] # "idle"

ReturnNil(r) ==
    /\ outcome[r] = "ok"
    /\ C!HandleOk(r)
    /\ R!FinishRun(r)

\* Parse returns an error: the shop is being parsed or was inserted by another,
\* the run failed, or the context is done.
ReturnError(r) ==
    /\ pc[r] = "finish" => outcome[r] = "failed" \/ C!Cancelled(r)
    /\ C!HandleErr(r)
    /\ R!Progress(r)
    /\ pc'[r] = "idle"

\* A call fails for the database's sake; COMMIT and UPDATE may have been done.
DatabaseFails(r) ==
    /\ ~C!Cancelled(r)
    /\ C!HandleErr(r)
    /\ \/ pc[r] = "idle" /\ UNCHANGED database
       \/ R!StartFails(r) \/ R!CommitLost(r) \/ R!FinishFails(r) \/ R!FinishRun(r)

Handle(r) == StartHandling(r) \/ RefuseHandling(r) \/ ParseGoesOn(r)
             \/ ReturnNil(r) \/ ReturnError(r)

-----------------------------------------------------------------------------
(* The rest of the loop, main and the environment.                         *)

Consume(r) ==
    /\ \/ \E m \in Commands : C!Receive(r, m)
       \/ C!RangeEnds(r) \/ C!Ack(r) \/ C!Nack(r) \/ C!SettleFails(r) \/ C!CheckContext(r)
    /\ UNCHANGED database

Publish(m) == C!Publish(m) /\ UNCHANGED database
Deliver    == (\E r \in deployed, m \in Commands : C!Deliver(r, m)) /\ UNCHANGED database
Signal(r)  == C!Signal(r) /\ UNCHANGED database
Main(r)    == C!Main(r) /\ UNCHANGED database
Restart(r) == C!Restart(r) /\ UNCHANGED database

\* With the process goes its Parse.
Crash(r) ==
    /\ C!Crash(r)
    /\ \/ R!Crash(r)
       \/ pc[r] = "idle" /\ UNCHANGED database

LoseConnection(r) == (C!ConnectionLost(r) \/ C!AckLost(r)) /\ UNCHANGED database

Break(r) == Crash(r) \/ LoseConnection(r) \/ DatabaseFails(r)

Smooth == \/ \E m \in Commands : Publish(m)
          \/ Deliver
          \/ \E r \in deployed : Consume(r) \/ Handle(r) \/ Signal(r) \/ Main(r) \/ Restart(r)

Next ==
    /\ UNCHANGED setting
    /\ \/ Smooth /\ UNCHANGED breaks
       \/ /\ breaks < MaxBreaks
          /\ breaks' = breaks + 1
          /\ \E r \in deployed : Break(r)

Spec == Init /\ [][Next]_vars

-----------------------------------------------------------------------------
(* Properties.                                                             *)

\* Type invariant: of both parts, and a Parse is under way only in the handler.
TypeOK ==
    /\ C!TypeOK /\ R!TypeOK
    /\ url \in Bodies /\ deployed \in SUBSET Replicas \ {{}}
    /\ breaks \in 0 .. MaxBreaks
    /\ \A r \in Replicas : pc[r] # "idle" =>
           C!Alive(r) /\ loop[r] = "handle" /\ shopOf[r] = url[cur[r]]

CommandsOf(s, fates) == {m \in Commands : url[m] = s /\ where[m] \in fates}
Successes(s) == {r \in R!RunsOf(s) : runs[r].state = "ok"}

\* Every acknowledged command has a successful run of its own in the database,
\* whatever breaks in between (handler/rabbitmq.go:46-55, rabbitmq.go:91-100).
AckedHaveRuns ==
    \A s \in Shops :
        Cardinality(CommandsOf(s, {"acked"})) <= Cardinality(Successes(s))

\* A shop is imported at most once for each command sent, and at each break at most
\* once more for each of them; a graceful shutdown is no break: it never hands a
\* command that was imported to another replica (main.go:93-117).
DuplicatesNeedBreaks ==
    \A s \in Shops :
        Cardinality(Successes(s)) <=
            (breaks + 1) * Cardinality(CommandsOf(s, C!Fates \ {"unsent"}))

\* Runs is what the service does to the database: a process that was asked to
\* stop ends only between two calls of Parse (main.go:93-94).
ImplementsRuns == R!Spec

Single == Cardinality(deployed) = 1

\* README.md:7, of a service with one replica: a shop never has two unfinished
\* runs, whatever is delivered again (postgres.go:51-59).
AtMostOneRunning == Single => R!AtMostOneRunning

\* One replica: while a run is orphaned its shop gets no new run.
OrphanBlocksShop ==
    [][\A q \in R!Stamps, s \in Shops :
        /\ Single
        /\ \E r \in R!RunsOf(s) : R!Orphan(r)
        /\ q \in DOMAIN runs' \ DOMAIN runs
        => runs'[q].shop # s]_vars

\* ... and no command for the shop is imported any more: all of them are dropped
\* (postgres.go:57-59, rabbitmq.go:95, 128).
OrphanedShopRefuses ==
    [][\A m \in Commands :
        /\ Single
        /\ \E r \in R!RunsOf(url[m]) : R!Orphan(r)
        => m \notin imported' \ imported]_vars
=============================================================================
