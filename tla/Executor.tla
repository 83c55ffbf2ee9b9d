------------------------------ MODULE Executor ------------------------------
(***************************************************************************)
(* DbExecutorImpl (repos/executor.rs): closures of statements run on the   *)
(* threads of a CpuPool, each thread with a connection in thread-local     *)
(* storage that it takes from the r2d2 pool once and gives back only when  *)
(* a closure has failed and "SELECT 1" fails too.  The pool has a fixed    *)
(* number of connections and tests one before it hands it out.             *)
(***************************************************************************)
EXTENDS Naturals, FiniteSets

CONSTANTS
    Threads, Jobs, Connections,
    Kind,    \* [Jobs -> {"plain", "transaction"}]: execute, execute_transaction
    Length,  \* [Jobs -> Nat]: the statements of a closure
    NoJob, NoConnection

ASSUME ExecutorAssumption ==
    /\ Kind \in [Jobs -> {"plain", "transaction"}]
    /\ Length \in [Jobs -> Nat \ {0}]
    /\ NoJob \notin Jobs /\ NoConnection \notin Connections
    /\ IsFiniteSet(Threads) /\ IsFiniteSet(Connections)

VARIABLES
    slots,   \* the connections of the pool, idle or taken
    idle,    \* those in the pool
    dead,    \* connections that are broken
    up,      \* the database takes connections
    tls,     \* [Threads -> connection or NoConnection]: DB_CONN
    job,     \* [Threads -> the job it runs or NoJob]
    stage,   \* [Jobs -> where the job is]
    done,    \* [Jobs -> statements run]
    stored,  \* [Jobs -> statements that will stay]
    failed,  \* dead connections a job has failed on
    unsure   \* jobs whose commit was not answered

database == <<dead, up>>
jobs == <<job, stage, done, stored>>
vars == <<slots, idle, database, tls, jobs, failed, unsure>>

Ended == {"ok", "error"}
Stages == {"new", "queued", "get", "run", "check"} \cup Ended

Goto(t, s) == stage' = [stage EXCEPT ![job[t]] = s]
At(t, s) == job[t] # NoJob /\ stage[job[t]] = s
Alive(t) == tls[t] \notin dead

\* The thread is done with its job.
Finish(t, s) ==
    /\ Goto(t, s)
    /\ job' = [job EXCEPT ![t] = NoJob]

\* A pool that can not open its connections stops the program at once.
Init ==
    /\ slots \in SUBSET Connections \ {{}}
    /\ idle = slots /\ dead = {} /\ up = TRUE
    /\ tls = [t \in Threads |-> NoConnection]
    /\ job = [t \in Threads |-> NoJob]
    /\ stage = [j \in Jobs |-> "new"]
    /\ done = [j \in Jobs |-> 0] /\ stored = [j \in Jobs |-> 0]
    /\ failed = {} /\ unsure = {}

-----------------------------------------------------------------------------
(* put_connection_into_tls                                                 *)

\* spawn_fn
Submit(j) ==
    /\ stage[j] = "new"
    /\ stage' = [stage EXCEPT ![j] = "queued"]
    /\ UNCHANGED <<slots, idle, database, tls, job, done, stored, failed, unsure>>

\* Faulty: every job takes a connection of its own.
StartAfresh(t) ==
    /\ job[t] = NoJob
    /\ \E j \in Jobs :
          /\ stage[j] = "queued"
          /\ job' = [job EXCEPT ![t] = j]
          /\ stage' = [stage EXCEPT ![j] = "get"]
    /\ UNCHANGED <<slots, idle, database, tls, done, stored, failed, unsure>>

Start(t) ==
    /\ job[t] = NoJob
    /\ \E j \in Jobs :
          /\ stage[j] = "queued"
          /\ job' = [job EXCEPT ![t] = j]
          /\ stage' = [stage EXCEPT ![j] = IF tls[t] = NoConnection THEN "get" ELSE "run"]
    /\ UNCHANGED <<slots, idle, database, tls, done, stored, failed, unsure>>

\* A connection that fails the pool's test is replaced by a new one.
Get(t) ==
    /\ At(t, "get") /\ up
    /\ \E c \in idle :
          /\ idle' = idle \ {c}
          /\ tls' = [tls EXCEPT ![t] = c]
          /\ dead' = dead \ {c} /\ failed' = failed \ {c}
    /\ Goto(t, "run")
    /\ UNCHANGED <<slots, up, job, done, stored, unsure>>

\* Faulty: the pool is waited for until it has a connection.
GetWaits(t) ==
    /\ At(t, "get") /\ ~up
    /\ Finish(t, "error")
    /\ UNCHANGED <<slots, idle, database, tls, done, stored, failed, unsure>>

\* The pool gives up after its connection_timeout.
GetFails(t) ==
    /\ At(t, "get") /\ (~up \/ idle = {})
    /\ Finish(t, "error")
    /\ UNCHANGED <<slots, idle, database, tls, done, stored, failed, unsure>>

-----------------------------------------------------------------------------
(* The closure                                                             *)

\* Faulty: the statements of a transaction commit by themselves.
StatementCommits(t) ==
    /\ At(t, "run") /\ done[job[t]] < Length[job[t]] /\ Alive(t)
    /\ done' = [done EXCEPT ![job[t]] = @ + 1]
    /\ stored' = [stored EXCEPT ![job[t]] = @ + 1]
    /\ UNCHANGED <<slots, idle, database, tls, job, stage, failed, unsure>>

Statement(t) ==
    /\ At(t, "run") /\ done[job[t]] < Length[job[t]] /\ Alive(t)
    /\ done' = [done EXCEPT ![job[t]] = @ + 1]
    /\ stored' = IF Kind[job[t]] = "plain" THEN [stored EXCEPT ![job[t]] = @ + 1]
                                           ELSE stored
    /\ UNCHANGED <<slots, idle, database, tls, job, stage, failed, unsure>>

\* Faulty: the error of the closure is kept, but the transaction succeeds.
JobFailsQuietly(t) ==
    /\ At(t, "run")
    /\ stored' = [stored EXCEPT ![job[t]] = done[job[t]]]
    /\ Goto(t, "check")
    /\ UNCHANGED <<slots, idle, database, tls, job, done, failed, unsure>>

\* The closure turns the request down, or a statement meets a constraint; a
\* transaction is rolled back.
JobFails(t) ==
    /\ At(t, "run")
    /\ Goto(t, "check")
    /\ UNCHANGED <<slots, idle, database, tls, job, done, stored, failed, unsure>>

\* A statement, BEGIN or COMMIT included, meets the broken connection.
ConnectionFails(t) ==
    /\ At(t, "run") /\ ~Alive(t)
    /\ failed' = failed \cup {tls[t]}
    /\ Goto(t, "check")
    /\ UNCHANGED <<slots, idle, database, tls, job, done, stored, unsure>>

Succeed(t) ==
    /\ At(t, "run") /\ done[job[t]] = Length[job[t]]
    /\ Kind[job[t]] = "transaction" => Alive(t)
    /\ stored' = [stored EXCEPT ![job[t]] = Length[job[t]]]
    /\ Finish(t, "ok")
    /\ UNCHANGED <<slots, idle, database, tls, done, failed, unsure>>

\* COMMIT is done and the connection breaks before the answer.
CommitUnanswered(t) ==
    /\ At(t, "run") /\ done[job[t]] = Length[job[t]]
    /\ Kind[job[t]] = "transaction" /\ Alive(t)
    /\ stored' = [stored EXCEPT ![job[t]] = Length[job[t]]]
    /\ unsure' = unsure \cup {job[t]}
    /\ dead' = dead \cup {tls[t]} /\ failed' = failed \cup {tls[t]}
    /\ Goto(t, "check")
    /\ UNCHANGED <<slots, idle, up, tls, job, done>>

-----------------------------------------------------------------------------
(* remove_connection_from_tls_if_broken                                    *)

\* Faulty: the connection stays where it is.
CheckNothing(t) ==
    /\ At(t, "check")
    /\ Finish(t, "error")
    /\ UNCHANGED <<slots, idle, database, tls, done, stored, failed, unsure>>

\* Faulty: the thread keeps what it gives back.
CheckAndKeep(t) ==
    /\ At(t, "check")
    /\ idle' = IF Alive(t) THEN idle ELSE idle \cup {tls[t]}
    /\ Finish(t, "error")
    /\ UNCHANGED <<slots, database, tls, done, stored, failed, unsure>>

Check(t) ==
    /\ At(t, "check")
    /\ \/ /\ Alive(t)
          /\ UNCHANGED <<idle, tls>>
       \/ /\ ~Alive(t)
          /\ idle' = idle \cup {tls[t]}
          /\ tls' = [tls EXCEPT ![t] = NoConnection]
    /\ Finish(t, "error")
    /\ UNCHANGED <<slots, database, done, stored, failed, unsure>>

-----------------------------------------------------------------------------
(* The database                                                            *)

Break(c) ==
    /\ c \in slots
    /\ dead' = dead \cup {c}
    /\ UNCHANGED <<slots, idle, up, tls, jobs, failed, unsure>>

Outage ==
    /\ up' = ~up
    /\ dead' = IF up THEN slots ELSE dead
    /\ UNCHANGED <<slots, idle, tls, jobs, failed, unsure>>

Next ==
    \/ \E j \in Jobs : Submit(j)
    \/ \E t \in Threads :
          \/ Start(t) \/ Get(t) \/ GetFails(t)
          \/ Statement(t) \/ JobFails(t) \/ ConnectionFails(t)
          \/ Succeed(t) \/ CommitUnanswered(t) \/ Check(t)
    \/ \E c \in Connections : Break(c)
    \/ Outage

Spec == Init /\ [][Next]_vars

\* Threads run, and pool and database answer or time out.
Fairness == \A t \in Threads :
    WF_vars(Start(t) \/ Get(t) \/ GetFails(t) \/ Statement(t) \/ ConnectionFails(t)
            \/ Succeed(t) \/ Check(t))

FairSpec == Spec /\ Fairness

-----------------------------------------------------------------------------
(* Properties                                                              *)

\* Every variable stays in its type, and a closure that runs has a connection
\* (with_tls_connection never finds DB_CONN empty).
TypeOK ==
    /\ slots \subseteq Connections
    /\ idle \subseteq slots
    /\ dead \subseteq slots
    /\ up \in BOOLEAN
    /\ tls \in [Threads -> slots \cup {NoConnection}]
    /\ job \in [Threads -> Jobs \cup {NoJob}]
    /\ stage \in [Jobs -> Stages]
    /\ done \in [Jobs -> Nat]
    /\ stored \in [Jobs -> Nat]
    /\ failed \subseteq dead
    /\ unsure \subseteq Jobs
    /\ \A t \in Threads : At(t, "run") \/ At(t, "check") => tls[t] \in slots

\* "repo inside DbExecutor's method closure will get healthy connection or of
\* not, DbExecutor will heal it next time" (repos/executor.rs:17): of the jobs
\* that run on a connection after it broke, one fails and the others never
\* meet it, although only failures are looked at and threads keep connections.
HealedNextTime == \A t \in Threads : At(t, "run") => tls[t] \notin failed

\* A connection is in the pool or with one thread, whatever failed on it.
ConnectionsAreExclusive == \A t, s \in Threads :
    tls[t] # NoConnection => tls[t] \notin idle /\ (t # s => tls[t] # tls[s])

\* With no more threads than connections, none waits for the pool in vain:
\* what a thread keeps for good, no other one needs.
NeverStarved == Cardinality(Threads) <= Cardinality(slots) =>
    \A t \in Threads : At(t, "get") => idle # {}

\* What a job answers is what is stored: everything after success, nothing of a
\* transaction that failed, unless its commit was under way.
AnswersAreKept == \A j \in Jobs :
    /\ stage[j] = "ok" => stored[j] = Length[j]
    /\ Kind[j] = "transaction" /\ stage[j] # "ok" /\ j \notin unsure => stored[j] = 0

\* Threads, connections and the pool are not seen from outside.
Answered(s) == IF s = "new" THEN "none" ELSE IF s \in Ended THEN s ELSE "asked"

Promise == INSTANCE Database WITH
    answer <- [j \in Jobs |-> Answered(stage[j])],
    kept <- stored

\* What the other modules take a statement and a commit for: whatever breaks, and
\* on whichever thread and connection, a transaction stays as a whole or not at
\* all, and nothing of a closure happens before it is asked for or after its answer.
ImplementsDatabase == Promise!Spec

\* Every closure handed to the executor comes to an end, also when the database
\* never comes back and when there are more threads than connections.
EveryJobEnds == \A j \in Jobs : stage[j] = "queued" ~> stage[j] \in Ended

=============================================================================
