--------------------------- MODULE RuntimeProofs ---------------------------
(***************************************************************************)
(* Proofs about what every request runs on: the executor's threads and     *)
(* connections (module Executor), for any number of threads, jobs and      *)
(* connections, and the process with its connection to the broker (module  *)
(* Startup), for any number of faults and announcements.                   *)
(***************************************************************************)
EXTENDS Executor, Startup, FiniteSetTheorems, TLAPS

-----------------------------------------------------------------------------
(* The executor                                                            *)

\* A job is with at most one thread, and a thread that has one is at work on it.
JobInv ==
    /\ \A t \in Threads : job[t] # NoJob => stage[job[t]] \in {"get", "run", "check"}
    /\ \A t, s \in Threads : job[t] # NoJob /\ job[t] = job[s] => t = s

\* A thread asks for a connection only when it has none; none gets lost.
PoolInv ==
    /\ \A t \in Threads : At(t, "get") => tls[t] = NoConnection
    /\ \A c \in slots : c \in idle \/ \E t \in Threads : tls[t] = c

\* A connection on which a job has failed is looked at before anything else.
FailedInv == \A t \in Threads : tls[t] \in failed => At(t, "check")

\* Every statement of a plain closure stays, and an unanswered commit ends its job.
StoredInv ==
    /\ \A j \in Jobs : Kind[j] = "plain" => stored[j] = done[j]
    /\ \A j \in unsure : stage[j] \in {"check", "error"}

IInv ==
    /\ TypeOK /\ JobInv /\ PoolInv /\ FailedInv /\ StoredInv
    /\ ConnectionsAreExclusive /\ AnswersAreKept

-----------------------------------------------------------------------------
LEMMA InitInv ==
    ASSUME Init
    PROVE  IInv
<1> USE ExecutorAssumption DEF Init
<1>1. TypeOK
  BY DEF TypeOK, Stages, Ended, At
<1>2. JobInv /\ PoolInv /\ FailedInv /\ StoredInv
  BY DEF JobInv, PoolInv, FailedInv, StoredInv, At
<1>3. ConnectionsAreExclusive /\ AnswersAreKept
  BY DEF ConnectionsAreExclusive, AnswersAreKept
<1>4. QED
  BY <1>1, <1>2, <1>3 DEF IInv

\* What a step of thread t may touch: its own job and its own connection.
LEMMA TypeStep ==
    ASSUME IInv, [Next]_vars
    PROVE  TypeOK'
<1> USE ExecutorAssumption DEF IInv, TypeOK, JobInv, At, Stages, Ended
<1>1. ASSUME NEW j \in Jobs, Submit(j)
      PROVE  TypeOK'
  BY <1>1 DEF Submit, database
<1>2. ASSUME NEW t \in Threads, Start(t)
      PROVE  TypeOK'
  BY <1>2 DEF Start, database
<1>3. ASSUME NEW t \in Threads, Get(t) \/ GetFails(t)
      PROVE  TypeOK'
  BY <1>3 DEF Get, GetFails, Finish, Goto, database
<1>4. ASSUME NEW t \in Threads, Statement(t) \/ JobFails(t) \/ ConnectionFails(t)
      PROVE  TypeOK'
  BY <1>4 DEF Statement, JobFails, ConnectionFails, Goto, Alive, database
<1>5. ASSUME NEW t \in Threads, Succeed(t) \/ CommitUnanswered(t) \/ Check(t)
      PROVE  TypeOK'
  BY <1>5 DEF Succeed, CommitUnanswered, Check, Finish, Goto, Alive, database
<1>6. CASE (\E c \in Connections : Break(c)) \/ Outage
  <2>1. /\ UNCHANGED <<slots, idle, tls, jobs, failed, unsure>>
        /\ up' \in BOOLEAN
        /\ dead' \subseteq slots /\ dead \subseteq dead'
    BY <1>6 DEF Break, Outage
  <2>2. QED
    BY <2>1 DEF jobs
<1>7. CASE UNCHANGED vars
  BY <1>7 DEF vars, database, jobs
<1>8. QED
  BY <1>1, <1>2, <1>3, <1>4, <1>5, <1>6, <1>7 DEF Next

LEMMA JobStep ==
    ASSUME IInv, [Next]_vars
    PROVE  JobInv'
<1> USE ExecutorAssumption DEF IInv, TypeOK, JobInv, At
<1>1. ASSUME NEW j \in Jobs, Submit(j)
      PROVE  JobInv'
  BY <1>1 DEF Submit
<1>2. ASSUME NEW t \in Threads, Start(t)
      PROVE  JobInv'
  BY <1>2 DEF Start
<1>3. ASSUME NEW t \in Threads, Get(t) \/ JobFails(t) \/ ConnectionFails(t) \/ CommitUnanswered(t)
      PROVE  JobInv'
  BY <1>3 DEF Get, JobFails, ConnectionFails, CommitUnanswered, Goto
<1>4. ASSUME NEW t \in Threads, GetFails(t) \/ Succeed(t) \/ Check(t)
      PROVE  JobInv'
  BY <1>4 DEF GetFails, Succeed, Check, Finish, Goto
<1>5. ASSUME NEW t \in Threads, Statement(t)
      PROVE  JobInv'
  BY <1>5 DEF Statement
<1>6. CASE (\E c \in Connections : Break(c)) \/ Outage \/ UNCHANGED vars
  BY <1>6 DEF Break, Outage, jobs, vars
<1>7. QED
  BY <1>1, <1>2, <1>3, <1>4, <1>5, <1>6 DEF Next

\* Connections move from the pool to a thread and back, one at a time.
LEMMA ConnectionStep ==
    ASSUME IInv, [Next]_vars
    PROVE  PoolInv' /\ ConnectionsAreExclusive'
<1> USE ExecutorAssumption DEF IInv, TypeOK, JobInv, PoolInv, ConnectionsAreExclusive, At
<1>1. ASSUME NEW j \in Jobs, Submit(j)
      PROVE  PoolInv' /\ ConnectionsAreExclusive'
  BY <1>1 DEF Submit
<1>2. ASSUME NEW t \in Threads, Start(t)
      PROVE  PoolInv' /\ ConnectionsAreExclusive'
  BY <1>2 DEF Start
<1>3. ASSUME NEW t \in Threads, Get(t)
      PROVE  PoolInv' /\ ConnectionsAreExclusive'
  <2>1. PICK c \in idle : idle' = idle \ {c} /\ tls' = [tls EXCEPT ![t] = c]
    BY <1>3 DEF Get
  <2>2. \A s \in Threads : s # t => (At(s, "get")' <=> At(s, "get")) /\ tls'[s] = tls[s]
    BY <1>3, <2>1 DEF Get, Goto
  <2>3. ~At(t, "get")' /\ tls[t] = NoConnection /\ tls'[t] = c /\ slots' = slots
    BY <1>3, <2>1 DEF Get, Goto
  <2>4. QED
    BY <2>1, <2>2, <2>3
<1>4. ASSUME NEW t \in Threads,
             \/ JobFails(t) \/ ConnectionFails(t) \/ CommitUnanswered(t) \/ Statement(t)
             \/ GetFails(t) \/ Succeed(t)
      PROVE  PoolInv' /\ ConnectionsAreExclusive'
  <2>1. tls' = tls /\ idle' = idle /\ slots' = slots
    BY <1>4 DEF JobFails, ConnectionFails, CommitUnanswered, Statement, GetFails, Succeed
  <2>2. \A s \in Threads : At(s, "get")' => At(s, "get")
    BY <1>4 DEF JobFails, ConnectionFails, CommitUnanswered, Statement, GetFails, Succeed,
       Finish, Goto
  <2>3. QED
    BY <2>1, <2>2
<1>5. ASSUME NEW t \in Threads, Check(t)
      PROVE  PoolInv' /\ ConnectionsAreExclusive'
  <2>1. \A s \in Threads : At(s, "get")' => At(s, "get") /\ s # t
    BY <1>5 DEF Check, Finish, Goto
  <2>2. slots' = slots /\ tls[t] \in slots
    BY <1>5 DEF Check
  <2>3. CASE idle' = idle /\ tls' = tls
    BY <2>1, <2>2, <2>3
  <2>4. CASE idle' = idle \cup {tls[t]} /\ tls' = [tls EXCEPT ![t] = NoConnection]
    BY <2>1, <2>2, <2>4
  <2>5. QED
    BY <1>5, <2>3, <2>4 DEF Check
<1>6. CASE (\E c \in Connections : Break(c)) \/ Outage \/ UNCHANGED vars
  BY <1>6 DEF Break, Outage, jobs, vars
<1>7. QED
  BY <1>1, <1>2, <1>3, <1>4, <1>5, <1>6 DEF Next

LEMMA FailedStep ==
    ASSUME IInv, [Next]_vars
    PROVE  FailedInv'
<1> USE ExecutorAssumption DEF IInv, TypeOK, JobInv, FailedInv, ConnectionsAreExclusive, At
<1>1. ASSUME NEW j \in Jobs, Submit(j)
      PROVE  FailedInv'
  BY <1>1 DEF Submit
<1>2. ASSUME NEW t \in Threads, Start(t) \/ Get(t) \/ GetFails(t)
      PROVE  FailedInv'
  BY <1>2 DEF Start, Get, GetFails, Finish, Goto
<1>3. ASSUME NEW t \in Threads, Statement(t) \/ JobFails(t) \/ Succeed(t)
      PROVE  FailedInv'
  BY <1>3 DEF Statement, JobFails, Succeed, Finish, Goto
<1>4. ASSUME NEW t \in Threads, ConnectionFails(t) \/ CommitUnanswered(t)
      PROVE  FailedInv'
  <2>1. tls' = tls /\ failed' = failed \cup {tls[t]} /\ tls[t] \in slots
    BY <1>4 DEF ConnectionFails, CommitUnanswered
  <2>2. At(t, "check")' /\ \A s \in Threads : s # t => (At(s, "check")' <=> At(s, "check"))
    BY <1>4 DEF ConnectionFails, CommitUnanswered, Goto
  <2>3. QED
    BY <2>1, <2>2
<1>5. ASSUME NEW t \in Threads, Check(t)
      PROVE  FailedInv'
  <2>1. \A s \in Threads : s # t => (At(s, "check")' <=> At(s, "check")) /\ tls'[s] = tls[s]
    BY <1>5 DEF Check, Finish, Goto
  <2>2. tls'[t] \notin failed /\ failed' = failed
    BY <1>5 DEF Check, Alive
  <2>3. QED
    BY <2>1, <2>2
<1>6. CASE (\E c \in Connections : Break(c)) \/ Outage \/ UNCHANGED vars
  BY <1>6 DEF Break, Outage, jobs, vars
<1>7. QED
  BY <1>1, <1>2, <1>3, <1>4, <1>5, <1>6 DEF Next

LEMMA AnswerStep ==
    ASSUME IInv, [Next]_vars
    PROVE  AnswersAreKept'
<1> USE ExecutorAssumption DEF IInv, TypeOK, JobInv, AnswersAreKept, At
<1>1. ASSUME NEW j \in Jobs, Submit(j)
      PROVE  AnswersAreKept'
  BY <1>1 DEF Submit
<1>2. ASSUME NEW t \in Threads, Start(t) \/ Get(t) \/ GetFails(t)
      PROVE  AnswersAreKept'
  BY <1>2 DEF Start, Get, GetFails, Finish, Goto
<1>3. ASSUME NEW t \in Threads, Statement(t)
      PROVE  AnswersAreKept'
  BY <1>3 DEF Statement
<1>4. ASSUME NEW t \in Threads, JobFails(t) \/ ConnectionFails(t) \/ Check(t)
      PROVE  AnswersAreKept'
  BY <1>4 DEF JobFails, ConnectionFails, Check, Finish, Goto
<1>5. ASSUME NEW t \in Threads, Succeed(t) \/ CommitUnanswered(t)
      PROVE  AnswersAreKept'
  BY <1>5 DEF Succeed, CommitUnanswered, Finish, Goto
<1>6. CASE (\E c \in Connections : Break(c)) \/ Outage \/ UNCHANGED vars
  BY <1>6 DEF Break, Outage, jobs, vars
<1>7. QED
  BY <1>1, <1>2, <1>3, <1>4, <1>5, <1>6 DEF Next

LEMMA StoredStep ==
    ASSUME IInv, [Next]_vars
    PROVE  StoredInv'
<1> USE ExecutorAssumption DEF IInv, TypeOK, JobInv, StoredInv, At
<1>1. ASSUME NEW j \in Jobs, Submit(j)
      PROVE  StoredInv'
  BY <1>1 DEF Submit
<1>2. ASSUME NEW t \in Threads, Start(t) \/ Get(t) \/ GetFails(t)
      PROVE  StoredInv'
  BY <1>2 DEF Start, Get, GetFails, Finish, Goto
<1>3. ASSUME NEW t \in Threads, Statement(t)
      PROVE  StoredInv'
  BY <1>3 DEF Statement
<1>4. ASSUME NEW t \in Threads, JobFails(t) \/ ConnectionFails(t) \/ Check(t)
      PROVE  StoredInv'
  BY <1>4 DEF JobFails, ConnectionFails, Check, Finish, Goto
<1>5. ASSUME NEW t \in Threads, Succeed(t) \/ CommitUnanswered(t)
      PROVE  StoredInv'
  BY <1>5 DEF Succeed, CommitUnanswered, Finish, Goto
<1>6. CASE (\E c \in Connections : Break(c)) \/ Outage \/ UNCHANGED vars
  BY <1>6 DEF Break, Outage, jobs, vars
<1>7. QED
  BY <1>1, <1>2, <1>3, <1>4, <1>5, <1>6 DEF Next

-----------------------------------------------------------------------------
(* Consequences of the invariant                                           *)

LEMMA Healed ==
    ASSUME IInv
    PROVE  HealedNextTime
BY DEF IInv, FailedInv, HealedNextTime, At

\* If the pool were empty, its connections would be with other threads than the
\* one that asks, and two of them with the same one.
LEMMA Fed ==
    ASSUME IInv
    PROVE  NeverStarved
<1> SUFFICES ASSUME Cardinality(Threads) <= Cardinality(slots),
                    NEW t \in Threads, At(t, "get"), idle = {}
             PROVE  FALSE
  BY DEF NeverStarved
<1> DEFINE Others == Threads \ {t}
           keeper == [c \in slots |-> CHOOSE s \in Threads : tls[s] = c]
<1>1. IsFiniteSet(Threads) /\ IsFiniteSet(slots)
  BY ExecutorAssumption, FS_Subset DEF IInv, TypeOK
<1>2. /\ IsFiniteSet(Others)
      /\ Cardinality(Others) = Cardinality(Threads) - 1
  BY <1>1, FS_RemoveElement
<1>3. Cardinality(Threads) \in Nat /\ Cardinality(slots) \in Nat
  BY <1>1, FS_CardinalityType
<1>4. Cardinality(Others) < Cardinality(slots)
  BY <1>2, <1>3
<1>5. tls[t] \notin slots
  BY ExecutorAssumption DEF IInv, PoolInv, TypeOK
<1>6. \A c \in slots : keeper[c] \in Others /\ tls[keeper[c]] = c
  BY <1>5 DEF IInv, PoolInv
<1>7. keeper \in [slots -> Others]
  BY <1>6
<1> HIDE DEF keeper, Others
<1>8. \E c, d \in slots : c # d /\ keeper[c] = keeper[d]
  BY <1>1, <1>2, <1>4, <1>7, FS_PigeonHole
<1>9. QED
  BY <1>6, <1>8

\* The inductive invariant of the executor, for any number of threads, jobs and
\* connections.
THEOREM Inductive == Spec => []IInv
<1>1. Init => IInv
  BY InitInv
<1>2. IInv /\ [Next]_vars => IInv'
  BY TypeStep, JobStep, ConnectionStep, FailedStep, StoredStep, AnswerStep DEF IInv
<1>3. QED
  BY <1>1, <1>2, PTL DEF Spec

\* The variables of executor.rs and of its pool keep their types, and no closure
\* runs without a connection in DB_CONN.
THEOREM TypeCorrect == Spec => []TypeOK
<1>1. IInv => TypeOK
  BY DEF IInv
<1>2. QED
  BY <1>1, Inductive, PTL

\* The comment of DbExecutor: after the failure that finds a connection broken,
\* no closure runs on it.
THEOREM BrokenConnectionsHeal == Spec => []HealedNextTime
<1>1. QED
  BY Healed, Inductive, PTL

\* put_connection_into_tls and remove_connection_from_tls_if_broken never leave
\* a connection with two owners.
THEOREM OneOwner == Spec => []ConnectionsAreExclusive
<1>1. IInv => ConnectionsAreExclusive
  BY DEF IInv
<1>2. QED
  BY <1>1, Inductive, PTL

\* A pool with as many connections as threads is enough, although the threads
\* never return a connection that works.
THEOREM PoolSuffices == Spec => []NeverStarved
<1>1. QED
  BY Fed, Inductive, PTL

\* execute and execute_transaction answer with success only what stays, and a
\* failed transaction leaves nothing, unless its COMMIT was under way.
THEOREM AnswersHold == Spec => []AnswersAreKept
<1>1. IInv => AnswersAreKept
  BY DEF IInv
<1>2. QED
  BY <1>1, Inductive, PTL

\* What a step of the executor is to the caller of a closure.
LEMMA PromiseStep ==
    ASSUME IInv, [Next]_vars
    PROVE  [Promise!Next]_(Promise!vars)
<1> USE ExecutorAssumption DEF IInv, TypeOK, JobInv, At, Answered, Ended
<1> DEFINE answer == [j \in Jobs |-> Answered(stage[j])]
<1>1. ASSUME NEW j \in Jobs, Submit(j)
      PROVE  Promise!Ask(j)
  <2>1. answer[j] = "none" /\ answer' = [answer EXCEPT ![j] = "asked"] /\ stored' = stored
    BY <1>1 DEF Submit
  <2>2. QED
    BY <2>1 DEF Promise!Ask
<1>2. ASSUME NEW t \in Threads,
             Start(t) \/ Get(t) \/ JobFails(t) \/ ConnectionFails(t)
      PROVE  answer' = answer /\ stored' = stored
  BY <1>2 DEF Start, Get, JobFails, ConnectionFails, Goto
<1>3. ASSUME NEW t \in Threads, NEW j \in Jobs, j = job[t], Statement(t)
      PROVE  (answer' = answer /\ stored' = stored) \/ Promise!Keep(j)
  <2>1. answer' = answer /\ job[t] \in Jobs /\ answer[job[t]] = "asked"
    BY <1>3 DEF Statement
  <2>2. CASE Kind[job[t]] = "plain"
    <3>1. stored[job[t]] < Length[job[t]] /\ stored' = [stored EXCEPT ![job[t]] = @ + 1]
      BY <1>3, <2>1, <2>2 DEF Statement, StoredInv
    <3>2. QED
      BY <1>3, <2>1, <2>2, <3>1 DEF Promise!Keep
  <2>3. CASE Kind[job[t]] # "plain"
    BY <1>3, <2>1, <2>3 DEF Statement
  <2>4. QED
    BY <2>2, <2>3
<1>4. ASSUME NEW t \in Threads, NEW j \in Jobs, j = job[t], GetFails(t) \/ Check(t)
      PROVE  Promise!Fail(j)
  <2>1. stage[j] \in {"get", "check"} /\ stage' = [stage EXCEPT ![j] = "error"] /\ stored' = stored
    BY <1>4 DEF GetFails, Check, Finish, Goto
  <2>2. answer[j] = "asked" /\ answer' = [answer EXCEPT ![j] = "error"]
    BY <2>1
  <2>3. QED
    BY <2>1, <2>2 DEF Promise!Fail
<1>5. ASSUME NEW t \in Threads, NEW j \in Jobs, j = job[t],
             Succeed(t) \/ CommitUnanswered(t), Kind[j] = "transaction"
      PROVE  Promise!Commit(j)
  <2>1. job[t] \in Jobs /\ answer[job[t]] = "asked" /\ stage[job[t]] = "run"
    BY <1>5 DEF Succeed, CommitUnanswered
  <2>2. stored[job[t]] = 0
    BY <1>5, <2>1 DEF StoredInv, AnswersAreKept
  <2>3. stored' = [stored EXCEPT ![job[t]] = Length[job[t]]]
    BY <1>5 DEF Succeed, CommitUnanswered
  <2>4. answer' \in {answer, [answer EXCEPT ![job[t]] = "ok"]}
    <3>1. CASE Succeed(t)
      <4>1. answer' = [answer EXCEPT ![job[t]] = "ok"]
        BY <3>1, <2>1 DEF Succeed, Finish, Goto
      <4>2. QED
        BY <4>1
    <3>2. CASE CommitUnanswered(t)
      <4>1. answer' = answer
        BY <3>2, <2>1 DEF CommitUnanswered, Goto
      <4>2. QED
        BY <4>1
    <3>3. QED
      BY <1>5, <3>1, <3>2
  <2>5. QED
    BY <1>5, <2>1, <2>2, <2>3, <2>4 DEF Promise!Commit
<1>6. ASSUME NEW t \in Threads, NEW j \in Jobs, j = job[t],
             Succeed(t), Kind[j] # "transaction"
      PROVE  Promise!Succeed(j)
  <2>1. job[t] \in Jobs /\ answer[job[t]] = "asked" /\ Kind[job[t]] = "plain"
    BY <1>6 DEF Succeed
  <2>2. stored[job[t]] = Length[job[t]] /\ stored' = stored
    BY <1>6, <2>1 DEF Succeed, StoredInv
  <2>3. answer' = [answer EXCEPT ![job[t]] = "ok"]
    BY <1>6, <2>1 DEF Succeed, Finish, Goto
  <2>4. QED
    BY <1>6, <2>1, <2>2, <2>3 DEF Promise!Succeed
<1>7. CASE (\E c \in Connections : Break(c)) \/ Outage \/ UNCHANGED vars
  <2>1. answer' = answer /\ stored' = stored
    BY <1>7 DEF Break, Outage, jobs, vars
  <2>2. QED
    BY <2>1 DEF Promise!vars
<1>8. ASSUME NEW t \in Threads,
             GetFails(t) \/ Statement(t) \/ Succeed(t) \/ CommitUnanswered(t) \/ Check(t)
      PROVE  job[t] \in Jobs
  <2>1. job[t] # NoJob
    BY <1>8 DEF GetFails, Statement, Succeed, CommitUnanswered, Check
  <2>2. QED
    BY <2>1
<1>9. QED
  <2>1. ASSUME NEW t \in Threads,
               \/ Start(t) \/ Get(t) \/ GetFails(t)
               \/ Statement(t) \/ JobFails(t) \/ ConnectionFails(t)
               \/ Succeed(t) \/ CommitUnanswered(t) \/ Check(t)
        PROVE  [Promise!Next]_(Promise!vars)
    <3>1. CASE answer' = answer /\ stored' = stored
      BY <3>1 DEF Promise!vars
    <3>2. CASE ~(answer' = answer /\ stored' = stored)
      <4>1. PICK j \in Jobs : j = job[t]
        BY <1>2, <1>8, <2>1, <3>2
      <4>2. Promise!Keep(j) \/ Promise!Fail(j) \/ Promise!Commit(j) \/ Promise!Succeed(j)
        BY <1>2, <1>3, <1>4, <1>5, <1>6, <2>1, <3>2, <4>1 DEF CommitUnanswered
      <4>3. QED
        BY <4>2 DEF Promise!Next
    <3>3. QED
      BY <3>1, <3>2
  <2>2. QED
    BY <1>1, <1>7, <2>1 DEF Next, Promise!Next

\* DbExecutorImpl is what the other modules take it for: statements commit one by
\* one under execute and all at once under execute_transaction.
THEOREM Implements == Spec => ImplementsDatabase
<1>1. Init => Promise!Init
  BY DEF Init, Promise!Init, Answered
<1>2. IInv /\ [Next]_vars => [Promise!Next]_(Promise!vars)
  BY PromiseStep
<1>3. QED
  BY <1>1, <1>2, Inductive, PTL DEF Spec, ImplementsDatabase, Promise!Spec

-----------------------------------------------------------------------------
(* The process                                                             *)

Later   == {"consumer", "queue", "consume", "api", "up"}
Connected   == conn \in {"open", "silent"}

Declared(n) == \A i \in 1..n : Declarations[i] \in topology

\* A connection that was not lost has seen everything declared that start_server
\* is past, and the broker has not been away since.
DeclaredInv ==
    /\ Connected => broker = "up" /\ at \in Calls \cup Later
    /\ at = "publisher" => next = 1
    /\ Connected /\ at = "declare" => Declared(next - 1)
    /\ Connected /\ at \in Later => Declared(Len(Declarations))

\* Halves run only at the end, with a consumer's channel that has its limit.
HalvesInv ==
    /\ at \in {"queue", "consume", "api", "up"} => "consumer" \in prefetch
    /\ task["sub"] # "none" \/ task["api"] # "none" => at \in {"api", "up"}
    /\ at \in {"down", "migrate", "pool", "connect"} => conn = "none" /\ next = 1

BootInv == BootTypeOK /\ DeclaredInv /\ HalvesInv /\ NothingVanishes /\ OneAtATime

-----------------------------------------------------------------------------
LEMMA Seven ==
    /\ Len(Declarations) = 7
    /\ \A i \in 1..7 : Declarations[i] \in Items
    /\ Declarations[1] = Exchange
    /\ \A route \in Routes : \E i, j \in 1..7 :
          Declarations[i] = Item("queue", route) /\ Declarations[j] = Item("bind", route)
<1>1. Len(Declarations) = 7
  BY DEF Declarations
<1>2. /\ Declarations[1] = Exchange
      /\ Declarations[2] = Item("queue", "pushes") /\ Declarations[3] = Item("queue", "callbacks")
      /\ Declarations[4] = Item("queue", "emails") /\ Declarations[5] = Item("bind", "pushes")
      /\ Declarations[6] = Item("bind", "callbacks") /\ Declarations[7] = Item("bind", "emails")
  BY DEF Declarations
<1>3. \A i \in 1..7 : i \in {1, 2, 3, 4, 5, 6, 7}
  OBVIOUS
<1>4. \A kind \in {"exchange", "queue", "bind"}, name \in Routes \cup {"notifications"} :
         Item(kind, name) \in Items
  BY DEF Item, Items
<1>5. \A i \in 1..7 : Declarations[i] \in Items
  BY <1>2, <1>3, <1>4 DEF Routes, Exchange
<1>6. \A route \in Routes : \E i, j \in 1..7 :
          Declarations[i] = Item("queue", route) /\ Declarations[j] = Item("bind", route)
  BY <1>2 DEF Routes
<1>7. QED
  BY <1>1, <1>2, <1>5, <1>6

LEMMA BootInitInv == BootInit => BootInv
  BY StartupAssumption, Seven
     DEF BootInit, BootInv, BootTypeOK, DeclaredInv, HalvesInv, NothingVanishes, OneAtATime,
         BootStages, Calls, Tasks, Connected, Later

\* A process that ends leaves nothing to be said of it.
LEMMA DiesOK ==
    ASSUME BootInv, Dies, UNCHANGED vanished,
           broker' \in {"up", "down"}, db' \in {"up", "down"},
           topology' \subseteq Items, faults' \in 0..MaxFaults
    PROVE  BootInv'
  BY Seven DEF BootInv, BootTypeOK, DeclaredInv, HalvesInv, NothingVanishes, OneAtATime,
               Dies, Requeue, BootStages, Calls, Tasks, Connected, Later

\* Up to the connection.
LEMMA FirstSteps ==
    ASSUME BootInv, Launch \/ UseDatabase \/ Connect
    PROVE  BootInv'
<1> USE Seven DEF BootTypeOK, DeclaredInv, HalvesInv, NothingVanishes, OneAtATime, BootStages, Calls,
                  Tasks, Connected, Later, queue, Declared
<1>1. CASE Launch
  BY <1>1 DEF BootInv, Launch
<1>2. CASE UseDatabase
  <2>1. CASE Dies
    BY <1>2, <2>1, DiesOK DEF BootInv, UseDatabase
  <2>2. CASE ~Dies
    BY <1>2, <2>2 DEF BootInv, UseDatabase
  <2>3. QED
    BY <2>1, <2>2
<1>3. CASE Connect
  <2>1. CASE Dies
    BY <1>3, <2>1, DiesOK DEF BootInv, Connect
  <2>2. CASE ~Dies
    <3>1. at = "connect" /\ at' = "publisher" /\ next = 1 /\ broker = "up"
          /\ task' = [task EXCEPT !["heart"] = "on"]
          /\ UNCHANGED <<next, prefetch, ready, unacked, db, broker, topology, vanished, faults>>
          /\ conn' = "open"
      BY <1>3, <2>2 DEF BootInv, Connect
    <3>2. QED
      BY <3>1 DEF BootInv
  <2>3. QED
    BY <2>1, <2>2
<1>4. QED
  BY <1>1, <1>2, <1>3

LEMMA DeclareOK ==
    ASSUME BootInv, Declare
    PROVE  BootInv'
<1> DEFINE d == Declarations[next]
<1> USE Seven DEF BootTypeOK, BootStages, Calls, Tasks, queue
<1>1. CASE Dies
  BY <1>1, DiesOK DEF BootInv, Declare
<1>2. CASE ~Dies
  <2>1. /\ at = "declare" /\ conn = "open"
        /\ topology' = topology \cup {d}
        /\ UNCHANGED <<conn, task, prefetch, ready, unacked, db, broker, vanished, faults>>
        /\ \/ next = 7 /\ at' = "consumer" /\ next' = next
           \/ next # 7 /\ at' = at /\ next' = next + 1
    BY <1>2 DEF Declare, Replied
  <2>2. next \in 1..7 /\ d \in Items
    BY DEF BootInv
  <2>3. BootTypeOK'
    BY <2>1, <2>2 DEF BootInv
  <2>4. \A i \in 1..next : Declarations[i] \in topology'
    <3>1. \A i \in 1..(next - 1) : Declarations[i] \in topology
      BY <2>1 DEF BootInv, DeclaredInv, Connected, Declared
    <3>2. \A i \in 1..next : i = next \/ i \in 1..(next - 1)
      BY <2>2
    <3>3. QED
      BY <2>1, <3>1, <3>2
  <2>5. CASE next = 7
    <3>1. Declared(Len(Declarations))'
      BY <2>4, <2>5 DEF Declared
    <3>2. DeclaredInv'
      BY <2>1, <2>5, <3>1 DEF BootInv, DeclaredInv, Connected, Later
    <3>3. QED
      BY <2>1, <2>3, <2>5, <3>2 DEF BootInv, HalvesInv, NothingVanishes, OneAtATime
  <2>6. CASE next # 7
    <3>1. next' - 1 = next
      BY <2>1, <2>2, <2>6
    <3>2. Declared(next - 1)'
      BY <2>4, <3>1 DEF Declared
    <3>3. DeclaredInv'
      BY <2>1, <2>6, <3>2 DEF BootInv, DeclaredInv, Connected, Later
    <3>4. QED
      BY <2>1, <2>3, <2>6, <3>3 DEF BootInv, HalvesInv, NothingVanishes, OneAtATime
  <2>7. QED
    BY <2>5, <2>6
<1>3. QED
  BY <1>1, <1>2

\* The other calls, each of which goes on when it is answered.
LEMMA CallsOK ==
    ASSUME BootInv, PublisherChannel \/ ConsumerChannel \/ DeclareQueue \/ Consume \/ StartApi \/ CallFails
    PROVE  BootInv'
<1> USE Seven DEF BootTypeOK, DeclaredInv, HalvesInv, NothingVanishes, OneAtATime, BootStages, Calls,
                  Tasks, Connected, Later, queue, Replied, Declared
<1>1. CASE PublisherChannel
  BY <1>1 DEF BootInv, PublisherChannel
<1>2. CASE ConsumerChannel
  BY <1>2 DEF BootInv, ConsumerChannel
<1>3. CASE DeclareQueue
  <2>1. Transactions \in Items
    BY DEF Transactions, Item, Items
  <2>2. QED
    BY <1>3, <2>1 DEF BootInv, DeclareQueue
<1>4. CASE Consume
  BY <1>4 DEF BootInv, Consume
<1>5. CASE StartApi
  BY <1>5 DEF BootInv, StartApi
<1>6. CASE CallFails
  BY <1>6, DiesOK DEF BootInv, CallFails
<1>7. QED
  BY <1>1, <1>2, <1>3, <1>4, <1>5, <1>6

\* What runs, and what becomes of it.
LEMMA RunningOK ==
    ASSUME BootInv, SubscriptionEnds \/ HeartbeatEnds \/ Exit \/ Announce \/ Deliver \/ Settle
    PROVE  BootInv'
<1> USE Seven DEF BootTypeOK, DeclaredInv, HalvesInv, NothingVanishes, OneAtATime, BootStages, Calls,
                  Tasks, Connected, Later, queue, process, Declared
<1>1. CASE SubscriptionEnds \/ HeartbeatEnds
  BY <1>1 DEF BootInv, SubscriptionEnds, HeartbeatEnds
<1>2. CASE Exit
  BY <1>2, DiesOK DEF BootInv, Exit
<1>3. CASE Announce
  BY <1>3 DEF BootInv, Announce
<1>4. CASE Deliver
  <2>1. "consumer" \in prefetch
    BY <1>4 DEF BootInv, Deliver
  <2>2. unacked = 0 /\ unacked' = 1 /\ ready' = ready - 1 /\ ready > 0
        /\ UNCHANGED <<at, conn, task, next, prefetch, db, broker, topology, vanished, faults>>
    BY <1>4, <2>1 DEF BootInv, Deliver
  <2>3. QED
    BY <2>2 DEF BootInv
<1>5. CASE Settle
  BY <1>5 DEF BootInv, Settle, Requeue
<1>6. QED
  BY <1>1, <1>2, <1>3, <1>4, <1>5

LEMMA PublishOK ==
    ASSUME BootInv, NEW route \in Routes, Publish(route)
    PROVE  BootInv'
<1>1. conn = "open" /\ at \in {"api", "up"}
  BY DEF BootInv, HalvesInv, Publish
<1>2. \A i \in 1..7 : Declarations[i] \in topology
  BY <1>1, Seven DEF BootInv, DeclaredInv, Connected, Later, Declared
<1>3. {Item("queue", route), Item("bind", route)} \subseteq topology
  BY <1>2, Seven
<1>4. UNCHANGED bootVars
  BY <1>3 DEF Publish, bootVars, process, queue
<1>5. QED
  BY <1>4 DEF BootInv, BootTypeOK, DeclaredInv, HalvesInv, NothingVanishes, OneAtATime, bootVars, process,
              queue, Connected, Declared

LEMMA FaultOK ==
    ASSUME BootInv, LoseConnection \/ StopBroker \/ StartBroker \/ StopDatabase \/ StartDatabase \/ Kill
    PROVE  BootInv'
<1> USE StartupAssumption, Seven DEF BootTypeOK, DeclaredInv, HalvesInv, NothingVanishes, OneAtATime,
        BootStages, Calls, Tasks, Connected, Later, queue, process, Declared
<1>1. Fault => faults' \in 0..MaxFaults
  BY DEF BootInv, Fault
<1>2. CASE LoseConnection
  BY <1>1, <1>2 DEF BootInv, LoseConnection, Requeue
<1>3. CASE StopBroker
  BY <1>1, <1>3 DEF BootInv, StopBroker, Requeue
<1>4. CASE StartBroker
  BY <1>4 DEF BootInv, StartBroker
<1>5. CASE StopDatabase \/ StartDatabase
  BY <1>1, <1>5 DEF BootInv, StopDatabase, StartDatabase
<1>6. CASE Kill
  BY <1>1, <1>6, DiesOK DEF BootInv, Kill
<1>7. QED
  BY <1>2, <1>3, <1>4, <1>5, <1>6

-----------------------------------------------------------------------------
LEMMA BootInvariance == BootSpec => []BootInv
<1>1. ASSUME BootInv, UNCHANGED bootVars
      PROVE  BootInv'
  BY <1>1 DEF BootInv, BootTypeOK, DeclaredInv, HalvesInv, NothingVanishes, OneAtATime, bootVars, process,
              queue, Connected, Declared
<1>2. BootInv /\ [BootNext]_bootVars => BootInv'
  BY <1>1, FirstSteps, DeclareOK, CallsOK, RunningOK, PublishOK, FaultOK DEF BootNext, Starting
<1>3. QED
  BY BootInitInv, <1>2, PTL DEF BootSpec

\* Every variable of Startup stays in its type.
THEOREM BootTypeCorrect == BootSpec => []BootTypeOK
<1>1. BootInv => BootTypeOK
  BY DEF BootInv
<1>2. QED
  BY <1>1, BootInvariance, PTL

\* However often process, broker and database go and come back, with or without
\* what the broker knew, nothing is published where there is no queue for it.
THEOREM Routed == BootSpec => []NothingVanishes
<1>1. BootInv => NothingVanishes
  BY DEF BootInv
<1>2. QED
  BY <1>1, BootInvariance, PTL

\* The handler has one delivery at a time in every life of the process.
THEOREM HandsFull == BootSpec => []OneAtATime
<1>1. BootInv => OneAtATime
  BY DEF BootInv
<1>2. QED
  BY <1>1, BootInvariance, PTL

=============================================================================
