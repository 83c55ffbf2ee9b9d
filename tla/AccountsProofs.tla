--------------------------- MODULE AccountsProofs ---------------------------
(***************************************************************************)
(* Proofs about module Accounts, for any number of requests, users and ids *)
(***************************************************************************)
EXTENDS Accounts, TLAPS

\* What the stage of a request says of its kind and of the user's row.
StageInv == \A r \in Requests :
    /\ stage[r] \in {"find", "user", "auth"} => Kind[r] \in Joining
    /\ stage[r] \in {"call", "insert"} =>
          Kind[r] \in {"create"} \cup Joining /\ User[r] \in users
    /\ stage[r] = "insert" => AccountOf(r) \in remote

\* A row that a transaction has changed is there, and is locked.
LockInv == \A r \in Requests : stage[r] = "check" =>
    /\ Kind[r] \in Changing /\ accounts[Id[r]] # NoRow
    /\ \A q \in Requests : stage[q] = "check" /\ Id[q] = Id[r] => q = r

\* Requests that have inserted the row of their user and create accounts.
Founders == {r \in Requests :
    \/ Kind[r] \in Joining /\ stage[r] \in {"call", "insert"}
    \/ \E i \in Steps : <<r, i>> \in remote}

FounderInv ==
    /\ \A r \in Founders : User[r] \in users
    /\ \A r, q \in Founders : User[r] = User[q] => r = q

Done(a) == accounts[a] # NoRow \/ a \in deleted

StepInv == \A r \in Requests, i \in Steps :
    /\ <<r, i>> \in remote => i <= step[r]
    /\ i < step[r] => Done(<<r, i>>)

IInv == TypeOK /\ StageInv /\ LockInv /\ FounderInv /\ StepInv /\ RowsHaveAccounts

-----------------------------------------------------------------------------
LEMMA StepsAre == /\ Steps = 1..3 /\ Len(Defaults) = 3
                  /\ \A i \in Steps : i \in Nat
  BY DEF Steps, Defaults

LEMMA InitInv ==
    ASSUME Init
    PROVE  IInv
<1> USE AccountsAssumption DEF Init
<1>1. TypeOK
  BY StepsAre DEF TypeOK, Stages, Ended
<1>2. StageInv /\ LockInv /\ FounderInv /\ RowsHaveAccounts
  BY DEF StageInv, LockInv, FounderInv, Founders, RowsHaveAccounts
<1>3. StepInv
  BY StepsAre DEF StepInv
<1>4. QED
  BY <1>1, <1>2, <1>3 DEF IInv

\* The id of a default account is no client's and no other request's.
LEMMA DefaultIds ==
    ASSUME TypeOK, NEW r \in Requests, stage[r] \in {"call", "insert"}, StageInv
    PROVE  /\ AccountOf(r) \in Accounts
           /\ \A q \in Requests, i \in Steps :
                 AccountOf(r) = <<q, i>> <=> Kind[r] \in Joining /\ q = r /\ i = step[r]
<1>1. step[r] \in Steps
  BY DEF TypeOK
<1>2. CASE Kind[r] \in Joining
  BY <1>1, <1>2 DEF AccountOf, Accounts
<1>3. CASE Kind[r] = "create"
  BY <1>3, AccountsAssumption DEF AccountOf, Accounts, Joining
<1>4. QED
  BY <1>2, <1>3 DEF StageInv

LEMMA TypeStep ==
    ASSUME IInv, [Next]_vars
    PROVE  TypeOK'
<1> USE AccountsAssumption DEF IInv, TypeOK, Goto, Stages, Ended
<1>1. ASSUME NEW r \in Requests, SignUp(r) \/ SignIn(r) \/ FindUser(r)
      PROVE  TypeOK'
  BY <1>1 DEF SignUp, SignIn, FindUser
<1>2. ASSUME NEW r \in Requests, InsertUser(r) \/ Authenticate(r) \/ StartCreate(r)
      PROVE  TypeOK'
  BY <1>2 DEF InsertUser, Authenticate, StartCreate
<1>3. ASSUME NEW r \in Requests, CallCreate(r)
      PROVE  TypeOK'
  <2>1. AccountOf(r) \in Accounts
    BY <1>3, DefaultIds DEF CallCreate
  <2>2. GivenUp(r) \in Stages
    BY DEF GivenUp
  <2>3. QED
    BY <1>3, <2>1, <2>2 DEF CallCreate
<1>4. ASSUME NEW r \in Requests, InsertAccount(r)
      PROVE  TypeOK'
  <2>1. AccountOf(r) \in Accounts
    BY <1>4, DefaultIds DEF InsertAccount
  <2>2. GivenUp(r) \in Stages
    BY DEF GivenUp
  <2>3. accounts' \in [Accounts -> Row \cup {NoRow}]
    BY <1>4, <2>1 DEF InsertAccount, Store, Row
  <2>4. step' \in [Requests -> Steps]
    BY <1>4, StepsAre DEF InsertAccount
  <2>5. stage' \in [Requests -> Stages]
    BY <1>4, <2>2 DEF InsertAccount
  <2>6. QED
    BY <1>4, <2>3, <2>4, <2>5 DEF InsertAccount
<1>5. ASSUME NEW r \in Requests, Change(r)
      PROVE  TypeOK'
  BY <1>5 DEF Change
<1>6. ASSUME NEW r \in Requests, Commit(r)
      PROVE  TypeOK'
  <2>1. accounts[Id[r]] \in Row /\ Id[r] \in Accounts
    BY <1>6 DEF Commit, LockInv
  <2>2. [accounts[Id[r]] EXCEPT !.name = r] \in Row
    BY <2>1 DEF Row
  <2>3. Apply(r) => /\ accounts' \in [Accounts -> Row \cup {NoRow}]
                    /\ deleted' \subseteq Accounts
    BY <2>1, <2>2 DEF Apply
  <2>4. QED
    BY <1>6, <2>3 DEF Commit
<1>7. ASSUME NEW r \in Requests, Fails(r)
      PROVE  TypeOK'
  BY <1>7 DEF Fails, GivenUp
<1>8. CASE UNCHANGED vars
  BY <1>8 DEF vars
<1>9. QED
  BY <1>1, <1>2, <1>3, <1>4, <1>5, <1>6, <1>7, <1>8 DEF Next

-----------------------------------------------------------------------------
(* Rows                                                                    *)

\* What a step can do to a row, and what a default account's end is.
LEMMA RowStep ==
    ASSUME IInv, [Next]_vars, NEW a \in Accounts
    PROVE  /\ accounts[a] # NoRow /\ accounts'[a] # accounts[a] =>
                 /\ \E r \in Requests : /\ stage[r] = "check" /\ stage'[r] = "ok"
                                        /\ Id[r] = a /\ User[r] = accounts[a].user
                 /\ accounts'[a] # NoRow => accounts'[a].user = accounts[a].user
           /\ accounts[a] = NoRow /\ accounts'[a] # NoRow =>
                 a \in remote /\ accounts'[a].user \in users
           /\ Done(a) => Done(a)'
<1> USE AccountsAssumption DEF IInv
<1>1. ASSUME NEW r \in Requests, InsertAccount(r)
      PROVE  /\ accounts[a] # NoRow => accounts'[a] = accounts[a]
             /\ accounts[a] = NoRow /\ accounts'[a] # NoRow =>
                   a \in remote /\ accounts'[a].user \in users
             /\ Done(a) => Done(a)'
  <2>1. CASE accounts[AccountOf(r)] = NoRow
    <3>1. /\ accounts' = [accounts EXCEPT ![AccountOf(r)] = [user |-> User[r], name |-> r]]
          /\ deleted' = deleted
      BY <1>1, <2>1 DEF InsertAccount, Store
    <3>2. AccountOf(r) \in remote /\ User[r] \in users /\ User[r] \in Users
      BY <1>1 DEF InsertAccount, StageInv
    <3>3. [user |-> User[r], name |-> r] # NoRow
      OBVIOUS
    <3>4. QED
      BY <2>1, <3>1, <3>2, <3>3 DEF TypeOK, Done
  <2>2. CASE accounts[AccountOf(r)] # NoRow
    BY <1>1, <2>2 DEF InsertAccount, Done
  <2>3. QED
    BY <2>1, <2>2
<1>2. ASSUME NEW r \in Requests, Commit(r)
      PROVE  /\ accounts[a] # NoRow /\ accounts'[a] # accounts[a] =>
                   /\ stage[r] = "check" /\ stage'[r] = "ok"
                   /\ Id[r] = a /\ User[r] = accounts[a].user
                   /\ accounts'[a] # NoRow => accounts'[a].user = accounts[a].user
             /\ accounts[a] = NoRow => accounts'[a] = NoRow
             /\ Done(a) => Done(a)'
  <2>1. accounts[Id[r]] # NoRow /\ accounts[Id[r]] \in Row /\ stage[r] = "check"
    BY <1>2 DEF Commit, LockInv, TypeOK
  <2>2. CASE accounts[Id[r]].user = User[r] /\ Kind[r] = "update"
    <3>1. accounts' = [accounts EXCEPT ![Id[r]].name = r] /\ deleted' = deleted
      BY <1>2, <2>2 DEF Commit, Apply
    <3>2. stage' = [stage EXCEPT ![r] = "ok"]
      BY <1>2, <2>2 DEF Commit, Goto
    <3>3. [accounts[Id[r]] EXCEPT !.name = r] \in Row
          /\ [accounts[Id[r]] EXCEPT !.name = r].user = accounts[Id[r]].user
      BY <2>1 DEF Row
    <3>4. QED
      BY <2>1, <2>2, <3>1, <3>2, <3>3 DEF TypeOK, Done, Row
  <2>3. CASE accounts[Id[r]].user = User[r] /\ Kind[r] = "delete"
    <3>1. accounts' = [accounts EXCEPT ![Id[r]] = NoRow] /\ deleted' = deleted \cup {Id[r]}
      BY <1>2, <2>3 DEF Commit, Apply
    <3>2. stage' = [stage EXCEPT ![r] = "ok"]
      BY <1>2, <2>3 DEF Commit, Goto
    <3>3. QED
      BY <2>1, <2>3, <3>1, <3>2 DEF TypeOK, Done
  <2>4. CASE accounts[Id[r]].user # User[r]
    BY <1>2, <2>4 DEF Commit, Done
  <2>5. QED
    BY <1>2, <2>2, <2>3, <2>4 DEF Commit, Apply
<1>3. ASSUME NEW r \in Requests,
             \/ SignUp(r) \/ SignIn(r) \/ FindUser(r) \/ InsertUser(r) \/ Authenticate(r)
             \/ StartCreate(r) \/ CallCreate(r) \/ Change(r) \/ Fails(r)
      PROVE  accounts' = accounts /\ deleted' = deleted
  BY <1>3 DEF SignUp, SignIn, FindUser, InsertUser, Authenticate, StartCreate, CallCreate,
     Change, Fails
<1>4. CASE UNCHANGED vars
  BY <1>4 DEF vars, Done
<1>5. QED
  BY <1>1, <1>2, <1>3, <1>4 DEF Next, Done

LEMMA GrowStep ==
    ASSUME IInv, [Next]_vars
    PROVE  users \subseteq users' /\ remote \subseteq remote'
BY DEF Next, vars, SignUp, SignIn, FindUser, InsertUser, Authenticate, StartCreate, CallCreate,
   InsertAccount, Change, Commit, Fails

LEMMA RowsStep ==
    ASSUME IInv, [Next]_vars
    PROVE  RowsHaveAccounts'
<1>1. ASSUME NEW a \in Accounts, accounts'[a] # NoRow
      PROVE  a \in remote' /\ accounts'[a].user \in users'
  <2>1. CASE accounts[a] = NoRow
    BY <1>1, <2>1, RowStep, GrowStep
  <2>2. CASE accounts[a] # NoRow
    <3>1. a \in remote /\ accounts[a].user \in users
      BY <2>2 DEF IInv, RowsHaveAccounts
    <3>2. accounts'[a].user = accounts[a].user
      BY <1>1, <2>2, RowStep
    <3>3. QED
      BY <3>1, <3>2, GrowStep
  <2>3. QED
    BY <2>1, <2>2
<1>2. QED
  BY <1>1 DEF RowsHaveAccounts

-----------------------------------------------------------------------------
(* Stages and locks                                                        *)

LEMMA StageStep ==
    ASSUME IInv, [Next]_vars
    PROVE  StageInv'
<1> USE AccountsAssumption DEF IInv, StageInv, TypeOK, Goto
<1>1. ASSUME NEW r \in Requests, SignUp(r) \/ SignIn(r) \/ FindUser(r)
      PROVE  StageInv'
  BY <1>1 DEF SignUp, SignIn, FindUser, AccountOf, Joining
<1>2. ASSUME NEW r \in Requests, InsertUser(r) \/ Authenticate(r) \/ StartCreate(r)
      PROVE  StageInv'
  BY <1>2 DEF InsertUser, Authenticate, StartCreate, AccountOf, Joining
<1>3. ASSUME NEW r \in Requests, CallCreate(r)
      PROVE  StageInv'
  <2>1. \A q \in Requests : AccountOf(q)' = AccountOf(q)
    BY <1>3 DEF CallCreate, AccountOf
  <2>2. QED
    BY <1>3, <2>1 DEF CallCreate, GivenUp, Joining
<1>4. ASSUME NEW r \in Requests, InsertAccount(r)
      PROVE  StageInv'
  <2>1. \A q \in Requests \ {r} : AccountOf(q)' = AccountOf(q)
    BY <1>4 DEF InsertAccount, AccountOf
  <2>2. /\ users' = users /\ remote' = remote
        /\ \A q \in Requests \ {r} : stage'[q] = stage[q]
    BY <1>4 DEF InsertAccount
  <2>3. stage'[r] \in {"call", "ok", "auth", "error"}
        /\ (stage'[r] \in {"call", "auth"} => Kind[r] \in Joining)
    BY <1>4 DEF InsertAccount, GivenUp
  <2>4. User[r] \in users
    BY <1>4 DEF InsertAccount
  <2>5. QED
    BY <2>1, <2>2, <2>3, <2>4
<1>5. ASSUME NEW r \in Requests, Change(r) \/ Commit(r) \/ Fails(r)
      PROVE  StageInv'
  <2>1. /\ users' = users /\ remote' = remote /\ step' = step
        /\ \A q \in Requests \ {r} : stage'[q] = stage[q]
        /\ stage'[r] \in {"check", "error", "ok", "refused"}
    BY <1>5 DEF Change, Commit, Fails, GivenUp
  <2>2. \A q \in Requests : AccountOf(q)' = AccountOf(q)
    BY <2>1 DEF AccountOf
  <2>3. QED
    BY <2>1, <2>2
<1>6. CASE UNCHANGED vars
  BY <1>6 DEF vars, AccountOf
<1>7. QED
  BY <1>1, <1>2, <1>3, <1>4, <1>5, <1>6 DEF Next

LEMMA LockStep ==
    ASSUME IInv, [Next]_vars
    PROVE  LockInv'
<1> USE AccountsAssumption DEF IInv, LockInv, TypeOK, Goto
<1>1. ASSUME NEW r \in Requests,
             \/ SignUp(r) \/ SignIn(r) \/ FindUser(r) \/ InsertUser(r) \/ Authenticate(r)
             \/ StartCreate(r) \/ CallCreate(r) \/ Fails(r)
      PROVE  LockInv'
  <2>1. accounts' = accounts /\ \A q \in Requests : stage'[q] = "check" => stage[q] = "check"
    BY <1>1 DEF SignUp, SignIn, FindUser, InsertUser, Authenticate, StartCreate, CallCreate,
       Fails, GivenUp
  <2>2. QED
    BY <2>1
<1>2. ASSUME NEW r \in Requests, InsertAccount(r)
      PROVE  LockInv'
  <2>1. \A q \in Requests : stage'[q] = "check" => stage[q] = "check"
    BY <1>2 DEF InsertAccount, GivenUp
  <2>2. \A a \in Accounts : accounts[a] # NoRow => accounts'[a] = accounts[a]
    BY <1>2 DEF InsertAccount, Store
  <2>3. QED
    BY <2>1, <2>2
<1>3. ASSUME NEW r \in Requests, Change(r)
      PROVE  LockInv'
  BY <1>3 DEF Change, Locked
<1>4. ASSUME NEW r \in Requests, Commit(r)
      PROVE  LockInv'
  <2>1. \A q \in Requests : stage'[q] = "check" => stage[q] = "check" /\ q # r
    BY <1>4 DEF Commit
  <2>2. \A a \in Accounts : a # Id[r] => accounts'[a] = accounts[a]
    BY <1>4 DEF Commit, Apply
  <2>3. stage[r] = "check"
    BY <1>4 DEF Commit
  <2>4. QED
    BY <2>1, <2>2, <2>3
<1>5. CASE UNCHANGED vars
  BY <1>5 DEF vars
<1>6. QED
  BY <1>1, <1>2, <1>3, <1>4, <1>5 DEF Next

-----------------------------------------------------------------------------
(* Default accounts                                                        *)

LEMMA FounderStep ==
    ASSUME IInv, [Next]_vars
    PROVE  FounderInv'
<1> USE AccountsAssumption DEF IInv, FounderInv, TypeOK, Goto
<1>1. ASSUME NEW r \in Requests, InsertUser(r)
      PROVE  FounderInv'
  <2>1. Founders' \subseteq Founders \cup {r} /\ users' = users \cup {User[r]}
    BY <1>1 DEF InsertUser, Founders
  <2>2. User[r] \in users => Founders' \subseteq Founders
    BY <1>1 DEF InsertUser, Founders
  <2>3. QED
    BY <2>1, <2>2
<1>2. ASSUME NEW r \in Requests, CallCreate(r)
      PROVE  FounderInv'
  <2>1. \A q \in Requests, i \in Steps : <<q, i>> \in remote' =>
            \/ <<q, i>> \in remote
            \/ AccountOf(r) = <<q, i>>
    BY <1>2 DEF CallCreate
  <2>2. \A q \in Requests, i \in Steps : AccountOf(r) = <<q, i>> => Kind[r] \in Joining /\ q = r
    BY <1>2, DefaultIds DEF CallCreate
  <2>3. Kind[r] \in Joining => r \in Founders
    BY <1>2 DEF CallCreate, Founders
  <2>4. \A q \in Requests : stage'[q] \in {"call", "insert"} => stage[q] \in {"call", "insert"}
    BY <1>2 DEF CallCreate, GivenUp
  <2>5. Founders' \subseteq Founders
    BY <2>1, <2>2, <2>3, <2>4 DEF Founders
  <2>6. QED
    BY <1>2, <2>5 DEF CallCreate
<1>3. ASSUME NEW r \in Requests, StartCreate(r)
      PROVE  FounderInv'
  <2>1. Founders' \subseteq Founders
    BY <1>3 DEF StartCreate, Founders, Joining
  <2>2. QED
    BY <1>3, <2>1 DEF StartCreate
<1>4. ASSUME NEW r \in Requests,
             \/ SignUp(r) \/ SignIn(r) \/ FindUser(r) \/ Authenticate(r) \/ InsertAccount(r)
             \/ Change(r) \/ Commit(r) \/ Fails(r)
      PROVE  FounderInv'
  <2>1. users' = users /\ remote' = remote
        /\ \A q \in Requests : stage'[q] \in {"call", "insert"} => stage[q] \in {"call", "insert"}
    <3>1. CASE SignUp(r) \/ SignIn(r) \/ FindUser(r) \/ Authenticate(r)
      BY <3>1 DEF SignUp, SignIn, FindUser, Authenticate
    <3>2. CASE InsertAccount(r)
      BY <3>2 DEF InsertAccount, GivenUp
    <3>3. CASE Change(r) \/ Commit(r) \/ Fails(r)
      BY <3>3 DEF Change, Commit, Fails, GivenUp
    <3>4. QED
      BY <1>4, <3>1, <3>2, <3>3
  <2>2. Founders' \subseteq Founders
    BY <2>1 DEF Founders
  <2>3. QED
    BY <2>1, <2>2
<1>5. CASE UNCHANGED vars
  BY <1>5 DEF vars, Founders
<1>6. QED
  BY <1>1, <1>2, <1>3, <1>4, <1>5 DEF Next

LEMMA StepStep ==
    ASSUME IInv, [Next]_vars
    PROVE  StepInv'
<1> USE AccountsAssumption DEF IInv, TypeOK
<1>1. \A r \in Requests, i \in Steps : Done(<<r, i>>) => Done(<<r, i>>)'
  BY RowStep DEF Accounts
<1>2. ASSUME step' = step, remote' = remote
      PROVE  StepInv'
  BY <1>1, <1>2 DEF StepInv
<1>3. ASSUME NEW r \in Requests, CallCreate(r)
      PROVE  StepInv'
  <2>1. step' = step
    BY <1>3 DEF CallCreate
  <2>2. \A q \in Requests, i \in Steps : <<q, i>> \in remote' => i <= step[q]
    <3>1. \A q \in Requests, i \in Steps : AccountOf(r) = <<q, i>> => i = step[q]
      BY <1>3, DefaultIds DEF CallCreate
    <3>2. \A q \in Requests, i \in Steps :
              <<q, i>> \in remote' => <<q, i>> \in remote \/ AccountOf(r) = <<q, i>>
      BY <1>3 DEF CallCreate
    <3>3. \A i \in Steps : i <= i
      BY StepsAre
    <3>4. QED
      BY <3>1, <3>2, <3>3 DEF StepInv
  <2>3. QED
    BY <1>1, <2>1, <2>2 DEF StepInv
<1>4. ASSUME NEW r \in Requests, InsertAccount(r)
      PROVE  StepInv'
  <2>1. CASE step' = step
    BY <1>2, <1>4, <2>1 DEF InsertAccount
  <2>2. CASE step' = [step EXCEPT ![r] = @ + 1] /\ Kind[r] \in Joining
             /\ accounts[AccountOf(r)] = NoRow /\ Store(r)
    <3>1. AccountOf(r) = <<r, step[r]>> /\ AccountOf(r) \in Accounts
      BY <2>2 DEF AccountOf, Accounts
    <3>2. accounts'[<<r, step[r]>>] # NoRow
      BY <2>2, <3>1 DEF Store
    <3>3. remote' = remote
      BY <1>4 DEF InsertAccount
    <3>4. ASSUME NEW q \in Requests, NEW i \in Steps
          PROVE  /\ <<q, i>> \in remote' => i <= step'[q]
                 /\ i < step'[q] => Done(<<q, i>>)'
      <4>1. CASE q # r
        BY <1>1, <2>2, <3>3, <4>1 DEF StepInv
      <4>2. CASE q = r
        <5>1. step'[r] = step[r] + 1 /\ step[r] \in Nat /\ i \in Nat
          BY <2>2, StepsAre
        <5>2. i < step'[r] => i = step[r] \/ i < step[r]
          BY <5>1
        <5>3. i < step'[r] => Done(<<r, i>>)'
          BY <1>1, <3>2, <5>2 DEF StepInv, Done
        <5>4. <<r, i>> \in remote' => i <= step'[r]
          BY <3>3, <5>1 DEF StepInv
        <5>5. QED
          BY <4>2, <5>3, <5>4
      <4>3. QED
        BY <4>1, <4>2
    <3>5. QED
      BY <3>4 DEF StepInv
  <2>3. QED
    BY <1>4, <2>1, <2>2 DEF InsertAccount
<1>5. ASSUME NEW r \in Requests,
             \/ SignUp(r) \/ SignIn(r) \/ FindUser(r) \/ InsertUser(r) \/ Authenticate(r)
             \/ StartCreate(r) \/ Change(r) \/ Commit(r) \/ Fails(r)
      PROVE  StepInv'
  BY <1>2, <1>5 DEF SignUp, SignIn, FindUser, InsertUser, Authenticate, StartCreate, Change,
     Commit, Fails
<1>6. CASE UNCHANGED vars
  BY <1>2, <1>6 DEF vars
<1>7. QED
  BY <1>3, <1>4, <1>5, <1>6 DEF Next

-----------------------------------------------------------------------------
\* The inductive invariant holds always.  FounderInv says that one request at
\* most creates default accounts for a user, StepInv that it does so in order.
THEOREM Inductive == Spec => []IInv
<1>1. IInv /\ [Next]_vars => IInv'
  BY TypeStep, StageStep, LockStep, FounderStep, StepStep, RowsStep DEF IInv
<1>2. QED
  BY <1>1, InitInv, PTL DEF Spec

\* Every variable stays in its type (services/accounts.rs and the sign-up).
THEOREM TypeCorrect == Spec => []TypeOK
<1>1. IInv => TypeOK
  BY DEF IInv
<1>2. QED
  BY <1>1, Inductive, PTL

\* create_account calls first and stores the row after the answer: no row is
\* without an account at the transactions service.
THEOREM AccountsBackRows == Spec => []RowsHaveAccounts
<1>1. IInv => RowsHaveAccounts
  BY DEF IInv
<1>2. QED
  BY <1>1, Inductive, PTL

\* The primary key of users lets one of the racing requests create the default
\* accounts.
THEOREM OneSetOfDefaults == Spec => []DefaultsOnce
<1>1. IInv => DefaultsOnce
  BY DEF IInv, FounderInv, Founders, DefaultsOnce
<1>2. QED
  BY <1>1, Inductive, PTL

\* create_default_accounts goes on only after the row of the last account.
THEOREM DefaultsComeInOrder == Spec => []DefaultsInOrder
<1>1. IInv => DefaultsInOrder
  <2>1. ASSUME IInv, NEW r \in Requests, NEW i \in Steps, NEW j \in Steps,
               <<r, i>> \in remote, j < i
        PROVE  accounts[<<r, j>>] # NoRow \/ <<r, j>> \in deleted
    <3>1. i <= step[r] /\ i \in Nat /\ j \in Nat /\ step[r] \in Nat
      BY <2>1, StepsAre DEF IInv, StepInv, TypeOK
    <3>2. QED
      BY <2>1, <3>1 DEF IInv, StepInv, Done
  <2>2. QED
    BY <2>1 DEF DefaultsInOrder
<1>2. QED
  BY <1>1, Inductive, PTL

\* update_account and delete_account are undone for anyone but the owner.
THEOREM ChangesAreOwners == Spec => OnlyOwnersChange
<1> DEFINE Change1 == \A a \in Accounts :
    accounts[a] # NoRow /\ accounts'[a] # accounts[a] =>
        /\ \E r \in Requests : /\ stage[r] = "check" /\ stage'[r] = "ok"
                               /\ Id[r] = a /\ User[r] = accounts[a].user
        /\ accounts'[a] # NoRow => accounts'[a].user = accounts[a].user
<1>1. IInv /\ [Next]_vars => Change1
  BY RowStep
<1> HIDE DEF Change1
<1>2. Spec => [][Change1]_vars
  BY <1>1, Inductive, PTL DEF Spec
<1>3. QED
  BY <1>2 DEF OnlyOwnersChange, Change1
=============================================================================
