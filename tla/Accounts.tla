------------------------------ MODULE Accounts ------------------------------
(***************************************************************************)
(* Users and accounts: POST /users and POST /sessions bring a user's row   *)
(* and default accounts into being, POST /users/.../accounts creates an    *)
(* account, PUT and DELETE /accounts/... change one (services/users.rs,    *)
(* services/accounts.rs, api/controllers/users.rs).  An account is created *)
(* at the transactions service first and gets its row when the answer is   *)
(* back; Storiqa keeps the users.                                          *)
(***************************************************************************)
EXTENDS Naturals, FiniteSets, Sequences

CONSTANTS
    Requests, Users,
    Ids,   \* account ids chosen by clients
    Kind,  \* [Requests -> Kinds]
    User,  \* [Requests -> Users]: who signs up, in, or is authenticated
    Id,    \* [Requests -> Accounts]: what a request creates, updates or deletes
    NoRow

\* create_default_accounts
Defaults == <<"stq", "btc", "eth">>
Steps == 1..Len(Defaults)

\* The id of a default account is generated.
Accounts == Ids \cup (Requests \X Steps)

Joining == {"signup", "signin"}
Changing == {"update", "delete"}
Kinds == {"create"} \cup Joining \cup Changing

ASSUME AccountsAssumption ==
    /\ Kind \in [Requests -> Kinds]
    /\ User \in [Requests -> Users]
    /\ Id \in [Requests -> Accounts]
    /\ \A r \in Requests : Kind[r] = "create" => Id[r] \in Ids
    /\ Ids \cap (Requests \X Steps) = {}
    /\ NoRow \notin [user : Users, name : Requests]

VARIABLES
    storiqa,  \* users Storiqa has
    users,    \* users with a row
    remote,   \* accounts the transactions service has
    accounts, \* table accounts: [Accounts -> row or NoRow]
    deleted,  \* accounts whose row was deleted
    stage,    \* [Requests -> where the request is]
    step      \* [Requests -> the default account it is at]

vars == <<storiqa, users, remote, accounts, deleted, stage, step>>

\* name stands for all that PUT may change: it is the request that set it.
Row == [user : Users, name : Requests]

Ended == {"ok", "refused", "error"}
Stages == {"new", "find", "user", "call", "insert", "auth", "check"} \cup Ended

Goto(r, s) == stage' = [stage EXCEPT ![r] = s]

AccountOf(r) == IF Kind[r] \in Joining THEN <<r, step[r]>> ELSE Id[r]

\* A transaction has changed the row and not ended yet.
Locked(a) == \E r \in Requests : stage[r] = "check" /\ Id[r] = a

Init ==
    /\ storiqa \in SUBSET Users
    /\ users \in SUBSET storiqa
    /\ remote = {}
    /\ accounts = [a \in Accounts |-> NoRow]
    /\ deleted = {}
    /\ stage = [r \in Requests |-> "new"]
    /\ step = [r \in Requests |-> 1]

-----------------------------------------------------------------------------
(* Signing up and in                                                       *)

\* create_user at Storiqa, which has one user per email.
SignUp(r) ==
    /\ stage[r] = "new" /\ Kind[r] = "signup" /\ User[r] \notin storiqa
    /\ storiqa' = storiqa \cup {User[r]}
    /\ \/ Goto(r, "user")
       \/ Goto(r, "error")
    /\ UNCHANGED <<users, remote, accounts, deleted, step>>

\* get_jwt or get_jwt_by_oauth, then me
SignIn(r) ==
    /\ stage[r] = "new" /\ Kind[r] = "signin" /\ User[r] \in storiqa
    /\ Goto(r, "find")
    /\ UNCHANGED <<storiqa, users, remote, accounts, deleted, step>>

\* merge_user, get_by_email
FindUser(r) ==
    /\ stage[r] = "find"
    /\ Goto(r, IF User[r] \in users THEN "auth" ELSE "user")
    /\ UNCHANGED <<storiqa, users, remote, accounts, deleted, step>>

\* Faulty: a row that came in between is taken for the request's own.
InsertUserOrKeep(r) ==
    /\ stage[r] = "user"
    /\ users' = users \cup {User[r]}
    /\ Goto(r, "call")
    /\ UNCHANGED <<storiqa, remote, accounts, deleted, step>>

\* One statement of merge_user, or the transaction of create_user with the
\* device row: the primary key lets one request insert a user.
InsertUser(r) ==
    /\ stage[r] = "user"
    /\ users' = users \cup {User[r]}
    /\ Goto(r, IF User[r] \in users THEN "error" ELSE "call")
    /\ UNCHANGED <<storiqa, remote, accounts, deleted, step>>

\* authenticate decides by revoke_before and the devices (module Sessions).
Authenticate(r) ==
    /\ stage[r] = "auth"
    /\ \/ Goto(r, "ok")
       \/ Goto(r, "refused")
    /\ UNCHANGED <<storiqa, users, remote, accounts, deleted, step>>

-----------------------------------------------------------------------------
(* Creating accounts                                                       *)

\* create_account; the user is authenticated and has a row.
StartCreate(r) ==
    /\ stage[r] = "new" /\ Kind[r] = "create" /\ User[r] \in users
    /\ Goto(r, "call")
    /\ UNCHANGED <<storiqa, users, remote, accounts, deleted, step>>

\* post_users answers with the user whatever becomes of the accounts.
GivenUp(r) == IF Kind[r] = "signup" THEN "ok" ELSE "error"

\* Faulty: no answer is as good as an answer.
CallCreateAnyway(r) ==
    /\ stage[r] = "call"
    /\ remote' \in {remote, remote \cup {AccountOf(r)}}
    /\ Goto(r, "insert")
    /\ UNCHANGED <<storiqa, users, accounts, deleted, step>>

\* The transactions service creates the account, has it already, or refuses;
\* its answer, or the call itself, may be lost.
CallCreate(r) ==
    /\ stage[r] = "call"
    /\ \/ /\ remote' = remote \cup {AccountOf(r)}
          /\ Goto(r, "insert")
       \/ /\ remote' \in {remote, remote \cup {AccountOf(r)}}
          /\ Goto(r, GivenUp(r))
    /\ UNCHANGED <<storiqa, users, accounts, deleted, step>>

Store(r) == accounts' = [accounts EXCEPT ![AccountOf(r)] = [user |-> User[r], name |-> r]]

\* The row, and on to the next default account.
InsertAccount(r) ==
    /\ stage[r] = "insert" /\ ~Locked(AccountOf(r))
    /\ \/ /\ accounts[AccountOf(r)] = NoRow
          /\ Store(r)
          /\ \/ /\ Kind[r] \in Joining /\ step[r] < Len(Defaults)
                /\ step' = [step EXCEPT ![r] = @ + 1]
                /\ Goto(r, "call")
             \/ /\ Kind[r] \in Joining /\ step[r] = Len(Defaults)
                /\ Goto(r, IF Kind[r] = "signin" THEN "auth" ELSE "ok")
                /\ UNCHANGED step
             \/ /\ Kind[r] = "create"
                /\ Goto(r, "ok")
                /\ UNCHANGED step
       \/ /\ accounts[AccountOf(r)] # NoRow
          /\ Goto(r, GivenUp(r))
          /\ UNCHANGED <<accounts, step>>
    /\ UNCHANGED <<storiqa, users, remote, deleted>>

-----------------------------------------------------------------------------
(* Changing accounts, each in one database transaction                     *)

\* The statement comes first and returns the row; whose it is, is seen then.
Change(r) ==
    /\ stage[r] = "new" /\ Kind[r] \in Changing /\ User[r] \in users
    /\ ~Locked(Id[r])
    /\ Goto(r, IF accounts[Id[r]] = NoRow THEN "error" ELSE "check")
    /\ UNCHANGED <<storiqa, users, remote, accounts, deleted, step>>

Apply(r) ==
    \/ /\ Kind[r] = "update"
       /\ accounts' = [accounts EXCEPT ![Id[r]].name = r]
       /\ UNCHANGED deleted
    \/ /\ Kind[r] = "delete"
       /\ accounts' = [accounts EXCEPT ![Id[r]] = NoRow]
       /\ deleted' = deleted \cup {Id[r]}

\* Faulty: the statement stands whoever asked for it.
CommitAlways(r) ==
    /\ stage[r] = "check"
    /\ Apply(r)
    /\ Goto(r, IF accounts[Id[r]].user = User[r] THEN "ok" ELSE "refused")
    /\ UNCHANGED <<storiqa, users, remote, step>>

\* Commit for the owner, rollback for anyone else.  update_account then asks for
\* the balance, which changes nothing here.
Commit(r) ==
    /\ stage[r] = "check"
    /\ \/ /\ accounts[Id[r]].user = User[r]
          /\ Apply(r)
          /\ Goto(r, "ok")
       \/ /\ accounts[Id[r]].user # User[r]
          /\ Goto(r, "refused")
          /\ UNCHANGED <<accounts, deleted>>
    /\ UNCHANGED <<storiqa, users, remote, step>>

-----------------------------------------------------------------------------
\* Faulty: an account that cannot be stored is left out.
GoesOn(r) ==
    /\ stage[r] = "insert" /\ Kind[r] \in Joining /\ step[r] < Len(Defaults)
    /\ step' = [step EXCEPT ![r] = @ + 1]
    /\ Goto(r, "call")
    /\ UNCHANGED <<storiqa, users, remote, accounts, deleted>>

\* A statement or the commit fails, the client hangs up, or the process dies.
Fails(r) ==
    /\ stage[r] \notin {"new"} \cup Ended
    /\ Goto(r, IF stage[r] = "insert" THEN GivenUp(r) ELSE "error")
    /\ UNCHANGED <<storiqa, users, remote, accounts, deleted, step>>

Next == \E r \in Requests :
    \/ SignUp(r) \/ SignIn(r) \/ FindUser(r) \/ InsertUser(r) \/ Authenticate(r)
    \/ StartCreate(r) \/ CallCreate(r) \/ InsertAccount(r)
    \/ Change(r) \/ Commit(r) \/ Fails(r)

Spec == Init /\ [][Next]_vars

-----------------------------------------------------------------------------
(* Properties                                                              *)

\* Every variable stays in its type.
TypeOK ==
    /\ storiqa \subseteq Users
    /\ users \subseteq Users
    /\ remote \subseteq Accounts
    /\ accounts \in [Accounts -> Row \cup {NoRow}]
    /\ deleted \subseteq Accounts
    /\ stage \in [Requests -> Stages]
    /\ step \in [Requests -> Steps]

\* The gateway never shows an account the transactions service does not have,
\* whichever calls and answers are lost, nor one whose user has no row.
RowsHaveAccounts == \A a \in Accounts : accounts[a] # NoRow =>
    a \in remote /\ accounts[a].user \in users

\* However many requests sign a user up and in at once, before there is a row,
\* the transactions service gets one default account per currency for the user.
DefaultsOnce == \A r, q \in Requests, i \in Steps :
    User[r] = User[q] /\ <<r, i>> \in remote /\ <<q, i>> \in remote => r = q

\* The default accounts of a user come in the order of the code: when the
\* transactions service has one, those before it have got their rows, so that a
\* request that breaks off leaves at most one account without a row.
DefaultsInOrder == \A r \in Requests, i, j \in Steps :
    <<r, i>> \in remote /\ j < i => accounts[<<r, j>>] # NoRow \/ <<r, j>> \in deleted

\* A row changes or goes only by a request of its user, and never changes hands
\* in place: the statement runs before the check and must be undone.
OnlyOwnersChange == [][\A a \in Accounts :
    accounts[a] # NoRow /\ accounts'[a] # accounts[a] =>
        /\ \E r \in Requests : /\ stage[r] = "check" /\ stage'[r] = "ok"
                               /\ Id[r] = a /\ User[r] = accounts[a].user
        /\ accounts'[a] # NoRow => accounts'[a].user = accounts[a].user]_vars

=============================================================================
