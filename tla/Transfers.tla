----------------------------- MODULE Transfers -----------------------------
(***************************************************************************)
(* POST /transactions: TransactionsServiceImpl::create_transaction from    *)
(* the first statement to the answer (services/transactions.rs), with the  *)
(* account rows other requests create and delete meanwhile, the table      *)
(* transactions_fiat, and the transactions service behind the HTTP client. *)
(* A request runs in the API's thread pool, each of its statements commits *)
(* on its own (DbExecutor::execute), and clients may send a request with   *)
(* an id they have used before: ids are chosen by them.                    *)
(***************************************************************************)
EXTENDS Naturals, FiniteSets

CONSTANTS
    Requests,   \* requests to create a transaction
    Ids,        \* transaction ids
    Accounts, Users,
    FiatValues, \* a fiat value together with its currency
    User,       \* [Requests -> Users]: the authenticated user
    Id,         \* [Requests -> Ids]
    From,       \* [Requests -> Accounts]
    To,         \* [Requests -> account or NoAccount]
    Fiat,       \* [Requests -> value or NoFiat], NoFiat if either part is missing
    Owner,      \* [Accounts -> Users]
    Stored,     \* accounts with a row when the system starts
    NoAccount, NoFiat, NoRequest

ASSUME TransfersAssumption ==
    /\ User \in [Requests -> Users]
    /\ Id \in [Requests -> Ids]
    /\ From \in [Requests -> Accounts]
    /\ To \in [Requests -> Accounts \cup {NoAccount}]
    /\ Fiat \in [Requests -> FiatValues \cup {NoFiat}]
    /\ Owner \in [Accounts -> Users]
    /\ Stored \subseteq Accounts
    /\ NoAccount \notin Accounts
    /\ NoFiat \notin FiatValues
    /\ NoRequest \notin Requests

VARIABLES
    accounts,  \* accounts that have a row
    deleted,   \* accounts whose row was deleted
    fiat,      \* table transactions_fiat: [Ids -> value or NoFiat]
    ledger,    \* the transactions service: [Ids -> its request or NoRequest]
    wire,      \* calls on their way to the transactions service
    verdict,   \* what it has answered a request: [Requests -> Verdicts]
    stage,     \* where the future of a request is
    view       \* the transaction as the answer will show it, and which of its accounts
               \* had a row, or had lost it, when the transactions service answered

rows == <<accounts, deleted>>
remote == <<ledger, wire, verdict>>
vars == <<rows, fiat, remote, stage, view>>

-----------------------------------------------------------------------------
Ended == {"ok", "refused", "error", "gone"}
Stages == {"fiat", "owner", "send", "call", "showFrom", "showTo", "showFiat"} \cup Ended

Verdicts == {"none", "created", "rejected"}

View == [from : Accounts \cup {NoAccount}, to : Accounts \cup {NoAccount},
         fiat : FiatValues \cup {NoFiat},
         had : SUBSET Accounts, lost : SUBSET Accounts]

NoView == [from |-> NoAccount, to |-> NoAccount, fiat |-> NoFiat, had |-> {}, lost |-> {}]

Goto(r, s) == stage' = [stage EXCEPT ![r] = s]

Init ==
    /\ accounts = Stored /\ deleted = {}
    /\ fiat = [t \in Ids |-> NoFiat]
    /\ ledger = [t \in Ids |-> NoRequest]
    /\ wire = {} /\ verdict = [r \in Requests |-> "none"]
    /\ stage = [r \in Requests |-> "fiat"]
    /\ view = [r \in Requests |-> NoView]

-----------------------------------------------------------------------------
(* The request up to the call                                              *)

\* Faulty: an existing row is overwritten.
UpsertFiat(r) ==
    /\ stage[r] = "fiat"
    /\ IF Fiat[r] = NoFiat THEN UNCHANGED fiat
                           ELSE fiat' = [fiat EXCEPT ![Id[r]] = Fiat[r]]
    /\ Goto(r, "owner")
    /\ UNCHANGED <<rows, remote, view>>

\* The id is the primary key of transactions_fiat: a second insert fails.
InsertFiat(r) ==
    /\ stage[r] = "fiat"
    /\ \/ /\ Fiat[r] = NoFiat
          /\ Goto(r, "owner")
          /\ UNCHANGED fiat
       \/ /\ Fiat[r] # NoFiat /\ fiat[Id[r]] = NoFiat
          /\ fiat' = [fiat EXCEPT ![Id[r]] = Fiat[r]]
          /\ Goto(r, "owner")
       \/ /\ Fiat[r] # NoFiat /\ fiat[Id[r]] # NoFiat
          /\ Goto(r, "error")
          /\ UNCHANGED fiat
    /\ UNCHANGED <<rows, remote, view>>

\* Faulty: any stored account will do.
CheckStored(r) ==
    /\ stage[r] = "owner"
    /\ Goto(r, IF From[r] \in accounts THEN "send" ELSE "refused")
    /\ UNCHANGED <<rows, fiat, remote, view>>

\* get_by_user(user_id) must return the account that pays.
CheckOwner(r) ==
    /\ stage[r] = "owner"
    /\ Goto(r, IF From[r] \in accounts /\ Owner[From[r]] = User[r]
               THEN "send" ELSE "refused")
    /\ UNCHANGED <<rows, fiat, remote, view>>

\* validate() first, which has no rule to break.
Send(r) ==
    /\ stage[r] = "send"
    /\ wire' = wire \cup {r}
    /\ Goto(r, "call")
    /\ UNCHANGED <<rows, fiat, ledger, verdict, view>>

-----------------------------------------------------------------------------
(* The transactions service                                                *)

\* It creates the transaction, answers with the one it has under this id, or
\* turns the request down; nothing here tells when it does which.
Receive(r) ==
    /\ r \in wire
    /\ wire' = wire \ {r}
    /\ \/ /\ ledger[Id[r]] = NoRequest
          /\ ledger' = [ledger EXCEPT ![Id[r]] = r]
          /\ verdict' = [verdict EXCEPT ![r] = "created"]
       \/ /\ ledger[Id[r]] # NoRequest
          /\ verdict' = [verdict EXCEPT ![r] = "created"]
          /\ UNCHANGED ledger
       \/ /\ verdict' = [verdict EXCEPT ![r] = "rejected"]
          /\ UNCHANGED ledger
    /\ UNCHANGED <<rows, fiat, stage, view>>

\* The accounts of the transaction that the service answers with.
Parties(r) == {From[ledger[Id[r]]], To[ledger[Id[r]]]}

GetAnswer(r) ==
    /\ stage[r] = "call"
    /\ \/ /\ verdict[r] = "created"
          /\ view' = [view EXCEPT ![r] = [@ EXCEPT !.had = accounts \cap Parties(r),
                                                 !.lost = deleted \cap Parties(r)]]
          /\ Goto(r, "showFrom")
       \/ /\ verdict[r] = "rejected"
          /\ Goto(r, "error")
          /\ UNCHANGED view
    /\ UNCHANGED <<rows, fiat, remote>>

\* The connection breaks: the call may have arrived, or still arrive, or not.
CallFails(r) ==
    /\ stage[r] = "call"
    /\ Goto(r, "error")
    /\ UNCHANGED <<rows, fiat, remote, view>>

-----------------------------------------------------------------------------
(* add_additional_info_to_transaction                                      *)

\* The id of an account without a row is not shown.
Shown(a) == IF a \in accounts THEN a ELSE NoAccount

ShowFrom(r) ==
    /\ stage[r] = "showFrom"
    /\ view' = [view EXCEPT ![r].from = Shown(From[ledger[Id[r]]])]
    /\ Goto(r, "showTo")
    /\ UNCHANGED <<rows, fiat, remote>>

\* Faulty: the row that is looked up for the receiver is the payer's.
ShowToByPayer(r) ==
    /\ stage[r] = "showTo"
    /\ view' = [view EXCEPT ![r].to = IF From[ledger[Id[r]]] \in accounts
                                      THEN To[ledger[Id[r]]] ELSE NoAccount]
    /\ Goto(r, "showFiat")
    /\ UNCHANGED <<rows, fiat, remote>>

ShowTo(r) ==
    /\ stage[r] = "showTo"
    /\ view' = [view EXCEPT ![r].to = Shown(To[ledger[Id[r]]])]
    /\ Goto(r, "showFiat")
    /\ UNCHANGED <<rows, fiat, remote>>

ShowFiat(r) ==
    /\ stage[r] = "showFiat"
    /\ view' = [view EXCEPT ![r].fiat = fiat[Id[r]]]
    /\ Goto(r, "ok")
    /\ UNCHANGED <<rows, fiat, remote>>

\* A statement fails; those before it stay committed.
DbFails(r) ==
    /\ stage[r] \in {"fiat", "owner", "showFrom", "showTo", "showFiat"}
    /\ stage[r] = "fiat" => Fiat[r] # NoFiat
    /\ Goto(r, "error")
    /\ UNCHANGED <<rows, fiat, remote, view>>

\* The client hangs up or the process dies.
Abort(r) ==
    /\ stage[r] \notin Ended
    /\ Goto(r, "gone")
    /\ UNCHANGED <<rows, fiat, remote, view>>

-----------------------------------------------------------------------------
(* Other requests                                                          *)

CreateAccount(a) ==
    /\ a \notin accounts \cup deleted
    /\ accounts' = accounts \cup {a}
    /\ UNCHANGED <<deleted, fiat, remote, stage, view>>

DeleteAccount(a) ==
    /\ a \in accounts
    /\ accounts' = accounts \ {a}
    /\ deleted' = deleted \cup {a}
    /\ UNCHANGED <<fiat, remote, stage, view>>

Next ==
    \/ \E r \in Requests :
          \/ InsertFiat(r) \/ CheckOwner(r) \/ Send(r)
          \/ Receive(r) \/ GetAnswer(r) \/ CallFails(r)
          \/ ShowFrom(r) \/ ShowTo(r) \/ ShowFiat(r)
          \/ DbFails(r) \/ Abort(r)
    \/ \E a \in Accounts : CreateAccount(a) \/ DeleteAccount(a)

Spec == Init /\ [][Next]_vars

-----------------------------------------------------------------------------
(* Properties                                                              *)

\* Every variable stays in its type.
TypeOK ==
    /\ accounts \subseteq Accounts
    /\ deleted \subseteq Accounts
    /\ fiat \in [Ids -> FiatValues \cup {NoFiat}]
    /\ ledger \in [Ids -> Requests \cup {NoRequest}]
    /\ wire \subseteq Requests
    /\ verdict \in [Requests -> Verdicts]
    /\ stage \in [Requests -> Stages]
    /\ view \in [Requests -> View]

\* Requests the transactions service has been or may yet be told of.
Told == wire \cup {r \in Requests : stage[r] = "call" \/ verdict[r] # "none"}
             \cup {r \in Requests : \E t \in Ids : ledger[t] = r}

\* A transaction never exists at the transactions service without the fiat
\* value its request gave: the row is there before the call, and no other
\* request with the same id can replace it.
FiatBeforeLedger == \A r \in Told : Fiat[r] # NoFiat => fiat[Id[r]] = Fiat[r]

\* A retry of a transaction with a fiat value never reaches the transactions
\* service a second time, whatever became of the first attempt.
FiatSentOnce == \A r, q \in Told :
    Id[r] = Id[q] /\ Fiat[r] # NoFiat /\ Fiat[q] # NoFiat => r = q

\* Only an account's owner gets the transactions service to move its money.
SentByOwner == \A r \in Told : Owner[From[r]] = User[r]

\* Account a of a transaction is shown as it is or hidden: hidden only without a row,
\* which it had not got or has lost since the transactions service answered, and
\* shown only with one, which it had not lost by then.
TrulyShown(r, shown, a) ==
    /\ shown \in {a, NoAccount}
    /\ shown = NoAccount => a = NoAccount \/ a \notin view[r].had \/ a \in deleted
    /\ shown # NoAccount => a \in (accounts \cup deleted) \ view[r].lost

\* A successful answer shows the request's own fiat value, and both accounts of the
\* transaction as their rows are, although other requests create and delete rows
\* between the statements that look them up.  The paying account has had a row: it
\* is hidden only if it was deleted on the way.
AnswerIsTrue == \A r \in Requests : stage[r] = "ok" =>
    /\ Fiat[r] # NoFiat => view[r].fiat = Fiat[r]
    /\ TrulyShown(r, view[r].from, From[ledger[Id[r]]])
    /\ TrulyShown(r, view[r].to, To[ledger[Id[r]]])
    /\ view[r].from = NoAccount => From[ledger[Id[r]]] \in deleted

=============================================================================
