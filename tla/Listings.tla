------------------------------ MODULE Listings ------------------------------
(***************************************************************************)
(* The lists a client pages through: the transactions of a user or of one  *)
(* account, the accounts of a user, and the single transaction             *)
(* (services/transactions.rs, services/accounts.rs).  A list is put        *)
(* together from a statement and one call for each account, while accounts *)
(* come and go and the transactions service books transactions.  Readers   *)
(* change nothing, so one of them, chosen in Init, is enough.              *)
(***************************************************************************)
EXTENDS Naturals, Sequences, FiniteSets

CONSTANTS
    Accounts,     \* ids, in the order of the database
    Transactions,
    Users,
    Owner,        \* [Accounts -> Users]
    Address,      \* [Accounts -> blockchain address]
    Ends,         \* [Transactions -> set of the accounts and addresses at its ends]
    Stored,       \* sequence of the accounts stored at the start, oldest first
    Requests      \* what may be asked for

Kinds == {"user", "account", "single", "accounts"}

Request == [kind : Kinds, auth : Users, of : Users, account : Accounts,
            tx : Transactions, limit : Nat \ {0}]

ASSUME ListingsAssumption ==
    /\ Accounts \subseteq Nat
    /\ Owner \in [Accounts -> Users]
    /\ Ends \in [Transactions -> SUBSET (Accounts \cup {Address[a] : a \in Accounts})]
    /\ Stored \in Seq(Accounts)
    /\ Requests \subseteq Request

VARIABLES
    request,
    rows,      \* accounts with a row, in the order of created_at
    deleted,   \* accounts whose row was deleted
    ledger,    \* transactions the transactions service has booked, in order
    newest,    \* whether it lists the newest first
    stage,     \* where the request is
    offset,
    todo,      \* accounts whose transactions are still to be fetched
    page,      \* the answer so far
    listed,    \* what the client has got in all its pages
    start      \* rows and ledger when the client began to ask

environment == <<rows, deleted, ledger, newest>>
client == <<request, offset, listed, start>>
vars == <<client, environment, stage, todo, page>>

Elements(s) == {s[i] : i \in DOMAIN s}

\* OFFSET and LIMIT
Slice(s) == SubSeq(s, offset + 1,
                   IF offset + request.limit < Len(s) THEN offset + request.limit ELSE Len(s))

Reverse(s) == [i \in DOMAIN s |-> s[Len(s) + 1 - i]]

\* WHERE: what of s is in S, in the order of s.
Only(s, S) ==
    LET f[n \in 0..Len(s)] ==
            IF n = 0 THEN <<>>
            ELSE IF s[n] \in S THEN Append(f[n - 1], s[n]) ELSE f[n - 1]
    IN  f[Len(s)]

\* The transactions service lists the transactions of an account by its id.
ListOf(a) ==
    LET all == Only(ledger, {t \in Transactions : a \in Ends[t]})
    IN  IF newest THEN Reverse(all) ELSE all

OwnedBy(u) == {a \in Accounts : Owner[a] = u}

RowsOf(u) == Only(rows, OwnedBy(u))

Involves(t, a) == a \in Ends[t] \/ Address[a] \in Ends[t]

\* A page that is not full: the client stops.
Finished == stage = "answered" /\ Len(page) < request.limit

Init ==
    /\ request \in Requests
    /\ rows = Stored /\ deleted = {}
    /\ ledger = <<>> /\ newest \in BOOLEAN
    /\ stage = "new" /\ offset = 0 /\ todo = {} /\ page = <<>>
    /\ listed = {}
    /\ start = [rows |-> <<>>, ledger |-> <<>>]

-----------------------------------------------------------------------------
(* The client and the controllers                                          *)

\* Lists of a user are for that user only.
Allowed == request.kind \in {"user", "accounts"} => request.of = request.auth

Open ==
    /\ stage' = IF Allowed THEN "read" ELSE "refused"
    /\ todo' = {} /\ page' = <<>>

Ask ==
    /\ stage = "new"
    /\ start' = [rows |-> rows, ledger |-> ledger]
    /\ Open
    /\ UNCHANGED <<request, offset, listed, environment>>

\* Faulty: the client takes a failure for an empty page it can skip.
AskOn ==
    /\ stage \in {"answered", "error"} /\ ~Finished
    /\ offset' = offset + request.limit
    /\ Open
    /\ UNCHANGED <<request, listed, start, environment>>

\* The next page after a full one, the same one after a failure.
AskAgain ==
    /\ \/ /\ stage = "answered" /\ ~Finished /\ request.kind # "single"
          /\ offset' = offset + request.limit
       \/ /\ stage = "error"
          /\ UNCHANGED offset
    /\ Open
    /\ UNCHANGED <<request, listed, start, environment>>

-----------------------------------------------------------------------------
(* Transactions                                                            *)

\* get_transactions_for_user and get_transaction: get_by_user
ReadAccounts ==
    /\ stage = "read" /\ request.kind \in {"user", "single"}
    /\ todo' = Elements(RowsOf(request.auth))
    /\ stage' = IF request.kind = "single" /\ todo' = {} THEN "refused" ELSE "fetch"
    /\ UNCHANGED <<client, environment, page>>

\* Faulty: any account that is stored will do.
ReadAnyAccount ==
    /\ stage = "read" /\ request.kind = "account"
    /\ \/ /\ request.account \in Elements(rows)
          /\ todo' = {request.account}
          /\ stage' = "fetch"
       \/ /\ request.account \notin Elements(rows)
          /\ stage' = "refused"
          /\ UNCHANGED todo
    /\ UNCHANGED <<client, environment, page>>

\* get_account_transactions
ReadAccount ==
    /\ stage = "read" /\ request.kind = "account"
    /\ \/ /\ request.account \in Elements(RowsOf(request.auth))
          /\ todo' = {request.account}
          /\ stage' = "fetch"
       \/ /\ request.account \notin Elements(RowsOf(request.auth))
          /\ stage' = "refused"
          /\ UNCHANGED todo
    /\ UNCHANGED <<client, environment, page>>

\* Faulty: the limit is one for all accounts together.
FetchUpToLimit(a) ==
    /\ stage = "fetch" /\ request.kind # "single" /\ a \in todo
    /\ page' = IF Len(page) < request.limit THEN page \o Slice(ListOf(a)) ELSE page
    /\ todo' = todo \ {a}
    /\ UNCHANGED <<client, environment, stage>>

\* get_account_transactions(account, offset, limit), in the order of the ids
Fetch(a) ==
    /\ stage = "fetch" /\ request.kind # "single"
    /\ a \in todo /\ \A b \in todo : a <= b
    /\ page' = page \o Slice(ListOf(a))
    /\ todo' = todo \ {a}
    /\ UNCHANGED <<client, environment, stage>>

\* The transaction, if there is one and an account of the user takes part in it.
FetchOne ==
    /\ stage = "fetch" /\ request.kind = "single"
    /\ page' = IF request.tx \in Elements(ledger) /\ \E a \in todo : Involves(request.tx, a)
               THEN <<request.tx>> ELSE <<>>
    /\ todo' = {}
    /\ stage' = "answer"
    /\ UNCHANGED <<client, environment>>

\* All lists are there.
Fetched ==
    /\ stage = "fetch" /\ request.kind # "single" /\ todo = {}
    /\ stage' = "answer"
    /\ UNCHANGED <<client, environment, todo, page>>

-----------------------------------------------------------------------------
(* Accounts                                                                *)

\* Faulty: the newest account comes first.
ListAccountsNewestFirst ==
    /\ stage = "read" /\ request.kind = "accounts"
    /\ page' = Slice(Reverse(RowsOf(request.auth)))
    /\ stage' = "answer"
    /\ UNCHANGED <<client, environment, todo>>

\* list_for_user
ListAccounts ==
    /\ stage = "read" /\ request.kind = "accounts"
    /\ page' = Slice(RowsOf(request.auth))
    /\ stage' = "answer"
    /\ UNCHANGED <<client, environment, todo>>

-----------------------------------------------------------------------------
\* add_additional_info_to_transaction (module Transfers) or the balance has
\* succeeded for each item.
Answer ==
    /\ stage = "answer"
    /\ listed' = listed \cup Elements(page)
    /\ stage' = "answered"
    /\ UNCHANGED <<request, offset, start, environment, todo, page>>

\* A statement or a call fails, for any item, or the answer is lost.
Fails ==
    /\ stage \in {"read", "fetch", "answer"}
    /\ stage' = "error"
    /\ UNCHANGED <<client, environment, todo, page>>

-----------------------------------------------------------------------------
(* Others                                                                  *)

Book(t) ==
    /\ t \notin Elements(ledger)
    /\ ledger' = Append(ledger, t)
    /\ UNCHANGED <<client, rows, deleted, newest, stage, todo, page>>

CreateAccount(a) ==
    /\ a \notin Elements(rows) \cup deleted
    /\ rows' = Append(rows, a)
    /\ UNCHANGED <<client, deleted, ledger, newest, stage, todo, page>>

DeleteAccount(a) ==
    /\ a \in Elements(rows)
    /\ rows' = Only(rows, Accounts \ {a})
    /\ deleted' = deleted \cup {a}
    /\ UNCHANGED <<client, ledger, newest, stage, todo, page>>

Next ==
    \/ Ask \/ AskAgain
    \/ ReadAccounts \/ ReadAccount \/ FetchOne \/ Fetched \/ ListAccounts
    \/ Answer \/ Fails
    \/ \E a \in Accounts : Fetch(a) \/ CreateAccount(a) \/ DeleteAccount(a)
    \/ \E t \in Transactions : Book(t)

Spec == Init /\ [][Next]_vars

-----------------------------------------------------------------------------
(* Properties                                                              *)

\* Every variable stays in its type, and each page begins with an empty answer.
TypeOK ==
    /\ request \in Requests
    /\ rows \in Seq(Accounts)
    /\ deleted \subseteq Accounts
    /\ ledger \in Seq(Transactions)
    /\ newest \in BOOLEAN
    /\ stage \in {"new", "read", "fetch", "answer", "answered", "refused", "error"}
    /\ offset \in Nat
    /\ todo \subseteq Accounts
    /\ page \in Seq(Accounts \cup Transactions)
    /\ stage \in {"new", "read"} => page = <<>> /\ todo = {}
    /\ listed \subseteq Accounts \cup Transactions
    /\ start \in [rows : Seq(Accounts), ledger : Seq(Transactions)]

\* Accounts whose transactions the client has asked for.
Asked(a) ==
    /\ Owner[a] = request.auth
    /\ request.kind = "user" \/ (request.kind = "account" /\ a = request.account)

\* Paging loses nothing: a client that goes on until a page is not full has got
\* every transaction that was there when it began, for each account that has
\* been there all the time, although the pages are made one after another, some
\* of them twice, while transactions and accounts come in front of others or go,
\* and although a page has several lists in it.
HistoryIsComplete == Finished =>
    \A t \in Elements(start.ledger), a \in Elements(start.rows) \cap Elements(rows) :
        (Asked(a) /\ a \in Ends[t]) => t \in listed

\* A client that pages through its accounts has got every one that has been
\* there all the time, unless an older one was deleted, which moves the others
\* up by one behind its back.
AccountsAreComplete == (Finished /\ request.kind = "accounts") =>
    LET mine == Only(start.rows, OwnedBy(request.auth))
    IN  \A i \in DOMAIN mine :
            (\A j \in 1..i : mine[j] \notin deleted) => mine[i] \in listed

\* Whatever a client gets is about an account of its user that is or was stored
\* here, never about somebody else's.
ListedIsOwn == \A x \in listed : \E a \in Elements(rows) \cup deleted :
    /\ Owner[a] = request.auth
    /\ x = a \/ (x \in Transactions /\ Involves(x, a))

=============================================================================
