-------------------------- MODULE TransfersProofs --------------------------
(***************************************************************************)
(* Proofs about module Transfers, for any number of requests and accounts. *)
(***************************************************************************)
EXTENDS Transfers, TLAPS

\* Requests whose insert is behind them without an error.
Past == Told \cup {r \in Requests : stage[r] \in
    {"owner", "send", "call", "showFrom", "showTo", "showFiat", "ok", "refused"}}

FiatInv ==
    /\ \A r \in Past : Fiat[r] # NoFiat => fiat[Id[r]] = Fiat[r]
    /\ \A r, q \in Past :
          Id[r] = Id[q] /\ Fiat[r] # NoFiat /\ Fiat[q] # NoFiat => r = q

\* Requests that have passed the check of the account that pays.
Checked == Told \cup {r \in Requests : stage[r] = "send"}

OwnerInv == \A r \in Checked :
    Owner[From[r]] = User[r] /\ From[r] \in accounts \cup deleted

LedgerInv == \A r \in Requests :
    verdict[r] = "created" \/ stage[r] \in {"showFrom", "showTo", "showFiat", "ok"}
        => ledger[Id[r]] # NoRequest

\* An account that had a row has it still or has lost it, for good.
RowsInv ==
    /\ accounts \cap deleted = {}
    /\ \A r \in Requests : view[r].had \subseteq accounts \cup deleted /\ view[r].lost \subseteq deleted

ViewInv == \A r \in Requests :
    /\ stage[r] \in {"showTo", "showFiat", "ok"} =>
         /\ TrulyShown(r, view[r].from, From[ledger[Id[r]]])
         /\ view[r].from = NoAccount => From[ledger[Id[r]]] \in deleted
    /\ stage[r] \in {"showFiat", "ok"} => TrulyShown(r, view[r].to, To[ledger[Id[r]]])
    /\ stage[r] = "ok" /\ Fiat[r] # NoFiat => view[r].fiat = Fiat[r]

IInv == TypeOK /\ FiatInv /\ OwnerInv /\ LedgerInv /\ RowsInv /\ ViewInv

-----------------------------------------------------------------------------
LEMMA InitInv ==
    ASSUME Init
    PROVE  IInv
<1> USE TransfersAssumption DEF Init
<1>1. TypeOK
  BY DEF TypeOK, Verdicts, Stages, Ended, View, NoView
<1>2. Told = {} /\ Past = {} /\ Checked = {}
  BY DEF Told, Past, Checked
<1>3. FiatInv /\ OwnerInv
  BY <1>2 DEF FiatInv, OwnerInv
<1>4. LedgerInv /\ RowsInv /\ ViewInv
  BY DEF LedgerInv, RowsInv, ViewInv, NoView
<1>5. QED
  BY <1>1, <1>3, <1>4 DEF IInv

\* The requests of which the transactions service has heard only grow by Send.
LEMMA ToldStep ==
    ASSUME TypeOK, [Next]_vars
    PROVE  Told' \subseteq Told \cup {r \in Requests : stage[r] = "send"}
<1> USE TransfersAssumption DEF Told, TypeOK, Goto, rows, remote
<1>1. ASSUME NEW r \in Requests,
             \/ InsertFiat(r) \/ CheckOwner(r) \/ GetAnswer(r) \/ CallFails(r)
             \/ ShowFrom(r) \/ ShowTo(r) \/ ShowFiat(r) \/ DbFails(r) \/ Abort(r)
      PROVE  Told' \subseteq Told
  BY <1>1 DEF InsertFiat, CheckOwner, GetAnswer, CallFails, ShowFrom, ShowTo, ShowFiat,
     DbFails, Abort, Ended
<1>2. ASSUME NEW r \in Requests, Send(r)
      PROVE  Told' \subseteq Told \cup {q \in Requests : stage[q] = "send"}
  BY <1>2 DEF Send
<1>3. ASSUME NEW r \in Requests, Receive(r)
      PROVE  Told' \subseteq Told
  BY <1>3 DEF Receive
<1>4. CASE (\E a \in Accounts : CreateAccount(a) \/ DeleteAccount(a)) \/ UNCHANGED vars
  BY <1>4 DEF CreateAccount, DeleteAccount, vars
<1>5. QED
  BY <1>1, <1>2, <1>3, <1>4 DEF Next

LEMMA TypeStep ==
    ASSUME IInv, [Next]_vars
    PROVE  TypeOK'
<1> USE TransfersAssumption DEF TypeOK, Goto, rows, remote, Stages, Ended, Verdicts
<1>1. ASSUME NEW r \in Requests, InsertFiat(r) \/ CheckOwner(r) \/ Send(r)
      PROVE  TypeOK'
  BY <1>1 DEF InsertFiat, CheckOwner, Send, IInv
<1>2. ASSUME NEW r \in Requests, Receive(r) \/ GetAnswer(r) \/ CallFails(r)
      PROVE  TypeOK'
  <2>1. CASE Receive(r) \/ CallFails(r)
    BY <2>1 DEF Receive, CallFails, IInv
  <2>2. CASE GetAnswer(r)
    <3>1. CASE verdict[r] = "created"
      <4>1. view[r] \in View /\ accounts \cap Parties(r) \subseteq Accounts
            /\ deleted \cap Parties(r) \subseteq Accounts
        BY DEF IInv
      <4>2. [view[r] EXCEPT !.had = accounts \cap Parties(r), !.lost = deleted \cap Parties(r)] \in View
        BY <4>1 DEF View
      <4>3. QED
        BY <2>2, <3>1, <4>2 DEF GetAnswer, IInv
    <3>2. CASE verdict[r] # "created"
      BY <2>2, <3>2 DEF GetAnswer, IInv
    <3>3. QED
      BY <2>2, <3>1, <3>2 DEF GetAnswer, IInv
  <2>3. QED
    BY <1>2, <2>1, <2>2
<1>3. ASSUME NEW r \in Requests, ShowFrom(r) \/ ShowTo(r)
      PROVE  TypeOK'
  <2>1. ledger[Id[r]] \in Requests
    BY <1>3 DEF ShowFrom, ShowTo, LedgerInv, IInv
  <2>2. Shown(From[ledger[Id[r]]]) \in Accounts \cup {NoAccount}
        /\ Shown(To[ledger[Id[r]]]) \in Accounts \cup {NoAccount}
    BY <2>1 DEF Shown, IInv
  <2>3. view[r] \in View
    BY DEF IInv
  <2>4. \A a \in Accounts \cup {NoAccount} :
            [view[r] EXCEPT !.from = a] \in View /\ [view[r] EXCEPT !.to = a] \in View
    BY <2>3 DEF View
  <2>5. [view[r] EXCEPT !.from = Shown(From[ledger[Id[r]]])] \in View
        /\ [view[r] EXCEPT !.to = Shown(To[ledger[Id[r]]])] \in View
    BY <2>2, <2>4
  <2>6. view' \in [Requests -> View]
    <3>1. CASE ShowFrom(r)
      BY <2>5, <3>1 DEF ShowFrom, IInv
    <3>2. CASE ShowTo(r)
      BY <2>5, <3>2 DEF ShowTo, IInv
    <3>3. QED
      BY <1>3, <3>1, <3>2
  <2>7. QED
    BY <1>3, <2>6 DEF ShowFrom, ShowTo, IInv
<1>4. ASSUME NEW r \in Requests, ShowFiat(r)
      PROVE  TypeOK'
  <2>1. view[r] \in View /\ fiat[Id[r]] \in FiatValues \cup {NoFiat}
    BY DEF IInv
  <2>2. [view[r] EXCEPT !.fiat = fiat[Id[r]]] \in View
    BY <2>1 DEF View
  <2>3. view' = [view EXCEPT ![r] = [view[r] EXCEPT !.fiat = fiat[Id[r]]]]
    BY <1>4 DEF ShowFiat
  <2>4. view' \in [Requests -> View]
    BY <2>2, <2>3 DEF IInv
  <2>5. QED
    BY <1>4, <2>4 DEF ShowFiat, IInv
<1>5. ASSUME NEW r \in Requests, DbFails(r) \/ Abort(r)
      PROVE  TypeOK'
  BY <1>5 DEF DbFails, Abort, IInv
<1>6. CASE (\E a \in Accounts : CreateAccount(a) \/ DeleteAccount(a)) \/ UNCHANGED vars
  BY <1>6 DEF CreateAccount, DeleteAccount, vars, IInv
<1>7. QED
  BY <1>1, <1>2, <1>3, <1>4, <1>5, <1>6 DEF Next

LEMMA FiatStep ==
    ASSUME IInv, [Next]_vars
    PROVE  FiatInv'
<1> USE TransfersAssumption DEF IInv, TypeOK, Goto, rows, remote
<1>1. Told' \subseteq Past
  BY ToldStep DEF Past
<1>2. ASSUME NEW r \in Requests, InsertFiat(r)
      PROVE  FiatInv'
  <2>1. Past' \subseteq Past \cup {r}
    BY <1>1, <1>2 DEF InsertFiat, Past
  <2>2. CASE Fiat[r] = NoFiat
    BY <1>2, <2>1, <2>2 DEF InsertFiat, FiatInv
  <2>3. CASE Fiat[r] # NoFiat /\ fiat[Id[r]] = NoFiat
    <3>1. \A q \in Past : Fiat[q] # NoFiat => Id[q] # Id[r]
      BY <2>3 DEF FiatInv, Past, Told
    <3>2. fiat' = [fiat EXCEPT ![Id[r]] = Fiat[r]]
      BY <1>2, <2>3 DEF InsertFiat
    <3>3. \A q \in Past : q \in Requests
      BY DEF Past, Told
    <3>4. QED
      BY <2>1, <3>1, <3>2, <3>3 DEF FiatInv
  <2>4. CASE Fiat[r] # NoFiat /\ fiat[Id[r]] # NoFiat
    <3>1. stage' = [stage EXCEPT ![r] = "error"] /\ fiat' = fiat
      BY <1>2, <2>4 DEF InsertFiat
    <3>2. Past' \subseteq Past
      BY <1>1, <3>1 DEF Past
    <3>3. QED
      BY <3>1, <3>2 DEF FiatInv
  <2>5. QED
    BY <2>2, <2>3, <2>4
<1>3. ASSUME NEW r \in Requests,
             \/ CheckOwner(r) \/ Send(r) \/ Receive(r) \/ GetAnswer(r) \/ CallFails(r)
             \/ ShowFrom(r) \/ ShowTo(r) \/ ShowFiat(r) \/ DbFails(r) \/ Abort(r)
      PROVE  Past' \subseteq Past /\ fiat' = fiat
  <2>1. CASE CheckOwner(r) \/ Send(r) \/ Receive(r) \/ GetAnswer(r) \/ CallFails(r)
    BY <1>1, <2>1 DEF Past, CheckOwner, Send, Receive, GetAnswer, CallFails, Told
  <2>2. CASE ShowFrom(r) \/ ShowTo(r) \/ ShowFiat(r) \/ DbFails(r) \/ Abort(r)
    BY <1>1, <2>2 DEF Past, ShowFrom, ShowTo, ShowFiat, DbFails, Abort, Ended
  <2>3. QED
    BY <1>3, <2>1, <2>2
<1>4. CASE (\E a \in Accounts : CreateAccount(a) \/ DeleteAccount(a)) \/ UNCHANGED vars
  <2>1. UNCHANGED <<stage, fiat, wire, verdict, ledger>>
    BY <1>4 DEF CreateAccount, DeleteAccount, vars
  <2>2. QED
    BY <2>1 DEF FiatInv, Past, Told
<1>5. ASSUME Past' \subseteq Past, fiat' = fiat
      PROVE  FiatInv'
  BY <1>5 DEF FiatInv
<1>6. QED
  BY <1>2, <1>3, <1>4, <1>5 DEF Next

LEMMA OwnerStep ==
    ASSUME IInv, [Next]_vars
    PROVE  OwnerInv'
<1> USE TransfersAssumption DEF IInv, TypeOK, Goto, rows, remote
<1>1. Told' \subseteq Checked
  BY ToldStep DEF Checked
<1>2. ASSUME NEW r \in Requests, CheckOwner(r)
      PROVE  OwnerInv'
  <2>1. \A q \in Checked' : q \in Checked \/ (q = r /\ stage'[r] = "send")
    BY <1>1, <1>2 DEF CheckOwner, Checked
  <2>2. stage'[r] = "send" => From[r] \in accounts /\ Owner[From[r]] = User[r]
    BY <1>2 DEF CheckOwner
  <2>3. UNCHANGED rows
    BY <1>2 DEF CheckOwner
  <2>4. QED
    BY <2>1, <2>2, <2>3 DEF OwnerInv
<1>3. ASSUME NEW r \in Requests,
             \/ InsertFiat(r) \/ Send(r) \/ Receive(r) \/ GetAnswer(r) \/ CallFails(r)
             \/ ShowFrom(r) \/ ShowTo(r) \/ ShowFiat(r) \/ DbFails(r) \/ Abort(r)
      PROVE  Checked' \subseteq Checked /\ UNCHANGED rows
  <2>1. CASE InsertFiat(r) \/ Send(r) \/ Receive(r) \/ GetAnswer(r) \/ CallFails(r)
    BY <1>1, <2>1 DEF Checked, InsertFiat, Send, Receive, GetAnswer, CallFails
  <2>2. CASE ShowFrom(r) \/ ShowTo(r) \/ ShowFiat(r) \/ DbFails(r) \/ Abort(r)
    BY <1>1, <2>2 DEF Checked, ShowFrom, ShowTo, ShowFiat, DbFails, Abort, Ended
  <2>3. QED
    BY <1>3, <2>1, <2>2
<1>4. CASE (\E a \in Accounts : CreateAccount(a) \/ DeleteAccount(a)) \/ UNCHANGED vars
  <2>1. Checked' = Checked /\ accounts \cup deleted \subseteq accounts' \cup deleted'
    BY <1>4 DEF CreateAccount, DeleteAccount, vars, Checked, Told
  <2>2. QED
    BY <2>1 DEF OwnerInv
<1>5. ASSUME Checked' \subseteq Checked, UNCHANGED rows
      PROVE  OwnerInv'
  BY <1>5 DEF OwnerInv
<1>6. QED
  BY <1>2, <1>3, <1>4, <1>5 DEF Next

\* A transaction once created keeps its request.
LEMMA LedgerKeeps ==
    ASSUME TypeOK, [Next]_vars, NEW t \in Ids, ledger[t] # NoRequest
    PROVE  ledger'[t] = ledger[t]
<1> USE DEF TypeOK, remote
<1>1. ASSUME NEW r \in Requests, Receive(r)
      PROVE  ledger'[t] = ledger[t]
  BY <1>1 DEF Receive
<1>2. (\E r \in Requests : Receive(r)) \/ ledger' = ledger
  BY DEF Next, vars, InsertFiat, CheckOwner, Send, GetAnswer, CallFails, ShowFrom,
     ShowTo, ShowFiat, DbFails, Abort, CreateAccount, DeleteAccount
<1>3. QED
  BY <1>1, <1>2

LEMMA LedgerStep ==
    ASSUME IInv, [Next]_vars
    PROVE  LedgerInv'
<1> USE TransfersAssumption DEF IInv, TypeOK, Goto, rows, remote, LedgerInv
<1>1. \A r \in Requests : ledger[Id[r]] # NoRequest => ledger'[Id[r]] # NoRequest
  BY LedgerKeeps
<1>2. ASSUME NEW r \in Requests,
             \/ InsertFiat(r) \/ CheckOwner(r) \/ Send(r) \/ GetAnswer(r) \/ CallFails(r)
             \/ ShowFrom(r) \/ ShowTo(r) \/ ShowFiat(r) \/ DbFails(r) \/ Abort(r)
      PROVE  LedgerInv'
  <2>1. CASE InsertFiat(r) \/ CheckOwner(r) \/ Send(r) \/ GetAnswer(r) \/ CallFails(r)
    BY <1>1, <2>1 DEF InsertFiat, CheckOwner, Send, GetAnswer, CallFails
  <2>2. CASE ShowFrom(r) \/ ShowTo(r) \/ ShowFiat(r) \/ DbFails(r) \/ Abort(r)
    BY <1>1, <2>2 DEF ShowFrom, ShowTo, ShowFiat, DbFails, Abort, Ended
  <2>3. QED
    BY <1>2, <2>1, <2>2
<1>3. ASSUME NEW r \in Requests, Receive(r)
      PROVE  LedgerInv'
  <2>1. stage' = stage /\ \A q \in Requests \ {r} : verdict'[q] = verdict[q]
    BY <1>3 DEF Receive
  <2>2. verdict'[r] = "created" => ledger'[Id[r]] # NoRequest
    BY <1>3 DEF Receive
  <2>3. QED
    BY <1>1, <2>1, <2>2
<1>4. CASE (\E a \in Accounts : CreateAccount(a) \/ DeleteAccount(a)) \/ UNCHANGED vars
  BY <1>4 DEF CreateAccount, DeleteAccount, vars
<1>5. QED
  BY <1>2, <1>3, <1>4 DEF Next

\* Rows never come back, and what an answer remembers of them stays true.
LEMMA RowsStep ==
    ASSUME IInv, [Next]_vars
    PROVE  /\ RowsInv'
           /\ accounts \cup deleted \subseteq accounts' \cup deleted' /\ deleted \subseteq deleted'
<1> USE TransfersAssumption DEF IInv, TypeOK, Goto, rows, remote, RowsInv
<1>1. ASSUME NEW a \in Accounts, CreateAccount(a) \/ DeleteAccount(a)
      PROVE  /\ accounts' \cap deleted' = {} /\ view' = view
             /\ accounts \cup deleted \subseteq accounts' \cup deleted' /\ deleted \subseteq deleted'
  BY <1>1 DEF CreateAccount, DeleteAccount
<1>2. ASSUME NEW r \in Requests, GetAnswer(r)
      PROVE  RowsInv' /\ UNCHANGED rows
  <2>1. UNCHANGED rows /\ view[r] \in View
    BY <1>2 DEF GetAnswer
  <2>2. \A q \in Requests \ {r} : view'[q] = view[q]
    BY <1>2 DEF GetAnswer
  <2>3. \/ view'[r] = view[r]
        \/ view'[r].had \subseteq accounts /\ view'[r].lost \subseteq deleted
    <3>1. \/ view'[r] = view[r]
          \/ view'[r] = [view[r] EXCEPT !.had = accounts \cap Parties(r),
                                        !.lost = deleted \cap Parties(r)]
      BY <1>2 DEF GetAnswer
    <3>2. [view[r] EXCEPT !.had = accounts \cap Parties(r), !.lost = deleted \cap Parties(r)].had
             = accounts \cap Parties(r)
      BY <2>1 DEF View
    <3>3. [view[r] EXCEPT !.had = accounts \cap Parties(r), !.lost = deleted \cap Parties(r)].lost
             = deleted \cap Parties(r)
      BY <2>1 DEF View
    <3>4. CASE view'[r] = [view[r] EXCEPT !.had = accounts \cap Parties(r),
                                          !.lost = deleted \cap Parties(r)]
      <4>1. view'[r].had = accounts \cap Parties(r) /\ view'[r].lost = deleted \cap Parties(r)
        BY <3>2, <3>3, <3>4, Zenon
      <4>2. QED
        BY <4>1
    <3>5. QED
      BY <3>1, <3>4
  <2>4. QED
    BY <2>1, <2>2, <2>3
<1>3. ASSUME NEW r \in Requests, ShowFrom(r) \/ ShowTo(r) \/ ShowFiat(r)
      PROVE  /\ UNCHANGED rows
             /\ \A q \in Requests : view'[q].had = view[q].had /\ view'[q].lost = view[q].lost
  BY <1>3 DEF ShowFrom, ShowTo, ShowFiat, View
<1>4. ASSUME NEW r \in Requests, \/ InsertFiat(r) \/ CheckOwner(r) \/ Send(r) \/ Receive(r)
                                \/ CallFails(r) \/ DbFails(r) \/ Abort(r)
      PROVE  UNCHANGED <<rows, view>>
  BY <1>4 DEF InsertFiat, CheckOwner, Send, Receive, CallFails, DbFails, Abort
<1>5. CASE UNCHANGED vars
  BY <1>5 DEF vars
<1>6. QED
  BY <1>1, <1>2, <1>3, <1>4, <1>5 DEF Next

\* What was truly shown stays so.
LEMMA ShownStays ==
    ASSUME IInv, [Next]_vars, NEW r \in Requests, NEW shown, NEW a, TrulyShown(r, shown, a),
           view'[r].had = view[r].had, view'[r].lost = view[r].lost
    PROVE  TrulyShown(r, shown, a)'
  BY RowsStep DEF TrulyShown

\* A lookup shows an account truly, whatever has happened since the answer.
LEMMA LookupIsTrue ==
    ASSUME IInv, NEW r \in Requests, NEW a \in Accounts \cup {NoAccount}
    PROVE  TrulyShown(r, Shown(a), a)
  BY TransfersAssumption DEF IInv, TypeOK, RowsInv, TrulyShown, Shown

LEMMA ViewStep ==
    ASSUME IInv, [Next]_vars
    PROVE  ViewInv'
<1> USE TransfersAssumption DEF IInv, TypeOK, Goto, rows, remote
<1>1. ASSUME NEW q \in Requests, stage[q] \in {"showFrom", "showTo", "showFiat", "ok"}
      PROVE  /\ ledger'[Id[q]] = ledger[Id[q]]
             /\ ledger[Id[q]] \in Requests
             /\ From[ledger[Id[q]]] \in accounts \cup deleted
  <2>1. ledger[Id[q]] # NoRequest /\ Id[q] \in Ids
    BY <1>1 DEF LedgerInv
  <2>2. ledger[Id[q]] \in Told
    BY <2>1 DEF Told
  <2>3. QED
    BY <2>1, <2>2, LedgerKeeps DEF OwnerInv, Checked, Told
<1>2. deleted \subseteq deleted'
  BY RowsStep
\* A request whose answer the step leaves alone.
<1>3. ASSUME NEW q \in Requests, view'[q] = view[q],
             stage'[q] \in {"showTo", "showFiat", "ok"} => stage'[q] = stage[q]
      PROVE  ViewInv!(q)'
  <2>1. CASE stage'[q] \in {"showTo", "showFiat", "ok"}
    BY <1>1, <1>2, <1>3, <2>1, ShownStays DEF ViewInv
  <2>2. CASE stage'[q] \notin {"showTo", "showFiat", "ok"}
    BY <2>2
  <2>3. QED
    BY <2>1, <2>2
<1>4. ASSUME NEW r \in Requests,
             \/ InsertFiat(r) \/ CheckOwner(r) \/ Send(r) \/ Receive(r) \/ GetAnswer(r)
             \/ CallFails(r) \/ DbFails(r) \/ Abort(r)
      PROVE  ViewInv'
  <2>1. \A q \in Requests : stage'[q] \in {"showTo", "showFiat", "ok"} =>
            stage'[q] = stage[q] /\ view'[q] = view[q]
    <3>1. CASE InsertFiat(r) \/ CheckOwner(r) \/ Send(r) \/ Receive(r)
      BY <3>1 DEF InsertFiat, CheckOwner, Send, Receive
    <3>2. CASE GetAnswer(r)
      BY <3>2 DEF GetAnswer
    <3>3. CASE CallFails(r) \/ DbFails(r) \/ Abort(r)
      BY <3>3 DEF CallFails, DbFails, Abort, Ended
    <3>4. QED
      BY <1>4, <3>1, <3>2, <3>3
  <2>2. ASSUME NEW q \in Requests
        PROVE  ViewInv!(q)'
    <3>1. CASE stage'[q] \in {"showTo", "showFiat", "ok"}
      BY <1>3, <2>1, <3>1
    <3>2. CASE stage'[q] \notin {"showTo", "showFiat", "ok"}
      BY <3>2
    <3>3. QED
      BY <3>1, <3>2
  <2>3. QED
    BY <2>2 DEF ViewInv
<1>5. ASSUME NEW r \in Requests, ShowFrom(r) \/ ShowTo(r) \/ ShowFiat(r)
      PROVE  ViewInv'
  <2>1. \A q \in Requests \ {r} : view'[q] = view[q] /\ stage'[q] = stage[q]
    BY <1>5 DEF ShowFrom, ShowTo, ShowFiat
  <2>2. view'[r].had = view[r].had /\ view'[r].lost = view[r].lost /\ UNCHANGED <<rows, ledger>>
    BY <1>5 DEF ShowFrom, ShowTo, ShowFiat, View
  <2>3. /\ ledger[Id[r]] \in Requests
        /\ From[ledger[Id[r]]] \in accounts \cup deleted
        /\ To[ledger[Id[r]]] \in Accounts \cup {NoAccount}
    BY <1>1, <1>5 DEF ShowFrom, ShowTo, ShowFiat
  <2>4. CASE ShowFrom(r)
    <3>1. /\ view'[r].from = Shown(From[ledger[Id[r]]]) /\ stage'[r] = "showTo"
      BY <2>4 DEF ShowFrom, View
    <3>2. TrulyShown(r, view'[r].from, From[ledger[Id[r]]])
      BY <2>3, <3>1, LookupIsTrue
    <3>3. view'[r].from = NoAccount => From[ledger[Id[r]]] \in deleted
      BY <2>3, <3>1 DEF Shown
    <3>4. TrulyShown(r, view[r].from, From[ledger[Id[r]]])'
      BY <2>2, <3>2 DEF TrulyShown
    <3>5. ViewInv!(r)'
      BY <2>2, <3>1, <3>3, <3>4
    <3>6. QED
      BY <1>3, <2>1, <3>5 DEF ViewInv
  <2>5. CASE ShowTo(r)
    <3>1. /\ view'[r].to = Shown(To[ledger[Id[r]]]) /\ view'[r].from = view[r].from
          /\ stage[r] = "showTo" /\ stage'[r] = "showFiat"
      BY <2>5 DEF ShowTo, View
    <3>2. TrulyShown(r, view'[r].to, To[ledger[Id[r]]])
      BY <2>3, <3>1, LookupIsTrue
    <3>3. TrulyShown(r, view[r].to, To[ledger[Id[r]]])'
      BY <2>2, <3>2 DEF TrulyShown
    <3>4. /\ TrulyShown(r, view[r].from, From[ledger[Id[r]]])'
          /\ view'[r].from = NoAccount => From[ledger[Id[r]]] \in deleted
      BY <2>2, <3>1 DEF TrulyShown, ViewInv
    <3>5. ViewInv!(r)'
      BY <2>2, <3>1, <3>3, <3>4
    <3>6. QED
      BY <1>3, <2>1, <3>5 DEF ViewInv
  <2>6. CASE ShowFiat(r)
    <3>1. /\ view'[r].from = view[r].from /\ view'[r].to = view[r].to
          /\ view'[r].fiat = fiat[Id[r]]
          /\ stage[r] = "showFiat" /\ stage'[r] = "ok"
      BY <2>6 DEF ShowFiat, View
    <3>2. Fiat[r] # NoFiat => fiat[Id[r]] = Fiat[r]
      BY <3>1 DEF FiatInv, Past
    <3>3. /\ TrulyShown(r, view[r].from, From[ledger[Id[r]]])'
          /\ TrulyShown(r, view[r].to, To[ledger[Id[r]]])'
          /\ view'[r].from = NoAccount => From[ledger[Id[r]]] \in deleted
      BY <2>2, <3>1 DEF TrulyShown, ViewInv
    <3>4. ViewInv!(r)'
      BY <2>2, <3>1, <3>2, <3>3
    <3>5. QED
      BY <1>3, <2>1, <3>4 DEF ViewInv
  <2>7. QED
    BY <1>5, <2>4, <2>5, <2>6
<1>6. CASE (\E a \in Accounts : CreateAccount(a) \/ DeleteAccount(a)) \/ UNCHANGED vars
  <2>1. UNCHANGED <<view, stage>>
    BY <1>6 DEF CreateAccount, DeleteAccount, vars
  <2>2. QED
    BY <1>3, <2>1 DEF ViewInv
<1>7. QED
  BY <1>4, <1>5, <1>6 DEF Next

-----------------------------------------------------------------------------
\* The inductive invariant holds in every reachable state.
THEOREM Inductive == Spec => []IInv
<1>1. Init => IInv
  BY InitInv
<1>2. IInv /\ [Next]_vars => IInv'
  BY TypeStep, FiatStep, OwnerStep, LedgerStep, RowsStep, ViewStep DEF IInv
<1>3. QED
  BY <1>1, <1>2, PTL DEF Spec

\* No interleaving of requests, answers and account changes leaves a variable
\* outside its type.
THEOREM TypeCorrect == Spec => []TypeOK
<1>1. IInv => TypeOK
  BY DEF IInv
<1>2. QED
  BY <1>1, Inductive, PTL

\* A transaction reaches the transactions service only after the row with its
\* fiat value (services/transactions.rs:78-89), which nothing replaces.
THEOREM FiatComesFirst == Spec => []FiatBeforeLedger
<1>1. IInv => FiatBeforeLedger
  BY DEF IInv, FiatInv, Past, FiatBeforeLedger
<1>2. QED
  BY <1>1, Inductive, PTL

\* The primary key of transactions_fiat lets one request per id through.
THEOREM OneSendPerId == Spec => []FiatSentOnce
<1>1. IInv => FiatSentOnce
  BY DEF IInv, FiatInv, Past, FiatSentOnce
<1>2. QED
  BY <1>1, Inductive, PTL

\* Whatever accounts come and go, only an owner's request reaches the
\* transactions service (services/transactions.rs:90-97).
THEOREM OnlyOwnersSend == Spec => []SentByOwner
<1>1. IInv => SentByOwner
  BY DEF IInv, OwnerInv, Checked, SentByOwner
<1>2. QED
  BY <1>1, Inductive, PTL

\* What add_additional_info_to_transaction read in three statements is true of the
\* transaction and of the rows of its payer and its receiver, although others
\* created and deleted rows between them.
THEOREM AnswersAreTrue == Spec => []AnswerIsTrue
<1>1. IInv => AnswerIsTrue
  BY DEF IInv, ViewInv, AnswerIsTrue
<1>2. QED
  BY <1>1, Inductive, PTL

=============================================================================
