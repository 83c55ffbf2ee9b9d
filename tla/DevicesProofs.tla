--------------------------- MODULE DevicesProofs ---------------------------
(***************************************************************************)
(* Proofs about module Devices: what holds for any number of requests and  *)
(* threads, and what one thread adds to it.                                *)
(***************************************************************************)
EXTENDS Devices, FiniteSetTheorems, TLAPS

AddInv == \A a \in Adds :
    /\ granted[a] # NoTime => stage[a] \in {"template", "mail"} \cup Ended /\ granted[a] <= now
    /\ stage[a] \in {"template", "mail"} => token[a] \in Tokens

\* What a request has written into a row, by either clock.
Wrote(a, stamp) == granted[a] # NoTime /\ stamp \in {granted[a], granted[a] + skew}

UpdatedInv == \A t \in Tokens :
    /\ granted[t] # NoTime /\ token[t] = t
    /\ \E a \in Adds : Same(a, t) /\ Wrote(a, updated[t])

MailInv == mails \subseteq Tokens

Mailed(c) == Token[c] \in mails

ConfirmInv == \A c \in Confirms :
    /\ stage[c] \in {"token", "registered", "create"} => Mailed(c)
    /\ stage[c] = "registered" => seen[c] # NoStamp /\
          \E a \in Adds : Same(a, Token[c]) /\ Wrote(a, seen[c])
    /\ stage[c] = "create" => checked[c] # NoTime
    /\ checked[c] # NoTime =>
          /\ stage[c] \in {"create"} \cup Ended
          /\ checked[c] <= now
          /\ \E a \in Adds : /\ Same(a, Token[c])
                             /\ granted[a] <= checked[c]
                             /\ checked[c] <= granted[a] + Expiration + Ahead

ConfirmedBy(c, x) ==
    /\ DeviceOf(c) = x /\ Key[Token[c]] = devices[x].key
    /\ checked[c] # NoTime /\ checked[c] <= devices[x].at
    /\ Mailed(c)

DeviceInv == \A x \in DeviceIds \X Users : devices[x] # NoRow =>
    SignedUpWith(x) \/ \E c \in Confirms : ConfirmedBy(c, x)

\* One thread: one request at a time is between its statements.
AloneInv == pool = 1 => \A r, q \in Requests :
    stage[r] \in InPool /\ stage[q] \in InPool => r = q

FreshInv == pool = 1 => \A a \in Adds :
    stage[a] = "insert" => \A t \in Tokens : ~Same(t, a)

\* The first grant, and no other so far.
First(t) ==
    /\ updated[t] = granted[t] + skew
    /\ \A a \in Adds \ {t} : Key[a] = Key[t] => granted[a] = NoTime

\* The time is that of the last grant, by the gateway's clock.
Refreshed(t) ==
    /\ updated[t] <= now
    /\ \A a \in Adds : Key[a] = Key[t] /\ granted[a] # NoTime => granted[a] <= updated[t]

RowInv == pool = 1 => \A t \in Tokens : Sole(t) => First(t) \/ Refreshed(t)

Waited(t) == updated[t] + EmailTimeout <= now \/ (skew > 0 /\ First(t))

LimitInv == pool = 1 => \A a \in Adds : Sole(a) =>
    /\ stage[a] \in {"select", "update", "insert"} =>
          \A t \in Tokens : Key[t] = Key[a] => Waited(t)
    /\ granted[a] # NoTime => \E t \in Tokens : Key[t] = Key[a]

Far(a, b) ==
    \/ Spaced(a, b, EmailTimeout)
    \/ /\ token[a] = a \/ token[b] = b
       /\ skew > 0 \/ Spaced(a, b, EmailTimeout + skew)

SpacedInv == pool = 1 => \A a, b \in Adds :
    Sole(a) /\ a # b /\ Key[a] = Key[b] /\ granted[a] # NoTime /\ granted[b] # NoTime
        => Far(a, b)

IInv ==
    /\ TypeOK /\ AddInv /\ UpdatedInv /\ MailInv /\ ConfirmInv /\ DeviceInv
    /\ AloneInv /\ FreshInv /\ RowInv /\ LimitInv /\ SpacedInv /\ TokensAreUnique /\ ConfirmsRepeat

-----------------------------------------------------------------------------
LEMMA InitInv ==
    ASSUME Init
    PROVE  IInv
<1> USE DevicesAssumption DEF Init, Requests, Ended, InPool
<1>1. TypeOK
  <2>1. PICK s \in Setups : pool = s[1] /\ skew = s[2]
    OBVIOUS
  <2>2. pool \in Nat \ {0} /\ skew \in Int
    BY <2>1
  <2>3. QED
    BY <2>2 DEF TypeOK, Times, NoTime, Row, NoRow, Stages
<1>2. Tokens = {} /\ mails = {}
  BY DEF Tokens
<1>3. AddInv /\ UpdatedInv /\ MailInv
  BY <1>2 DEF AddInv, UpdatedInv, MailInv
<1>4. ConfirmInv /\ DeviceInv
  BY DEF ConfirmInv, DeviceInv
<1>5. AloneInv /\ FreshInv /\ RowInv /\ LimitInv /\ SpacedInv
  BY <1>2 DEF AloneInv, FreshInv, RowInv, LimitInv, SpacedInv
<1>6. TokensAreUnique /\ ConfirmsRepeat
  BY <1>2 DEF TokensAreUnique, ConfirmsRepeat
<1>7. QED
  BY <1>1, <1>3, <1>4, <1>5, <1>6 DEF IInv

\* NoTime lies beyond all times.
LEMMA NoTimeIsLate == NoTime \in Nat /\ NoTime \notin Times /\ \A t \in Times : t \in Nat /\ t < NoTime
  BY DevicesAssumption DEF NoTime, Times

LEMMA TypeStep ==
    ASSUME IInv, [Next]_vars
    PROVE  TypeOK'
<1> USE DevicesAssumption DEF IInv, TypeOK, Goto, Requests, Stages, InPool, Ended
<1>1. CASE Tick
  BY <1>1 DEF Tick, Times
<1>2. ASSUME NEW a \in Adds,
             StartAdd(a) \/ FindDevice(a) \/ CheckLimit(a) \/ SelectToken(a) \/ GetTemplate(a)
      PROVE  TypeOK'
  BY <1>2 DEF StartAdd, FindDevice, CheckLimit, SelectToken, GetTemplate
<1>3. ASSUME NEW a \in Adds, UpdateToken(a) \/ InsertToken(a)
      PROVE  TypeOK'
  <2>1. now \in Int /\ now + skew \in Int
    BY DEF Times
  <2>2. QED
    BY <1>3, <2>1 DEF UpdateToken, InsertToken, Tokens
<1>4. ASSUME NEW a \in Adds, SendMail(a)
      PROVE  TypeOK'
  <2>1. token[a] \in Adds
    BY <1>4 DEF SendMail, AddInv, Tokens
  <2>2. QED
    BY <1>4, <2>1 DEF SendMail
<1>5. ASSUME NEW c \in Confirms,
             UnknownToken(c) \/ StartConfirm(c) \/ GetToken(c) \/ GetRegistered(c)
      PROVE  TypeOK'
  BY <1>5 DEF UnknownToken, StartConfirm, GetToken, GetRegistered, MayCreate
<1>6. ASSUME NEW c \in Confirms, CreateDevice(c)
      PROVE  TypeOK'
  <2>1. [key |-> Key[Token[c]], at |-> now] \in Row
    BY DEF Row
  <2>2. devices' \in [DeviceIds \X Users -> Row]
    BY <1>6, <2>1 DEF CreateDevice
  <2>3. QED
    BY <1>6, <2>2 DEF CreateDevice
<1>7. ASSUME NEW r \in Requests, Fails(r)
      PROVE  TypeOK'
  BY <1>7 DEF Fails
<1>8. CASE UNCHANGED vars
  BY <1>8 DEF vars
<1>9. ASSUME NEW s \in SignUps, CreateUser(s)
      PROVE  TypeOK'
  <2>1. [key |-> Key[s], at |-> now] \in Row /\ User[s] \in Users
    BY DEF Row
  <2>2. devices' \in [DeviceIds \X Users -> Row]
    BY <1>9, <2>1 DEF CreateUser
  <2>3. QED
    BY <1>9, <2>1, <2>2 DEF CreateUser
<1>10. ASSUME NEW u \in Users, MergeUser(u)
       PROVE  TypeOK'
  BY <1>10 DEF MergeUser
<1>11. QED
  BY <1>1, <1>2, <1>3, <1>4, <1>5, <1>6, <1>7, <1>8, <1>9, <1>10 DEF Next

\* Token rows stay, and so does what a request was granted.
LEMMA Keeps ==
    ASSUME IInv, [Next]_vars
    PROVE  /\ Tokens \subseteq Tokens'
           /\ \A a \in Adds : granted[a] # NoTime => granted'[a] = granted[a] /\ token'[a] = token[a]
           /\ mails \subseteq mails'
           /\ now <= now' /\ skew' = skew
<1> USE DevicesAssumption, NoTimeIsLate DEF IInv, TypeOK, Goto, Requests, Tokens, Times
<1>1. CASE Tick
  BY <1>1 DEF Tick
<1>2. ASSUME NEW a \in Adds,
             \/ StartAdd(a) \/ FindDevice(a) \/ CheckLimit(a) \/ SelectToken(a)
             \/ GetTemplate(a) \/ SendMail(a)
      PROVE  UNCHANGED <<updated, granted, token, now, skew>> /\ mails \subseteq mails'
  BY <1>2 DEF StartAdd, FindDevice, CheckLimit, SelectToken, GetTemplate, SendMail
<1>3. ASSUME NEW a \in Adds, UpdateToken(a) \/ InsertToken(a)
      PROVE  /\ UNCHANGED <<mails, now, skew>>
             /\ Tokens \subseteq Tokens'
             /\ \A b \in Adds : granted[b] # NoTime => granted'[b] = granted[b] /\ token'[b] = token[b]
  BY <1>3 DEF UpdateToken, InsertToken, AddInv, Ended
<1>4. ASSUME NEW c \in Confirms,
             \/ UnknownToken(c) \/ StartConfirm(c) \/ GetToken(c)
             \/ GetRegistered(c) \/ CreateDevice(c)
      PROVE  UNCHANGED <<updated, granted, token, now, skew, mails>>
  BY <1>4 DEF UnknownToken, StartConfirm, GetToken, GetRegistered, CreateDevice
<1>5. ASSUME NEW r \in Requests, Fails(r)
      PROVE  UNCHANGED <<updated, granted, token, now, skew, mails>>
  BY <1>5 DEF Fails
<1>6. CASE UNCHANGED vars
  BY <1>6 DEF vars
<1>7. ASSUME \/ \E s \in SignUps : CreateUser(s)
             \/ \E u \in Users : MergeUser(u)
      PROVE  UNCHANGED <<updated, granted, token, now, skew, mails>>
  BY <1>7 DEF CreateUser, MergeUser
<1>8. QED
  BY <1>1, <1>2, <1>3, <1>4, <1>5, <1>6, <1>7 DEF Next

\* Users come in without touching the requests for further devices.
LEMMA ComingIn ==
    ASSUME TypeOK, (\E s \in SignUps : CreateUser(s)) \/ (\E u \in Users : MergeUser(u))
    PROVE  /\ UNCHANGED <<updated, granted, token, now, seen, checked>>
           /\ \A r \in Adds \cup Confirms : stage'[r] = stage[r]
<1> USE DevicesAssumption DEF TypeOK, Goto, Requests
<1>1. ASSUME NEW s \in SignUps, CreateUser(s)
      PROVE  /\ UNCHANGED <<updated, granted, token, now, seen, checked>>
             /\ \A r \in Adds \cup Confirms : stage'[r] = stage[r]
  <2>1. s \notin Adds \cup Confirms
    OBVIOUS
  <2>2. QED
    BY <1>1, <2>1 DEF CreateUser
<1>2. ASSUME NEW u \in Users, MergeUser(u)
      PROVE  /\ UNCHANGED <<updated, granted, token, now, seen, checked>>
             /\ \A r \in Adds \cup Confirms : stage'[r] = stage[r]
  BY <1>2 DEF MergeUser
<1>3. QED
  BY <1>1, <1>2

LEMMA AddStep ==
    ASSUME IInv, [Next]_vars
    PROVE  AddInv'
<1> USE DevicesAssumption, NoTimeIsLate DEF IInv, TypeOK, Goto, Requests, AddInv
<1>1. Tokens \subseteq Tokens'
  BY Keeps
<1>2. CASE Tick
  <2>1. now \in Nat /\ now' = now + 1 /\ UNCHANGED <<granted, stage, token, updated>>
    BY <1>2 DEF Tick, Times
  <2>2. \A a \in Adds : granted[a] # NoTime => granted[a] \in Nat
    BY DEF Times
  <2>3. QED
    BY <1>1, <2>1, <2>2
<1>3. ASSUME NEW a \in Adds,
             \/ StartAdd(a) \/ FindDevice(a) \/ CheckLimit(a) \/ SelectToken(a)
             \/ GetTemplate(a) \/ SendMail(a)
      PROVE  AddInv'
  <2>1. /\ UNCHANGED <<granted, token, now, updated>>
        /\ \/ stage[a] \in {"new", "device", "limit", "select"} /\ stage'[a] \notin {"template", "mail"}
           \/ stage[a] = "template" /\ stage'[a] = "mail"
           \/ stage[a] = "mail" /\ stage'[a] \in Ended
        /\ \A b \in Adds \ {a} : stage'[b] = stage[b]
    BY <1>3 DEF StartAdd, FindDevice, CheckLimit, SelectToken, GetTemplate, SendMail, Ended
  <2>2. QED
    BY <1>1, <2>1 DEF Ended
<1>4. ASSUME NEW a \in Adds, UpdateToken(a) \/ InsertToken(a)
      PROVE  AddInv'
  <2>1. /\ now' = now /\ now \in Times
        /\ granted'[a] = now /\ stage'[a] = "template" /\ token'[a] \in Tokens'
        /\ \A b \in Adds \ {a} : UNCHANGED <<granted[b], token[b], stage[b]>>
    BY <1>1, <1>4 DEF UpdateToken, InsertToken, Tokens
  <2>2. QED
    BY <1>1, <2>1 DEF Times
<1>5. ASSUME NEW c \in Confirms,
             \/ UnknownToken(c) \/ StartConfirm(c) \/ GetToken(c)
             \/ GetRegistered(c) \/ CreateDevice(c)
      PROVE  AddInv'
  <2>1. UNCHANGED <<granted, token, now, updated>> /\ \A a \in Adds : stage'[a] = stage[a]
    BY <1>5 DEF UnknownToken, StartConfirm, GetToken, GetRegistered, CreateDevice, MayCreate
  <2>2. QED
    BY <1>1, <2>1
<1>6. ASSUME NEW r \in Requests, Fails(r)
      PROVE  AddInv'
  BY <1>1, <1>6 DEF Fails, Ended, InPool
<1>7. CASE UNCHANGED vars
  BY <1>1, <1>7 DEF vars
<1>8. ASSUME \/ \E s \in SignUps : CreateUser(s)
             \/ \E u \in Users : MergeUser(u)
      PROVE  AddInv'
  <2>1. UNCHANGED <<granted, token, now, updated>> /\ \A a \in Adds : stage'[a] = stage[a]
    BY <1>8, ComingIn
  <2>2. QED
    BY <1>1, <2>1
<1>9. QED
  BY <1>2, <1>3, <1>4, <1>5, <1>6, <1>7, <1>8 DEF Next

LEMMA UpdatedStep ==
    ASSUME IInv, [Next]_vars
    PROVE  UpdatedInv'
<1> USE DevicesAssumption, NoTimeIsLate DEF IInv, TypeOK, Goto, Requests, UpdatedInv, Tokens, Wrote
<1>1. /\ skew' = skew
      /\ \A b \in Adds : granted[b] # NoTime => granted'[b] = granted[b] /\ token'[b] = token[b]
  BY Keeps
<1>2. CASE UNCHANGED updated
  BY <1>1, <1>2 DEF Same
<1>3. ASSUME NEW a \in Adds, UpdateToken(a) \/ InsertToken(a)
      PROVE  UpdatedInv'
  <2>1. granted'[a] = now /\ now # NoTime
    BY <1>3 DEF UpdateToken, InsertToken
  <2>2. \A t \in Adds : \/ updated'[t] \in {now, now + skew} /\ Same(a, t)
                        \/ updated'[t] = updated[t]
    BY <1>3 DEF UpdateToken, InsertToken, Same
  <2>3. \A t \in Tokens' : t \in Tokens \/ (t = a /\ token'[a] = a)
    BY <1>3 DEF UpdateToken, InsertToken
  <2>4. \A t \in Tokens' : granted'[t] # NoTime /\ token'[t] = t
    BY <1>1, <2>1, <2>3
  <2>5. \A t \in Tokens' : \E b \in Adds : Same(b, t) /\ Wrote(b, updated[t])'
    <3>1. TAKE t \in Tokens'
    <3>2. CASE updated'[t] \in {now, now + skew} /\ Same(a, t)
      BY <1>1, <2>1, <3>2
    <3>3. CASE updated'[t] = updated[t]
      BY <1>1, <3>3
    <3>4. QED
      BY <2>2, <3>2, <3>3
  <2>6. QED
    BY <2>4, <2>5 DEF Same
<1>4. UNCHANGED updated \/ \E a \in Adds : UpdateToken(a) \/ InsertToken(a)
  BY DEF Next, vars, Tick, CreateUser, MergeUser, GetTemplate, UnknownToken, StartAdd,
     FindDevice, CheckLimit, SelectToken, SendMail, StartConfirm, GetToken, GetRegistered,
     CreateDevice, Fails
<1>5. QED
  BY <1>2, <1>3, <1>4

LEMMA MailStep ==
    ASSUME IInv, [Next]_vars
    PROVE  MailInv'
<1> USE DEF IInv, MailInv
<1>1. Tokens \subseteq Tokens'
  BY Keeps
<1>2. ASSUME NEW a \in Adds, SendMail(a)
      PROVE  MailInv'
  BY <1>1, <1>2 DEF SendMail, AddInv
<1>3. mails' = mails \/ \E a \in Adds : SendMail(a)
  BY DEF Next, vars, Tick, CreateUser, MergeUser, GetTemplate, UnknownToken, StartAdd,
     FindDevice, CheckLimit, SelectToken, UpdateToken, InsertToken, StartConfirm, GetToken,
     GetRegistered, CreateDevice, Fails
<1>4. QED
  BY <1>1, <1>2, <1>3

LEMMA ConfirmStep ==
    ASSUME IInv, [Next]_vars
    PROVE  ConfirmInv'
<1> USE DevicesAssumption, NoTimeIsLate DEF IInv, TypeOK, Goto, Requests
<1> DEFINE Inv(c) ==
    /\ stage[c] \in {"token", "registered", "create"} => Mailed(c)
    /\ stage[c] = "registered" => seen[c] # NoStamp /\
          \E a \in Adds : Same(a, Token[c]) /\ Wrote(a, seen[c])
    /\ stage[c] = "create" => checked[c] # NoTime
    /\ checked[c] # NoTime =>
          /\ stage[c] \in {"create"} \cup Ended
          /\ checked[c] <= now
          /\ \E a \in Adds : /\ Same(a, Token[c])
                             /\ granted[a] <= checked[c]
                             /\ checked[c] <= granted[a] + Expiration + Ahead
<1>1. /\ \A a \in Adds : granted[a] # NoTime => granted'[a] = granted[a]
      /\ mails \subseteq mails' /\ now <= now' /\ skew' = skew /\ Ahead \in Nat
      /\ Ahead' = Ahead /\ now \in Nat /\ now' \in Nat /\ now # NoTime
  BY Keeps, TypeStep DEF Times, NoTime, Ahead
<1>2. \A c \in Confirms : Mailed(c) => Mailed(c)'
  BY <1>1 DEF Mailed
<1>3. \A c \in Confirms : checked[c] # NoTime => checked[c] \in Nat /\ checked[c] < NoTime
  OBVIOUS
<1>4. \A a \in Adds : granted[a] \in Nat /\ (granted[a] < NoTime <=> granted[a] # NoTime)
  OBVIOUS
\* A confirmation the step leaves alone, or that ends without a check.
<1>5. ASSUME NEW c \in Confirms,
             \/ stage'[c] = stage[c] /\ seen'[c] = seen[c] /\ checked'[c] = checked[c]
             \/ stage'[c] \in Ended /\ checked'[c] = checked[c]
      PROVE  Inv(c)'
  <2>1. ASSUME checked'[c] # NoTime
        PROVE  /\ stage'[c] \in {"create"} \cup Ended
               /\ checked'[c] <= now'
               /\ \E a \in Adds : /\ Same(a, Token[c])
                                  /\ granted'[a] <= checked'[c]
                                  /\ checked'[c] <= granted'[a] + Expiration + Ahead
    <3>1. PICK a \in Adds : /\ Same(a, Token[c])
                            /\ granted[a] <= checked[c]
                            /\ checked[c] <= granted[a] + Expiration + Ahead
      BY <1>5, <2>1 DEF ConfirmInv
    <3>2. granted'[a] = granted[a]
      BY <1>1, <1>3, <1>4, <1>5, <2>1, <3>1
    <3>3. stage'[c] \in {"create"} \cup Ended /\ checked[c] <= now
      BY <1>5, <2>1 DEF ConfirmInv
    <3>4. checked'[c] = checked[c] /\ checked[c] \in Nat
      BY <1>3, <1>5, <2>1
    <3>5. checked'[c] <= now'
      BY <1>1, <3>3, <3>4
    <3>6. QED
      BY <3>1, <3>2, <3>3, <3>4, <3>5
  <2>2. stage'[c] = "registered" => seen'[c] # NoStamp /\
          \E a \in Adds : Same(a, Token[c]) /\ Wrote(a, seen[c])'
    BY <1>1, <1>5 DEF ConfirmInv, Ended, Wrote
  <2>3. stage'[c] \in {"token", "registered", "create"} => Mailed(c)'
    BY <1>2, <1>5 DEF ConfirmInv, Ended
  <2>4. stage'[c] = "create" => checked'[c] # NoTime
    BY <1>5 DEF ConfirmInv, Ended
  <2>5. QED
    BY <1>1, <2>1, <2>2, <2>3, <2>4 DEF Same
<1>6. ASSUME NEW c \in Confirms,
             \/ UnknownToken(c) \/ StartConfirm(c) \/ GetToken(c)
             \/ GetRegistered(c) \/ CreateDevice(c)
      PROVE  ConfirmInv'
  <2>1. \A d \in Confirms \ {c} : stage'[d] = stage[d] /\ seen'[d] = seen[d] /\ checked'[d] = checked[d]
    BY <1>6 DEF UnknownToken, StartConfirm, GetToken, GetRegistered, CreateDevice, MayCreate
  <2>2. CASE StartConfirm(c)
    <3>1. stage'[c] = "token" /\ checked'[c] = checked[c] /\ Mailed(c) /\ stage[c] = "new"
      BY <2>2 DEF StartConfirm, Mailed
    <3>2. checked'[c] = NoTime
      BY <3>1 DEF ConfirmInv, Ended
    <3>3. QED
      BY <1>2, <1>5, <2>1, <3>1, <3>2 DEF ConfirmInv
  <2>3. CASE GetToken(c)
    <3>1. /\ stage[c] = "token" /\ stage'[c] \in {"registered", "refused"}
          /\ checked' = checked /\ granted' = granted /\ seen'[c] = updated[Token[c]]
      BY <2>3 DEF GetToken
    <3>2. checked'[c] = NoTime /\ Mailed(c)
      BY <3>1 DEF ConfirmInv, Ended
    <3>3. Token[c] \in Tokens
      BY <3>2 DEF Mailed, MailInv
    <3>4. seen'[c] # NoStamp /\ \E a \in Adds : Same(a, Token[c]) /\ Wrote(a, seen[c])'
      BY <1>1, <3>1, <3>3 DEF UpdatedInv, Tokens, Wrote
    <3>5. QED
      BY <1>2, <1>5, <2>1, <3>1, <3>2, <3>4 DEF ConfirmInv, Same
  <2>4. CASE GetRegistered(c)
    <3>1. CASE stage'[c] \in Ended /\ checked'[c] = checked[c]
      BY <1>5, <2>1, <3>1 DEF ConfirmInv
    <3>2. CASE ~Expired(c) /\ MayCreate(c)
      <4>1. /\ stage[c] = "registered" /\ stage'[c] = "create" /\ checked'[c] = now
            /\ granted' = granted /\ now' = now
        BY <2>4, <3>2 DEF GetRegistered, MayCreate
      <4>2. PICK a \in Adds : Same(a, Token[c]) /\ Wrote(a, seen[c])
        BY <4>1 DEF ConfirmInv
      <4>3. granted[a] <= now /\ now <= granted[a] + Expiration + Ahead
        <5>1. granted[a] <= now /\ granted[a] \in Nat /\ skew \in Int
          BY <1>4, <4>2 DEF AddInv, Wrote
        <5>2. seen[c] <= granted[a] + Ahead /\ seen[c] \in Int
          BY <5>1, <4>2 DEF Wrote, Ahead
        <5>3. now <= seen[c] + Expiration
          BY <1>1, <3>2, <5>2 DEF Expired, Younger
        <5>4. QED
          BY <1>1, <5>1, <5>2, <5>3
      <4>4. Mailed(c)
        BY <4>1 DEF ConfirmInv
      <4>5. \E b \in Adds : /\ Same(b, Token[c])
                            /\ granted'[b] <= checked'[c]
                            /\ checked'[c] <= granted'[b] + Expiration + Ahead
        BY <4>1, <4>2, <4>3
      <4>6. Inv(c)'
        BY <1>1, <1>2, <4>1, <4>4, <4>5 DEF Same
      <4>7. QED
        BY <1>5, <2>1, <4>6 DEF ConfirmInv
    <3>3. QED
      BY <2>4, <3>1, <3>2 DEF GetRegistered, Ended
  <2>5. CASE CreateDevice(c)
    <3>1. stage'[c] \in Ended /\ checked'[c] = checked[c]
      BY <2>5 DEF CreateDevice, Ended
    <3>2. QED
      BY <1>5, <2>1, <3>1 DEF ConfirmInv
  <2>6. CASE UnknownToken(c)
    <3>1. stage'[c] \in Ended /\ checked'[c] = checked[c]
      BY <2>6 DEF UnknownToken, Ended
    <3>2. QED
      BY <1>5, <2>1, <3>1 DEF ConfirmInv
  <2>7. QED
    BY <1>6, <2>2, <2>3, <2>4, <2>5, <2>6
<1>7. ASSUME NEW a \in Adds,
             \/ StartAdd(a) \/ FindDevice(a) \/ CheckLimit(a) \/ SelectToken(a)
             \/ UpdateToken(a) \/ InsertToken(a) \/ GetTemplate(a) \/ SendMail(a)
      PROVE  ConfirmInv'
  <2>1. \A c \in Confirms : stage'[c] = stage[c] /\ seen'[c] = seen[c] /\ checked'[c] = checked[c]
    BY <1>7 DEF StartAdd, FindDevice, CheckLimit, SelectToken, UpdateToken, InsertToken,
           GetTemplate, SendMail
  <2>2. QED
    BY <1>5, <2>1 DEF ConfirmInv
<1>8. ASSUME NEW r \in Requests, Fails(r)
      PROVE  ConfirmInv'
  <2>1. \A c \in Confirms : /\ checked'[c] = checked[c]
                            /\ seen'[c] = seen[c]
                            /\ stage'[c] = stage[c] \/ stage'[c] \in Ended
    BY <1>8 DEF Fails, Ended
  <2>2. QED
    BY <1>5, <2>1 DEF ConfirmInv
<1>9. CASE Tick \/ UNCHANGED vars
  <2>1. \A c \in Confirms : stage'[c] = stage[c] /\ seen'[c] = seen[c] /\ checked'[c] = checked[c]
    BY <1>9 DEF Tick, vars
  <2>2. QED
    BY <1>5, <2>1 DEF ConfirmInv
<1>10. ASSUME \/ \E s \in SignUps : CreateUser(s)
              \/ \E u \in Users : MergeUser(u)
       PROVE  ConfirmInv'
  <2>1. \A c \in Confirms : stage'[c] = stage[c] /\ seen'[c] = seen[c] /\ checked'[c] = checked[c]
    BY <1>10, ComingIn
  <2>2. QED
    BY <1>5, <2>1 DEF ConfirmInv
<1>11. QED
  BY <1>6, <1>7, <1>8, <1>9, <1>10 DEF Next

\* What a confirmation has found stays found.
LEMMA CheckedKeeps ==
    ASSUME IInv, [Next]_vars, NEW c \in Confirms, checked[c] # NoTime
    PROVE  checked'[c] = checked[c]
<1> USE DEF IInv, TypeOK, Goto, ConfirmInv, Ended
<1>1. ASSUME NEW d \in Confirms, GetRegistered(d)
      PROVE  checked'[c] = checked[c]
  BY <1>1 DEF GetRegistered, MayCreate
<1>2. checked' = checked \/ \E d \in Confirms : GetRegistered(d)
  BY DEF Next, vars, Tick, CreateUser, MergeUser, GetTemplate, UnknownToken, StartAdd,
     FindDevice, CheckLimit, SelectToken, UpdateToken, InsertToken, SendMail, StartConfirm,
     GetToken, CreateDevice, Fails
<1>3. QED
  BY <1>1, <1>2

\* A sign-up that is done stays done.
LEMMA SignedUpStays ==
    ASSUME IInv, [Next]_vars, NEW s \in SignUps, stage[s] = "ok"
    PROVE  stage'[s] = "ok"
<1> USE DevicesAssumption DEF IInv, TypeOK, Goto, Requests, InPool
<1>1. ASSUME NEW r \in SignUps, CreateUser(r)
      PROVE  stage'[s] = "ok"
  BY <1>1 DEF CreateUser
<1>2. ASSUME NEW r \in Requests, Fails(r)
      PROVE  stage'[s] = "ok"
  BY <1>2 DEF Fails
<1>3. ASSUME NEW a \in Adds,
             \/ StartAdd(a) \/ FindDevice(a) \/ CheckLimit(a) \/ SelectToken(a)
             \/ UpdateToken(a) \/ InsertToken(a) \/ GetTemplate(a) \/ SendMail(a)
      PROVE  stage'[s] = "ok"
  BY <1>3 DEF StartAdd, FindDevice, CheckLimit, SelectToken, UpdateToken, InsertToken,
              GetTemplate, SendMail
<1>4. ASSUME NEW c \in Confirms,
             \/ UnknownToken(c) \/ StartConfirm(c) \/ GetToken(c)
             \/ GetRegistered(c) \/ CreateDevice(c)
      PROVE  stage'[s] = "ok"
  BY <1>4 DEF UnknownToken, StartConfirm, GetToken, GetRegistered, CreateDevice, MayCreate
<1>5. CASE Tick \/ (\E u \in Users : MergeUser(u)) \/ UNCHANGED vars
  BY <1>5 DEF Tick, MergeUser, vars
<1>6. QED
  BY <1>1, <1>2, <1>3, <1>4, <1>5 DEF Next

LEMMA DeviceStep ==
    ASSUME IInv, [Next]_vars
    PROVE  DeviceInv'
<1> USE DevicesAssumption DEF IInv, TypeOK
<1>1. mails \subseteq mails' /\ \A c \in Confirms : checked[c] # NoTime => checked'[c] = checked[c]
  BY Keeps, CheckedKeeps
<1>2. ASSUME NEW x \in DeviceIds \X Users, devices'[x] = devices[x], devices[x] # NoRow
      PROVE  SignedUpWith(x)' \/ \E c \in Confirms : ConfirmedBy(c, x)'
  <2>1. CASE SignedUpWith(x)
    BY <1>2, <2>1, SignedUpStays DEF SignedUpWith
  <2>2. ASSUME NEW c \in Confirms, ConfirmedBy(c, x)
        PROVE  ConfirmedBy(c, x)'
    BY <1>1, <1>2, <2>2 DEF ConfirmedBy, Mailed, DeviceOf
  <2>3. QED
    BY <1>2, <2>1, <2>2 DEF DeviceInv
<1>3. ASSUME NEW c \in Confirms, CreateDevice(c)
      PROVE  DeviceInv'
  <2>1. CASE devices' = devices
    BY <1>2, <2>1 DEF DeviceInv
  <2>2. CASE devices' = [devices EXCEPT ![DeviceOf(c)] = [key |-> Key[Token[c]], at |-> now]]
    <3>1. DeviceOf(c) \in DeviceIds \X Users
      BY DEF DeviceOf
    <3>2. /\ devices'[DeviceOf(c)].key = Key[Token[c]] /\ devices'[DeviceOf(c)].at = now
          /\ \A x \in DeviceIds \X Users : x # DeviceOf(c) => devices'[x] = devices[x]
      BY <2>2, <3>1
    <3>3. checked'[c] # NoTime /\ checked'[c] <= now /\ Mailed(c)'
      BY <1>1, <1>3 DEF CreateDevice, ConfirmInv, Mailed
    <3>4. ConfirmedBy(c, DeviceOf(c))'
      BY <3>2, <3>3 DEF ConfirmedBy, DeviceOf
    <3>5. QED
      BY <1>2, <3>2, <3>4 DEF DeviceInv
  <2>3. QED
    BY <1>3, <2>1, <2>2 DEF CreateDevice
<1>4. ASSUME NEW s \in SignUps, CreateUser(s)
      PROVE  DeviceInv'
  <2> DEFINE y == <<Device[s], User[s]>>
  <2>1. CASE devices' = devices
    BY <1>2, <2>1 DEF DeviceInv
  <2>2. CASE /\ devices' = [devices EXCEPT ![y] = [key |-> Key[s], at |-> now]]
             /\ Goto(s, "ok")
    <3>1. y \in DeviceIds \X Users
      OBVIOUS
    <3>2. /\ devices'[y].key = Key[s] /\ stage'[s] = "ok"
          /\ \A x \in DeviceIds \X Users : x # y => devices'[x] = devices[x]
      BY <2>2, <3>1 DEF Goto, Requests
    <3>3. SignedUpWith(y)'
      BY <3>2 DEF SignedUpWith
    <3>4. QED
      BY <1>2, <3>2, <3>3 DEF DeviceInv
  <2>3. QED
    BY <1>4, <2>1, <2>2 DEF CreateUser
<1>5. \/ devices' = devices
      \/ \E c \in Confirms : CreateDevice(c)
      \/ \E s \in SignUps : CreateUser(s)
  BY DEF Next, vars, Tick, MergeUser, GetTemplate, UnknownToken, StartAdd, FindDevice, CheckLimit,
     SelectToken, UpdateToken, InsertToken, SendMail, StartConfirm, GetToken, GetRegistered, Fails
<1>6. CASE devices' = devices
  BY <1>2, <1>6 DEF DeviceInv
<1>7. QED
  BY <1>3, <1>4, <1>5, <1>6

-----------------------------------------------------------------------------
\* One thread is free only when nobody has it.
LEMMA FreeAlone ==
    ASSUME TypeOK, pool = 1, ThreadFree, NEW r \in Requests
    PROVE  stage[r] \notin InPool
<1> DEFINE Busy == {q \in Requests : stage[q] \in InPool}
<1>1. IsFiniteSet(Requests)
  BY DevicesAssumption, FS_Union DEF Requests
<1>2. IsFiniteSet(Busy) /\ Cardinality(Busy) \in Nat
  BY <1>1, FS_Subset, FS_CardinalityType
<1>3. Cardinality(Busy) = 0
  BY <1>2 DEF ThreadFree
<1>4. Busy = {}
  BY <1>2, <1>3, FS_EmptySet
<1>5. QED
  BY <1>4

\* A request enters the pool only where a thread is free.
LEMMA Entering ==
    ASSUME IInv, [Next]_vars, NEW r \in Requests, stage'[r] \in InPool, stage[r] \notin InPool
    PROVE  ThreadFree /\ \A q \in Requests \ {r} : stage'[q] = stage[q]
<1> USE DevicesAssumption DEF IInv, TypeOK, Goto, Requests, InPool, Ended
<1>1. ASSUME NEW a \in Adds, StartAdd(a)
      PROVE  ThreadFree /\ \A q \in Requests \ {r} : stage'[q] = stage[q]
  BY <1>1 DEF StartAdd
<1>2. ASSUME NEW c \in Confirms, UnknownToken(c) \/ StartConfirm(c)
      PROVE  ThreadFree /\ \A q \in Requests \ {r} : stage'[q] = stage[q]
  BY <1>2 DEF UnknownToken, StartConfirm
<1>3. ASSUME NEW a \in Adds, FindDevice(a) \/ CheckLimit(a) \/ SelectToken(a)
      PROVE  FALSE
  BY <1>3 DEF FindDevice, CheckLimit, SelectToken
<1>4. ASSUME NEW a \in Adds, UpdateToken(a) \/ InsertToken(a) \/ GetTemplate(a) \/ SendMail(a)
      PROVE  FALSE
  BY <1>4 DEF UpdateToken, InsertToken, GetTemplate, SendMail
<1>5. ASSUME NEW c \in Confirms, GetToken(c) \/ GetRegistered(c) \/ CreateDevice(c)
      PROVE  FALSE
  BY <1>5 DEF GetToken, GetRegistered, CreateDevice, MayCreate
<1>6. ASSUME NEW q \in Requests, Fails(q)
      PROVE  FALSE
  BY <1>6 DEF Fails
<1>7. CASE Tick \/ UNCHANGED vars
  BY <1>7 DEF Tick, vars
<1>8. ASSUME \/ \E s \in SignUps : CreateUser(s)
             \/ \E u \in Users : MergeUser(u)
      PROVE  FALSE
  BY <1>8 DEF CreateUser, MergeUser
<1>9. QED
  BY <1>1, <1>2, <1>3, <1>4, <1>5, <1>6, <1>7, <1>8 DEF Next

LEMMA AloneStep ==
    ASSUME IInv, [Next]_vars
    PROVE  AloneInv' /\ pool' = pool
<1>1. pool' = pool
  BY DEF Next, vars, Tick, CreateUser, MergeUser, GetTemplate, UnknownToken, StartAdd,
     FindDevice, CheckLimit, SelectToken, UpdateToken, InsertToken, SendMail, StartConfirm,
     GetToken, GetRegistered, CreateDevice, Fails
<1>2. ASSUME pool = 1, NEW r \in Requests, NEW q \in Requests,
             stage'[r] \in InPool, stage'[q] \in InPool
      PROVE  r = q
  <2>1. CASE stage[r] \in InPool /\ stage[q] \in InPool
    BY <1>2, <2>1 DEF IInv, AloneInv
  <2>2. CASE stage[r] \notin InPool
    BY <1>2, <2>2, Entering, FreeAlone DEF IInv
  <2>3. CASE stage[q] \notin InPool
    BY <1>2, <2>3, Entering, FreeAlone DEF IInv
  <2>4. QED
    BY <2>1, <2>2, <2>3
<1>3. QED
  BY <1>1, <1>2 DEF AloneInv, InPool

\* A token row appears only by an insert.
LEMMA TokensStep ==
    ASSUME IInv, [Next]_vars
    PROVE  \/ Tokens' = Tokens
           \/ \E a \in Adds : InsertToken(a) /\ Tokens' = Tokens \cup {a}
<1> USE DevicesAssumption, NoTimeIsLate DEF IInv, TypeOK, Tokens
<1>1. ASSUME NEW a \in Adds, InsertToken(a)
      PROVE  Tokens' = Tokens \cup {a}
  BY <1>1 DEF InsertToken
<1>2. ASSUME NEW a \in Adds, UpdateToken(a)
      PROVE  Tokens' = Tokens
  BY <1>2 DEF UpdateToken
<1>3. updated' = updated \/ \E a \in Adds : InsertToken(a) \/ UpdateToken(a)
  BY DEF Next, vars, Tick, CreateUser, MergeUser, GetTemplate, UnknownToken, StartAdd,
     FindDevice, CheckLimit, SelectToken, SendMail, StartConfirm, GetToken, GetRegistered,
     CreateDevice, Fails
<1>4. QED
  BY <1>1, <1>2, <1>3

\* A request moves only by an action of its own.
LEMMA AddMoves ==
    ASSUME IInv, [Next]_vars, NEW a \in Adds, stage'[a] # stage[a]
    PROVE  \/ StartAdd(a) \/ FindDevice(a) \/ CheckLimit(a) \/ SelectToken(a)
           \/ UpdateToken(a) \/ InsertToken(a) \/ GetTemplate(a) \/ SendMail(a) \/ Fails(a)
<1> USE DevicesAssumption DEF IInv, TypeOK, Goto, Requests
<1>1. ASSUME NEW b \in Adds, b # a,
             \/ StartAdd(b) \/ FindDevice(b) \/ CheckLimit(b) \/ SelectToken(b)
             \/ UpdateToken(b) \/ InsertToken(b) \/ GetTemplate(b) \/ SendMail(b)
      PROVE  FALSE
  BY <1>1 DEF StartAdd, FindDevice, CheckLimit, SelectToken, UpdateToken, InsertToken,
              GetTemplate, SendMail
<1>2. ASSUME NEW c \in Confirms,
             \/ UnknownToken(c) \/ StartConfirm(c) \/ GetToken(c)
             \/ GetRegistered(c) \/ CreateDevice(c)
      PROVE  FALSE
  BY <1>2 DEF UnknownToken, StartConfirm, GetToken, GetRegistered, CreateDevice, MayCreate
<1>3. ASSUME NEW r \in Requests, r # a, Fails(r)
      PROVE  FALSE
  BY <1>3 DEF Fails
<1>4. ~(Tick \/ UNCHANGED vars)
  BY DEF Tick, vars
<1>5. ~((\E s \in SignUps : CreateUser(s)) \/ (\E u \in Users : MergeUser(u)))
  BY ComingIn
<1>6. QED
  BY <1>1, <1>2, <1>3, <1>4, <1>5 DEF Next

LEMMA ConfirmMoves ==
    ASSUME IInv, [Next]_vars, NEW c \in Confirms, stage'[c] # stage[c]
    PROVE  \/ UnknownToken(c) \/ StartConfirm(c) \/ GetToken(c)
           \/ GetRegistered(c) \/ CreateDevice(c) \/ Fails(c)
<1> USE DevicesAssumption DEF IInv, TypeOK, Goto, Requests
<1>1. ASSUME NEW a \in Adds,
             \/ StartAdd(a) \/ FindDevice(a) \/ CheckLimit(a) \/ SelectToken(a)
             \/ UpdateToken(a) \/ InsertToken(a) \/ GetTemplate(a) \/ SendMail(a)
      PROVE  FALSE
  BY <1>1 DEF StartAdd, FindDevice, CheckLimit, SelectToken, UpdateToken, InsertToken,
              GetTemplate, SendMail
<1>2. ASSUME NEW d \in Confirms, d # c,
             UnknownToken(d) \/ StartConfirm(d) \/ GetToken(d) \/ GetRegistered(d) \/ CreateDevice(d)
      PROVE  FALSE
  BY <1>2 DEF UnknownToken, StartConfirm, GetToken, GetRegistered, CreateDevice, MayCreate
<1>3. ASSUME NEW r \in Requests, r # c, Fails(r)
      PROVE  FALSE
  BY <1>3 DEF Fails
<1>4. ~(Tick \/ UNCHANGED vars)
  BY DEF Tick, vars
<1>5. ~((\E s \in SignUps : CreateUser(s)) \/ (\E u \in Users : MergeUser(u)))
  BY ComingIn
<1>6. QED
  BY <1>1, <1>2, <1>3, <1>4, <1>5 DEF Next

LEMMA UniqueStep ==
    ASSUME IInv, [Next]_vars
    PROVE  TokensAreUnique' /\ FreshInv'
<1> USE DevicesAssumption DEF IInv, TypeOK, Goto, Requests
<1>1. pool' = pool /\ AloneInv'
  BY AloneStep
<1>2. SUFFICES ASSUME pool = 1
      PROVE  /\ \A t, s \in Tokens' : Same(t, s) => t = s
             /\ \A a \in Adds : stage'[a] = "insert" => \A t \in Tokens' : ~Same(t, a)
  BY <1>1 DEF TokensAreUnique, FreshInv, Same
<1>3. Tokens \subseteq Adds
  BY DEF Tokens
<1>4. CASE \E a \in Adds : InsertToken(a) /\ Tokens' = Tokens \cup {a}
  <2>1. PICK a \in Adds : InsertToken(a) /\ Tokens' = Tokens \cup {a}
    BY <1>4
  <2>2. \A t \in Tokens : ~Same(t, a)
    BY <1>2, <2>1 DEF InsertToken, FreshInv
  <2>3. \A b \in Adds : stage'[b] # "insert"
    BY <1>2, <2>1 DEF InsertToken, AloneInv, InPool
  <2>4. QED
    BY <1>2, <1>3, <2>1, <2>2, <2>3 DEF TokensAreUnique, Same
<1>5. CASE Tokens' = Tokens
  <2>1. \A b \in Adds : stage'[b] = "insert" => stage[b] = "insert" \/ SelectToken(b)
    <3>1. SUFFICES ASSUME NEW b \in Adds, stage'[b] = "insert", stage[b] # "insert"
                   PROVE  SelectToken(b)
      OBVIOUS
    <3>2. ~(StartAdd(b) \/ FindDevice(b) \/ CheckLimit(b) \/ UpdateToken(b))
      BY <3>1 DEF StartAdd, FindDevice, CheckLimit, UpdateToken
    <3>3. ~(InsertToken(b) \/ GetTemplate(b) \/ SendMail(b) \/ Fails(b))
      BY <3>1 DEF InsertToken, GetTemplate, SendMail, Fails
    <3>4. QED
      BY <3>1, <3>2, <3>3, AddMoves
  <2>2. \A b \in Adds : SelectToken(b) /\ stage'[b] = "insert" => \A t \in Tokens : ~Same(t, b)
    BY DEF SelectToken
  <2>3. QED
    BY <1>2, <1>5, <2>1, <2>2 DEF TokensAreUnique, FreshInv
<1>6. QED
  BY <1>4, <1>5, TokensStep

LEMMA RepeatStep ==
    ASSUME IInv, [Next]_vars
    PROVE  ConfirmsRepeat'
<1> USE DevicesAssumption DEF IInv, TypeOK, Goto, Requests
<1>1. pool' = pool /\ AloneInv'
  BY AloneStep
<1>2. SUFFICES ASSUME pool = 1, NEW c \in Confirms, stage'[c] = "create"
      PROVE  devices'[DeviceOf(c)] = NoRow
  BY <1>1 DEF ConfirmsRepeat, DeviceOf, NoRow, NoTime
<1>3. ASSUME NEW d \in Confirms, CreateDevice(d)
      PROVE  FALSE
  BY <1>2, <1>3 DEF CreateDevice, AloneInv, InPool
<1>4. ASSUME NEW s \in SignUps, CreateUser(s), devices' # devices
      PROVE  FALSE
  <2>1. c \in Requests /\ stage'[c] = stage[c]
    BY <1>4 DEF CreateUser
  <2>2. QED
    BY <1>2, <1>4, <2>1, FreeAlone DEF CreateUser, InPool
<1>5. devices' = devices
  BY <1>3, <1>4 DEF Next, vars, Tick, MergeUser, GetTemplate, UnknownToken, StartAdd, FindDevice,
     CheckLimit, SelectToken, UpdateToken, InsertToken, SendMail, StartConfirm, GetToken,
     GetRegistered, Fails
<1>6. stage[c] = "create" \/ GetRegistered(c)
  BY <1>2, ConfirmMoves DEF UnknownToken, StartConfirm, GetToken, CreateDevice, Fails
<1>7. CASE GetRegistered(c)
  BY <1>2, <1>5, <1>7 DEF GetRegistered, MayCreate
<1>8. CASE stage[c] = "create"
  BY <1>2, <1>5, <1>8 DEF ConfirmsRepeat
<1>9. QED
  BY <1>6, <1>7, <1>8

\* Who may write a token for a key of one device has waited long enough.
LEMMA WaitedLongEnough ==
    ASSUME IInv, pool = 1, NEW a \in Adds, CheckLimit(a), stage'[a] = "select", Sole(a)
    PROVE  \A t \in Tokens : Key[t] = Key[a] => Waited(t)
<1> USE DevicesAssumption, NoTimeIsLate DEF IInv, TypeOK, Goto, Requests, Tokens
<1>1. \A t, s \in Tokens : Key[t] = Key[a] /\ Key[s] = Key[a] => t = s
  BY DEF Sole, Same, TokensAreUnique
<1>2. \A t \in Tokens : updated[t] \in Int /\ now \in Int
  BY DEF Times
<1>3. CASE \A t \in Tokens : Key[t] # Key[a]
  BY <1>3
<1>4. ASSUME NEW t \in Tokens, Key[t] = Key[a], ~Younger(updated[t], EmailTimeout)
      PROVE  Waited(t)
  <2>1. CASE updated[t] <= now
    BY <1>2, <1>4, <2>1 DEF Younger, Waited
  <2>2. CASE ~(updated[t] <= now)
    <3>1. First(t)
      BY <1>4, <2>2 DEF RowInv, Refreshed, Sole, Same
    <3>2. granted[t] <= now /\ granted[t] \in Int
      BY DEF UpdatedInv, AddInv
    <3>3. skew > 0
      BY <1>2, <2>2, <3>1, <3>2 DEF First
    <3>4. QED
      BY <3>1, <3>3 DEF Waited
  <2>3. QED
    BY <2>1, <2>2
<1>5. QED
  BY <1>1, <1>3, <1>4 DEF CheckLimit

\* Nobody has a token for a key of one device when its row is inserted.
LEMMA InsertIsFirst ==
    ASSUME IInv, pool = 1, NEW a \in Adds, InsertToken(a)
    PROVE  /\ \A t \in Tokens : ~Same(t, a)
           /\ Sole(a) => \A b \in Adds : Key[b] = Key[a] => granted[b] = NoTime
<1>1. \A t \in Tokens : ~Same(t, a)
  BY DEF IInv, FreshInv, InsertToken
<1>2. ASSUME Sole(a), NEW b \in Adds, Key[b] = Key[a], granted[b] # NoTime
      PROVE  FALSE
  <2>1. Sole(b)
    BY <1>2 DEF Sole, Same
  <2>2. PICK t \in Tokens : Key[t] = Key[b]
    BY <1>2, <2>1 DEF IInv, LimitInv
  <2>3. QED
    BY <1>1, <1>2, <2>2 DEF Sole, Tokens
<1>3. QED
  BY <1>1, <1>2

\* Steps that touch no token row.
LEMMA RowsStay ==
    ASSUME IInv, [Next]_vars, UNCHANGED <<updated, granted>>, NEW t \in Tokens
    PROVE  First(t)' = First(t) /\ (Refreshed(t) => Refreshed(t)') /\ (Waited(t) => Waited(t)')
<1> USE DevicesAssumption, NoTimeIsLate DEF IInv, TypeOK, Tokens
<1>1. now <= now' /\ skew' = skew /\ now \in Int /\ now' \in Int
  BY Keeps, TypeStep DEF Times
<1>2. updated[t] \in Int /\ updated'[t] = updated[t] /\ granted' = granted
  OBVIOUS
<1>3. First(t)' = First(t)
  BY <1>1, <1>2 DEF First
<1>4. Refreshed(t) => Refreshed(t)'
  BY <1>1, <1>2 DEF Refreshed
<1>5. Waited(t) => Waited(t)'
  BY <1>1, <1>2, <1>3 DEF Waited
<1>6. QED
  BY <1>3, <1>4, <1>5

LEMMA RowStep ==
    ASSUME IInv, [Next]_vars
    PROVE  RowInv'
<1> USE DevicesAssumption, NoTimeIsLate DEF IInv, TypeOK, Goto, Requests
<1>1. pool' = pool
  BY AloneStep
<1>2. SUFFICES ASSUME pool = 1, NEW t \in Tokens', Sole(t)
      PROVE  First(t)' \/ Refreshed(t)'
  BY <1>1 DEF RowInv, Sole, Same
<1>3. CASE UNCHANGED <<updated, granted>>
  <2>1. t \in Tokens
    BY <1>2, <1>3 DEF Tokens
  <2>2. QED
    BY <1>2, <1>3, <2>1, RowsStay DEF RowInv
<1>4. ASSUME NEW b \in Adds, UpdateToken(b) \/ InsertToken(b), Key[b] # Key[t]
      PROVE  First(t)' \/ Refreshed(t)'
  <2>1. t \in Adds /\ t # b
    BY <1>4 DEF Tokens
  <2>2. t \in Tokens /\ updated'[t] = updated[t] /\ now' = now /\ skew' = skew
    BY <1>2, <1>4, <2>1 DEF UpdateToken, InsertToken, Same, Tokens
  <2>3. \A a \in Adds : Key[a] = Key[t] => granted'[a] = granted[a]
    BY <1>4 DEF UpdateToken, InsertToken
  <2>4. QED
    BY <1>2, <2>1, <2>2, <2>3 DEF RowInv, First, Refreshed
<1>5. ASSUME NEW b \in Adds, InsertToken(b), Key[b] = Key[t]
      PROVE  First(t)' \/ Refreshed(t)'
  <2>1. t \in Adds /\ Same(t, b) /\ Sole(b)
    BY <1>2, <1>5 DEF Sole, Same, Tokens
  <2>2. t = b
    BY <1>2, <1>5, <2>1, InsertIsFirst DEF InsertToken, Tokens
  <2>3. updated'[t] = now + skew /\ granted'[t] = now /\ skew' = skew
    BY <1>5, <2>1, <2>2 DEF InsertToken
  <2>4. \A a \in Adds \ {t} : Key[a] = Key[t] => granted'[a] = NoTime
    BY <1>2, <1>5, <2>1, <2>2, InsertIsFirst DEF InsertToken
  <2>5. QED
    BY <2>3, <2>4 DEF First, NoTime
<1>6. ASSUME NEW b \in Adds, UpdateToken(b), Key[b] = Key[t]
      PROVE  First(t)' \/ Refreshed(t)'
  <2>1. t \in Tokens /\ Same(t, b)
    BY <1>2, <1>6 DEF Sole, Same, Tokens, UpdateToken
  <2>2. updated'[t] = now /\ now' = now /\ now \in Nat
    BY <1>6, <2>1 DEF UpdateToken, Tokens, Times
  <2>3. \A a \in Adds : granted'[a] # NoTime => granted'[a] <= now
    BY <1>6, <2>2 DEF UpdateToken, AddInv
  <2>4. QED
    BY <2>2, <2>3 DEF Refreshed, NoTime
<1>7. UNCHANGED <<updated, granted>> \/ \E b \in Adds : UpdateToken(b) \/ InsertToken(b)
  BY DEF Next, vars, Tick, CreateUser, MergeUser, GetTemplate, UnknownToken, StartAdd,
     FindDevice, CheckLimit, SelectToken, SendMail, StartConfirm, GetToken, GetRegistered,
     CreateDevice, Fails
<1>8. QED
  BY <1>3, <1>4, <1>5, <1>6, <1>7

LEMMA LimitStep ==
    ASSUME IInv, [Next]_vars
    PROVE  LimitInv'
<1> USE DevicesAssumption, NoTimeIsLate DEF IInv, TypeOK, Goto, Requests
<1>1. pool' = pool /\ Tokens \subseteq Tokens'
  BY AloneStep, Keeps
<1>2. SUFFICES ASSUME pool = 1, NEW a \in Adds, Sole(a)
      PROVE  /\ stage'[a] \in {"select", "update", "insert"} =>
                  \A t \in Tokens' : Key[t] = Key[a] => Waited(t)'
             /\ granted'[a] # NoTime => \E t \in Tokens' : Key[t] = Key[a]
  BY <1>1 DEF LimitInv, Sole, Same, NoTime
<1>3. CASE UNCHANGED <<updated, granted>>
  <2>1. Tokens' = Tokens
    BY <1>3 DEF Tokens
  <2>2. stage'[a] \in {"select", "update", "insert"} =>
           stage[a] \in {"select", "update", "insert"} \/ (CheckLimit(a) /\ stage'[a] = "select")
    <3>1. SUFFICES ASSUME stage'[a] \in {"select", "update", "insert"}, stage'[a] # stage[a]
          PROVE  stage[a] \in {"select", "update", "insert"} \/ (CheckLimit(a) /\ stage'[a] = "select")
      OBVIOUS
    <3>2. CASE StartAdd(a) \/ FindDevice(a) \/ GetTemplate(a) \/ SendMail(a) \/ Fails(a)
      BY <3>1, <3>2 DEF StartAdd, FindDevice, GetTemplate, SendMail, Fails, Ended
    <3>3. CASE SelectToken(a) \/ UpdateToken(a) \/ InsertToken(a)
      BY <3>3 DEF SelectToken, UpdateToken, InsertToken
    <3>4. CASE CheckLimit(a)
      BY <3>1, <3>4 DEF CheckLimit
    <3>5. QED
      BY <3>1, <3>2, <3>3, <3>4, AddMoves
  <2>3. stage'[a] \in {"select", "update", "insert"} =>
           \A t \in Tokens : Key[t] = Key[a] => Waited(t)
    BY <1>2, <2>2, WaitedLongEnough DEF LimitInv
  <2>4. \A t \in Tokens : Waited(t) => Waited(t)'
    BY <1>3, RowsStay
  <2>5. granted'[a] # NoTime => \E t \in Tokens' : Key[t] = Key[a]
    BY <1>2, <1>3, <2>1 DEF LimitInv
  <2>6. QED
    BY <2>1, <2>3, <2>4, <2>5
<1>4. ASSUME NEW b \in Adds, UpdateToken(b) \/ InsertToken(b)
      PROVE  /\ stage'[a] \notin {"select", "update", "insert"}
             /\ granted'[a] # NoTime => \E t \in Tokens' : Key[t] = Key[a]
  <2>1. stage'[a] \notin {"select", "update", "insert"}
    BY <1>2, <1>4 DEF UpdateToken, InsertToken, AloneInv, InPool
  <2>2. CASE a = b /\ InsertToken(b)
    <3>1. a \in Tokens'
      <4>1. updated'[a] = now + skew /\ now + skew \in Int
        BY <2>2 DEF InsertToken, Times
      <4>2. QED
        BY <4>1 DEF Tokens
    <3>2. QED
      BY <2>1, <3>1
  <2>3. CASE a = b /\ UpdateToken(b)
    <3>1. PICK t \in Tokens : Same(t, a)
      BY <2>3 DEF UpdateToken
    <3>2. QED
      BY <1>1, <2>1, <3>1 DEF Same
  <2>4. CASE a # b
    <3>1. granted'[a] = granted[a]
      BY <1>4, <2>4 DEF UpdateToken, InsertToken
    <3>2. QED
      BY <1>1, <1>2, <2>1, <3>1 DEF LimitInv
  <2>5. QED
    BY <1>4, <2>2, <2>3, <2>4
<1>5. UNCHANGED <<updated, granted>> \/ \E b \in Adds : UpdateToken(b) \/ InsertToken(b)
  BY DEF Next, vars, Tick, CreateUser, MergeUser, GetTemplate, UnknownToken, StartAdd,
     FindDevice, CheckLimit, SelectToken, SendMail, StartConfirm, GetToken, GetRegistered,
     CreateDevice, Fails
<1>6. QED
  BY <1>3, <1>4, <1>5

\* Whoever gets a token now has waited since the earlier ones.
LEMMA LaterIsFar ==
    ASSUME IInv, pool = 1, NEW x \in Adds, NEW y \in Adds, Sole(x), x # y, Key[x] = Key[y],
           UpdateToken(x) \/ InsertToken(x), granted[y] # NoTime
    PROVE  \/ granted[y] + EmailTimeout <= now
           \/ token[y] = y /\ (skew > 0 \/ granted[y] + (EmailTimeout + skew) <= now)
<1> USE DevicesAssumption, NoTimeIsLate DEF IInv, TypeOK
<1>1. UpdateToken(x)
  BY InsertIsFirst
<1>2. PICK t \in Tokens : Same(t, x)
  BY <1>1 DEF UpdateToken
<1>3. Waited(t) /\ (First(t) \/ Refreshed(t))
  BY <1>1, <1>2 DEF UpdateToken, LimitInv, RowInv, Same, Sole, Tokens
<1>4. updated[t] \in Int /\ granted[y] \in Nat /\ now \in Nat /\ token[t] = t /\ granted[t] \in Nat
  BY <1>2 DEF Tokens, UpdatedInv, Times
<1>5. CASE First(t)
  <2>1. y = t
    BY <1>2, <1>5 DEF First, Same
  <2>2. QED
    BY <1>3, <1>4, <1>5, <2>1 DEF Waited, First
<1>6. CASE Refreshed(t) /\ ~First(t)
  <2>1. granted[y] <= updated[t] /\ updated[t] + EmailTimeout <= now
    BY <1>2, <1>3, <1>6 DEF Refreshed, Waited, Same
  <2>2. QED
    BY <1>4, <2>1
<1>7. QED
  BY <1>3, <1>5, <1>6

LEMMA SpacedStep ==
    ASSUME IInv, [Next]_vars
    PROVE  SpacedInv'
<1> USE DevicesAssumption, NoTimeIsLate DEF IInv, TypeOK, Goto, Requests
<1>1. pool' = pool /\ skew' = skew
  BY AloneStep, Keeps
<1>2. SUFFICES ASSUME pool = 1, NEW a \in Adds, NEW b \in Adds, Sole(a), a # b, Key[a] = Key[b],
                      granted'[a] # NoTime, granted'[b] # NoTime
      PROVE  Far(a, b)'
  BY <1>1 DEF SpacedInv, Sole, Same, NoTime
<1>3. Sole(b)
  BY <1>2 DEF Sole, Same
<1>4. ASSUME granted[a] # NoTime, granted[b] # NoTime
      PROVE  Far(a, b)'
  <2>1. UNCHANGED <<granted[a], granted[b], token[a], token[b]>>
    BY <1>4, Keeps
  <2>2. Far(a, b)
    BY <1>2, <1>4 DEF SpacedInv
  <2>3. QED
    BY <1>1, <2>1, <2>2 DEF Far, Spaced
<1>5. ASSUME NEW x \in Adds, NEW y \in Adds, (x = a /\ y = b) \/ (x = b /\ y = a),
             UpdateToken(x) \/ InsertToken(x)
      PROVE  Far(a, b)'
  <2>1. granted'[x] = now /\ granted'[y] = granted[y] /\ token'[y] = token[y]
    BY <1>2, <1>5 DEF UpdateToken, InsertToken
  <2>2. granted[y] # NoTime
    BY <1>2, <1>5, <2>1
  <2>3. \/ granted[y] + EmailTimeout <= now
        \/ token[y] = y /\ (skew > 0 \/ granted[y] + (EmailTimeout + skew) <= now)
    BY <1>2, <1>3, <1>5, <2>2, LaterIsFar
  <2>4. Far(x, y)' /\ Far(y, x)'
    BY <1>1, <2>1, <2>3 DEF Far, Spaced
  <2>5. QED
    BY <1>5, <2>4
<1>6. ASSUME NEW x \in Adds, UpdateToken(x) \/ InsertToken(x)
      PROVE  Far(a, b)'
  <2>1. \A y \in Adds \ {x} : granted'[y] = granted[y]
    BY <1>6 DEF UpdateToken, InsertToken
  <2>2. QED
    BY <1>2, <1>3, <1>4, <1>5, <1>6, <2>1
<1>7. UNCHANGED granted \/ \E x \in Adds : UpdateToken(x) \/ InsertToken(x)
  BY DEF Next, vars, Tick, CreateUser, MergeUser, GetTemplate, UnknownToken, StartAdd,
     FindDevice, CheckLimit, SelectToken, SendMail, StartConfirm, GetToken, GetRegistered,
     CreateDevice, Fails
<1>8. QED
  BY <1>2, <1>4, <1>6, <1>7

-----------------------------------------------------------------------------
\* The inductive invariant holds in every reachable state.
THEOREM Inductive == Spec => []IInv
<1>1. Init => IInv
  BY InitInv
<1>2. IInv /\ [Next]_vars => IInv'
  BY TypeStep, AddStep, UpdatedStep, MailStep, ConfirmStep, DeviceStep, AloneStep,
     UniqueStep, RepeatStep, RowStep, LimitStep, SpacedStep DEF IInv
<1>3. QED
  BY <1>1, <1>2, PTL DEF Spec

\* No interleaving of requests leaves a variable outside its type.
THEOREM TypeCorrect == Spec => []TypeOK
<1>1. IInv => TypeOK
  BY DEF IInv
<1>2. QED
  BY <1>1, Inductive, PTL

\* On any number of threads, a device row is what create_user (services/users.rs:101-117)
\* wrote when its user signed up, or what confirm_add_device (services/users.rs:234-289)
\* made of a mailed token that it had found alive.
THEOREM OnlyConfirmedDevices == Spec => []DevicesAreConfirmed
<1>1. IInv => DevicesAreConfirmed
  <2> SUFFICES ASSUME IInv, NEW x \in DeviceIds \X Users, devices[x] # NoRow, ~SignedUpWith(x)
      PROVE  MailedAndConfirmed(x)
    BY DEF DevicesAreConfirmed
  <2>1. PICK c \in Confirms : ConfirmedBy(c, x)
    BY DEF IInv, DeviceInv
  <2>2. PICK a \in Adds : /\ Same(a, Token[c])
                          /\ granted[a] <= checked[c]
                          /\ checked[c] <= granted[a] + Expiration + Ahead
    BY <2>1 DEF IInv, ConfirmInv, ConfirmedBy
  <2>3. QED
    BY <2>1, <2>2 DEF ConfirmedBy, MailedAndConfirmed, Mailed, DeviceOf, Same
<1>2. QED
  BY <1>1, Inductive, PTL

\* On one thread the limit of add_device (services/users.rs:202-216) holds, although
\* the check and the upsert are statements of their own.
THEOREM MailsKeepTheirDistance == Spec => []GrantsAreSpaced
<1>1. IInv => GrantsAreSpaced
  BY DEF IInv, SpacedInv, GrantsAreSpaced, SameKeyGrants, Far
<1>2. QED
  BY <1>1, Inductive, PTL

\* On one thread upsert (repos/devices_tokens.rs:20-52) never makes a second row.
THEOREM OneTokenEach == Spec => []TokensAreUnique
<1>1. IInv => TokensAreUnique
  BY DEF IInv
<1>2. QED
  BY <1>1, Inductive, PTL

\* On one thread a repeated confirmation never meets the primary key.
THEOREM ConfirmingRepeats == Spec => []ConfirmsRepeat
<1>1. IInv => ConfirmsRepeat
  BY DEF IInv
<1>2. QED
  BY <1>1, Inductive, PTL

\* The limit of add_device (services/users.rs:202-216) turns a request away only
\* for a recent grant of the same key, whichever of its rows it looks at.
THEOREM RefusalsEnd == Spec => RefusalsAreDue
<1>1. ASSUME IInv, [Next]_vars, NEW a \in Adds, stage[a] = "limit", stage'[a] = "refused"
      PROVE  \E b \in Adds : Key[b] = Key[a] /\ granted[b] # NoTime /\
                             now < granted[b] + EmailTimeout + Ahead
  <2> USE DevicesAssumption, NoTimeIsLate DEF IInv, TypeOK
  <2>1. CheckLimit(a)
    BY <1>1, AddMoves DEF StartAdd, FindDevice, SelectToken, UpdateToken, InsertToken, GetTemplate,
       SendMail, Fails, Goto, Requests
  <2>2. PICK t \in Tokens : Key[t] = Key[a] /\ Younger(updated[t], EmailTimeout)
    BY <1>1, <2>1 DEF CheckLimit, Goto, Requests
  <2>3. PICK b \in Adds : Same(b, t) /\ Wrote(b, updated[t])
    BY <1>1 DEF UpdatedInv
  <2>4. granted[b] \in Nat /\ now \in Nat /\ skew \in Int
    BY <1>1, <2>3 DEF Wrote, Times
  <2>5. updated[t] <= granted[b] + Ahead /\ updated[t] \in Int
    BY <2>3, <2>4 DEF Wrote, Ahead
  <2>6. now < granted[b] + EmailTimeout + Ahead
    BY <2>2, <2>4, <2>5 DEF Younger, Ahead
  <2>7. QED
    BY <2>2, <2>3, <2>6 DEF Same, Wrote
<1>2. IInv /\ [Next]_vars => [RefusalIsDue]_vars
  BY <1>1 DEF RefusalIsDue
<1>3. QED
  BY <1>2, Inductive, PTL DEF Spec, RefusalsAreDue

=============================================================================
