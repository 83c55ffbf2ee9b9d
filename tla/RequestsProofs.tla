--------------------------- MODULE RequestsProofs ---------------------------
(***************************************************************************)
(* Proofs about what every request passes: the check of its token (module  *)
(* Sessions), for any number of users, devices, requests and seconds, and  *)
(* the way from its first step to its answer (module Answers).             *)
(***************************************************************************)
EXTENDS Sessions, Answers, SequenceTheorems, TLAPS

-----------------------------------------------------------------------------
(* Sessions                                                                 *)


\* A revocation gets its token once, from Storiqa, and writes it to a row.
NewInv == \A q \in Revocations :
    /\ stage[q] \in {"write", "ok"} => new[q] \in Times /\ new[q] <= now
    /\ stage[q] \notin {"write"} \cup Ended => new[q] = NoTime
    /\ stage[q] = "ok" => User[q] \in Known

RowInv == \A u \in Users :
    revoke_before[u] = 0 \/ \E q \in Revocations : User[q] = u /\ new[q] = revoke_before[u]

\* What is still to be written is no older than what was answered.
HoldInv == \A q \in Answered \ overlapped :
    /\ new[q] <= revoke_before[User[q]]
    /\ \A p \in Pending(User[q]) : new[q] <= new[p]

OverlapInv == \A p, q \in Revocations :
    stage[p] = "write" /\ stage[q] = "write" /\ User[p] = User[q] /\ p # q
        => p \in overlapped

WriteInv == \A r \in Requests : stage[r] = "write" => r \in Revocations

\* Who is being authenticated has a token.
ExpInv == \A r \in Requests :
    stage[r] \in {"decode", "user", "device", "timestamp", "accepted"} => exp[r] \in Times

BeforeInv == \A r \in Requests : before[r] \subseteq Answered

IInv ==
    /\ TypeOK
    /\ NewInv /\ RowInv /\ HoldInv /\ OverlapInv /\ WriteInv /\ ExpInv /\ BeforeInv
    /\ RevokedIsOlder /\ RevokedStaysOut

-----------------------------------------------------------------------------
LEMMA InitInv ==
    ASSUME Init
    PROVE  IInv
<1> USE SessionsAssumption DEF Init
<1>1. TypeOK
  BY DEF TypeOK, Times, NoTime, Stages, Ended, Pairs
<1>2. Answered = {}
  BY DEF Answered, Revocations
<1>3. NewInv /\ RowInv /\ HoldInv /\ OverlapInv /\ WriteInv /\ ExpInv /\ BeforeInv
  BY <1>2 DEF NewInv, RowInv, HoldInv, OverlapInv, WriteInv, ExpInv, BeforeInv, Revocations, Ended
<1>4. RevokedIsOlder /\ RevokedStaysOut
  BY DEF RevokedIsOlder, RevokedStaysOut, Authenticated
<1>5. QED
  BY <1>1, <1>3, <1>4 DEF IInv

LEMMA TypeStep ==
    ASSUME IInv, [Next]_vars
    PROVE  TypeOK'
<1> USE SessionsAssumption DEF IInv, TypeOK, Goto, table, history, Stages, Ended, Times, NoTime
<1>1. CASE Tick \/ AddDevice \/ UNCHANGED vars
  BY <1>1 DEF Tick, AddDevice, vars
<1>2. ASSUME NEW r \in Requests, Start(r)
      PROVE  TypeOK'
  BY <1>2 DEF Start, Answered
<1>3. ASSUME NEW r \in Requests, Decode(r) \/ GetUser(r) \/ GetDevice(r) \/ Call(r) \/ Fails(r)
      PROVE  TypeOK'
  BY <1>3 DEF Decode, GetUser, GetDevice, Call, Fails
<1>4. ASSUME NEW r \in Requests, UpdateTimestamp(r)
      PROVE  TypeOK'
  <2>1. PairOf(r) \in Pairs /\ Timestamp[r] \in Nat
    BY DEF Pairs, PairOf
  <2>2. last' \in [Pairs -> Nat]
    BY <1>4, <2>1 DEF UpdateTimestamp
  <2>3. QED
    BY <1>4, <2>2 DEF UpdateTimestamp
<1>5. ASSUME NEW r \in Requests, Answer(r)
      PROVE  TypeOK'
  BY <1>5 DEF Answer, ExpInv
<1>6. ASSUME NEW r \in Requests, Issue(r)
      PROVE  TypeOK'
  BY <1>6 DEF Issue, Pending, Revocations
<1>7. ASSUME NEW r \in Requests, RevokeTokens(r)
      PROVE  TypeOK'
  BY <1>7 DEF RevokeTokens, NewInv, WriteInv, Revocations
<1>8. QED
  BY <1>1, <1>2, <1>3, <1>4, <1>5, <1>6, <1>7 DEF Next

-----------------------------------------------------------------------------
(* The steps that leave the revocations as they are                        *)

Calm(r) ==
    \/ Start(r) \/ Decode(r) \/ GetUser(r) \/ GetDevice(r)
    \/ UpdateTimestamp(r) \/ Answer(r) \/ Call(r) \/ Fails(r)

\* A step that neither issues a token nor writes a row changes no token of a
\* revocation, answers none and brings none to its write.
LEMMA CalmStep ==
    ASSUME TypeOK, Tick \/ AddDevice \/ UNCHANGED vars \/ \E r \in Requests : Calm(r)
    PROVE  /\ now <= now' /\ new' = new /\ revoke_before' = revoke_before
           /\ overlapped' = overlapped
           /\ Answered' = Answered
           /\ \A q \in Revocations :
                 /\ stage'[q] = "write" => stage[q] = "write"
                 /\ stage'[q] = "ok" <=> stage[q] = "ok"
                 /\ stage'[q] \notin {"write"} \cup Ended => stage[q] \notin {"write"} \cup Ended
<1> USE SessionsAssumption DEF TypeOK, Goto, table, history, Ended, Times, Revocations
<1>1. CASE Tick \/ AddDevice \/ UNCHANGED vars
  BY <1>1 DEF Tick, AddDevice, vars, Answered
<1>2. ASSUME NEW r \in Requests, Calm(r)
      PROVE  /\ now' = now /\ new' = new /\ revoke_before' = revoke_before
             /\ overlapped' = overlapped
             /\ \A q \in Revocations :
                   /\ stage'[q] = "write" => stage[q] = "write"
                   /\ stage'[q] = "ok" <=> stage[q] = "ok"
                   /\ stage'[q] \notin {"write"} \cup Ended => stage[q] \notin {"write"} \cup Ended
  <2>1. CASE Start(r) \/ Decode(r) \/ GetUser(r) \/ GetDevice(r)
    BY <2>1 DEF Start, Decode, GetUser, GetDevice
  <2>2. CASE UpdateTimestamp(r) \/ Call(r) \/ Fails(r)
    BY <2>2 DEF UpdateTimestamp, Call, Fails
  <2>3. CASE Answer(r)
    BY <2>3 DEF Answer, Revoking
  <2>4. QED
    BY <1>2, <2>1, <2>2, <2>3 DEF Calm
<1>3. QED
  BY <1>1, <1>2 DEF Answered

-----------------------------------------------------------------------------
LEMMA NewStep ==
    ASSUME IInv, [Next]_vars
    PROVE  NewInv'
<1> USE SessionsAssumption DEF IInv, NewInv, Ended, Times, NoTime
<1>1. CASE Tick \/ AddDevice \/ UNCHANGED vars \/ \E r \in Requests : Calm(r)
  <2>1. now <= now' /\ now' \in Nat /\ now \in Nat
    BY <1>1, CalmStep, TypeStep DEF TypeOK
  <2>2. QED
    BY <1>1, <2>1, CalmStep
<1>2. ASSUME NEW r \in Requests, Issue(r)
      PROVE  NewInv'
  BY <1>2 DEF Issue, TypeOK, Goto, table, Revocations, Revoking
<1>3. ASSUME NEW r \in Requests, RevokeTokens(r)
      PROVE  NewInv'
  BY <1>3 DEF RevokeTokens, TypeOK, Goto, table, history, Revocations
<1>4. QED
  BY <1>1, <1>2, <1>3 DEF Next, Calm

\* The token of a revocation never changes once it is issued.
LEMMA NewStays ==
    ASSUME IInv, [Next]_vars, NEW q \in Revocations, new[q] # NoTime
    PROVE  new'[q] = new[q]
<1> USE SessionsAssumption DEF IInv
<1>1. CASE Tick \/ AddDevice \/ UNCHANGED vars \/ \E r \in Requests : Calm(r)
  BY <1>1, CalmStep
<1>2. ASSUME NEW r \in Requests, Issue(r)
      PROVE  new'[q] = new[q]
  BY <1>2 DEF Issue, NewInv, TypeOK, Ended, Revocations
<1>3. ASSUME NEW r \in Requests, RevokeTokens(r)
      PROVE  new'[q] = new[q]
  BY <1>3 DEF RevokeTokens
<1>4. QED
  BY <1>1, <1>2, <1>3 DEF Next, Calm

LEMMA RowStep ==
    ASSUME IInv, [Next]_vars
    PROVE  RowInv'
<1> USE SessionsAssumption DEF IInv, TypeOK
<1>1. \A u \in Users : revoke_before[u] # NoTime
  BY DEF Times, NoTime
<1>2. CASE revoke_before' = revoke_before
  BY <1>1, <1>2, NewStays DEF RowInv
<1>3. ASSUME NEW r \in Requests, RevokeTokens(r)
      PROVE  RowInv'
  <2>1. r \in Revocations /\ new' = new /\ revoke_before' = [revoke_before EXCEPT ![User[r]] = new[r]]
    BY <1>3 DEF RevokeTokens, WriteInv
  <2>2. QED
    BY <2>1 DEF RowInv
<1>4. ASSUME NEW r \in Requests, Issue(r)
      PROVE  RowInv'
  BY <1>2, <1>4 DEF Issue, table
<1>5. CASE Tick \/ AddDevice \/ UNCHANGED vars \/ \E r \in Requests : Calm(r)
  BY <1>2, <1>5, CalmStep
<1>6. QED
  BY <1>3, <1>4, <1>5 DEF Next, Calm

LEMMA WriteStep ==
    ASSUME IInv, [Next]_vars
    PROVE  WriteInv' /\ ExpInv'
<1> USE SessionsAssumption DEF IInv, TypeOK, Goto, table, history, WriteInv, ExpInv
<1>1. CASE Tick \/ AddDevice \/ UNCHANGED vars
  BY <1>1 DEF Tick, AddDevice, vars
<1>2. ASSUME NEW r \in Requests, Start(r)
      PROVE  WriteInv' /\ ExpInv'
  BY <1>2 DEF Start
<1>3. ASSUME NEW r \in Requests, Decode(r) \/ GetUser(r) \/ GetDevice(r) \/ Call(r) \/ Fails(r)
      PROVE  WriteInv' /\ ExpInv'
  BY <1>3 DEF Decode, GetUser, GetDevice, Call, Fails
<1>4. ASSUME NEW r \in Requests, UpdateTimestamp(r) \/ Answer(r) \/ Issue(r) \/ RevokeTokens(r)
      PROVE  WriteInv' /\ ExpInv'
  BY <1>4 DEF UpdateTimestamp, Answer, Issue, RevokeTokens, Revocations
<1>5. QED
  BY <1>1, <1>2, <1>3, <1>4 DEF Next

LEMMA OverlapStep ==
    ASSUME IInv, [Next]_vars
    PROVE  OverlapInv'
<1> USE SessionsAssumption DEF IInv, OverlapInv
<1>1. CASE Tick \/ AddDevice \/ UNCHANGED vars \/ \E r \in Requests : Calm(r)
  BY <1>1, CalmStep
<1>2. ASSUME NEW r \in Requests, Issue(r)
      PROVE  OverlapInv'
  <2>1. CASE Kind[r] \in Revoking
    <3>1. \A q \in Revocations : stage'[q] = "write" => q = r \/ stage[q] = "write"
      BY <1>2 DEF Issue, Goto, TypeOK, Revocations
    <3>2. Pending(User[r]) # {} => overlapped' = overlapped \cup Pending(User[r]) \cup {r}
      BY <1>2, <2>1 DEF Issue, Revoking
    <3>3. overlapped \subseteq overlapped'
      BY <1>2 DEF Issue
    <3>4. QED
      BY <3>1, <3>2, <3>3 DEF Pending
  <2>2. CASE Kind[r] = "refresh"
    BY <1>2, <2>2 DEF Issue, Goto, TypeOK, Revocations, Revoking
  <2>3. QED
    BY <1>2, <2>1, <2>2 DEF Issue
<1>3. ASSUME NEW r \in Requests, RevokeTokens(r)
      PROVE  OverlapInv'
  BY <1>3 DEF RevokeTokens, Goto, TypeOK, history, Revocations
<1>4. QED
  BY <1>1, <1>2, <1>3 DEF Next, Calm

LEMMA HoldStep ==
    ASSUME IInv, [Next]_vars
    PROVE  HoldInv'
<1> USE SessionsAssumption DEF IInv, HoldInv
<1>1. CASE Tick \/ AddDevice \/ UNCHANGED vars \/ \E r \in Requests : Calm(r)
  BY <1>1, CalmStep DEF Pending
<1>2. ASSUME NEW r \in Requests, Issue(r)
      PROVE  HoldInv'
  <2>1. /\ Answered' = Answered /\ revoke_before' = revoke_before
        /\ overlapped \subseteq overlapped'
    BY <1>2 DEF Issue, Goto, table, TypeOK, Answered, Revocations, Revoking
  <2>2. \A q \in Answered : new[q] <= now /\ new'[q] = new[q]
    BY <1>2 DEF Issue, NewInv, Answered, TypeOK, Revocations
  <2>3. \A p \in Revocations : stage'[p] = "write" =>
            \/ p = r /\ new'[p] = now
            \/ stage[p] = "write" /\ new'[p] = new[p]
    BY <1>2 DEF Issue, Goto, TypeOK, Revocations
  <2>4. QED
    BY <2>1, <2>2, <2>3 DEF Pending
<1>3. ASSUME NEW r \in Requests, RevokeTokens(r)
      PROVE  HoldInv'
  <2>1. r \in Revocations /\ stage[r] = "write"
    BY <1>3 DEF RevokeTokens, WriteInv
  <2>2. /\ new' = new /\ overlapped' = overlapped
        /\ revoke_before' = [revoke_before EXCEPT ![User[r]] = new[r]]
    BY <1>3 DEF RevokeTokens, history
  <2>3. /\ Answered' = Answered \cup {r}
        /\ \A p \in Revocations : stage'[p] = "write" <=> stage[p] = "write" /\ p # r
    BY <1>3, <2>1 DEF RevokeTokens, Goto, TypeOK, Answered, Revocations
  <2>4. ASSUME NEW q \in Answered \ overlapped
        PROVE  /\ new[q] <= revoke_before'[User[q]]
               /\ \A p \in Pending(User[q])' : new[q] <= new[p]
    BY <2>1, <2>2, <2>3 DEF Pending, TypeOK
  <2>5. ASSUME r \notin overlapped
        PROVE  /\ new[r] <= revoke_before'[User[r]]
               /\ Pending(User[r])' = {}
    <3>1. revoke_before'[User[r]] = new[r] /\ new[r] \in Nat
      BY <2>1, <2>2 DEF TypeOK, NewInv, Times
    <3>2. Pending(User[r])' = {}
      BY <2>1, <2>3, <2>5 DEF Pending, OverlapInv
    <3>3. QED
      BY <3>1, <3>2
  <2>6. QED
    BY <2>2, <2>3, <2>4, <2>5
<1>4. QED
  BY <1>1, <1>2, <1>3 DEF Next, Calm

LEMMA BeforeStep ==
    ASSUME IInv, [Next]_vars
    PROVE  BeforeInv'
<1> USE SessionsAssumption DEF IInv, BeforeInv
<1>1. Answered \subseteq Answered'
  <2>1. CASE Tick \/ AddDevice \/ UNCHANGED vars \/ \E r \in Requests : Calm(r)
    BY <2>1, CalmStep
  <2>2. ASSUME NEW r \in Requests, Issue(r) \/ RevokeTokens(r)
        PROVE  Answered \subseteq Answered'
    BY <2>2 DEF Issue, RevokeTokens, Goto, TypeOK, Answered, Revocations
  <2>3. QED
    BY <2>1, <2>2 DEF Next, Calm
<1>2. \A r \in Requests : before'[r] \in {before[r], Answered}
  <2>1. ASSUME NEW r \in Requests, Start(r)
        PROVE  \A q \in Requests : before'[q] \in {before[q], Answered}
    BY <2>1 DEF Start, TypeOK
  <2>2. CASE before' = before
    BY <2>2
  <2>3. QED
    BY <2>1, <2>2 DEF Next, vars, history, Tick, AddDevice, Decode, GetUser, GetDevice,
       UpdateTimestamp, Answer, Call, Issue, RevokeTokens, Fails
<1>3. QED
  BY <1>1, <1>2

LEMMA OlderStep ==
    ASSUME IInv, [Next]_vars
    PROVE  RevokedIsOlder'
<1> USE SessionsAssumption DEF IInv, RevokedIsOlder
<1>1. ASSUME NEW r \in Requests, GetUser(r)
      PROVE  RevokedIsOlder'
  <2>1. /\ stage' = [stage EXCEPT ![r] = IF User[r] \in Known /\ exp[r] < revoke_before[User[r]]
                                         THEN "revoked" ELSE "device"]
        /\ exp' = exp /\ new' = new
    BY <1>1 DEF GetUser, Goto
  <2>2. ASSUME exp[r] < revoke_before[User[r]]
        PROVE  \E q \in Revocations : User[q] = User[r] /\ new[q] # NoTime /\ exp[r] < new[q]
    <3>1. User[r] \in Users /\ exp[r] \in Nat /\ revoke_before[User[r]] \in 0..MaxTime
      BY DEF TypeOK, Times, NoTime
    <3>2. PICK q \in Revocations : User[q] = User[r] /\ new[q] = revoke_before[User[r]]
      BY <2>2, <3>1 DEF RowInv
    <3>3. QED
      BY <2>2, <3>1, <3>2 DEF NoTime
  <2>3. QED
    BY <2>1, <2>2 DEF TypeOK
<1>2. ASSUME \A r \in Requests : stage'[r] = "revoked" => stage[r] = "revoked" /\ exp'[r] = exp[r]
      PROVE  RevokedIsOlder'
  BY <1>2, NewStays
<1>3. CASE Tick \/ AddDevice \/ UNCHANGED vars
  BY <1>2, <1>3 DEF Tick, AddDevice, vars
<1>4. ASSUME NEW r \in Requests,
             \/ Start(r) \/ Decode(r) \/ GetDevice(r) \/ UpdateTimestamp(r)
             \/ Answer(r) \/ Call(r) \/ Issue(r) \/ RevokeTokens(r) \/ Fails(r)
      PROVE  RevokedIsOlder'
  <2>1. \A q \in Requests : stage'[q] = "revoked" => stage[q] = "revoked" /\ exp'[q] = exp[q]
    <3>1. CASE Start(r) \/ Decode(r) \/ GetDevice(r) \/ UpdateTimestamp(r)
      BY <3>1 DEF Start, Decode, GetDevice, UpdateTimestamp, Goto, TypeOK
    <3>2. CASE Answer(r) \/ Call(r) \/ Issue(r) \/ RevokeTokens(r) \/ Fails(r)
      BY <3>2 DEF Answer, Call, Issue, RevokeTokens, Fails, Goto, TypeOK
    <3>3. QED
      BY <1>4, <3>1, <3>2
  <2>2. QED
    BY <1>2, <2>1
<1>5. QED
  BY <1>1, <1>3, <1>4 DEF Next

\* What a request that was let through has seen answered stays as it was.
LEMMA SeenStays ==
    ASSUME IInv, [Next]_vars, NEW r \in Requests, NEW q \in before[r], q \notin overlapped'
    PROVE  q \in Answered /\ q \notin overlapped /\ new'[q] = new[q]
<1>1. q \in Answered /\ q \in Revocations /\ new[q] # NoTime
  BY SessionsAssumption DEF IInv, BeforeInv, NewInv, Answered, Times, NoTime
<1>2. overlapped \subseteq overlapped'
  <2>1. CASE Tick \/ AddDevice \/ UNCHANGED vars \/ \E p \in Requests : Calm(p)
    BY <2>1, CalmStep DEF IInv
  <2>2. ASSUME NEW p \in Requests, Issue(p) \/ RevokeTokens(p)
        PROVE  overlapped \subseteq overlapped'
    BY <2>2 DEF Issue, RevokeTokens, history
  <2>3. QED
    BY <2>1, <2>2 DEF Next, Calm
<1>3. QED
  BY <1>1, <1>2, NewStays

LEMMA StaysOutStep ==
    ASSUME IInv, [Next]_vars
    PROVE  RevokedStaysOut'
<1> USE SessionsAssumption
<1>1. ASSUME NEW r \in Requests, GetUser(r)
      PROVE  RevokedStaysOut'
  <2>1. /\ exp' = exp /\ before' = before
        /\ Authenticated' \subseteq Authenticated \cup {r}
    BY <1>1 DEF GetUser, Goto, history, Authenticated, IInv, TypeOK
  <2>2. ASSUME stage'[r] = "device", NEW q \in before[r], User[q] = User[r], q \notin overlapped'
        PROVE  new'[q] <= exp[r]
    <3>1. q \in Answered /\ q \notin overlapped /\ new'[q] = new[q]
      BY <2>2, SeenStays
    <3>2. new[q] <= revoke_before[User[r]] /\ User[r] \in Known /\ new[q] \in Nat
      BY <2>2, <3>1 DEF IInv, HoldInv, NewInv, Answered, Times
    <3>3. ~(exp[r] < revoke_before[User[r]])
      BY <1>1, <2>2, <3>2 DEF GetUser, Goto, IInv, TypeOK
    <3>4. exp[r] \in Nat /\ revoke_before[User[r]] \in Nat
      BY DEF IInv, TypeOK, Times, NoTime
    <3>5. QED
      BY <3>1, <3>2, <3>3, <3>4
  <2>3. r \in Authenticated' => stage'[r] = "device"
    BY <1>1 DEF GetUser, Goto, Authenticated, IInv, TypeOK
  <2>4. ASSUME NEW p \in Authenticated', NEW q \in before'[p],
               User[q] = User[p], q \notin overlapped'
        PROVE  new'[q] <= exp'[p]
    <3>1. CASE p = r
      BY <2>1, <2>2, <2>3, <2>4, <3>1
    <3>2. CASE p # r
      <4>1. p \in Authenticated /\ p \in Requests
        BY <2>1, <2>4, <3>2 DEF Authenticated
      <4>2. q \notin overlapped /\ new'[q] = new[q]
        BY <2>1, <2>4, <4>1, SeenStays
      <4>3. QED
        BY <2>1, <2>4, <4>1, <4>2 DEF IInv, RevokedStaysOut
    <3>3. QED
      BY <3>1, <3>2
  <2>5. QED
    BY <2>4 DEF RevokedStaysOut
<1>2. ASSUME \A p \in Authenticated' :
                 p \in Authenticated /\ exp'[p] = exp[p] /\ before'[p] = before[p]
      PROVE  RevokedStaysOut'
  <2>1. ASSUME NEW p \in Authenticated', NEW q \in before'[p],
               User[q] = User[p], q \notin overlapped'
        PROVE  new'[q] <= exp'[p]
    <3>1. p \in Authenticated /\ p \in Requests /\ q \in before[p]
      BY <1>2, <2>1 DEF Authenticated
    <3>2. q \notin overlapped /\ new'[q] = new[q]
      BY <2>1, <3>1, SeenStays
    <3>3. QED
      BY <1>2, <2>1, <3>1, <3>2 DEF IInv, RevokedStaysOut
  <2>2. QED
    BY <2>1 DEF RevokedStaysOut
<1>3. CASE Tick \/ AddDevice \/ UNCHANGED vars
  BY <1>2, <1>3 DEF Tick, AddDevice, vars, history, Authenticated
<1>4. ASSUME NEW r \in Requests,
             \/ Start(r) \/ Decode(r) \/ GetDevice(r) \/ UpdateTimestamp(r)
             \/ Answer(r) \/ Call(r) \/ Issue(r) \/ RevokeTokens(r) \/ Fails(r)
      PROVE  RevokedStaysOut'
  <2>1. \A p \in Authenticated' :
            p \in Authenticated /\ exp'[p] = exp[p] /\ before'[p] = before[p]
    <3>1. CASE Start(r)
      BY <3>1 DEF Start, Goto, Authenticated, IInv, TypeOK
    <3>2. CASE Decode(r) \/ GetDevice(r) \/ UpdateTimestamp(r) \/ Fails(r)
      BY <3>2 DEF Decode, GetDevice, UpdateTimestamp, Fails, Goto, history, Authenticated,
         IInv, TypeOK
    <3>3. CASE Answer(r) \/ Call(r)
      BY <3>3 DEF Answer, Call, Goto, history, Authenticated, IInv, TypeOK
    <3>4. CASE Issue(r) \/ RevokeTokens(r)
      BY <3>4 DEF Issue, RevokeTokens, Goto, history, Authenticated, IInv, TypeOK
    <3>5. QED
      BY <1>4, <3>1, <3>2, <3>3, <3>4
  <2>2. QED
    BY <1>2, <2>1
<1>5. QED
  BY <1>1, <1>3, <1>4 DEF Next

-----------------------------------------------------------------------------
\* The inductive invariant holds always.  What a revocation promises rests on
\* HoldInv, and HoldInv on OverlapInv: of two revocations that wait to write,
\* neither is counted on.
THEOREM Inductive == Spec => []IInv
<1>1. IInv /\ [Next]_vars => IInv'
  BY TypeStep, NewStep, RowStep, HoldStep, OverlapStep, WriteStep, BeforeStep,
     OlderStep, StaysOutStep DEF IInv
<1>2. QED
  BY <1>1, InitInv, PTL DEF Spec

\* Every variable stays in its type (all of services/auth.rs and the sessions).
THEOREM TypeCorrect == Spec => []TypeOK
<1>1. IInv => TypeOK
  BY DEF IInv
<1>2. QED
  BY <1>1, Inductive, PTL

\* authenticate calls a token revoked only after a revocation that is newer.
THEOREM RevokedTokensAreOlder == Spec => []RevokedIsOlder
<1>1. IInv => RevokedIsOlder
  BY DEF IInv
<1>2. QED
  BY <1>1, Inductive, PTL

\* After the answer to a revocation that no other one ran into, authenticate
\* lets no older token of the user through.
THEOREM RevocationHolds == Spec => []RevokedStaysOut
<1>1. IInv => RevokedStaysOut
  BY DEF IInv
<1>2. QED
  BY <1>1, Inductive, PTL

-----------------------------------------------------------------------------
(* Answers: the order of the steps of the routes                            *)

\* Every name of a step.
Names == OwnInput \cup Decodes \cup StoriqaCalls \cup TransactionsCalls \cup Changing
         \cup {"owned", "accounts", "account", "ownAccount", "list", "info"}

\* Nothing of A comes before anything of B.
Ordered(q, A, B) == \A i, j \in DOMAIN q : i < j /\ q[i] \in A => q[j] \notin B

OfAccounts == {"mergeUser", "createAccount", "accountRow"}

\* After these there may be nothing left to do.
Finding == {"list", "accountTransactions", "account", "getTransaction"}

\* Steps that can end in a refusal, and those of a route that do.
CanRefuse ==
    OwnInput \cup Decodes \cup StoriqaCalls \cup TransactionsCalls
    \cup {"session", "token", "device", "owned", "accounts", "account", "ownAccount",
          "update", "delete", "userRow", "mergeUser", "accountRow"}

Refusing(r) == CanRefuse \ (IF r = "post_users" THEN {"createAccount", "accountRow"} ELSE {})

\* Steps that none of the orders is about.
Harmless(r, q) ==
    /\ q \in Seq(Names)
    /\ \A i \in DOMAIN q : q[i] \notin (Changing \ LeftBehind[r]) \cup Finding
    /\ \A i \in DOMAIN q : q[i] = "mergeUser" => r \in DOMAIN SessionRoutes

\* The order of the steps of a route that the properties rest on.
Tidy(r, q) ==
    /\ q \in Seq(Names)
    /\ Ordered(q, Changing \ LeftBehind[r], Refusing(r))
    /\ Ordered(q, Finding, Changing)
    /\ \A i \in DOMAIN q : q[i] = "mergeUser" => r \in DOMAIN SessionRoutes

\* The table of routes, piece by piece.
LEMMA Domains ==
    /\ DOMAIN SessionRoutes = {"post_sessions", "post_sessions_oauth"}
    /\ DOMAIN ForwardedRoutes = {"post_users_confirm_email", "get_users_confirm_email",
           "post_users_reset_password", "post_users_resend_confirm_email"}
    /\ DOMAIN DeviceRoutes = {"post_users_add_device", "post_users_confirm_add_device",
           "get_register_device"}
    /\ DOMAIN TokenRoutes = {"post_users_change_password", "post_users_confirm_reset_password",
           "get_confirm_reset_password", "get_users_me", "post_sessions_refresh",
           "post_sessions_revoke"}
    /\ DOMAIN UserRoutes = {"post_users", "put_users"}
    /\ DOMAIN AccountRoutes = {"post_accounts", "get_users_accounts", "get_accounts",
           "put_accounts", "delete_accounts"}
    /\ DOMAIN TransactionRoutes = {"get_transaction", "post_transactions",
           "get_users_transactions", "get_accounts_transactions"}
    /\ DOMAIN RateRoutes = {"post_rate", "post_rate_refresh", "post_fees"}
  BY DEF SessionRoutes, ForwardedRoutes, DeviceRoutes, TokenRoutes, UserRoutes, AccountRoutes,
         TransactionRoutes, RateRoutes

LEMMA Tables ==
    /\ \A r \in DOMAIN SessionRoutes : Steps[r] = SessionRoutes[r]
    /\ \A r \in DOMAIN ForwardedRoutes : Steps[r] = ForwardedRoutes[r]
    /\ \A r \in DOMAIN DeviceRoutes : Steps[r] = DeviceRoutes[r]
    /\ \A r \in DOMAIN TokenRoutes : Steps[r] = TokenRoutes[r]
    /\ \A r \in DOMAIN UserRoutes : Steps[r] = UserRoutes[r]
    /\ \A r \in DOMAIN AccountRoutes : Steps[r] = AccountRoutes[r]
    /\ \A r \in DOMAIN TransactionRoutes : Steps[r] = TransactionRoutes[r]
    /\ \A r \in DOMAIN RateRoutes : Steps[r] = RateRoutes[r]
    /\ Steps["not_found"] = <<"route">>
  BY Domains DEF Steps, Routes

\* What the routes may leave behind, as one table.
LEMMA LeftBehindIs ==
    /\ \A r \in DOMAIN SessionRoutes :
          LeftBehind[r] = {"mergeUser", "createAccount", "accountRow", "session"}
    /\ LeftBehind["post_users"] = {"createUser"}
    /\ LeftBehind["post_users_change_password"] = {"session", "changePassword"}
    /\ LeftBehind["post_users_confirm_reset_password"] = {"applyPasswordReset"}
    /\ LeftBehind["post_sessions_revoke"] = {"session", "revokeJWT"}
    /\ LeftBehind["post_accounts"] = {"session", "createAccount"}
    /\ LeftBehind["put_accounts"] = {"session", "update"}
    /\ LeftBehind["post_transactions"] = {"session", "fiat"}
    /\ \A r \in Routes \ (DOMAIN SessionRoutes \cup {"post_users",
           "post_users_change_password", "post_users_confirm_reset_password",
           "post_sessions_revoke", "post_accounts", "put_accounts", "post_transactions"}) :
          LeftBehind[r] = {"session"}
  BY Domains DEF LeftBehind, Routes

\* What two lists of steps are together, in the form the rest needs it.
LEMMA Concat ==
    ASSUME NEW S
    PROVE  \A s, t \in Seq(S) :
              /\ s \o t \in Seq(S)
              /\ Len(s \o t) = Len(s) + Len(t)
              /\ DOMAIN (s \o t) = 1..(Len(s) + Len(t))
              /\ \A i \in 1..Len(s) : (s \o t)[i] = s[i]
              /\ \A i \in (Len(s) + 1)..(Len(s) + Len(t)) : (s \o t)[i] = t[i - Len(s)]
<1>1. SUFFICES ASSUME NEW s \in Seq(S), NEW t \in Seq(S)
               PROVE  /\ s \o t \in Seq(S)
                      /\ Len(s \o t) = Len(s) + Len(t)
                      /\ DOMAIN (s \o t) = 1..(Len(s) + Len(t))
                      /\ \A i \in 1..Len(s) : (s \o t)[i] = s[i]
                      /\ \A i \in (Len(s) + 1)..(Len(s) + Len(t)) :
                            (s \o t)[i] = t[i - Len(s)]
  OBVIOUS
<1>2. s \o t \in Seq(S) /\ Len(s \o t) = Len(s) + Len(t)
  BY ConcatProperties
<1>3. DOMAIN (s \o t) = 1..(Len(s) + Len(t))
  BY <1>2, LenProperties
<1>4. Len(s) \in Nat /\ Len(t) \in Nat
  BY LenProperties
<1>5. \A i \in 1..(Len(s) + Len(t)) :
         (s \o t)[i] = IF i <= Len(s) THEN s[i] ELSE t[i - Len(s)]
  BY ConcatProperties
<1>6. QED
  BY <1>2, <1>3, <1>4, <1>5

\* An order within two lists is one of both together when the first has nothing of A
\* or the second nothing of B.
LEMMA OrderedConcat ==
    ASSUME NEW s \in Seq(Names), NEW t \in Seq(Names), NEW A, NEW B,
           Ordered(s, A, B), Ordered(t, A, B),
           (\A i \in DOMAIN s : s[i] \notin A) \/ (\A j \in DOMAIN t : t[j] \notin B)
    PROVE  Ordered(s \o t, A, B)
<1> DEFINE q == s \o t
<1>1. /\ Len(s) \in Nat /\ Len(t) \in Nat
      /\ DOMAIN s = 1..Len(s) /\ DOMAIN t = 1..Len(t) /\ DOMAIN q = 1..(Len(s) + Len(t))
      /\ \A i \in DOMAIN q : q[i] = IF i <= Len(s) THEN s[i] ELSE t[i - Len(s)]
  BY ConcatProperties, LenProperties
<1>2. ASSUME NEW i \in DOMAIN q, NEW j \in DOMAIN q, i < j, q[i] \in A
      PROVE  q[j] \notin B
  <2>1. CASE i <= Len(s) /\ j <= Len(s)
    BY <1>1, <1>2, <2>1 DEF Ordered
  <2>2. CASE ~(i <= Len(s)) /\ ~(j <= Len(s))
    <3>1. i - Len(s) \in DOMAIN t /\ j - Len(s) \in DOMAIN t /\ i - Len(s) < j - Len(s)
      BY <1>1, <1>2, <2>2
    <3>2. t[i - Len(s)] \in A
      BY <1>1, <1>2, <2>2
    <3>3. QED
      BY <1>1, <2>2, <3>1, <3>2 DEF Ordered
  <2>3. CASE i <= Len(s) /\ ~(j <= Len(s))
    <3>1. i \in DOMAIN s /\ s[i] \in A /\ j - Len(s) \in DOMAIN t /\ q[j] = t[j - Len(s)]
      BY <1>1, <1>2, <2>3
    <3>2. QED
      BY <3>1
  <2>4. QED
    BY <1>1, <1>2, <2>1, <2>2, <2>3
<1>3. QED
  BY <1>2 DEF Ordered

\* What is put together from harmless parts and an orderly one is orderly.
LEMMA Joined ==
    ASSUME NEW r, NEW s, NEW t, Harmless(r, s)
    PROVE  /\ Harmless(r, t) => Harmless(r, s \o t)
           /\ Tidy(r, t) => Tidy(r, s \o t)
<1> DEFINE A == Changing \ LeftBehind[r]
<1> DEFINE q == s \o t
<1>1. ASSUME t \in Seq(Names)
      PROVE  /\ q \in Seq(Names)
             /\ Len(s) \in Nat /\ Len(t) \in Nat
             /\ DOMAIN s = 1..Len(s) /\ DOMAIN t = 1..Len(t)
             /\ DOMAIN q = 1..(Len(s) + Len(t))
             /\ \A i \in DOMAIN q : q[i] = IF i <= Len(s) THEN s[i] ELSE t[i - Len(s)]
  BY <1>1, ConcatProperties, LenProperties DEF Harmless
<1>2. ASSUME Harmless(r, t)
      PROVE  Harmless(r, q)
  <2>1. ASSUME NEW i \in DOMAIN q
        PROVE  \/ i \in DOMAIN s /\ q[i] = s[i]
               \/ i - Len(s) \in DOMAIN t /\ q[i] = t[i - Len(s)]
    BY <1>1, <1>2 DEF Harmless
  <2>2. QED
    BY <1>1, <1>2, <2>1 DEF Harmless
<1>3. ASSUME Tidy(r, t)
      PROVE  Tidy(r, q)
  <2>1. ASSUME NEW i \in DOMAIN q
        PROVE  \/ i \in DOMAIN s /\ q[i] = s[i]
               \/ i - Len(s) \in DOMAIN t /\ q[i] = t[i - Len(s)]
    BY <1>1, <1>3 DEF Tidy
  <2>2. /\ s \in Seq(Names) /\ t \in Seq(Names)
        /\ \A i \in DOMAIN s : s[i] \notin A /\ s[i] \notin Finding
    BY <1>3 DEF Harmless, Tidy
  <2>3. Ordered(s, A, Refusing(r)) /\ Ordered(s, Finding, Changing)
    BY <2>2 DEF Ordered
  <2>4. Ordered(t, A, Refusing(r)) /\ Ordered(t, Finding, Changing)
    BY <1>3 DEF Tidy
  <2>5. Ordered(q, A, Refusing(r)) /\ Ordered(q, Finding, Changing)
    BY <2>2, <2>3, <2>4, OrderedConcat
  <2>6. QED
    BY <1>1, <1>3, <2>1, <2>2, <2>5 DEF Tidy, Harmless
<1>4. QED
  BY <1>2, <1>3

LEMMA HarmlessIsTidy ==
    ASSUME NEW r, NEW q, Harmless(r, q)
    PROVE  Tidy(r, q)
<1> DEFINE A == Changing \ LeftBehind[r]
<1>1. \A i \in DOMAIN q : q[i] \notin A /\ q[i] \notin Finding
  BY DEF Harmless
<1>2. Ordered(q, A, Refusing(r)) /\ Ordered(q, Finding, Changing)
  BY <1>1 DEF Ordered
<1>3. QED
  BY <1>2 DEF Tidy, Harmless

\* authenticate leaves no more than the timestamp.
LEMMA AuthFirst ==
    ASSUME NEW r, "session" \in LeftBehind[r]
    PROVE  Harmless(r, Auth)
  BY DEF Harmless, Auth, Names, OwnInput, Decodes, Changing, Finding

\* The routes, table by table.
LEMMA TidySessions ==
    ASSUME NEW r \in DOMAIN SessionRoutes
    PROVE  Tidy(r, Steps[r])
<1> USE DEF Names, OwnInput, Decodes, StoriqaCalls, Changing, Finding
<1>1. LeftBehind[r] = {"mergeUser", "createAccount", "accountRow", "session"}
  BY LeftBehindIs
<1>2. Harmless(r, <<"me", "mergeUser">>)
  BY <1>1 DEF Harmless
<1>3. Harmless(r, DefaultAccounts)
  <2>1. Harmless(r, Account)
    BY <1>1 DEF Harmless, Account, TransactionsCalls
  <2>2. QED
    BY <2>1, Joined DEF DefaultAccounts
<1>4. Harmless(r, <<"newJwt", "session">>)
  BY <1>1 DEF Harmless
<1>5. Harmless(r, SignIn)
  BY <1>2, <1>3, <1>4, Joined DEF SignIn
<1>6. Harmless(r, <<"headers", "body", "getJWTByEmail">>)
  BY <1>1 DEF Harmless
<1>7. Harmless(r, <<"headers", "body", "getJWTByProvider">>)
  BY <1>1 DEF Harmless
<1>8. \/ Steps[r] = <<"headers", "body", "getJWTByEmail">> \o SignIn
      \/ Steps[r] = <<"headers", "body", "getJWTByProvider">> \o SignIn
  BY Tables, Domains DEF SessionRoutes
<1>9. QED
  BY <1>5, <1>6, <1>7, <1>8, Joined, HarmlessIsTidy

LEMMA TidyForwarded ==
    ASSUME NEW r \in DOMAIN ForwardedRoutes
    PROVE  Tidy(r, Steps[r])
<1>1. LeftBehind[r] = {"session"}
  BY Domains, LeftBehindIs DEF Routes
<1>2. Steps[r] = ForwardedRoutes[r]
  BY Tables
<1>3. \/ Steps[r] = <<"body", "verifyEmail">>
      \/ Steps[r] = <<"verifyEmail">>
      \/ Steps[r] = <<"body", "requestPasswordReset">>
      \/ Steps[r] = <<"body", "resendEmailVerificationLink">>
  BY <1>2, Domains DEF ForwardedRoutes
<1>4. /\ Tidy(r, <<"body", "verifyEmail">>)
      /\ Tidy(r, <<"verifyEmail">>)
      /\ Tidy(r, <<"body", "requestPasswordReset">>)
      /\ Tidy(r, <<"body", "resendEmailVerificationLink">>)
  BY <1>1 DEF Tidy, Ordered, Names, OwnInput, StoriqaCalls, Changing, Finding
<1>5. QED
  BY <1>3, <1>4

LEMMA TidyDevices ==
    ASSUME NEW r \in DOMAIN DeviceRoutes
    PROVE  Tidy(r, Steps[r])
<1>1. LeftBehind[r] = {"session"}
  BY Domains, LeftBehindIs DEF Routes
<1>2. Steps[r] = DeviceRoutes[r]
  BY Tables
<1>3. \/ Steps[r] = <<"body", "token", "mail">>
      \/ Steps[r] = <<"body", "device">>
      \/ Steps[r] = <<"device">>
  BY <1>2, Domains DEF DeviceRoutes
<1>4. "mail" \notin Refusing(r)
  BY DEF CanRefuse, Refusing, OwnInput, Decodes, StoriqaCalls, TransactionsCalls
<1>5. /\ Tidy(r, <<"body", "token", "mail">>)
      /\ Tidy(r, <<"body", "device">>)
      /\ Tidy(r, <<"device">>)
  BY <1>1, <1>4 DEF Tidy, Ordered, Names, OwnInput, Changing, Finding
<1>6. QED
  BY <1>3, <1>5

LEMMA TidyRates ==
    ASSUME NEW r \in DOMAIN RateRoutes
    PROVE  Tidy(r, Steps[r])
<1>1. LeftBehind[r] = {"session"}
  BY Domains, LeftBehindIs DEF Routes
<1>2. Harmless(r, Auth)
  BY <1>1, AuthFirst
<1>3. Steps[r] = RateRoutes[r]
  BY Tables
<1>4. \/ Steps[r] = Auth \o <<"body", "rate">>
      \/ Steps[r] = Auth \o <<"body", "refreshRate">>
      \/ Steps[r] = Auth \o <<"body", "fees">>
  BY <1>3, Domains DEF RateRoutes
<1>5. /\ Tidy(r, <<"body", "rate">>)
      /\ Tidy(r, <<"body", "refreshRate">>)
      /\ Tidy(r, <<"body", "fees">>)
  BY DEF Tidy, Ordered, Names, OwnInput, TransactionsCalls, Changing, Finding
<1>6. QED
  BY <1>2, <1>4, <1>5, Joined

LEMMA TidyTransactions ==
    ASSUME NEW r \in DOMAIN TransactionRoutes
    PROVE  Tidy(r, Steps[r])
<1>1. LeftBehind[r] = IF r = "post_transactions" THEN {"session", "fiat"} ELSE {"session"}
  BY Domains, LeftBehindIs DEF Routes
<1>2. Harmless(r, Auth)
  BY <1>1, AuthFirst
<1>3. Steps[r] = TransactionRoutes[r]
  BY Tables
<1>4. CASE r = "post_transactions"
  <2>1. "info" \notin Refusing(r)
    BY DEF CanRefuse, Refusing, OwnInput, Decodes, StoriqaCalls, TransactionsCalls
  <2>2. Tidy(r, <<"body", "fiat", "owned", "validate", "createTransaction", "info">>)
    BY <1>1, <1>4, <2>1
    DEF Tidy, Ordered, Names, OwnInput, TransactionsCalls, Changing, Finding
  <2>3. Steps[r] = Auth \o <<"body", "fiat", "owned", "validate", "createTransaction", "info">>
    BY <1>3, <1>4 DEF TransactionRoutes
  <2>4. QED
    BY <1>2, <2>2, <2>3, Joined
<1>5. CASE r # "post_transactions"
  <2>1. /\ Tidy(r, <<"accounts", "getTransaction", "info">>)
        /\ Tidy(r, <<"path", "query", "list", "accountTransactions", "info">>)
        /\ Tidy(r, <<"query", "ownAccount", "accountTransactions", "info">>)
    BY DEF Tidy, Ordered, Names, OwnInput, TransactionsCalls, Changing, Finding
  <2>2. TransactionRoutes["get_transaction"]
            = Auth \o <<"accounts", "getTransaction", "info">>
    BY DEF TransactionRoutes
  <2>3. TransactionRoutes["get_users_transactions"]
            = Auth \o <<"path", "query", "list", "accountTransactions", "info">>
    BY DEF TransactionRoutes
  <2>4. TransactionRoutes["get_accounts_transactions"]
            = Auth \o <<"query", "ownAccount", "accountTransactions", "info">>
    BY DEF TransactionRoutes
  <2>5. r \in {"get_transaction", "get_users_transactions", "get_accounts_transactions"}
    BY <1>5, Domains
  <2>6. QED
    BY <1>2, <1>3, <2>1, <2>2, <2>3, <2>4, <2>5, Joined
<1>6. QED
  BY <1>4, <1>5

LEMMA TidyAccounts ==
    ASSUME NEW r \in DOMAIN AccountRoutes
    PROVE  Tidy(r, Steps[r])
<1>1. /\ r = "post_accounts" => LeftBehind[r] = {"session", "createAccount"}
      /\ r = "put_accounts" => LeftBehind[r] = {"session", "update"}
      /\ r \notin {"post_accounts", "put_accounts"} => LeftBehind[r] = {"session"}
  BY Domains, LeftBehindIs DEF Routes
<1>2. Harmless(r, Auth)
  BY <1>1, AuthFirst
<1>3. Steps[r] = AccountRoutes[r]
  BY Tables
<1>4. "balance" \notin Changing
  BY DEF Changing
<1>5. CASE r = "post_accounts"
  <2>1. Harmless(r, <<"path", "body", "validate">>)
    BY DEF Harmless, Names, OwnInput, Changing, Finding
  <2>2. Tidy(r, Account)
    BY <1>1, <1>5 DEF Tidy, Ordered, Account, Names, Changing, Finding
  <2>3. Steps[r] = Auth \o <<"path", "body", "validate">> \o Account
    BY <1>3, <1>5 DEF AccountRoutes
  <2>4. QED
    BY <1>2, <2>1, <2>2, <2>3, Joined
<1>6. CASE r = "put_accounts"
  <2>1. Tidy(r, <<"body", "validate", "update", "balance">>)
    BY <1>1, <1>6
    DEF Tidy, Ordered, Names, OwnInput, TransactionsCalls, Changing, Finding
  <2>2. Steps[r] = Auth \o <<"body", "validate", "update", "balance">>
    BY <1>3, <1>6 DEF AccountRoutes
  <2>3. QED
    BY <1>2, <2>1, <2>2, Joined
<1>7. CASE r \in {"get_users_accounts", "get_accounts", "delete_accounts"}
  <2>1. /\ Tidy(r, <<"path", "query", "list", "balance">>)
        /\ Tidy(r, <<"account", "balance">>)
        /\ Tidy(r, <<"delete">>)
    BY DEF Tidy, Ordered, Names, OwnInput, TransactionsCalls, Changing, Finding
  <2>2. /\ r = "get_users_accounts" =>
              Steps[r] = Auth \o <<"path", "query", "list", "balance">>
        /\ r = "get_accounts" => Steps[r] = Auth \o <<"account", "balance">>
        /\ r = "delete_accounts" => Steps[r] = Auth \o <<"delete">>
    BY <1>3 DEF AccountRoutes
  <2>3. QED
    BY <1>2, <1>7, <2>1, <2>2, Joined
<1>8. QED
  BY <1>5, <1>6, <1>7, Domains

LEMMA TidyTokens ==
    ASSUME NEW r \in DOMAIN TokenRoutes
    PROVE  Tidy(r, Steps[r])
<1>1. /\ r = "post_users_change_password" => LeftBehind[r] = {"session", "changePassword"}
      /\ r = "post_sessions_revoke" => LeftBehind[r] = {"session", "revokeJWT"}
      /\ r = "post_users_confirm_reset_password" => LeftBehind[r] = {"applyPasswordReset"}
      /\ r \in {"get_confirm_reset_password", "get_users_me", "post_sessions_refresh"} =>
            LeftBehind[r] = {"session"}
  BY Domains, LeftBehindIs DEF Routes
<1>2. r # "post_users_confirm_reset_password" => Harmless(r, Auth)
  BY <1>1, AuthFirst, Domains
<1>3. Steps[r] = TokenRoutes[r]
  BY Tables
<1>4. Tidy(r, RevokeTokenDb)
  <2>1. "revokeTokens" \notin Refusing(r)
    BY DEF CanRefuse, Refusing, OwnInput, Decodes, StoriqaCalls, TransactionsCalls
  <2>2. QED
    BY <2>1 DEF Tidy, Ordered, RevokeTokenDb, Names, Decodes, Changing, Finding
<1>5. CASE r = "post_users_change_password"
  <2>1. Harmless(r, <<"body", "changePassword">>)
    BY <1>1, <1>5 DEF Harmless, Names, OwnInput, StoriqaCalls, Changing, Finding
  <2>2. Steps[r] = Auth \o <<"body", "changePassword">> \o RevokeTokenDb
    BY <1>3, <1>5 DEF TokenRoutes
  <2>3. QED
    BY <1>2, <1>4, <1>5, <2>1, <2>2, Joined
<1>6. CASE r = "post_sessions_revoke"
  <2>1. Harmless(r, <<"revokeJWT">>)
    BY <1>1, <1>6 DEF Harmless, Names, StoriqaCalls, Changing, Finding
  <2>2. Steps[r] = Auth \o <<"revokeJWT">> \o RevokeTokenDb
    BY <1>3, <1>6 DEF TokenRoutes
  <2>3. QED
    BY <1>2, <1>4, <1>6, <2>1, <2>2, Joined
<1>7. CASE r = "post_users_confirm_reset_password"
  <2>1. Harmless(r, <<"body", "validate", "applyPasswordReset">>)
    BY <1>1, <1>7 DEF Harmless, Names, OwnInput, StoriqaCalls, Changing, Finding
  <2>2. Steps[r] = <<"body", "validate", "applyPasswordReset">> \o RevokeTokenDb
    BY <1>3, <1>7 DEF TokenRoutes
  <2>3. QED
    BY <1>4, <2>1, <2>2, Joined
<1>8. CASE r \in {"get_confirm_reset_password", "get_users_me", "post_sessions_refresh"}
  <2>1. /\ Tidy(r, <<>>)
        /\ Tidy(r, <<"me">>)
        /\ Tidy(r, <<"refreshJWT">>)
    BY DEF Tidy, Ordered, Names, StoriqaCalls, Finding
  <2>2. \/ Steps[r] = <<>>
        \/ Steps[r] = Auth \o <<"me">>
        \/ Steps[r] = Auth \o <<"refreshJWT">>
    BY <1>3, <1>8 DEF TokenRoutes
  <2>3. QED
    BY <1>2, <1>8, <2>1, <2>2, Joined
<1>9. QED
  BY <1>5, <1>6, <1>7, <1>8, Domains

\* The default accounts are made by three pairs of steps.
LEMMA DefaultsAre ==
    /\ DefaultAccounts \in Seq(Names) /\ Len(DefaultAccounts) = 6
    /\ DOMAIN DefaultAccounts = 1..6
    /\ \A i \in 1..6 : DefaultAccounts[i] \in {"createAccount", "accountRow"}
<1> DEFINE P == {"createAccount", "accountRow"}
<1>1. Len(Account) = 2
  BY DEF Account
<1>2. Account \in Seq(P)
  BY DEF Account
<1> HIDE DEF P
<1>3. Account \o Account \in Seq(P) /\ Len(Account \o Account) = 4
  <2>1. Account \o Account \in Seq(P) /\ Len(Account \o Account) = Len(Account) + Len(Account)
    BY <1>2, Concat
  <2>2. QED
    BY <1>1, <2>1
<1>4. DefaultAccounts \in Seq(P) /\ Len(DefaultAccounts) = 6
  BY <1>1, <1>2, <1>3, Concat DEF DefaultAccounts
<1>5. P \subseteq Names
  BY DEF P, Names, TransactionsCalls, Changing
<1>6. DOMAIN DefaultAccounts = 1..6 /\ \A i \in 1..6 : DefaultAccounts[i] \in P
  BY <1>4, LenProperties, ElementOfSeq
<1>7. DefaultAccounts \in Seq(Names)
  BY <1>4, <1>5
<1>8. QED
  BY <1>4, <1>6, <1>7 DEF P

\* Signing up: the user's row and what comes before it, then the default accounts.
LEMMA PostUsersIs ==
    LET q == Steps["post_users"]
    IN  /\ DOMAIN q = 1..10 /\ Len(q) = 10 /\ q \in Seq(Names)
        /\ \A i \in 1..4 : q[i] \in {"body", "validate", "createUser", "userRow"}
        /\ \A i \in 5..10 : q[i] \in {"createAccount", "accountRow"}
<1>1. Steps["post_users"] = <<"body", "validate", "createUser", "userRow">> \o DefaultAccounts
  BY Tables, Domains DEF UserRoutes
<1> DEFINE s == <<"body", "validate", "createUser", "userRow">>
<1>2. \A i \in 1..4 : s[i] \in {"body", "validate", "createUser", "userRow"}
  OBVIOUS
<1>3. Len(s) = 4
  OBVIOUS
<1>4. s \in Seq(Names)
  BY DEF Names, OwnInput, StoriqaCalls, Changing
<1> DEFINE q == s \o DefaultAccounts
<1>5. q = s \o DefaultAccounts
  OBVIOUS
<1> HIDE DEF s, q
<1>6. /\ q \in Seq(Names) /\ Len(q) = 10 /\ DOMAIN q = 1..10
      /\ \A i \in 1..4 : q[i] = s[i]
      /\ \A i \in 5..10 : q[i] = DefaultAccounts[i - 4]
  <2>1. s \in Seq(Names) /\ DefaultAccounts \in Seq(Names)
    BY <1>4, <1>5, DefaultsAre
  <2>2. q \in Seq(Names) /\ Len(q) = Len(s) + Len(DefaultAccounts)
    BY <2>1, <1>5, Concat
  <2>3. DOMAIN q = 1..(Len(s) + Len(DefaultAccounts))
    BY <2>2, LenProperties
  <2>4. \A i \in 1..Len(s) : q[i] = s[i]
    BY <2>1, <1>5, Concat
  <2>5. \A i \in (Len(s) + 1)..(Len(s) + Len(DefaultAccounts)) :
           q[i] = DefaultAccounts[i - Len(s)]
    BY <2>1, <1>5, Concat
  <2>6. QED
    BY <2>2, <2>3, <2>4, <2>5, <1>3, DefaultsAre
<1>7. \A i \in 5..10 : i - 4 \in 1..6
  OBVIOUS
<1>8. \A i \in 5..10 : q[i] \in {"createAccount", "accountRow"}
  BY <1>6, <1>7, DefaultsAre
<1>9. Steps["post_users"] = q
  BY <1>1 DEF s, q
<1>10. QED
  BY <1>2, <1>6, <1>8, <1>9

\* Signing in: the user's row is the fifth step, the default accounts the six after it.
LEMMA SessionsAre ==
    ASSUME NEW r \in DOMAIN SessionRoutes
    PROVE  LET q == Steps[r]
           IN  /\ DOMAIN q = 1..13 /\ Len(q) = 13 /\ q \in Seq(Names)
               /\ \A i \in 1..13 : q[i] = "mergeUser" <=> i = 5
               /\ \A i \in 1..13 : q[i] \in OfAccounts <=> i \in 5..11
<1> DEFINE a == <<"me", "mergeUser">>
<1> DEFINE z == <<"newJwt", "session">>
<1>1. a \in Seq(Names) /\ z \in Seq(Names)
  BY DEF Names, StoriqaCalls, Decodes, Changing
<1>2. Len(a) = 2 /\ a[1] = "me" /\ a[2] = "mergeUser"
  OBVIOUS
<1>3. Len(z) = 2 /\ z[1] = "newJwt" /\ z[2] = "session"
  OBVIOUS
<1> DEFINE h == a \o DefaultAccounts
<1>4. SignIn = h \o z
  BY DEF SignIn
<1>5. h = a \o DefaultAccounts
  OBVIOUS
<1> HIDE DEF a, z, h
<1>6. /\ h \in Seq(Names) /\ Len(h) = 8
      /\ \A i \in 1..2 : h[i] = a[i]
      /\ \A i \in 3..8 : h[i] = DefaultAccounts[i - 2]
  <2>1. a \in Seq(Names) /\ DefaultAccounts \in Seq(Names)
    BY <1>1, <1>5, DefaultsAre
  <2>2. h \in Seq(Names) /\ Len(h) = Len(a) + Len(DefaultAccounts)
    BY <2>1, <1>5, Concat
  <2>3. DOMAIN h = 1..(Len(a) + Len(DefaultAccounts))
    BY <2>2, LenProperties
  <2>4. \A i \in 1..Len(a) : h[i] = a[i]
    BY <2>1, <1>5, Concat
  <2>5. \A i \in (Len(a) + 1)..(Len(a) + Len(DefaultAccounts)) :
           h[i] = DefaultAccounts[i - Len(a)]
    BY <2>1, <1>5, Concat
  <2>6. QED
    BY <2>2, <2>3, <2>4, <2>5, <1>2, DefaultsAre
<1>7. /\ SignIn \in Seq(Names) /\ Len(SignIn) = 10
      /\ \A i \in 1..8 : SignIn[i] = h[i]
      /\ \A i \in 9..10 : SignIn[i] = z[i - 8]
  <2>1. h \in Seq(Names) /\ z \in Seq(Names)
    BY <1>1, <1>4, <1>6
  <2>2. SignIn \in Seq(Names) /\ Len(SignIn) = Len(h) + Len(z)
    BY <2>1, <1>4, Concat
  <2>3. DOMAIN SignIn = 1..(Len(h) + Len(z))
    BY <2>2, LenProperties
  <2>4. \A i \in 1..Len(h) : SignIn[i] = h[i]
    BY <2>1, <1>4, Concat
  <2>5. \A i \in (Len(h) + 1)..(Len(h) + Len(z)) : SignIn[i] = z[i - Len(h)]
    BY <2>1, <1>4, Concat
  <2>6. QED
    BY <2>2, <2>3, <2>4, <2>5, <1>3, <1>6
<1>8. /\ SignIn[1] = "me" /\ SignIn[2] = "mergeUser"
      /\ SignIn[9] = "newJwt" /\ SignIn[10] = "session"
  BY <1>2, <1>3, <1>6, <1>7
<1>9. \A i \in 3..8 : SignIn[i] \in {"createAccount", "accountRow"}
  <2>1. \A i \in 3..8 : i - 2 \in 1..6
    OBVIOUS
  <2>2. \A i \in 3..8 : SignIn[i] = DefaultAccounts[i - 2]
    BY <1>6, <1>7
  <2>3. QED
    BY <2>1, <2>2, DefaultsAre
<1>10. PICK s : /\ Steps[r] = s \o SignIn
               /\ s \in Seq(Names) /\ Len(s) = 3
               /\ \A i \in 1..3 : s[i] \notin OfAccounts
  <2> DEFINE e == <<"headers", "body", "getJWTByEmail">>
  <2> DEFINE p == <<"headers", "body", "getJWTByProvider">>
  <2>1. e \in Seq(Names) /\ p \in Seq(Names)
    BY DEF Names, OwnInput, StoriqaCalls
  <2>2. Len(e) = 3 /\ Len(p) = 3
    OBVIOUS
  <2>3. \A i \in 1..3 : e[i] \notin OfAccounts /\ p[i] \notin OfAccounts
    BY DEF OfAccounts
  <2>4. Steps[r] = e \o SignIn \/ Steps[r] = p \o SignIn
    BY Tables, Domains DEF SessionRoutes
  <2>5. QED
    BY <2>1, <2>2, <2>3, <2>4
<1> DEFINE q == Steps[r]
<1>11. q = s \o SignIn
  BY <1>10
<1> HIDE DEF q
<1>12. /\ q \in Seq(Names) /\ Len(q) = 13 /\ DOMAIN q = 1..13
       /\ \A i \in 1..3 : q[i] = s[i]
       /\ \A i \in 4..13 : q[i] = SignIn[i - 3]
  <2>1. s \in Seq(Names) /\ SignIn \in Seq(Names)
    BY <1>7, <1>10, <1>11
  <2>2. q \in Seq(Names) /\ Len(q) = Len(s) + Len(SignIn)
    BY <2>1, <1>11, Concat
  <2>3. DOMAIN q = 1..(Len(s) + Len(SignIn))
    BY <2>2, LenProperties
  <2>4. \A i \in 1..Len(s) : q[i] = s[i]
    BY <2>1, <1>11, Concat
  <2>5. \A i \in (Len(s) + 1)..(Len(s) + Len(SignIn)) : q[i] = SignIn[i - Len(s)]
    BY <2>1, <1>11, Concat
  <2>6. QED
    BY <2>2, <2>3, <2>4, <2>5, <1>7, <1>10
<1>13. /\ q[4] = "me" /\ q[5] = "mergeUser"
       /\ q[12] = "newJwt" /\ q[13] = "session"
  BY <1>8, <1>12
<1>14. \A i \in 6..11 : q[i] \in {"createAccount", "accountRow"}
  <2>1. \A i \in 6..11 : i - 3 \in 3..8
    OBVIOUS
  <2>2. QED
    BY <2>1, <1>9, <1>12
<1>15. ASSUME NEW i \in 1..13
       PROVE  /\ q[i] = "mergeUser" <=> i = 5
              /\ q[i] \in OfAccounts <=> i \in 5..11
  <2>1. i \in 1..3 \/ i = 4 \/ i = 5 \/ i \in 6..11 \/ i = 12 \/ i = 13
    OBVIOUS
  <2>2. CASE i \in 1..3
    BY <2>2, <1>10, <1>12 DEF OfAccounts
  <2>3. CASE i \in 6..11
    BY <2>3, <1>14 DEF OfAccounts
  <2>4. CASE i \in {4, 5, 12, 13}
    BY <2>4, <1>13 DEF OfAccounts
  <2>5. QED
    BY <2>1, <2>2, <2>3, <2>4
<1>16. QED
  BY <1>12, <1>15 DEF q

LEMMA TidyUsers ==
    ASSUME NEW r \in DOMAIN UserRoutes
    PROVE  Tidy(r, Steps[r])
<1>1. Steps[r] = UserRoutes[r]
  BY Tables
<1>2. CASE r = "put_users"
  <2>1. LeftBehind[r] = {"session"}
    BY <1>2, Domains, LeftBehindIs DEF Routes
  <2>2. "profile" \notin Refusing(r)
    BY DEF CanRefuse, Refusing, OwnInput, Decodes, StoriqaCalls, TransactionsCalls
  <2>3. Tidy(r, <<"body", "validate", "updateUser", "profile">>)
    BY <2>1, <2>2 DEF Tidy, Ordered, Names, OwnInput, StoriqaCalls, Changing, Finding
  <2>4. Steps[r] = Auth \o <<"body", "validate", "updateUser", "profile">>
    BY <1>1, <1>2 DEF UserRoutes
  <2>5. QED
    BY <2>1, <2>3, <2>4, AuthFirst, Joined
<1>3. CASE r = "post_users"
  <2>1. LeftBehind[r] = {"createUser"}
    BY <1>3, LeftBehindIs
  <2>2. Tidy(r, <<"body", "validate", "createUser", "userRow">>)
    BY <2>1 DEF Tidy, Ordered, Names, OwnInput, StoriqaCalls, Changing, Finding
  <2>3. /\ DefaultAccounts \in Seq(Names)
        /\ \A i \in DOMAIN DefaultAccounts :
              DefaultAccounts[i] \in {"createAccount", "accountRow"}
    BY DefaultsAre
  <2>4. Ordered(DefaultAccounts, Changing \ LeftBehind[r], Refusing(r))
    BY <1>3, <2>3 DEF Ordered, Refusing
  <2>5. Ordered(DefaultAccounts, Finding, Changing)
    BY <2>3 DEF Ordered, Finding
  <2>6. Steps[r] = <<"body", "validate", "createUser", "userRow">> \o DefaultAccounts
    BY <1>1, <1>3 DEF UserRoutes
  <2>7. /\ Ordered(Steps[r], Changing \ LeftBehind[r], Refusing(r))
        /\ Ordered(Steps[r], Finding, Changing)
    <3>1. \A i \in DOMAIN DefaultAccounts : /\ DefaultAccounts[i] \notin Refusing(r)
                                           /\ DefaultAccounts[i] \notin Finding
      BY <1>3, <2>3 DEF CanRefuse, Refusing, Finding
    <3>2. \A i \in DOMAIN <<"body", "validate", "createUser", "userRow">> :
             <<"body", "validate", "createUser", "userRow">>[i] \notin Finding
      BY DEF Finding
    <3>3. QED
      BY <2>2, <2>3, <2>4, <2>5, <2>6, <3>1, <3>2, OrderedConcat DEF Tidy
  <2>8. QED
    <3>1. Steps[r] \in Seq(Names) /\ \A i \in DOMAIN Steps[r] : Steps[r][i] # "mergeUser"
      BY <1>3, PostUsersIs
    <3>2. QED
      BY <2>7, <3>1 DEF Tidy
<1>4. QED
  BY <1>2, <1>3, Domains

-----------------------------------------------------------------------------
(* The statuses                                                            *)

LEMMA StatusesAre ==
    \A k : StatusOf(k) \in {400, 401, 404, 422, 500}
  BY DEF StatusOf

LEMMA Disjoint ==
    /\ \A s \in Decodes : s \notin OwnInput
    /\ \A s \in StoriqaCalls : s \notin OwnInput /\ s \notin Decodes
    /\ \A s \in TransactionsCalls :
          s \notin OwnInput /\ s \notin Decodes /\ s \notin StoriqaCalls
    /\ {"bearer", "headers", "path", "body", "query", "route", "validate"} \subseteq OwnInput
    /\ \A s \in OwnInput \cup Decodes \cup StoriqaCalls \cup TransactionsCalls :
          s # "fiat" /\ RefusalsOf(s) = {}
  BY DEF OwnInput, Decodes, StoriqaCalls, TransactionsCalls, RefusalsOf, Refusals

\* Whatever a server behind the gateway does ends as an internal error, but for what
\* Storiqa says.
LEMMA OutagesEnd ==
    ASSUME NEW s \in Names, NEW w \in Faults(s), Outage(s, w)
    PROVE  \/ StatusOf(ControllerKind(s, w)) = 500
           \/ /\ s \in StoriqaCalls \cup {"newJwt"}
              /\ <<w, StatusOf(ControllerKind(s, w))>> \in Misread
<1>1. CASE s \in OwnInput
  <2>1. w = "refused"
    BY <1>1, Disjoint DEF Faults
  <2>2. QED
    BY <1>1, <2>1 DEF Outage, Replies, OwnInput
<1>2. CASE s \in Decodes
  <2>1. w \in {"expired", "invalid"}
    BY <1>2, Disjoint DEF Faults
  <2>2. s = "newJwt"
    BY <2>1 DEF Outage, Replies
  <2>3. ServiceKind(s, w) = FromJwt(w)
    BY <1>2, Disjoint DEF ServiceKind
  <2>4. ControllerKind(s, w) = FromService(FromJwt(w))
    BY <1>2, <2>3, Disjoint DEF ControllerKind
  <2>5. CASE w = "expired"
    BY <2>2, <2>4, <2>5 DEF FromJwt, FromService, StatusOf, Misread
  <2>6. CASE w = "invalid"
    BY <2>2, <2>4, <2>6 DEF FromJwt, FromService, StatusOf, Misread
  <2>7. QED
    BY <2>1, <2>5, <2>6
<1>3. CASE s \in StoriqaCalls /\ w \in {"upstream", "nothing"}
  <2>1. ServiceKind(s, w) = FromStoriqa(StoriqaKind(w))
    BY <1>3, Disjoint DEF ServiceKind
  <2>2. ControllerKind(s, w) = FromService(FromStoriqa(StoriqaKind(w)))
    BY <1>3, <2>1, Disjoint DEF ControllerKind
  <2>3. CASE w = "upstream"
    BY <1>3, <2>2, <2>3 DEF StoriqaKind, FromStoriqa, FromService, StatusOf, Misread
  <2>4. CASE w = "nothing"
    BY <1>3, <2>2, <2>4 DEF StoriqaKind, FromStoriqa, FromService, StatusOf, Misread
  <2>5. QED
    BY <1>3, <2>3, <2>4
<1>4. CASE s \in StoriqaCalls /\ w \notin {"upstream", "nothing"}
  <2>1. w \in Replies
    <3>1. w \in Replies \cup {"errors"}
      BY <1>4, Disjoint DEF Faults
    <3>2. s # "newJwt"
      BY <1>4 DEF StoriqaCalls
    <3>3. QED
      BY <3>1, <3>2 DEF Outage, Replies
  <2>2. StoriqaKind(w) = "Internal"
    BY <2>1 DEF StoriqaKind, Replies
  <2>3. ServiceKind(s, w) = FromStoriqa("Internal")
    BY <1>4, <2>2, Disjoint DEF ServiceKind
  <2>4. ServiceKind(s, w) = "Internal"
    BY <2>3 DEF FromStoriqa
  <2>5. ControllerKind(s, w) = FromService("Internal")
    BY <1>4, <2>4, Disjoint DEF ControllerKind
  <2>6. ControllerKind(s, w) = "Internal"
    BY <2>5 DEF FromService
  <2>7. QED
    BY <2>6 DEF StatusOf
<1>5. CASE s \in TransactionsCalls
  <2>1. w \in Replies /\ w # "422"
    <3>1. w \in Replies
      BY <1>5, Disjoint DEF Faults
    <3>2. s # "newJwt"
      BY <1>5 DEF TransactionsCalls
    <3>3. QED
      BY <1>5, <3>1, <3>2 DEF Outage, Replies
  <2>2. HttpKind(w) # "Validation"
    BY <2>1 DEF HttpKind, Replies
  <2>3. TransactionsKind(w) = "Internal"
    BY <2>2 DEF TransactionsKind
  <2>4. ServiceKind(s, w) = FromTransactions("Internal")
    BY <1>5, <2>3, Disjoint DEF ServiceKind
  <2>5. ServiceKind(s, w) = "Internal"
    BY <2>4 DEF FromTransactions
  <2>6. ControllerKind(s, w) = FromService("Internal")
    BY <1>5, <2>5, Disjoint DEF ControllerKind
  <2>7. ControllerKind(s, w) = "Internal"
    BY <2>6 DEF FromService
  <2>8. QED
    BY <2>7 DEF StatusOf
<1>6. CASE s \notin OwnInput \cup Decodes \cup StoriqaCalls \cup TransactionsCalls
  <2>1. w \notin RefusalsOf(s) \cup {"unique"} => w = "failed"
    BY <1>6 DEF Faults
  <2>2. RefusalsOf(s) \subseteq {"Unauthorized", "InvalidInput", "NotFound"}
    BY DEF RefusalsOf, Refusals
  <2>3. w = "failed"
    BY <1>6, <2>1, <2>2 DEF Outage, Replies, Decodes
  <2>4. ServiceKind(s, w) = "Internal"
    BY <1>6, <2>2, <2>3 DEF ServiceKind, FromRepos, ReposKind, OwnInput
  <2>5. ControllerKind(s, w) = "Internal"
    BY <1>6, <2>4 DEF ControllerKind, FromService, OwnInput
  <2>6. QED
    BY <2>5 DEF StatusOf
<1>7. QED
  BY <1>1, <1>2, <1>3, <1>5, <1>6, <1>4

\* All other statuses than 500 come from steps that can refuse.
LEMMA OthersCanRefuse ==
    ASSUME NEW s \in Names, NEW w \in Faults(s), StatusOf(ControllerKind(s, w)) # 500
    PROVE  s \in CanRefuse
<1>1. SUFFICES ASSUME s \notin CanRefuse
               PROVE  FALSE
  OBVIOUS
<1>2. /\ s \notin OwnInput /\ s \notin Decodes
      /\ s \notin StoriqaCalls /\ s \notin TransactionsCalls
  BY <1>1 DEF CanRefuse
<1>3. s \notin DOMAIN Refusals
  BY <1>1 DEF CanRefuse, Refusals
<1>4. w = "failed" \/ (w = "unique" /\ s \in Keyed)
  BY <1>2, <1>3 DEF Faults, RefusalsOf
<1>5. s \in Keyed => s = "fiat"
  BY <1>1 DEF CanRefuse, Keyed
<1>6. ServiceKind(s, w) = "Internal"
  BY <1>2, <1>3, <1>4, <1>5
  DEF ServiceKind, RefusalsOf, FromRepos, ReposKind, OwnInput
<1>7. ControllerKind(s, w) = "Internal"
  BY <1>2, <1>6 DEF ControllerKind, FromService, OwnInput
<1>8. QED
  BY <1>7 DEF StatusOf

LEMMA StepsAreTidy ==
    ASSUME NEW r \in Routes
    PROVE  Tidy(r, Steps[r])
<1>1. Tidy("not_found", Steps["not_found"])
  BY Tables DEF Tidy, Ordered, Names, OwnInput
<1>2. QED
  BY <1>1, TidySessions, TidyForwarded, TidyDevices, TidyTokens, TidyUsers, TidyAccounts,
     TidyTransactions, TidyRates DEF Routes

-----------------------------------------------------------------------------
(* The invariant                                                           *)

PlaceInv == route \in Routes /\ at \in 1..End

\* What is done is behind the request, or failed in the doing.
DoneInv ==
    /\ \A i \in done : /\ i \in DOMAIN Steps[route] /\ i <= at
                       /\ Steps[route][i] \in Changing
    /\ status = 0 => at \notin done

\* A request is under way, or was answered at its end, or failed where it is.
EndedInv ==
    \/ fault = NoFault /\ status = 0
    \/ fault = NoFault /\ status \in {200, 308} /\ at = End
    \/ /\ at < End /\ ~Ignored
       /\ \E w \in Faults(Step) :
             /\ fault = <<Step, w>>
             /\ status = StatusOf(ControllerKind(Step, w))
             /\ at \in done => Outage(Step, w)

Missing == {i \in DOMAIN Steps[route] : /\ i < at /\ i \notin done
                                        /\ Steps[route][i] \in Changing \ ({"fiat", "device"} \cup Flagged)}

\* What was passed over is the rest of the default accounts, or all of them and the row.
MissingInv ==
    \/ Missing = {}
    \/ route = "post_users" /\ at = End /\ Missing \subseteq 5..10
    \/ /\ route \in DOMAIN SessionRoutes /\ at > 11
       /\ Missing \subseteq 5..11 /\ done \cap (5..11) = {}

AnswerInv == PlaceInv /\ DoneInv /\ EndedInv /\ MissingInv

LEMMA AnswerInitInv ==
    ASSUME AnswerInit
    PROVE  AnswerInv
<1>1. Steps[route] \in Seq(Names)
  BY StepsAreTidy DEF AnswerInit, Tidy
<1>2. Len(Steps[route]) \in Nat /\ DOMAIN Steps[route] = 1..Len(Steps[route])
  BY <1>1, LenProperties
<1>3. Missing = {}
  BY <1>2 DEF AnswerInit, Missing
<1>4. QED
  BY <1>2, <1>3 DEF AnswerInit, AnswerInv, PlaceInv, DoneInv, EndedInv, MissingInv, End

\* Where the request is.
LEMMA Placed ==
    ASSUME PlaceInv
    PROVE  /\ Steps[route] \in Seq(Names) /\ Len(Steps[route]) \in Nat
           /\ DOMAIN Steps[route] = 1..Len(Steps[route])
           /\ at \in Nat /\ at >= 1 /\ at <= Len(Steps[route]) + 1
           /\ at < End => at \in DOMAIN Steps[route] /\ Step \in Names
<1>1. Steps[route] \in Seq(Names)
  BY StepsAreTidy DEF PlaceInv, Tidy
<1>2. Len(Steps[route]) \in Nat /\ DOMAIN Steps[route] = 1..Len(Steps[route])
  BY <1>1, LenProperties
<1>3. at \in Nat /\ at >= 1 /\ at <= Len(Steps[route]) + 1
  BY <1>2 DEF PlaceInv, End
<1>4. at < End => at \in DOMAIN Steps[route] /\ Step \in Names
  BY <1>1, <1>2, <1>3, ElementOfSeq DEF End, Step
<1>5. QED
  BY <1>1, <1>2, <1>3, <1>4

LEMMA ProceedInv ==
    ASSUME AnswerInv, Proceed \/ NothingToDo \/ Unsuccessful
    PROVE  AnswerInv'
<1> USE Placed DEF AnswerInv
<1>1. /\ at < End /\ status = 0 /\ at' = at + 1 /\ UNCHANGED <<route, fault, status>>
      /\ done' = done \/ done' = done \cup Effect
  BY DEF Proceed, NothingToDo, Unsuccessful, Working
<1>2. PlaceInv'
  BY <1>1 DEF PlaceInv, End
<1>3. \A i \in done' : i \in done \/ (i = at /\ Step \in Changing)
  BY <1>1 DEF Effect
<1>4. DoneInv'
  BY <1>1, <1>3 DEF DoneInv, Step, End
<1>5. EndedInv'
  <2>1. fault = NoFault
    BY <1>1, StatusesAre DEF EndedInv
  <2>2. QED
    BY <1>1, <2>1 DEF EndedInv
<1>6. MissingInv'
  <2>1. Step \in Changing \ ({"fiat", "device"} \cup Flagged) => at \in done'
    BY <1>1 DEF Proceed, NothingToDo, Unsuccessful, Effect
  <2>2. Missing' \subseteq Missing
    BY <1>1, <2>1 DEF Missing, Step
  <2>3. done' \subseteq done \cup {at}
    BY <1>1 DEF Effect
  <2>4. QED
    BY <1>1, <2>2, <2>3 DEF MissingInv, End
<1>7. QED
  BY <1>2, <1>4, <1>5, <1>6

LEMMA FoundUserInv ==
    ASSUME AnswerInv, FoundUser
    PROVE  AnswerInv'
<1> USE Placed DEF AnswerInv
<1>1. /\ at < End /\ status = 0 /\ Step = "mergeUser"
      /\ at' = at + 1 + Len(DefaultAccounts)
      /\ UNCHANGED <<route, done, fault, status>>
  BY DEF FoundUser, Working
<1>2. route \in Routes /\ route \in DOMAIN SessionRoutes
  <2>1. Tidy(route, Steps[route])
    BY StepsAreTidy DEF PlaceInv
  <2>2. QED
    BY <1>1, <2>1 DEF Tidy, Step, PlaceInv
<1>3. at = 5 /\ Len(Steps[route]) = 13
  BY <1>1, <1>2, SessionsAre DEF Step
<1>4. at' = 12
  BY <1>1, <1>3, DefaultsAre
<1>5. PlaceInv'
  BY <1>1, <1>2, <1>3, <1>4 DEF PlaceInv, End
<1>6. DoneInv'
  BY <1>1, <1>3, <1>4 DEF DoneInv
<1>7. EndedInv'
  <2>1. fault = NoFault
    BY <1>1, StatusesAre DEF EndedInv
  <2>2. QED
    BY <1>1, <2>1 DEF EndedInv
<1>8. MissingInv'
  <2>1. Missing = {}
    BY <1>1, <1>3 DEF MissingInv
  <2>2. Missing' \subseteq 5..11
    BY <1>1, <1>3, <1>4, <2>1 DEF Missing
  <2>3. done \cap (5..11) = {}
    BY <1>1, <1>3 DEF DoneInv
  <2>4. QED
    BY <1>1, <1>2, <1>4, <2>2, <2>3 DEF MissingInv
<1>9. QED
  BY <1>5, <1>6, <1>7, <1>8

LEMMA FoundNothingInv ==
    ASSUME AnswerInv, FoundNothing \/ ListedNothing
    PROVE  AnswerInv'
<1> USE Placed DEF AnswerInv
<1>1. /\ at < End /\ status = 0 /\ Step \in Finding /\ at' = End
      /\ UNCHANGED <<route, done, fault, status>>
  BY DEF FoundNothing, ListedNothing, Working, Finding
<1>2. PlaceInv'
  BY <1>1 DEF PlaceInv, End
<1>3. DoneInv'
  BY <1>1 DEF DoneInv, End
<1>4. EndedInv'
  <2>1. fault = NoFault
    BY <1>1, StatusesAre DEF EndedInv
  <2>2. QED
    BY <1>1, <2>1 DEF EndedInv
<1>5. MissingInv'
  <2>1. Ordered(Steps[route], Finding, Changing)
    BY StepsAreTidy DEF PlaceInv, Tidy
  <2>2. Step \notin Changing
    BY <1>1 DEF Finding, Changing
  <2>3. \A i \in DOMAIN Steps[route] : Steps[route][i] \in Changing => i < at
    BY <1>1, <2>1, <2>2 DEF Ordered, Step
  <2>4. Missing' \subseteq Missing
    BY <1>1, <2>3 DEF Missing
  <2>5. QED
    BY <1>1, <2>4 DEF MissingInv, End
<1>6. QED
  BY <1>2, <1>3, <1>4, <1>5

\* A step that fails may be done all the same.
LEMMA FailedStep ==
    ASSUME NEW w, done' \in DoneAnyway(w)
    PROVE  /\ done' = done \/ done' = done \cup Effect
           /\ done' # done => Outage(Step, w)
           /\ \A i \in done' : i \in done \/ (i = at /\ Step \in Changing)
  BY DEF DoneAnyway, Effect

LEMMA IgnoreInv ==
    ASSUME AnswerInv, Working, NEW w \in Faults(Step), Ignore(w)
    PROVE  AnswerInv'
<1> USE Placed DEF AnswerInv
<1>1. /\ at < End /\ status = 0 /\ route = "post_users" /\ at' = End
      /\ Step \in {"createAccount", "accountRow"}
      /\ UNCHANGED <<route, fault, status>>
  BY DEF Ignore, Working, Ignored, ToSet, Account
<1>2. \A i \in done' : i \in done \/ (i = at /\ Step \in Changing)
  BY FailedStep DEF Ignore
<1>3. at \in 5..10 /\ Len(Steps[route]) = 10
  <2>1. Len(Steps[route]) = 10 /\ at \in 1..10
    BY <1>1, PostUsersIs
  <2>2. Step \notin {"body", "validate", "createUser", "userRow"}
    BY <1>1
  <2>3. at \notin 1..4
    BY <1>1, <2>2, PostUsersIs DEF Step
  <2>4. QED
    BY <2>1, <2>3
<1>4. PlaceInv'
  BY <1>1 DEF PlaceInv, End
<1>5. DoneInv'
  BY <1>1, <1>2 DEF DoneInv, Step, End
<1>6. EndedInv'
  <2>1. fault = NoFault
    BY <1>1, StatusesAre DEF EndedInv
  <2>2. QED
    BY <1>1, <2>1 DEF EndedInv
<1>7. MissingInv'
  <2>1. Missing = {}
    BY <1>1, Domains DEF MissingInv
  <2>2. done \subseteq done'
    BY FailedStep DEF Ignore
  <2>3. Missing' \subseteq 5..10
    BY <1>1, <1>3, <2>1, <2>2 DEF Missing
  <2>4. QED
    BY <1>1, <2>3 DEF MissingInv, End
<1>8. QED
  BY <1>4, <1>5, <1>6, <1>7

LEMMA FailInv ==
    ASSUME AnswerInv, Working, NEW w \in Faults(Step), Fail(w)
    PROVE  AnswerInv'
<1> USE Placed DEF AnswerInv
<1>1. /\ at < End /\ status = 0 /\ ~Ignored
      /\ fault' = <<Step, w>> /\ status' = StatusOf(ControllerKind(Step, w))
      /\ UNCHANGED <<route, at>>
  BY DEF Fail, Working
<1>2. /\ \A i \in done' : i \in done \/ (i = at /\ Step \in Changing)
      /\ done \subseteq done'
      /\ done' # done => Outage(Step, w)
  BY FailedStep DEF Fail
<1>3. PlaceInv'
  BY <1>1 DEF PlaceInv, End
<1>4. DoneInv'
  BY <1>1, <1>2, StatusesAre DEF DoneInv, Step
<1>5. EndedInv'
  <2>1. at \in done' => Outage(Step, w)
    BY <1>1, <1>2 DEF DoneInv
  <2>2. End' = End /\ Step' = Step /\ Ignored' = Ignored
    BY <1>1 DEF End, Step, Ignored
  <2>3. (at < End /\ ~Ignored)'
    BY <1>1, <2>2
  <2>4. \E u \in Faults(Step') :
           /\ fault' = <<Step', u>>
           /\ status' = StatusOf(ControllerKind(Step', u))
           /\ at' \in done' => Outage(Step', u)
    BY <1>1, <2>1, <2>2
  <2>5. QED
    BY <2>3, <2>4 DEF EndedInv
<1>6. MissingInv'
  <2>1. Missing' \subseteq Missing
    BY <1>1, <1>2 DEF Missing
  <2>2. route \in DOMAIN SessionRoutes /\ at > 11 =>
           (done' \cap (5..11) = {} <=> done \cap (5..11) = {})
    BY <1>1, <1>2
  <2>3. QED
    BY <1>1, <2>1, <2>2 DEF MissingInv, End
<1>7. QED
  BY <1>3, <1>4, <1>5, <1>6

LEMMA RespondInv ==
    ASSUME AnswerInv, Respond
    PROVE  AnswerInv'
<1> USE Placed DEF AnswerInv
<1>1. /\ at = End /\ status = 0 /\ status' \in {200, 308}
      /\ UNCHANGED <<route, at, done, fault>>
  BY DEF Respond
<1>2. PlaceInv' /\ DoneInv' /\ MissingInv'
  BY <1>1 DEF PlaceInv, DoneInv, MissingInv, Missing, End
<1>3. EndedInv'
  BY <1>1, StatusesAre DEF EndedInv, End
<1>4. QED
  BY <1>2, <1>3

LEMMA AnswerStepInv ==
    ASSUME AnswerInv, [AnswerNext]_answerVars
    PROVE  AnswerInv'
<1>1. CASE UNCHANGED answerVars
  BY <1>1 DEF answerVars, AnswerInv, PlaceInv, DoneInv, EndedInv, MissingInv, Missing,
              End, Step, Ignored
<1>2. CASE AnswerNext
  BY <1>2, ProceedInv, FoundUserInv, FoundNothingInv, IgnoreInv, FailInv, RespondInv
  DEF AnswerNext
<1>3. QED
  BY <1>1, <1>2

\* The invariant holds always: of MissingInv, that merge_user is the only way past the
\* default accounts and that signing up is the only route that ignores their failure.
THEOREM AnswersInvariance == AnswerSpec => []AnswerInv
  BY AnswerInitInv, AnswerStepInv, PTL DEF AnswerSpec

-----------------------------------------------------------------------------
(* The properties                                                          *)

\* A failure is that of the step the request is at.
LEMMA FailedHere ==
    ASSUME AnswerInv, fault # NoFault \/ status \notin {0, 200, 308}
    PROVE  /\ at < End /\ at \in DOMAIN Steps[route] /\ Step \in Names /\ ~Ignored
           /\ fault[1] = Step /\ fault[2] \in Faults(Step)
           /\ status = StatusOf(ControllerKind(Step, fault[2]))
           /\ at \in done => Outage(Step, fault[2])
  BY Placed DEF AnswerInv, EndedInv

LEMMA InvType ==
    ASSUME AnswerInv
    PROVE  AnswerTypeOK
<1>1. route \in Routes /\ at \in 1..End
  BY DEF AnswerInv, PlaceInv
<1>2. done \subseteq {i \in DOMAIN Steps[route] : Steps[route][i] \in Changing}
  BY DEF AnswerInv, DoneInv
<1>3. fault # NoFault => fault[1] \in ToSet(Steps[route]) /\ fault[2] \in Faults(fault[1])
  BY FailedHere DEF Step, ToSet
<1>4. status \in {0, 200, 308, 400, 401, 404, 422, 500}
  BY StatusesAre DEF AnswerInv, EndedInv
<1>5. QED
  BY <1>1, <1>2, <1>3, <1>4 DEF AnswerTypeOK

LEMMA InvOutages ==
    ASSUME AnswerInv
    PROVE  OnlyStoriqaBlames
  BY FailedHere, OutagesEnd DEF OnlyStoriqaBlames

LEMMA InvRefusals ==
    ASSUME AnswerInv
    PROVE  RefusalsLeaveNothing
<1> SUFFICES ASSUME Refused
             PROVE  DoneSteps \subseteq LeftBehind[route] \cup Unclear
  BY DEF RefusalsLeaveNothing
<1>1. status \notin {0, 200, 308}
  BY DEF Refused
<1>2. status # 500
  BY DEF Refused
<1>3. Step \in Refusing(route)
  <2>1. Step \in CanRefuse
    BY <1>1, <1>2, FailedHere, OthersCanRefuse
  <2>2. route = "post_users" => Step \notin {"createAccount", "accountRow"}
    BY <1>1, FailedHere DEF Ignored, ToSet, Account
  <2>3. QED
    BY <2>1, <2>2 DEF Refusing
<1>4. at \in done => Step \in Unclear
  <2>1. SUFFICES ASSUME at \in done
                 PROVE  fault[2] \in {"upstream", "nothing"}
    BY <1>1, FailedHere DEF Unclear
  <2>2. <<fault[2], status>> \in Misread
    BY <1>1, <1>2, <2>1, FailedHere, OutagesEnd
  <2>3. Step \in Changing
    BY <2>1 DEF AnswerInv, DoneInv, Step
  <2>4. Step \notin Decodes
    BY <2>3 DEF Changing, Decodes
  <2>5. fault[2] \notin {"invalid", "expired"}
    <3>1. fault[2] \in Faults(Step)
      BY <1>1, FailedHere
    <3>2. RefusalsOf(Step) \subseteq {"Unauthorized", "InvalidInput", "NotFound"}
      BY DEF RefusalsOf, Refusals
    <3>3. QED
      BY <2>4, <3>1, <3>2 DEF Faults, Replies
  <2>6. QED
    BY <2>2, <2>5 DEF Misread
<1>5. Ordered(Steps[route], Changing \ LeftBehind[route], Refusing(route))
  BY StepsAreTidy DEF AnswerInv, PlaceInv, Tidy
<1>6. ASSUME NEW i \in done
      PROVE  Steps[route][i] \in LeftBehind[route] \cup Unclear
  <2>1. i \in DOMAIN Steps[route] /\ i <= at /\ Steps[route][i] \in Changing
    BY DEF AnswerInv, DoneInv
  <2>2. CASE i = at
    BY <1>4, <2>2 DEF Step
  <2>3. CASE i # at
    <3>1. at \in DOMAIN Steps[route] /\ i < at
      BY <1>1, <2>1, <2>3, FailedHere, Placed DEF AnswerInv
    <3>2. QED
      BY <1>3, <1>5, <2>1, <3>1 DEF Ordered, Step
  <2>4. QED
    BY <2>2, <2>3
<1>7. QED
  BY <1>6 DEF DoneSteps

LEMMA InvSuccess ==
    ASSUME AnswerInv
    PROVE  SuccessIsWhole
<1> SUFFICES ASSUME status \in {200, 308}, NEW i \in DOMAIN Steps[route] \ done,
                    Steps[route][i] \in Changing \ ({"fiat", "device"} \cup Flagged)
             PROVE  /\ Steps[route][i] \in OfAccounts
                    /\ \/ route = "post_users"
                       \/ /\ route \in DOMAIN SessionRoutes
                          /\ DoneSteps \cap OfAccounts = {}
  BY DEF SuccessIsWhole, OfAccounts, ToSet, Account
<1>1. at = End
  BY StatusesAre DEF AnswerInv, EndedInv
<1>2. i \in Missing
  BY <1>1, Placed DEF Missing, AnswerInv, End
<1>3. CASE route = "post_users"
  <2>1. i \in 5..10
    BY <1>2, <1>3, Domains DEF AnswerInv, MissingInv
  <2>2. QED
    BY <1>3, <2>1, PostUsersIs DEF OfAccounts
<1>4. CASE route # "post_users"
  <2>1. route \in DOMAIN SessionRoutes /\ i \in 5..11 /\ done \cap (5..11) = {}
    BY <1>2, <1>4 DEF AnswerInv, MissingInv
  <2>2. \A j \in DOMAIN Steps[route] : Steps[route][j] \in OfAccounts <=> j \in 5..11
    <3>1. DOMAIN Steps[route] = 1..13
      BY <2>1, SessionsAre
    <3>2. \A j \in 1..13 : Steps[route][j] \in OfAccounts <=> j \in 5..11
      BY <2>1, SessionsAre
    <3>3. QED
      BY <3>1, <3>2
  <2>3. done \subseteq DOMAIN Steps[route]
    BY DEF AnswerInv, DoneInv
  <2>4. QED
    BY <2>1, <2>2, <2>3 DEF DoneSteps
<1>5. QED
  BY <1>3, <1>4

\* Every variable stays in its type (the routes of api/mod.rs and their steps).
THEOREM AnswerTypeCorrect == AnswerSpec => []AnswerTypeOK
  BY AnswersInvariance, InvType, PTL

\* Through the conversions of client/error, services/error.rs and the controllers, a
\* failure of a server behind the gateway is answered with 500, unless Storiqa tells of
\* it in errors (422), replies with nothing (401) or hands out a token that cannot be
\* read (401) or has expired (422).
THEOREM BlamesAreStoriqas == AnswerSpec => []OnlyStoriqaBlames
  BY AnswersInvariance, InvOutages, PTL

\* On every route, what comes before the last party that can refuse changes nothing
\* that is not named; what Storiqa failed at without refusing it may be done as well.
THEOREM RefusedIsUndone == AnswerSpec => []RefusalsLeaveNothing
  BY AnswersInvariance, InvRefusals, PTL

\* What is answered with success is done, but for default accounts and for what Storiqa
\* reports as unsuccessful (client/storiqa/mod.rs ignores the flag).
THEOREM AcceptedIsDone == AnswerSpec => []SuccessIsWhole
  BY AnswersInvariance, InvSuccess, PTL
=============================================================================
