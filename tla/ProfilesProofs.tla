--------------------------- MODULE ProfilesProofs ---------------------------
(***************************************************************************)
(* Proofs about module Profiles: what holds for any requests, in whatever  *)
(* order their calls and statements come.                                  *)
(***************************************************************************)
EXTENDS Profiles, TLAPS

\* What a request has behind it by each stage.
StageInv == \A r \in Requests :
    /\ stage[r] \in Waiting => Kind[r] = "put"
    /\ stage[r] \in {"find", "insert"} => Kind[r] \in {"signup", "signin"} /\ seen[r] # Absent
    /\ stage[r] = "new" => r \notin applied \cup wire
    /\ r \in wire => Kind[r] = "put" /\ r \notin applied
    /\ Kind[r] = "put" /\ stage[r] \in {"store", "ok"} => r \in applied

\* The row comes after the user at Storiqa and before every PUT.
RowInv ==
    /\ storiqa = Absent => row = Absent /\ \A r \in Requests : seen[r] = Absent
    /\ row = Absent => \A r \in Requests : Kind[r] = "put" => r \notin wire \cup applied

\* A value in a field comes from a request among done, for that field.
Genuine(p, done) == \A f \in Fields :
    p[f] \in Requests => p[f] \in done /\ f \in Sets[p[f]]

SourceInv ==
    /\ storiqa # Absent => Genuine(storiqa, applied)
    /\ row # Absent => Genuine(row, applied)
    /\ \A r \in Requests : seen[r] # Absent => Genuine(seen[r], applied)

ChangedElsewhere(f) == storiqa[f] \in Requests /\ Kind[storiqa[f]] = "elsewhere"

\* What is about to be inserted is out of date only by changes elsewhere.
FreshInv == row = Absent => \A r \in Requests, f \in Fields :
    stage[r] \in {"find", "insert"} => seen[r][f] = storiqa[f] \/ ChangedElsewhere(f)

\* The last change of f at Storiqa is a PUT that is alone with it, and is in the
\* row once it has ended well.
Alone(f) ==
    /\ Between(f) \subseteq {storiqa[f]}
    /\ stage[storiqa[f]] = "ok" => row[f] = storiqa[f]

PutLast(f) ==
    /\ storiqa[f] \in Requests /\ Kind[storiqa[f]] = "put"
    /\ stage[storiqa[f]] = "error" \/ <<storiqa[f], f>> \in met \/ Alone(f)

Quiet(f) == Between(f) = {} /\ row[f] = Stored(storiqa)[f]

AgreeInv == row # Absent => \A f \in Fields : ChangedElsewhere(f) \/ PutLast(f) \/ Quiet(f)

IInv == TypeOK /\ StageInv /\ RowInv /\ SourceInv /\ FreshInv /\ AgreeInv

-----------------------------------------------------------------------------
\* A profile to store is a profile, and has a request's value where it had one.
LEMMA StoredType ==
    ASSUME NEW p \in Profile
    PROVE  /\ Stored(p) \in Profile
           /\ \A f \in Fields : Stored(p)[f] \in Requests \/ p[f] \in Requests => Stored(p)[f] = p[f]
  BY ProfilesAssumption DEF Profile, Stored, Values, Other

LEMMA ProfileIsThere == Absent \notin Profile
  BY ProfilesAssumption DEF Profile

LEMMA UpdatedType ==
    ASSUME NEW p \in Profile, NEW r \in Requests
    PROVE  /\ Updated(p, r) \in Profile
           /\ \A f \in Fields : f \in Sets[r] => Updated(p, r)[f] = r
           /\ \A f \in Fields : f \notin Sets[r] => Updated(p, r)[f] = p[f]
  BY DEF Profile, Updated, Values

LEMMA InitInv ==
    ASSUME Init
    PROVE  IInv
<1> USE ProfilesAssumption, ProfileIsThere DEF Init
<1>1. storiqa = Absent \/ (storiqa \in Profile /\ \A f \in Fields : storiqa[f] \in Other)
  BY DEF Profile, Values, Other
<1>2. row = Absent \/ (storiqa # Absent /\ row = Stored(storiqa))
  OBVIOUS
<1>3. TypeOK
  BY <1>1, <1>2, StoredType DEF TypeOK, Stages, Waiting, Ended
<1>4. StageInv /\ FreshInv
  BY DEF StageInv, FreshInv, Waiting
<1>5. RowInv
  BY <1>2 DEF RowInv
<1>6. SourceInv
  BY <1>1, <1>2, StoredType DEF SourceInv, Genuine
<1>7. AgreeInv
  BY <1>2 DEF AgreeInv, Quiet, Between
<1>8. QED
  BY <1>3, <1>4, <1>5, <1>6, <1>7 DEF IInv

-----------------------------------------------------------------------------
LEMMA TypeStep ==
    ASSUME IInv, [Next]_vars
    PROVE  TypeOK'
<1> USE DEF IInv, TypeOK, Goto, Stages, Waiting, Ended
<1>1. ASSUME NEW r \in Requests, SignUp(r)
      PROVE  TypeOK'
  <2>1. storiqa' \in Profile
    BY <1>1 DEF SignUp, Profile, Values, Other
  <2>2. QED
    BY <1>1, <2>1 DEF SignUp
<1>2. ASSUME NEW r \in Requests, ReadMe(r) \/ FindUser(r) \/ GetAnswer(r) \/ Send(r) \/ Fails(r)
      PROVE  TypeOK'
  BY <1>2 DEF ReadMe, FindUser, GetAnswer, Send, Fails
<1>3. ASSUME NEW r \in Requests, InsertUser(r)
      PROVE  TypeOK'
  <2>1. stage[r] = "insert" => seen[r] \in Profile
    BY DEF StageInv
  <2>2. QED
    BY <1>3, <2>1, StoredType DEF InsertUser
<1>4. ASSUME NEW r \in Requests, UpdateRow(r)
      PROVE  TypeOK'
  <2>1. row \in Profile
    BY <1>4 DEF UpdateRow, StageInv, RowInv
  <2>2. QED
    BY <1>4, <2>1, UpdatedType DEF UpdateRow
<1>5. ASSUME NEW r \in Requests, Receive(r)
      PROVE  TypeOK'
  <2>1. storiqa \in Profile
    BY <1>5 DEF Receive, StageInv, RowInv
  <2>2. Meeting(r) \subseteq Requests \X Fields
    BY DEF Meeting
  <2>3. QED
    BY <1>5, <2>1, <2>2, UpdatedType DEF Receive
<1>6. ASSUME NEW r \in Requests, ChangeElsewhere(r)
      PROVE  TypeOK'
  BY <1>6, UpdatedType DEF ChangeElsewhere
<1>7. CASE UNCHANGED vars
  BY <1>7 DEF vars
<1>8. QED
  BY <1>1, <1>2, <1>3, <1>4, <1>5, <1>6, <1>7 DEF Next

\* What Storiqa has carried out stays carried out.
LEMMA AppliedGrows ==
    ASSUME [Next]_vars
    PROVE  applied \subseteq applied' /\ met \subseteq met'
  BY DEF Next, vars, SignUp, ReadMe, FindUser, InsertUser, Send, Receive, GetAnswer,
         UpdateRow, ChangeElsewhere, Fails

LEMMA StageStep ==
    ASSUME IInv, [Next]_vars
    PROVE  StageInv' /\ RowInv'
<1> USE ProfileIsThere DEF IInv, TypeOK, StageInv, RowInv, Goto, Stages, Waiting, Ended
<1>1. ASSUME NEW r \in Requests, SignUp(r)
      PROVE  StageInv' /\ RowInv'
  <2>1. storiqa' # Absent /\ storiqa = Absent
    BY <1>1, TypeStep DEF SignUp, TypeOK, Profile, Values, Other
  <2>2. StageInv'
    BY <1>1, <2>1 DEF SignUp
  <2>3. RowInv'
    BY <1>1, <2>1 DEF SignUp
  <2>4. QED
    BY <2>2, <2>3
<1>2. ASSUME NEW r \in Requests, ReadMe(r)
      PROVE  StageInv' /\ RowInv'
  BY <1>2 DEF ReadMe
<1>3. ASSUME NEW r \in Requests, FindUser(r) \/ Fails(r)
      PROVE  StageInv' /\ RowInv'
  BY <1>3 DEF FindUser, Fails
<1>4. ASSUME NEW r \in Requests, InsertUser(r)
      PROVE  StageInv' /\ RowInv'
  <2>1. storiqa # Absent /\ seen[r] \in Profile
    BY <1>4 DEF InsertUser
  <2>2. StageInv'
    BY <1>4 DEF InsertUser
  <2>3. RowInv'
    BY <1>4, <2>1, StoredType DEF InsertUser
  <2>4. QED
    BY <2>2, <2>3
<1>5. ASSUME NEW r \in Requests, Send(r) \/ GetAnswer(r)
      PROVE  StageInv' /\ RowInv'
  BY <1>5 DEF Send, GetAnswer
<1>6. ASSUME NEW r \in Requests, Receive(r)
      PROVE  StageInv' /\ RowInv'
  <2>1. row # Absent /\ row' = row /\ storiqa' # Absent /\ stage' = stage /\ seen' = seen
    BY <1>6, UpdatedType DEF Receive
  <2>2. stage[r] # "new" /\ Kind[r] = "put"
    BY <1>6 DEF Receive
  <2>3. QED
    BY <1>6, <2>1, <2>2 DEF Receive
<1>7. ASSUME NEW r \in Requests, UpdateRow(r)
      PROVE  StageInv' /\ RowInv'
  <2>1. row # Absent /\ row' # Absent
    BY <1>7, UpdatedType DEF UpdateRow
  <2>2. QED
    BY <1>7, <2>1 DEF UpdateRow
<1>8. ASSUME NEW r \in Requests, ChangeElsewhere(r)
      PROVE  StageInv' /\ RowInv'
  <2>1. storiqa' # Absent
    BY <1>8, UpdatedType DEF ChangeElsewhere
  <2>2. QED
    BY <1>8, <2>1 DEF ChangeElsewhere
<1>9. CASE UNCHANGED vars
  BY <1>9 DEF vars
<1>10. QED
  BY <1>1, <1>2, <1>3, <1>4, <1>5, <1>6, <1>7, <1>8, <1>9 DEF Next

LEMMA SourceStep ==
    ASSUME IInv, [Next]_vars
    PROVE  SourceInv'
<1> USE ProfileIsThere DEF IInv, TypeOK, Genuine, Goto
<1>1. applied \subseteq applied'
  BY AppliedGrows
<1>2. ASSUME NEW p \in Profile, Genuine(p, applied)
      PROVE  Genuine(p, applied')
  BY <1>1, <1>2
<1>3. ASSUME NEW p \in Profile, NEW r \in Requests, r \in applied',
             Genuine(p, applied)
      PROVE  Genuine(Updated(p, r), applied')
  <2>1. ASSUME NEW f \in Fields, Updated(p, r)[f] \in Requests
        PROVE  Updated(p, r)[f] \in applied' /\ f \in Sets[Updated(p, r)[f]]
    <3>1. CASE f \in Sets[r]
      BY <1>3, <3>1, UpdatedType
    <3>2. CASE f \notin Sets[r]
      <4>1. Updated(p, r)[f] = p[f]
        BY <3>2, UpdatedType
      <4>2. QED
        BY <1>1, <1>3, <2>1, <4>1
    <3>3. QED
      BY <3>1, <3>2
  <2>2. QED
    BY <2>1
\* Each of the three is what it was, or one of what an action can write there.
<1>4. storiqa' # Absent => Genuine(storiqa', applied')
  <2>1. ASSUME NEW r \in Requests, SignUp(r)
        PROVE  Genuine(storiqa', applied')
    BY <2>1, ProfilesAssumption DEF SignUp, Other
  <2>2. ASSUME NEW r \in Requests, Receive(r) \/ ChangeElsewhere(r), storiqa' # storiqa
        PROVE  Genuine(storiqa', applied')
    <3>1. r \in applied' /\ storiqa' = Updated(storiqa, r) /\ storiqa \in Profile
      BY <2>2 DEF Receive, ChangeElsewhere, StageInv, RowInv
    <3>2. QED
      BY <1>3, <3>1 DEF SourceInv
  <2>3. CASE storiqa' = storiqa
    BY <1>2, <2>3 DEF SourceInv
  <2>4. storiqa' = storiqa \/ \E r \in Requests : SignUp(r) \/ Receive(r) \/ ChangeElsewhere(r)
    BY DEF Next, vars, ReadMe, FindUser, InsertUser, Send, GetAnswer, UpdateRow, Fails
  <2>5. QED
    BY <2>1, <2>2, <2>3, <2>4
<1>5. row' # Absent => Genuine(row', applied')
  <2>1. ASSUME NEW r \in Requests, InsertUser(r), row' # row
        PROVE  Genuine(row', applied')
    <3>1. row' = Stored(seen[r]) /\ seen[r] \in Profile
      BY <2>1 DEF InsertUser, StageInv
    <3>2. Genuine(seen[r], applied)
      BY <3>1 DEF SourceInv
    <3>3. Genuine(Stored(seen[r]), applied)
      BY <3>1, <3>2, StoredType
    <3>4. QED
      BY <1>2, <3>1, <3>3, StoredType
  <2>2. ASSUME NEW r \in Requests, UpdateRow(r), row' # row
        PROVE  Genuine(row', applied')
    <3>1. /\ row' = Updated(row, r) /\ row \in Profile /\ r \in applied
      BY <2>2 DEF UpdateRow, StageInv, RowInv, Waiting
    <3>2. QED
      BY <1>1, <1>3, <3>1 DEF SourceInv
  <2>3. CASE row' = row
    BY <1>2, <2>3 DEF SourceInv
  <2>4. row' = row \/ \E r \in Requests : InsertUser(r) \/ UpdateRow(r)
    BY DEF Next, vars, SignUp, ReadMe, FindUser, Send, Receive, GetAnswer, ChangeElsewhere, Fails
  <2>5. QED
    BY <2>1, <2>2, <2>3, <2>4
<1>6. ASSUME NEW r \in Requests, seen'[r] # Absent
      PROVE  Genuine(seen'[r], applied')
  <2>1. CASE seen'[r] = seen[r]
    BY <1>2, <1>6, <2>1 DEF SourceInv
  <2>2. CASE seen'[r] = storiqa'
    BY <1>4, <1>6, <2>2
  <2>3. seen'[r] = seen[r] \/ seen'[r] = storiqa'
    BY DEF Next, vars, SignUp, ReadMe, FindUser, InsertUser, Send, Receive, GetAnswer,
           UpdateRow, ChangeElsewhere, Fails
  <2>4. QED
    BY <2>1, <2>2, <2>3
<1>7. QED
  BY <1>4, <1>5, <1>6 DEF SourceInv

LEMMA FreshStep ==
    ASSUME IInv, [Next]_vars
    PROVE  FreshInv'
<1> USE ProfileIsThere DEF IInv, TypeOK, FreshInv, ChangedElsewhere, Goto, Waiting, Ended
<1>1. ASSUME NEW r \in Requests, SignUp(r)
      PROVE  FreshInv'
  <2>1. \A q \in Requests : stage[q] \notin {"find", "insert"}
    BY <1>1 DEF SignUp, StageInv, RowInv
  <2>2. \A q \in Requests : stage'[q] \in {"find", "insert"} => q = r /\ seen'[r] = storiqa'
    BY <1>1, <2>1 DEF SignUp
  <2>3. QED
    BY <2>2
<1>2. ASSUME NEW r \in Requests, ReadMe(r)
      PROVE  FreshInv'
  BY <1>2 DEF ReadMe
<1>3. ASSUME NEW r \in Requests, FindUser(r) \/ Fails(r) \/ Send(r) \/ GetAnswer(r)
      PROVE  FreshInv'
  BY <1>3 DEF FindUser, Fails, Send, GetAnswer
<1>4. ASSUME NEW r \in Requests, InsertUser(r) \/ UpdateRow(r)
      PROVE  row' # Absent
  BY <1>4, TypeStep, StoredType, UpdatedType DEF InsertUser, UpdateRow, StageInv, RowInv
<1>5. ASSUME NEW r \in Requests, Receive(r)
      PROVE  row' # Absent
  BY <1>5 DEF Receive, RowInv, StageInv
<1>6. ASSUME NEW r \in Requests, ChangeElsewhere(r)
      PROVE  FreshInv'
  <2>1. \A f \in Fields : storiqa'[f] = r \/ storiqa'[f] = storiqa[f]
    BY <1>6, UpdatedType DEF ChangeElsewhere
  <2>2. \A q \in Requests : stage'[q] \in {"find", "insert"} => stage'[q] = stage[q]
    BY <1>6 DEF ChangeElsewhere
  <2>3. Kind[r] = "elsewhere" /\ row' = row /\ seen' = seen
    BY <1>6 DEF ChangeElsewhere
  <2>4. QED
    BY <2>1, <2>2, <2>3
<1>7. CASE UNCHANGED vars
  BY <1>7 DEF vars
<1>8. QED
  BY <1>1, <1>2, <1>3, <1>4, <1>5, <1>6, <1>7 DEF Next

\* Who is between Storiqa and the row of field f after a step.
LEMMA BetweenStep ==
    ASSUME IInv, [Next]_vars, NEW f \in Fields, row # Absent
    PROVE  \/ Between(f)' \subseteq Between(f)
           \/ \E r \in Requests : /\ Receive(r) /\ f \in Sets[r] /\ storiqa' = Updated(storiqa, r)
                                  /\ Between(f)' \subseteq Between(f) \cup {r}
                                  /\ \A q \in Between(f) \cup {r} :
                                        Between(f) # {} => <<q, f>> \in met'
<1> USE DEF IInv, TypeOK, Between, Goto, Waiting, Ended
<1>1. ASSUME NEW r \in Requests, Receive(r)
      PROVE  \/ Between(f)' \subseteq Between(f)
             \/ /\ f \in Sets[r] /\ storiqa' = Updated(storiqa, r)
                /\ Between(f)' \subseteq Between(f) \cup {r}
                /\ \A q \in Between(f) \cup {r} : Between(f) # {} => <<q, f>> \in met'
  BY <1>1 DEF Receive, Meeting
<1>2. ASSUME NEW r \in Requests, SignUp(r) \/ ReadMe(r) \/ FindUser(r) \/ InsertUser(r) \/ ChangeElsewhere(r)
      PROVE  Between(f)' \subseteq Between(f)
  BY <1>2 DEF SignUp, ReadMe, FindUser, InsertUser, ChangeElsewhere
<1>3. ASSUME NEW r \in Requests, Send(r) \/ GetAnswer(r) \/ UpdateRow(r) \/ Fails(r)
      PROVE  Between(f)' \subseteq Between(f)
  BY <1>3 DEF Send, GetAnswer, UpdateRow, Fails, StageInv
<1>4. CASE UNCHANGED vars
  BY <1>4 DEF vars
<1>5. QED
  BY <1>1, <1>2, <1>3, <1>4 DEF Next

\* A field that the step changes neither here nor at Storiqa stays as good as it is.
LEMMA AgreeKeeps ==
    ASSUME IInv, [Next]_vars, NEW f \in Fields, row # Absent,
           storiqa'[f] = storiqa[f], row'[f] = row[f],
           Between(f)' \subseteq Between(f),
           storiqa[f] \in Requests /\ Kind[storiqa[f]] = "put" =>
               \/ stage'[storiqa[f]] \in {stage[storiqa[f]], "error"}
               \/ stage'[storiqa[f]] # "ok"
    PROVE  (ChangedElsewhere(f) \/ PutLast(f) \/ Quiet(f))'
<1>1. CASE ChangedElsewhere(f)
  BY <1>1 DEF ChangedElsewhere
<1>2. CASE PutLast(f)
  <2>1. storiqa[f] \in applied
    BY <1>2 DEF PutLast, IInv, SourceInv, RowInv, Genuine
  <2>2. stage[storiqa[f]] = "error" => stage'[storiqa[f]] = "error"
    BY <1>2 DEF Next, vars, SignUp, ReadMe, FindUser, InsertUser, Send, Receive, GetAnswer,
                UpdateRow, ChangeElsewhere, Fails, Goto, Ended, IInv, TypeOK, PutLast
  <2>3. Alone(f) => Alone(f)' \/ stage'[storiqa[f]] = "error"
    BY <1>2 DEF Alone, PutLast
  <2>4. met \subseteq met'
    BY AppliedGrows
  <2>5. QED
    BY <1>2, <2>2, <2>3, <2>4 DEF PutLast
<1>3. CASE Quiet(f)
  <2>1. Stored(storiqa)[f] = Stored(storiqa')[f]
    BY DEF Stored
  <2>2. QED
    BY <1>3, <2>1 DEF Quiet
<1>4. QED
  BY <1>1, <1>2, <1>3 DEF IInv, AgreeInv

LEMMA AgreeStep ==
    ASSUME IInv, [Next]_vars
    PROVE  AgreeInv'
<1> USE ProfileIsThere DEF IInv, TypeOK, Goto, Waiting, Ended
<1> DEFINE Good(f) == ChangedElsewhere(f) \/ PutLast(f) \/ Quiet(f)
<1>1. ASSUME NEW r \in Requests, SignUp(r)
      PROVE  AgreeInv'
  BY <1>1 DEF SignUp, AgreeInv, RowInv
<1>2. ASSUME NEW r \in Requests, ReadMe(r) \/ FindUser(r) \/ Send(r) \/ GetAnswer(r) \/ Fails(r)
      PROVE  AgreeInv'
  <2>1. /\ storiqa' = storiqa /\ row' = row /\ ~Receive(r)
        /\ \A q \in Requests \ {r} : stage'[q] = stage[q]
        /\ Kind[r] = "put" => stage'[r] # "ok"
    BY <1>2 DEF ReadMe, FindUser, Send, GetAnswer, Fails, StageInv, Receive
  <2>2. \A f \in Fields : Between(f)' \subseteq Between(f)
    BY <1>2 DEF ReadMe, FindUser, Send, GetAnswer, Fails, StageInv, Between
  <2>3. QED
    BY <2>1, <2>2, AgreeKeeps DEF AgreeInv
<1>3. ASSUME NEW r \in Requests, InsertUser(r)
      PROVE  AgreeInv'
  <2>1. CASE row = Absent
    <3>1. row' = Stored(seen[r]) /\ storiqa' = storiqa /\ stage[r] = "insert"
          /\ UNCHANGED applied /\ seen[r] \in Profile
      BY <1>3, <2>1 DEF InsertUser, StageInv
    <3>2. ASSUME NEW f \in Fields, ~ChangedElsewhere(f)
          PROVE  Quiet(f)'
      <4>1. seen[r][f] = storiqa[f]
        BY <2>1, <3>1, <3>2 DEF FreshInv
      <4>2. Between(f)' = {}
        BY <2>1, <3>1 DEF Between, RowInv
      <4>3. QED
        BY <3>1, <4>1, <4>2 DEF Quiet, Stored
    <3>3. QED
      BY <3>1, <3>2 DEF AgreeInv, ChangedElsewhere
  <2>2. CASE row # Absent
    <3>1. /\ storiqa' = storiqa /\ row' = row
          /\ \A q \in Requests \ {r} : stage'[q] = stage[q]
          /\ Kind[r] # "put"
      BY <1>3, <2>2 DEF InsertUser, StageInv
    <3>2. \A f \in Fields : Between(f)' \subseteq Between(f)
      BY <1>3 DEF InsertUser, Between
    <3>3. QED
      BY <2>2, <3>1, <3>2, AgreeKeeps DEF AgreeInv
  <2>3. QED
    BY <2>1, <2>2
<1>4. ASSUME NEW r \in Requests, Receive(r)
      PROVE  AgreeInv'
  <2>1. /\ row # Absent /\ row' = row /\ stage' = stage /\ r \notin applied /\ Kind[r] = "put"
        /\ stage[r] # "ok" /\ storiqa \in Profile
    BY <1>4 DEF Receive, StageInv, RowInv
  <2>2. ASSUME NEW f \in Fields, f \in Sets[r], storiqa' = Updated(storiqa, r),
               Between(f)' \subseteq Between(f) \cup {r},
               Between(f) # {} => <<r, f>> \in met'
        PROVE  PutLast(f)'
    <3>1. storiqa'[f] = r
      BY <2>1, <2>2, UpdatedType
    <3>2. Between(f) = {} => Alone(f)'
      BY <2>1, <2>2, <3>1 DEF Alone
    <3>3. QED
      BY <2>1, <2>2, <3>1, <3>2 DEF PutLast
  <2>3. ASSUME NEW f \in Fields, f \notin Sets[r] \/ storiqa' = storiqa
        PROVE  Good(f)'
    <3>1. storiqa'[f] = storiqa[f]
      BY <1>4, <2>1, <2>3, UpdatedType DEF Receive
    <3>2. Between(f)' \subseteq Between(f)
      <4>1. CASE f \notin Sets[r]
        BY <1>4, <4>1 DEF Receive, Between
      <4>2. CASE storiqa' = storiqa /\ applied' = applied
        BY <2>1, <4>2 DEF Between
      <4>3. CASE storiqa' = storiqa /\ storiqa' = Updated(storiqa, r) /\ f \in Sets[r]
        <5>1. Updated(storiqa, r)[f] = r
          BY <4>3 DEF Updated
        <5>2. storiqa[f] = r
          BY <4>3, <5>1
        <5>3. QED
          BY <2>1, <5>2 DEF SourceInv, RowInv, Genuine
      <4>4. QED
        BY <1>4, <2>3, <4>1, <4>2, <4>3 DEF Receive
    <3>3. QED
      BY <2>1, <3>1, <3>2, AgreeKeeps
  <2>4. ASSUME NEW f \in Fields
        PROVE  Good(f)'
    <3>1. CASE f \in Sets[r] /\ storiqa' = Updated(storiqa, r)
      <4>1. CASE applied' = applied \cup {r}
        <5>1. /\ Between(f)' \subseteq Between(f) \cup {r}
              /\ Between(f) # {} => <<r, f>> \in met'
          BY <1>4, <2>1, <3>1, <4>1 DEF Receive, Meeting, Between
        <5>2. QED
          BY <2>2, <3>1, <5>1
      <4>2. CASE storiqa' = storiqa
        BY <2>3, <4>2
      <4>3. QED
        BY <1>4, <4>1, <4>2 DEF Receive
    <3>2. CASE f \notin Sets[r] \/ storiqa' = storiqa
      BY <2>3, <3>2
    <3>3. QED
      BY <1>4, <3>1, <3>2 DEF Receive
  <2>5. QED
    BY <2>4 DEF AgreeInv
<1>5. ASSUME NEW r \in Requests, UpdateRow(r)
      PROVE  AgreeInv'
  <2>1. /\ stage[r] = "store" /\ Kind[r] = "put" /\ r \in applied
        /\ storiqa' = storiqa /\ applied' = applied /\ met' = met
        /\ row \in Profile
        /\ \A q \in Requests \ {r} : stage'[q] = stage[q]
    BY <1>5 DEF UpdateRow, StageInv, RowInv
  <2>2. \A f \in Fields : Between(f)' \subseteq Between(f)
    BY <1>5 DEF UpdateRow, Between
  <2>3. ASSUME NEW f \in Fields, f \in Sets[r]
        PROVE  Good(f)'
    <3>1. r \in Between(f) /\ row'[f] = r
      BY <1>5, <2>1, <2>3, UpdatedType DEF Between, UpdateRow
    <3>2. CASE ChangedElsewhere(f)
      BY <2>1, <3>2 DEF ChangedElsewhere
    <3>3. CASE PutLast(f)
      <4>1. stage[storiqa[f]] = "error" => stage'[storiqa[f]] = "error"
        BY <2>1, <3>3 DEF PutLast
      <4>2. Alone(f) => Alone(f)'
        BY <2>1, <2>2, <3>1 DEF Alone
      <4>3. QED
        BY <2>1, <3>3, <4>1, <4>2 DEF PutLast
    <3>4. QED
      BY <2>1, <3>1, <3>2, <3>3 DEF AgreeInv, Quiet
  <2>4. ASSUME NEW f \in Fields, f \notin Sets[r]
        PROVE  Good(f)'
    <3>1. row'[f] = row[f]
      BY <1>5, <2>1, <2>4, UpdatedType DEF UpdateRow
    <3>2. storiqa[f] # r
      BY <2>1, <2>4 DEF SourceInv, RowInv, Genuine
    <3>3. QED
      BY <2>1, <2>2, <3>1, <3>2, AgreeKeeps
  <2>5. QED
    BY <2>3, <2>4 DEF AgreeInv
<1>6. ASSUME NEW r \in Requests, ChangeElsewhere(r)
      PROVE  AgreeInv'
  <2>1. /\ Kind[r] = "elsewhere" /\ row' = row /\ storiqa \in Profile
        /\ storiqa' = Updated(storiqa, r)
        /\ \A q \in Requests \ {r} : stage'[q] = stage[q]
    BY <1>6 DEF ChangeElsewhere
  <2>2. \A f \in Fields : Between(f)' \subseteq Between(f)
    BY <1>6 DEF ChangeElsewhere, Between
  <2>3. ASSUME NEW f \in Fields, f \in Sets[r]
        PROVE  ChangedElsewhere(f)'
    BY <2>1, <2>3, UpdatedType DEF ChangedElsewhere
  <2>4. ASSUME NEW f \in Fields, f \notin Sets[r], row # Absent
        PROVE  Good(f)'
    BY <2>1, <2>2, <2>4, UpdatedType, AgreeKeeps
  <2>5. QED
    BY <2>1, <2>3, <2>4 DEF AgreeInv
<1>7. CASE UNCHANGED vars
  <2>1. \A f \in Fields : Between(f)' = Between(f)
    BY <1>7 DEF vars, Between
  <2>2. QED
    BY <1>7, <2>1, AgreeKeeps DEF vars, AgreeInv
<1>8. QED
  BY <1>1, <1>2, <1>3, <1>4, <1>5, <1>6, <1>7 DEF Next

-----------------------------------------------------------------------------
LEMMA Invariance == Spec => []IInv
<1>1. IInv /\ [Next]_vars => IInv'
  BY TypeStep, StageStep, SourceStep, FreshStep, AgreeStep DEF IInv
<1>2. QED
  BY InitInv, <1>1, PTL DEF Spec

\* Every variable of Profiles stays in its type.
THEOREM TypeCorrect == Spec => []TypeOK
<1>1. IInv => TypeOK
  BY DEF IInv
<1>2. QED
  BY <1>1, Invariance, PTL

\* However calls and answers of PUT /users are lost, late or repeated, the row
\* shows what Storiqa has carried out, field by field.
THEOREM RowFollows == Spec => []RowFollowsStoriqa
<1>1. IInv => RowFollowsStoriqa
  BY DEF IInv, SourceInv, Genuine, RowFollowsStoriqa
<1>2. QED
  BY <1>1, Invariance, PTL

\* For any number of overlapping requests, row and Storiqa differ in a field only
\* by the fault of the change that Storiqa had last.
THEOREM Agreement == Spec => []FieldsAgree
<1>1. IInv => FieldsAgree
  <2>1. ASSUME IInv, row # Absent, NEW f \in Fields
        PROVE  \/ row[f] = Stored(storiqa)[f]
               \/ /\ storiqa[f] \in Requests
                  /\ \/ Kind[storiqa[f]] = "elsewhere"
                     \/ stage[storiqa[f]] # "ok"
                     \/ <<storiqa[f], f>> \in met
    <3>1. CASE PutLast(f)
      <4>1. storiqa \in Profile
        BY <2>1 DEF IInv, TypeOK, RowInv
      <4>2. storiqa[f] \in Requests => Stored(storiqa)[f] = storiqa[f]
        BY <4>1, StoredType
      <4>3. QED
        BY <3>1, <4>2 DEF PutLast, Alone
    <3>2. QED
      BY <2>1, <3>1 DEF IInv, AgreeInv, ChangedElsewhere, Quiet
  <2>2. QED
    BY <2>1 DEF FieldsAgree
<1>2. QED
  BY <1>1, Invariance, PTL

=============================================================================
