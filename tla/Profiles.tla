------------------------------ MODULE Profiles ------------------------------
(***************************************************************************)
(* The profile of a user: names and phone, kept by Storiqa and copied into *)
(* the row of table users.  The row is made when the user signs up or in   *)
(* for the first time, and PUT /users changes Storiqa first and the row    *)
(* afterwards (services/users.rs, repos/users.rs, client/storiqa).  One    *)
(* user: every statement names the user, so that users do not meet.        *)
(***************************************************************************)
CONSTANTS
    Requests, \* a request stands for the values it sets
    Kind,     \* [Requests -> Kinds]
    Sets,     \* [Requests -> SUBSET Fields]: the fields a request gives
    Initial,  \* profiles a user may have at Storiqa before all requests
    Absent    \* no user at Storiqa, or no row

Names  == {"firstName", "lastName"}
Fields == Names \cup {"phone"}

\* "elsewhere" is a change at Storiqa by another client of it.
Kinds == {"signup", "signin", "put", "elsewhere"}

\* What a field had before any of the requests; NULL; the empty string.
Other  == {"before", "unset", "empty"}
Values == Requests \cup Other

ASSUME ProfilesAssumption ==
    /\ Kind \in [Requests -> Kinds]
    /\ Sets \in [Requests -> SUBSET Fields]
    /\ \A r \in Requests : Kind[r] = "signup" => Names \subseteq Sets[r]
    /\ Initial \subseteq [Fields -> {"before", "unset"}]
    /\ Requests \cap Other = {}
    /\ Absent \notin [Fields -> Values]

VARIABLES
    storiqa, \* the profile at Storiqa, or Absent
    row,     \* the columns of the row, or Absent
    stage,   \* [Requests -> where the request is]
    seen,    \* [Requests -> the profile Storiqa showed who signs up or in]
    wire,    \* changes sent to Storiqa and not carried out there
    applied, \* changes carried out there
    met      \* <<r, f>>: at Storiqa, r came between q's change of f and q's
             \* statement for the row, or q between those of r

vars == <<storiqa, row, stage, seen, wire, applied, met>>

Profile == [Fields -> Values]

Waiting == {"wait", "store"}
Ended   == {"ok", "error"}
Stages  == {"new", "find", "insert"} \cup Waiting \cup Ended

Goto(r, s) == stage' = [stage EXCEPT ![r] = s]

\* From<User> for NewUserDB: a missing name becomes the empty string.
Stored(p) == [f \in Fields |-> IF f \in Names /\ p[f] = "unset" THEN "empty" ELSE p[f]]

\* The fields of r, and nothing else.
Updated(p, r) == [f \in Fields |-> IF f \in Sets[r] THEN r ELSE p[f]]

Init ==
    /\ storiqa \in Initial \cup {Absent}
    /\ row \in {Absent} \cup (IF storiqa = Absent THEN {} ELSE {Stored(storiqa)})
    /\ stage = [r \in Requests |-> "new"]
    /\ seen = [r \in Requests |-> Absent]
    /\ wire = {} /\ applied = {} /\ met = {}

-----------------------------------------------------------------------------
(* The row comes into being                                                *)

\* create_user at Storiqa: the mutation carries the names and not the phone,
\* and the answer has no phone either.
SignUp(r) ==
    /\ stage[r] = "new" /\ Kind[r] = "signup" /\ storiqa = Absent
    /\ storiqa' = [f \in Fields |-> IF f \in Names THEN r ELSE "unset"]
    /\ applied' = applied \cup {r}
    /\ \/ /\ seen' = [seen EXCEPT ![r] = storiqa']
          /\ Goto(r, "insert")
       \/ /\ Goto(r, "error")
          /\ UNCHANGED seen
    /\ UNCHANGED <<row, wire, met>>

\* post_sessions: the token, then me.
ReadMe(r) ==
    /\ stage[r] = "new" /\ Kind[r] = "signin" /\ storiqa # Absent
    /\ seen' = [seen EXCEPT ![r] = storiqa]
    /\ Goto(r, "find")
    /\ UNCHANGED <<storiqa, row, wire, applied, met>>

\* merge_user: a row that is there stays as it is.
FindUser(r) ==
    /\ stage[r] = "find"
    /\ Goto(r, IF row = Absent THEN "insert" ELSE "ok")
    /\ UNCHANGED <<storiqa, row, seen, wire, applied, met>>

\* The statement of merge_user, or the transaction of create_user.
InsertUser(r) ==
    /\ stage[r] = "insert"
    /\ \/ /\ row = Absent
          /\ row' = Stored(seen[r])
          /\ Goto(r, "ok")
       \/ /\ row # Absent
          /\ Goto(r, "error")
          /\ UNCHANGED row
    /\ UNCHANGED <<storiqa, seen, wire, applied, met>>

-----------------------------------------------------------------------------
(* PUT /users                                                              *)

\* authenticate needs the row, validation looks at the input alone, and neither
\* changes anything here; then the call is sent.
Send(r) ==
    /\ stage[r] = "new" /\ Kind[r] = "put" /\ row # Absent
    /\ \/ /\ wire' = wire \cup {r}
          /\ Goto(r, "wait")
       \/ /\ Goto(r, "error")
          /\ UNCHANGED wire
    /\ UNCHANGED <<storiqa, row, seen, applied, met>>

\* Those whose change of f is at Storiqa and not in the row.
Between(f) == {q \in applied : Kind[q] = "put" /\ f \in Sets[q] /\ stage[q] \in Waiting}

Meeting(r) == {p \in Requests \X Fields :
    p[2] \in Sets[r] /\ Between(p[2]) # {} /\ p[1] \in Between(p[2]) \cup {r}}

\* Storiqa carries the change out, of the given fields alone, even when nobody
\* waits for it any more; or refuses it.
Receive(r) ==
    /\ r \in wire
    /\ wire' = wire \ {r}
    /\ \/ /\ storiqa' = Updated(storiqa, r)
          /\ applied' = applied \cup {r}
          /\ met' = met \cup Meeting(r)
       \/ UNCHANGED <<storiqa, applied, met>>
    /\ UNCHANGED <<row, stage, seen>>

\* Faulty: no answer is as good as an answer.
GetAnyAnswer(r) ==
    /\ stage[r] = "wait"
    /\ Goto(r, "store")
    /\ UNCHANGED <<storiqa, row, seen, wire, applied, met>>

GetAnswer(r) ==
    /\ stage[r] = "wait" /\ r \in applied
    /\ Goto(r, "store")
    /\ UNCHANGED <<storiqa, row, seen, wire, applied, met>>

\* Faulty: a field that is not given becomes NULL.
UpdateAllColumns(r) ==
    /\ stage[r] = "store"
    /\ row' = [f \in Fields |-> IF f \in Sets[r] THEN r ELSE "unset"]
    /\ Goto(r, "ok")
    /\ UNCHANGED <<storiqa, seen, wire, applied, met>>

\* One statement with the fields of the input; diesel makes none of no fields.
UpdateRow(r) ==
    /\ stage[r] = "store"
    /\ \/ /\ Sets[r] # {}
          /\ row' = Updated(row, r)
          /\ Goto(r, "ok")
       \/ /\ Sets[r] = {}
          /\ Goto(r, "error")
          /\ UNCHANGED row
    /\ UNCHANGED <<storiqa, seen, wire, applied, met>>

-----------------------------------------------------------------------------
\* Another client of Storiqa.
ChangeElsewhere(r) ==
    /\ stage[r] = "new" /\ Kind[r] = "elsewhere" /\ storiqa # Absent
    /\ storiqa' = Updated(storiqa, r)
    /\ applied' = applied \cup {r}
    /\ Goto(r, "ok")
    /\ UNCHANGED <<row, seen, wire, met>>

\* A call or statement fails, the client hangs up, or the process dies.
Fails(r) ==
    /\ stage[r] \notin {"new"} \cup Ended
    /\ Goto(r, "error")
    /\ UNCHANGED <<storiqa, row, seen, wire, applied, met>>

Next == \E r \in Requests :
    \/ SignUp(r) \/ ReadMe(r) \/ FindUser(r) \/ InsertUser(r)
    \/ Send(r) \/ Receive(r) \/ GetAnswer(r) \/ UpdateRow(r)
    \/ ChangeElsewhere(r) \/ Fails(r)

Spec == Init /\ [][Next]_vars

-----------------------------------------------------------------------------
(* Properties                                                              *)

\* Every variable stays in its type.
TypeOK ==
    /\ storiqa \in Profile \cup {Absent}
    /\ row \in Profile \cup {Absent}
    /\ stage \in [Requests -> Stages]
    /\ seen \in [Requests -> Profile \cup {Absent}]
    /\ wire \subseteq Requests
    /\ applied \subseteq Requests
    /\ met \subseteq Requests \X Fields

\* The row never runs ahead of Storiqa: no field shows a value that Storiqa has
\* refused or not heard of, whichever calls are lost, late or repeated, and none
\* that was given for another field.
RowFollowsStoriqa == row # Absent => \A f \in Fields :
    row[f] \in Requests => row[f] \in applied /\ f \in Sets[row[f]]

\* A field of the row is the one at Storiqa, unless the change that Storiqa had
\* last is itself the reason: another client made it, the request for it has not
\* ended or has failed half way, or it met another change of the same field.  So
\* a request that succeeds and meets none repairs what others have left behind,
\* and requests that set different fields never undo each other.
FieldsAgree == row # Absent => \A f \in Fields :
    \/ row[f] = Stored(storiqa)[f]
    \/ /\ storiqa[f] \in Requests
       /\ \/ Kind[storiqa[f]] = "elsewhere"
          \/ stage[storiqa[f]] # "ok"
          \/ <<storiqa[f], f>> \in met

=============================================================================
