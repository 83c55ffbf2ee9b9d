------------------------------ MODULE Sessions ------------------------------
(***************************************************************************)
(* Session tokens: how a request is authenticated (services/auth.rs), and  *)
(* the requests that sign in, renew and revoke tokens                      *)
(* (api/controllers/users.rs).  A token is known by its exp, which Storiqa *)
(* counts from the second it issues it; the gateway refuses a token whose  *)
(* exp is smaller than the revoke_before of its user.  The statements of   *)
(* authenticate commit one by one, and a revocation writes revoke_before   *)
(* only when the answer of Storiqa is back.                                *)
(***************************************************************************)
EXTENDS Naturals, FiniteSets

CONSTANTS
    Requests,
    Users, DeviceIds,
    Kind,      \* [Requests -> Kinds]
    User,      \* [Requests -> Users]
    Device,    \* [Requests -> DeviceIds], header Device-id
    Timestamp, \* [Requests -> Nat], header Timestamp
    Signed,    \* requests whose header Sign the device's key verifies
    Known,     \* users with a row
    Valid,     \* jwt_valid_secs
    MaxTime    \* bound: seconds until the end of a behaviour

Revoking == {"revoke", "password", "reset"}
Kinds == {"read", "login", "refresh"} \cup Revoking

ASSUME SessionsAssumption ==
    /\ Kind \in [Requests -> Kinds]
    /\ User \in [Requests -> Users]
    /\ Device \in [Requests -> DeviceIds]
    /\ Timestamp \in [Requests -> Nat]
    /\ Signed \subseteq Requests
    /\ Known \subseteq Users
    /\ Valid \in Nat /\ MaxTime \in Nat

VARIABLES
    now,           \* seconds
    revoke_before, \* column of users: [Users -> Times]
    devices,       \* pairs of device and user with a row
    last,          \* column last_timestamp of devices
    held,          \* tokens clients hold: [Users -> set of exp]
    stage,         \* [Requests -> where the request is]
    exp,           \* [Requests -> exp of the token it is authenticated by]
    new,           \* [Requests -> exp of the token Storiqa has issued for it]
    before,        \* [Requests -> revocations answered when it came in]
    overlapped     \* revocations another one of the same user ran into

table == <<revoke_before, devices, last>>
history == <<before, overlapped>>
vars == <<now, table, held, stage, exp, new, history>>

Revocations == {r \in Requests : Kind[r] \in Revoking}
Pairs == DeviceIds \X Users
Times == 0..MaxTime
NoTime == MaxTime + 1

Ended == {"ok", "revoked", "rejected", "error"}
Stages == {"new", "decode", "user", "device", "timestamp", "accepted",
           "storiqa", "write"} \cup Ended

Goto(r, s) == stage' = [stage EXCEPT ![r] = s]

\* Every user has signed in once; rows have revoke_before from their creation.
Init ==
    /\ now = 0
    /\ revoke_before = [u \in Users |-> 0]
    /\ devices \in SUBSET (DeviceIds \X Known)
    /\ last = [p \in Pairs |-> 0]
    /\ held = [u \in Users |-> {0}]
    /\ stage = [r \in Requests |-> "new"]
    /\ exp = [r \in Requests |-> NoTime]
    /\ new = [r \in Requests |-> NoTime]
    /\ before = [r \in Requests |-> {}]
    /\ overlapped = {}

Tick ==
    /\ now < MaxTime
    /\ now' = now + 1
    /\ UNCHANGED <<table, held, stage, exp, new, history>>

-----------------------------------------------------------------------------
(* Context::authenticate                                                   *)

Answered == {q \in Revocations : stage[q] = "ok"}

\* A client sends a token it holds; signing in fetches one from Storiqa first.
Start(r) ==
    /\ stage[r] = "new" /\ Kind[r] # "reset"
    /\ \/ /\ Kind[r] = "login"
          /\ exp' = [exp EXCEPT ![r] = now]
       \/ /\ Kind[r] # "login"
          /\ \E e \in held[User[r]] : exp' = [exp EXCEPT ![r] = e]
    /\ before' = [before EXCEPT ![r] = Answered]
    /\ Goto(r, "decode")
    /\ UNCHANGED <<now, table, held, new, overlapped>>

\* The leeway of the decoding is the lifetime of a token.
Alive(e) == now <= e + Valid

\* get_jwt_auth and get_exp
Decode(r) ==
    /\ stage[r] = "decode"
    /\ Goto(r, IF Alive(exp[r]) THEN "user" ELSE "rejected")
    /\ UNCHANGED <<now, table, held, exp, new, history>>

\* Faulty: revoke_before is not looked at.
GetUserOnly(r) ==
    /\ stage[r] = "user"
    /\ Goto(r, "device")
    /\ UNCHANGED <<now, table, held, exp, new, history>>

\* A user without a row is refused only when there is no device either.
GetUser(r) ==
    /\ stage[r] = "user"
    /\ Goto(r, IF User[r] \in Known /\ exp[r] < revoke_before[User[r]]
               THEN "revoked" ELSE "device")
    /\ UNCHANGED <<now, table, held, exp, new, history>>

PairOf(r) == <<Device[r], User[r]>>

GetDevice(r) ==
    /\ stage[r] = "device"
    /\ Goto(r, IF PairOf(r) \in devices /\ r \in Signed THEN "timestamp" ELSE "rejected")
    /\ UNCHANGED <<now, table, held, exp, new, history>>

\* The timestamp is stored, whatever was stored before.
UpdateTimestamp(r) ==
    /\ stage[r] = "timestamp"
    /\ last' = [last EXCEPT ![PairOf(r)] = Timestamp[r]]
    /\ Goto(r, "accepted")
    /\ UNCHANGED <<now, revoke_before, devices, held, exp, new, history>>

-----------------------------------------------------------------------------
(* What the controllers do with an authenticated request                   *)

Answer(r) ==
    /\ stage[r] = "accepted" /\ Kind[r] \in {"read", "login"}
    /\ held' = [held EXCEPT ![User[r]] = @ \cup {exp[r]}]
    /\ Goto(r, "ok")
    /\ UNCHANGED <<now, table, exp, new, history>>

\* refresh_jwt, revoke_jwt, change_password; confirm_reset_password needs no
\* session.
Call(r) ==
    /\ \/ stage[r] = "accepted" /\ Kind[r] \in {"refresh"} \cup Revoking
       \/ stage[r] = "new" /\ Kind[r] = "reset"
    /\ Goto(r, "storiqa")
    /\ UNCHANGED <<now, table, held, exp, new, history>>

Pending(u) == {q \in Revocations : User[q] = u /\ stage[q] = "write"}

\* Storiqa issues the token; the answer to a refresh goes to the client.
Issue(r) ==
    /\ stage[r] = "storiqa"
    /\ new' = [new EXCEPT ![r] = now]
    /\ \/ /\ Kind[r] \in Revoking
          /\ overlapped' = IF Pending(User[r]) = {} THEN overlapped
                           ELSE overlapped \cup Pending(User[r]) \cup {r}
          /\ Goto(r, "write")
          /\ UNCHANGED held
       \/ /\ Kind[r] = "refresh"
          /\ held' = [held EXCEPT ![User[r]] = @ \cup {now}]
          /\ Goto(r, "ok")
          /\ UNCHANGED overlapped
    /\ UNCHANGED <<now, table, exp, before>>

\* Faulty: tokens are revoked up to the second of the write.
RevokeUntilNow(r) ==
    /\ stage[r] = "write" /\ Alive(new[r])
    /\ revoke_before' = [revoke_before EXCEPT ![User[r]] = now]
    /\ held' = [held EXCEPT ![User[r]] = @ \cup {new[r]}]
    /\ Goto(r, "ok")
    /\ UNCHANGED <<now, devices, last, exp, new, history>>

\* revoke_token_db: the row takes the exp of the new token, whatever it has.
RevokeTokens(r) ==
    /\ stage[r] = "write" /\ Alive(new[r]) /\ User[r] \in Known
    /\ revoke_before' = [revoke_before EXCEPT ![User[r]] = new[r]]
    /\ held' = [held EXCEPT ![User[r]] = @ \cup {new[r]}]
    /\ Goto(r, "ok")
    /\ UNCHANGED <<now, devices, last, exp, new, history>>

\* A statement or a call fails, an answer of Storiqa is lost or refuses, the
\* user has no row to update, the client hangs up, or the process dies.
Fails(r) ==
    /\ stage[r] \notin {"new"} \cup Ended
    /\ Goto(r, "error")
    /\ UNCHANGED <<now, table, held, exp, new, history>>

\* confirm_add_device of another request.
AddDevice ==
    /\ \E p \in (DeviceIds \X Known) \ devices : devices' = devices \cup {p}
    /\ UNCHANGED <<now, revoke_before, last, held, stage, exp, new, history>>

Next ==
    \/ Tick
    \/ AddDevice
    \/ \E r \in Requests :
          \/ Start(r) \/ Decode(r) \/ GetUser(r) \/ GetDevice(r) \/ UpdateTimestamp(r)
          \/ Answer(r) \/ Call(r) \/ Issue(r) \/ RevokeTokens(r) \/ Fails(r)

Spec == Init /\ [][Next]_vars

-----------------------------------------------------------------------------
(* Properties                                                              *)

\* Every variable stays in its type.
TypeOK ==
    /\ now \in Times
    /\ revoke_before \in [Users -> Times]
    /\ devices \subseteq DeviceIds \X Known
    /\ last \in [Pairs -> Nat]
    /\ held \in [Users -> SUBSET Times]
    /\ stage \in [Requests -> Stages]
    /\ exp \in [Requests -> Times \cup {NoTime}]
    /\ new \in [Requests -> Times \cup {NoTime}]
    /\ before \in [Requests -> SUBSET Revocations]
    /\ overlapped \subseteq Revocations

\* The gateway calls a token revoked only if a revocation of the same user has
\* brought a newer one: nobody loses a session by anything else, and the token
\* a revocation returns is not among those it revokes, however late it writes.
RevokedIsOlder == \A r \in Requests : stage[r] = "revoked" =>
    \E q \in Revocations :
        User[q] = User[r] /\ new[q] # NoTime /\ exp[r] < new[q]

\* The requests authenticate has let through.
Authenticated == {r \in Requests : Kind[r] # "reset" /\
    stage[r] \in {"device", "timestamp", "accepted", "storiqa", "write", "ok"}}

\* A request that comes in after the answer to a revocation is let through only
\* with a token that is not older than the revocation's, whatever is in flight,
\* unless two revocations of that user ran into each other.
RevokedStaysOut == \A r \in Authenticated : \A q \in before[r] :
    User[q] = User[r] /\ q \notin overlapped => new[q] <= exp[r]

\* "Revokes all jwt tokens and returns new jwt token" (docs/apispec.yml:263):
\* after the answer, the row keeps older tokens out.
RevokeHolds == \A q \in Answered : new[q] <= revoke_before[User[q]]

=============================================================================
