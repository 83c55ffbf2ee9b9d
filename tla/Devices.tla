------------------------------ MODULE Devices ------------------------------
(***************************************************************************)
(* How users get devices.  Signing up writes the user's first one.  For    *)
(* further ones, POST /users/add_device stores a token and mails it, and   *)
(* the link in the mail, or POST /users/confirm_add_device, turns the      *)
(* token into a device row (services/users.rs, repos/devices_tokens.rs).   *)
(* The statements of a request run on a thread of the pool the API gives   *)
(* its DbExecutor; how many threads there are is configured.               *)
(***************************************************************************)
EXTENDS Integers, FiniteSets

CONSTANTS
    Adds,         \* requests to add a device; also the ids of token rows
    Confirms,     \* requests to confirm one
    SignUps,      \* requests to create a user, as far as Storiqa has created it
    DeviceIds, Users, Keys,
    Device,       \* [Adds \cup SignUps -> DeviceIds]
    User,         \* [Adds \cup SignUps -> Users]
    Key,          \* [Adds \cup SignUps -> Keys]: the public key of the device
    Token,        \* [Confirms -> Adds]
    Given,        \* [Confirms -> device id or NoDevice, for the mailed link]
    Known,        \* users that have a row at first
    Setups,       \* <<cpu_pool.size, seconds by which the database's clock is ahead>>
    EmailTimeout, \* email_sending_timeout_secs
    Expiration,   \* device_add_token_valid_secs
    MaxTime,      \* bound: seconds until the end of a behaviour
    NoDevice, NoKey, NoToken, NoStamp

ASSUME DevicesAssumption ==
    /\ Device \in [Adds \cup SignUps -> DeviceIds]
    /\ User \in [Adds \cup SignUps -> Users]
    /\ Key \in [Adds \cup SignUps -> Keys]
    /\ Token \in [Confirms -> Adds]
    /\ Given \in [Confirms -> DeviceIds \cup {NoDevice}]
    /\ Known \subseteq Users
    /\ Setups \subseteq (Nat \ {0}) \X Int
    /\ {EmailTimeout, Expiration, MaxTime} \subseteq Nat
    /\ NoDevice \notin DeviceIds /\ NoKey \notin Keys
    /\ NoToken \notin Adds /\ NoStamp \notin Int
    /\ Adds \cap Confirms = {} /\ SignUps \cap (Adds \cup Confirms) = {}
    /\ IsFiniteSet(Adds) /\ IsFiniteSet(Confirms) /\ IsFiniteSet(SignUps)

VARIABLES
    pool,     \* cpu_pool.size
    skew,     \* database's clock minus the gateway's
    known,    \* table users: who has a row
    now,      \* seconds by the gateway's clock
    devices,  \* table devices: [DeviceIds \X Users -> row or NoRow]
    updated,  \* table devices_tokens: [Adds -> updated_at or NoStamp]
    stage,    \* [Requests -> where the request is]
    token,    \* [Adds -> the token row the request ended up with]
    seen,     \* [Confirms -> updated_at of the token as it was read]
    checked,  \* [Confirms -> when it found the token alive, or NoTime]
    granted,  \* [Adds -> when the request got its token, or NoTime]
    mails     \* tokens in mails that were handed to the broker

vars == <<pool, skew, known, now, devices, updated, stage, token, seen, checked, granted,
          mails>>

Requests == Adds \cup Confirms \cup SignUps
Times == 0..MaxTime
NoTime == MaxTime + 1
NoRow == [key |-> NoKey, at |-> NoTime]
Row == [key : Keys, at : Times] \cup {NoRow}

\* Stages in which a request has a thread of the pool.
InPool == {"device", "limit", "select", "update", "insert", "token", "registered", "create"}
Ended == {"ok", "refused", "error"}
Stages == {"new", "template", "mail"} \cup InPool \cup Ended

Goto(r, s) == stage' = [stage EXCEPT ![r] = s]

ThreadFree == Cardinality({r \in Requests : stage[r] \in InPool}) < pool

Init ==
    /\ \E s \in Setups : pool = s[1] /\ skew = s[2]
    /\ known = Known
    /\ now = 0
    /\ devices = [x \in DeviceIds \X Users |-> NoRow]
    /\ updated = [a \in Adds |-> NoStamp]
    /\ stage = [r \in Requests |-> "new"]
    /\ token = [a \in Adds |-> NoToken]
    /\ seen = [c \in Confirms |-> NoStamp]
    /\ checked = [c \in Confirms |-> NoTime]
    /\ granted = [a \in Adds |-> NoTime]
    /\ mails = {}

Tick ==
    /\ now < MaxTime
    /\ now' = now + 1
    /\ UNCHANGED <<pool, skew, known, devices, updated, stage, token, seen, checked, granted, mails>>

-----------------------------------------------------------------------------
(* create_user and merge_user                                              *)

\* One transaction: the rows of the user and of the device, which nobody has to
\* confirm, or neither where a primary key refuses.
CreateUser(s) ==
    /\ stage[s] = "new" /\ ThreadFree
    /\ \/ /\ User[s] \notin known /\ devices[<<Device[s], User[s]>>] = NoRow
          /\ known' = known \cup {User[s]}
          /\ devices' = [devices EXCEPT ![<<Device[s], User[s]>>] = [key |-> Key[s], at |-> now]]
          /\ Goto(s, "ok")
       \/ /\ User[s] \in known \/ devices[<<Device[s], User[s]>>] # NoRow
          /\ Goto(s, "error")
          /\ UNCHANGED <<known, devices>>
    /\ UNCHANGED <<pool, skew, now, updated, token, seen, checked, granted, mails>>

\* Signing in gives a user of Storiqa a row, and no device.
MergeUser(u) ==
    /\ u \notin known /\ ThreadFree
    /\ known' = known \cup {u}
    /\ UNCHANGED <<pool, skew, now, devices, updated, stage, token, seen, checked, granted, mails>>

-----------------------------------------------------------------------------
(* add_device                                                              *)

Tokens == {t \in Adds : updated[t] # NoStamp}

\* num_seconds() as usize: what lies ahead is more than any span ago.
Younger(stamp, span) == stamp <= now /\ now - stamp < span

StartAdd(a) ==
    /\ stage[a] = "new" /\ ThreadFree
    /\ Goto(a, IF User[a] \in known THEN "device" ELSE "refused")
    /\ UNCHANGED <<pool, skew, known, now, devices, updated, token, seen, checked, granted, mails>>

FindDevice(a) ==
    /\ stage[a] = "device"
    /\ Goto(a, IF devices[<<Device[a], User[a]>>] = NoRow THEN "limit" ELSE "refused")
    /\ UNCHANGED <<pool, skew, known, now, devices, updated, token, seen, checked, granted, mails>>

\* Faulty: a mail is refused only in the second of the last one.
CheckLimitLoosely(a) ==
    /\ stage[a] = "limit"
    /\ Goto(a, IF \E t \in Tokens : Key[t] = Key[a] /\ now = updated[t]
               THEN "refused" ELSE "select")
    /\ UNCHANGED <<pool, skew, known, now, devices, updated, token, seen, checked, granted, mails>>

\* Faulty: in the second in which the timeout has passed, it has not.
CheckLimitLate(a) ==
    /\ stage[a] = "limit"
    /\ \/ /\ \A t \in Tokens : Key[t] # Key[a]
          /\ Goto(a, "select")
       \/ \E t \in Tokens :
             /\ Key[t] = Key[a]
             /\ Goto(a, IF Younger(updated[t], EmailTimeout + 1) THEN "refused" ELSE "select")
    /\ UNCHANGED <<pool, skew, known, now, devices, updated, token, seen, checked, granted, mails>>

\* get_by_public_key returns whichever row with this key comes first.
CheckLimit(a) ==
    /\ stage[a] = "limit"
    /\ \/ /\ \A t \in Tokens : Key[t] # Key[a]
          /\ Goto(a, "select")
       \/ \E t \in Tokens :
             /\ Key[t] = Key[a]
             /\ Goto(a, IF Younger(updated[t], EmailTimeout) THEN "refused" ELSE "select")
    /\ UNCHANGED <<pool, skew, known, now, devices, updated, token, seen, checked, granted, mails>>

Same(t, a) == Device[t] = Device[a] /\ User[t] = User[a] /\ Key[t] = Key[a]

\* Faulty: no row is ever found.
SelectNoToken(a) ==
    /\ stage[a] = "select"
    /\ Goto(a, "insert")
    /\ UNCHANGED <<pool, skew, known, now, devices, updated, token, seen, checked, granted, mails>>

SelectToken(a) ==
    /\ stage[a] = "select"
    /\ Goto(a, IF \E t \in Tokens : Same(t, a) THEN "update" ELSE "insert")
    /\ UNCHANGED <<pool, skew, known, now, devices, updated, token, seen, checked, granted, mails>>

\* The update touches every row that matches and returns one of them; its time is
\* by the clock of the gateway.
UpdateToken(a) ==
    /\ stage[a] = "update"
    /\ updated' = [t \in Adds |-> IF t \in Tokens /\ Same(t, a) THEN now ELSE updated[t]]
    /\ \E t \in Tokens : Same(t, a) /\ token' = [token EXCEPT ![a] = t]
    /\ granted' = [granted EXCEPT ![a] = now]
    /\ Goto(a, "template")
    /\ UNCHANGED <<pool, skew, known, now, devices, seen, checked, mails>>

\* A new row gets a new id, which no constraint can refuse, and its time from the
\* default of the column, by the clock of the database.
InsertToken(a) ==
    /\ stage[a] = "insert"
    /\ updated' = [updated EXCEPT ![a] = now + skew]
    /\ token' = [token EXCEPT ![a] = a]
    /\ granted' = [granted EXCEPT ![a] = now]
    /\ Goto(a, "template")
    /\ UNCHANGED <<pool, skew, known, now, devices, seen, checked, mails>>

\* send_add_device: the template is read by a closure of its own, then comes
\* basic_publish to the queue emails.
GetTemplate(a) ==
    /\ stage[a] = "template" /\ ThreadFree
    /\ Goto(a, "mail")
    /\ UNCHANGED <<pool, skew, known, now, devices, updated, token, seen, checked, granted, mails>>

SendMail(a) ==
    /\ stage[a] = "mail"
    /\ mails' = mails \cup {token[a]}
    /\ Goto(a, "ok")
    /\ UNCHANGED <<pool, skew, known, now, devices, updated, token, seen, checked, granted>>

-----------------------------------------------------------------------------
(* confirm_add_device, one database transaction                            *)

DeviceOf(c) == <<Device[Token[c]], User[Token[c]]>>

Expired(c) == ~Younger(seen[c], Expiration + 1)

MayCreate(c) ==
    /\ checked' = [checked EXCEPT ![c] = now]
    /\ Goto(c, "create")

\* NotFound: there is no row with the id that the client has made up.
UnknownToken(c) ==
    /\ stage[c] = "new" /\ ThreadFree
    /\ Token[c] \notin Tokens
    /\ Goto(c, "refused")
    /\ UNCHANGED <<pool, skew, known, now, devices, updated, token, seen, checked, granted, mails>>

\* Only the mail tells a client the token.
StartConfirm(c) ==
    /\ stage[c] = "new" /\ ThreadFree
    /\ Token[c] \in mails
    /\ Goto(c, "token")
    /\ UNCHANGED <<pool, skew, known, now, devices, updated, token, seen, checked, granted, mails>>

GetToken(c) ==
    /\ stage[c] = "token"
    /\ seen' = [seen EXCEPT ![c] = updated[Token[c]]]
    /\ Goto(c, IF Given[c] \in {NoDevice, Device[Token[c]]} THEN "registered" ELSE "refused")
    /\ UNCHANGED <<pool, skew, known, now, devices, updated, token, checked, granted, mails>>

\* Faulty: a token does not expire.
GetRegisteredAnyTime(c) ==
    /\ stage[c] = "registered"
    /\ IF devices[DeviceOf(c)] # NoRow THEN Goto(c, "ok") /\ UNCHANGED checked
                                       ELSE MayCreate(c)
    /\ UNCHANGED <<pool, skew, known, now, devices, updated, token, seen, granted, mails>>

\* Faulty: it is not looked whether the device is there already.
GetRegisteredNever(c) ==
    /\ stage[c] = "registered"
    /\ IF Expired(c) THEN Goto(c, "refused") /\ UNCHANGED checked ELSE MayCreate(c)
    /\ UNCHANGED <<pool, skew, known, now, devices, updated, token, seen, granted, mails>>

GetRegistered(c) ==
    /\ stage[c] = "registered"
    /\ IF devices[DeviceOf(c)] # NoRow THEN Goto(c, "ok") /\ UNCHANGED checked
       ELSE IF Expired(c) THEN Goto(c, "refused") /\ UNCHANGED checked
       ELSE MayCreate(c)
    /\ UNCHANGED <<pool, skew, known, now, devices, updated, token, seen, granted, mails>>

\* Insert and commit; (device_id, user_id) is the primary key.
CreateDevice(c) ==
    /\ stage[c] = "create"
    /\ \/ /\ devices[DeviceOf(c)] = NoRow
          /\ devices' = [devices EXCEPT ![DeviceOf(c)] = [key |-> Key[Token[c]], at |-> now]]
          /\ Goto(c, "ok")
       \/ /\ devices[DeviceOf(c)] # NoRow
          /\ Goto(c, "error")
          /\ UNCHANGED devices
    /\ UNCHANGED <<pool, skew, known, now, updated, token, seen, checked, granted, mails>>

\* A statement, a transaction, the template or the publish fails, the client hangs
\* up before the mail, or the process dies: what was committed stays.
Fails(r) ==
    /\ stage[r] \in InPool \cup {"template", "mail"} \/ (r \in SignUps /\ stage[r] = "new")
    /\ Goto(r, "error")
    /\ UNCHANGED <<pool, skew, known, now, devices, updated, token, seen, checked, granted, mails>>

Next ==
    \/ Tick
    \/ \E s \in SignUps : CreateUser(s)
    \/ \E u \in Users : MergeUser(u)
    \/ \E a \in Adds :
          \/ StartAdd(a) \/ FindDevice(a) \/ CheckLimit(a) \/ SelectToken(a)
          \/ UpdateToken(a) \/ InsertToken(a) \/ GetTemplate(a) \/ SendMail(a)
    \/ \E c \in Confirms :
          \/ UnknownToken(c) \/ StartConfirm(c) \/ GetToken(c) \/ GetRegistered(c) \/ CreateDevice(c)
    \/ \E r \in Requests : Fails(r)

Spec == Init /\ [][Next]_vars

-----------------------------------------------------------------------------
(* Properties                                                              *)

\* Every variable stays in its type.
TypeOK ==
    /\ pool \in Nat \ {0} /\ skew \in Int
    /\ known \subseteq Users
    /\ now \in Times
    /\ devices \in [DeviceIds \X Users -> Row]
    /\ updated \in [Adds -> Int \cup {NoStamp}]
    /\ stage \in [Requests -> Stages]
    /\ token \in [Adds -> Adds \cup {NoToken}]
    /\ seen \in [Confirms -> Int \cup {NoStamp}]
    /\ checked \in [Confirms -> Times \cup {NoTime}]
    /\ granted \in [Adds -> Times \cup {NoTime}]
    /\ mails \subseteq Adds

Ahead == IF skew > 0 THEN skew ELSE 0

\* The user's own sign-up has written the row, with this key.
SignedUpWith(x) == \E s \in SignUps :
    stage[s] = "ok" /\ <<Device[s], User[s]>> = x /\ Key[s] = devices[x].key

\* The key came with a token that was mailed, and a confirmation found the token alive:
\* some request for that device was then no older than the token's life, but for what
\* the clocks differ by.
MailedAndConfirmed(x) ==
    /\ \E t \in mails : <<Device[t], User[t]>> = x /\ Key[t] = devices[x].key
    /\ \E c \in Confirms, a \in Adds :
          /\ DeviceOf(c) = x /\ <<Device[a], User[a]>> = x
          /\ Key[Token[c]] = devices[x].key /\ Key[a] = devices[x].key
          /\ granted[a] <= checked[c] /\ checked[c] <= devices[x].at
          /\ checked[c] <= granted[a] + Expiration + Ahead

\* Every device row is the one its user signed up with, or goes back to a mailed token
\* and its timely confirmation, although a confirmation decides on what it has read and
\* other requests refresh tokens all the while.
DevicesAreConfirmed == \A x \in DeviceIds \X Users : devices[x] # NoRow =>
    SignedUpWith(x) \/ MailedAndConfirmed(x)

Spaced(a, b, span) ==
    \/ granted[a] + span <= granted[b]
    \/ granted[b] + span <= granted[a]

SameKeyGrants == {p \in Adds \X Adds : /\ p[1] # p[2] /\ Key[p[1]] = Key[p[2]]
                                       /\ NoTime \notin {granted[p[1]], granted[p[2]]}}

Sole(a) == \A b \in Adds : Key[b] = Key[a] => Same(b, a)

\* With one thread, as configured, tokens for a key that belongs to one device
\* are granted at least the timeout apart: no other request comes between the
\* check of a request and its upsert, which are statements of their own.  Only the
\* time of the first grant is the database's: if its clock is behind, the next
\* may come that much earlier, and if it is ahead, at once.
GrantsAreSpaced == pool = 1 => \A p \in SameKeyGrants : Sole(p[1]) =>
    \/ Spaced(p[1], p[2], EmailTimeout)
    \/ /\ \E i \in {1, 2} : token[p[i]] = p[i]
       /\ skew > 0 \/ Spaced(p[1], p[2], EmailTimeout + skew)

RefusalIsDue == \A a \in Adds :
    stage[a] = "limit" /\ stage'[a] = "refused" => \E b \in Adds :
        Key[b] = Key[a] /\ granted[b] # NoTime /\ now < granted[b] + EmailTimeout + Ahead

\* Whoever the limit turns away, also after a grant whose mail has failed, comes
\* within the timeout after some grant for the key, or what the database's clock
\* adds to it: nobody is kept out for longer, on any number of threads.
RefusalsAreDue == [][RefusalIsDue]_vars

\* With one thread there is one token row for a device, user and key although
\* no constraint of the table says so: upsert finds what upsert has inserted.
TokensAreUnique == pool = 1 => \A t, s \in Tokens : Same(t, s) => t = s

\* "if user wants to confirm his device again and again he will receive Ok(())
\* everytime" (services/users.rs:271): with one thread, the insert never meets
\* a row of another confirmation.
ConfirmsRepeat == pool = 1 => \A c \in Confirms :
    stage[c] = "create" => devices[DeviceOf(c)] = NoRow

=============================================================================
