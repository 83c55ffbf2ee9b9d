--------------------------- MODULE Notifications ---------------------------
(***************************************************************************)
(* The notification half of the gateway: the broker queue on which the     *)
(* transactions service announces transactions, the subscription loop of   *)
(* start_server (lib.rs), the Notificator that turns one announcement into *)
(* pushes and a callback (services/rabbit.rs), and the confirm channel of  *)
(* TransactionPublisherImpl, with the database rows the Notificator reads  *)
(* while the API changes them.                                             *)
(***************************************************************************)
EXTENDS Naturals, Sequences, FiniteSets

CONSTANTS
    Messages,      \* announcements, one per transaction event
    Malformed,     \* the announcements whose body does not parse
    Accounts,      \* account ids
    Users,
    Devices,
    From,          \* [Messages -> sets of accounts]: the senders
    To,            \* [Messages -> account or NoAccount]: the receiver
    Owner,         \* [Accounts -> Users]
    WithCallback,  \* accounts created with a callback url (it never changes)
    Stored,        \* accounts with a row when the system starts
    Registered,    \* [Users -> sets of devices]: device rows at the start
    NoAccount, NoMessage,
    Faults,        \* the kinds of fault that may happen
    MaxFaults,     \* bound: faults in a behaviour
    MaxChanges     \* bound: database changes made by the API in a behaviour

FaultKinds == {"db", "timeout", "publish", "refuse", "connection", "crash"}

ASSUME NotificationsAssumption ==
    /\ Malformed \subseteq Messages
    /\ NoMessage \notin Messages
    /\ NoAccount \notin Accounts
    /\ From \in [Messages -> SUBSET Accounts]
    /\ To \in [Messages -> Accounts \cup {NoAccount}]
    /\ Owner \in [Accounts -> Users]
    /\ WithCallback \subseteq Accounts
    /\ Stored \subseteq Accounts
    /\ Registered \in [Users -> SUBSET Devices]
    /\ Faults \subseteq FaultKinds
    /\ MaxFaults \in Nat
    /\ MaxChanges \in Nat

VARIABLES
    accounts,  \* accounts that have a row
    deleted,   \* accounts whose row was deleted (ids are not used again)
    devices,   \* [Users -> sets of devices]: device rows
    changes,   \* database changes so far
    log,       \* every announcement, in the order the broker took them
    queue,     \* the durable queue transactions_<workspace>: ready messages
    held,      \* the delivered, unacknowledged message (prefetch count 1)
    acked,     \* acknowledged messages, in the order of their acks
    sub,       \* the subscription: "on", "ended", or the process is "down"
    stage,     \* where the future of handle_message is
    tx,        \* what get_transaction_info has found out so far
    inflight,  \* frames of this attempt the broker has not answered
    stray,     \* frames an abandoned attempt left in the channel
    outbox,    \* notifications the broker has taken into pushes and callbacks
    refused,   \* notifications the broker answered with basic.nack
    faults     \* faults so far

dbVars     == <<accounts, deleted, devices, changes>>
brokerVars == <<log, queue, held, acked>>
wireVars   == <<inflight, stray, outbox, refused>>
vars == <<dbVars, brokerVars, sub, stage, tx, wireVars, faults>>

-----------------------------------------------------------------------------
Stages == {"idle", "parse", "from", "to", "devices", "publish", "confirm", "nack"}

\* Stages in which the future under the Timeout of the subscription is running.
Running == {"parse", "from", "to", "devices", "publish", "confirm"}

\* read: the senders whose rows have been looked for.
TxInfo == [read : SUBSET Accounts, from : SUBSET Accounts, to : Accounts \cup {NoAccount},
           callback : BOOLEAN, devices : SUBSET Devices]

NoTx == [read |-> {}, from |-> {}, to |-> NoAccount, callback |-> FALSE, devices |-> {}]

Push(m, d, from, to) ==
    [kind |-> "push", msg |-> m, device |-> d, from |-> from, to |-> to]

Callback(m, a) == [kind |-> "callback", msg |-> m, account |-> a]

Notification ==
    [kind : {"push"}, msg : Messages, device : Devices,
     from : SUBSET Accounts, to : Accounts]
    \cup [kind : {"callback"}, msg : Messages, account : Accounts]

Elements(s) == {s[i] : i \in DOMAIN s}

\* The messages published when one attempt at m gets as far as publishing.
Wanted(m, info) ==
    {Push(m, d, info.from, info.to) : d \in info.devices}
    \cup (IF info.callback THEN {Callback(m, info.to)} ELSE {})

Fault(kind) ==
    /\ kind \in Faults
    /\ faults < MaxFaults
    /\ faults' = faults + 1

Init ==
    /\ accounts = Stored /\ deleted = {} /\ devices = Registered /\ changes = 0
    /\ log = <<>> /\ queue = <<>> /\ held = NoMessage /\ acked = <<>>
    /\ sub = "on" /\ stage = "idle" /\ tx = NoTx
    /\ inflight = {} /\ stray = {} /\ outbox = {} /\ refused = {}
    /\ faults = 0

-----------------------------------------------------------------------------
(* The transactions service and the API                                    *)

Announce(m) ==
    /\ m \notin Elements(log)
    /\ log' = Append(log, m)
    /\ queue' = Append(queue, m)
    /\ UNCHANGED <<dbVars, held, acked, sub, stage, tx, wireVars, faults>>

CreateAccount(a) ==
    /\ a \notin accounts \cup deleted
    /\ accounts' = accounts \cup {a}
    /\ UNCHANGED <<deleted, devices>>

DeleteAccount(a) ==
    /\ a \in accounts
    /\ accounts' = accounts \ {a}
    /\ deleted' = deleted \cup {a}
    /\ UNCHANGED devices

AddDevice(u, d) ==
    /\ d \notin devices[u]
    /\ devices' = [devices EXCEPT ![u] = @ \cup {d}]
    /\ UNCHANGED <<accounts, deleted>>

\* Each statement of an API request is a step of its own: the API has its own
\* connections and thread pool, so it runs between any two of the Notificator's.
ChangeDatabase ==
    /\ changes < MaxChanges
    /\ changes' = changes + 1
    /\ \/ \E a \in Accounts : CreateAccount(a)
       \/ \E a \in Accounts : DeleteAccount(a)
       \/ \E u \in Users, d \in Devices : AddDevice(u, d)
    /\ UNCHANGED <<brokerVars, sub, stage, tx, wireVars, faults>>

-----------------------------------------------------------------------------
(* One attempt at a message                                                *)

\* The broker keeps at most one message unacknowledged on the channel.
Deliver ==
    /\ sub = "on" /\ held = NoMessage /\ queue # <<>>
    /\ held' = Head(queue)
    /\ queue' = Tail(queue)
    /\ stage' = "parse"
    /\ UNCHANGED <<dbVars, log, acked, sub, tx, wireVars, faults>>

Parse ==
    /\ stage = "parse"
    /\ stage' = IF held \in Malformed THEN "nack" ELSE "from"
    /\ UNCHANGED <<dbVars, brokerVars, sub, tx, wireVars, faults>>

\* One statement for each sender; one without a row loses its id before the
\* transaction is passed on.
ReadFrom ==
    /\ stage = "from"
    /\ \/ \E a \in From[held] \ tx.read :
             /\ tx' = [tx EXCEPT !.read = @ \cup {a}, !.from = @ \cup ({a} \cap accounts)]
             /\ UNCHANGED stage
       \/ /\ From[held] \subseteq tx.read
          /\ tx' = [tx EXCEPT !.read = {}]
          /\ stage' = "to"
    /\ UNCHANGED <<dbVars, brokerVars, sub, wireVars, faults>>

ReadTo ==
    /\ stage = "to"
    /\ IF To[held] \in accounts
       THEN /\ tx' = [tx EXCEPT !.to = To[held],
                                !.callback = To[held] \in WithCallback]
            /\ stage' = "devices"
       ELSE /\ stage' = "publish"
            /\ UNCHANGED tx
    /\ UNCHANGED <<dbVars, brokerVars, sub, wireVars, faults>>

\* Faulty: the devices of the senders' owners are told instead.
ReadDevicesOfSender ==
    /\ stage = "devices"
    /\ tx' = [tx EXCEPT !.devices = UNION {devices[Owner[a]] : a \in tx.from}]
    /\ stage' = "publish"
    /\ UNCHANGED <<dbVars, brokerVars, sub, wireVars, faults>>

\* The owner's row exists: accounts.user_id references users, and no code
\* deletes a user.
ReadDevices ==
    /\ stage = "devices"
    /\ tx' = [tx EXCEPT !.devices = devices[Owner[tx.to]]]
    /\ stage' = "publish"
    /\ UNCHANGED <<dbVars, brokerVars, sub, wireVars, faults>>

\* join_all polls every publish future, which puts every frame on the channel.
Publish ==
    /\ stage = "publish"
    /\ inflight' = Wanted(held, tx)
    /\ stage' = "confirm"
    /\ UNCHANGED <<dbVars, brokerVars, sub, tx, stray, outbox, refused, faults>>

\* The broker takes a frame of the running attempt and confirms it.
Accept(n) ==
    /\ n \in inflight
    /\ inflight' = inflight \ {n}
    /\ outbox' = outbox \cup {n}
    /\ UNCHANGED <<dbVars, brokerVars, sub, stage, tx, stray, refused, faults>>

\* The publish future succeeds on basic.nack too: its value is thrown away.
Refuse(n) ==
    /\ n \in inflight
    /\ Fault("refuse")
    /\ inflight' = inflight \ {n}
    /\ refused' = refused \cup {n}
    /\ UNCHANGED <<dbVars, brokerVars, sub, stage, tx, stray, outbox>>

AcceptStray(n) ==
    /\ n \in stray
    /\ stray' = stray \ {n}
    /\ outbox' = outbox \cup {n}
    /\ UNCHANGED <<dbVars, brokerVars, sub, stage, tx, inflight, refused, faults>>

\* Faulty: the message is acknowledged as soon as the frames are written.
AckUnconfirmed ==
    /\ stage = "confirm"
    /\ acked' = Append(acked, held)
    /\ held' = NoMessage
    /\ stage' = "idle"
    /\ tx' = NoTx
    /\ stray' = stray \cup inflight
    /\ inflight' = {}
    /\ UNCHANGED <<dbVars, log, queue, sub, outbox, refused, faults>>

\* Every publish future is done: basic_ack(delivery_tag, false).
Ack ==
    /\ stage = "confirm"
    /\ inflight = {}
    /\ acked' = Append(acked, held)
    /\ held' = NoMessage
    /\ stage' = "idle"
    /\ tx' = NoTx
    /\ UNCHANGED <<dbVars, log, queue, sub, wireVars, faults>>

-----------------------------------------------------------------------------
(* Failures of an attempt                                                  *)

\* The future is dropped; some of its frames may be on the wire already.
Abandon ==
    /\ stage' = "nack"
    /\ \E sent \in SUBSET inflight : stray' = stray \cup sent
    /\ inflight' = {}

DbFails ==
    /\ stage \in {"from", "to", "devices"}
    /\ Fault("db")
    /\ stage' = "nack"
    /\ UNCHANGED <<dbVars, brokerVars, sub, tx, wireVars>>

\* One publish future fails, and join_all drops the others.
PublishFails ==
    /\ stage = "confirm" /\ inflight # {}
    /\ Fault("publish")
    /\ Abandon
    /\ UNCHANGED <<dbVars, brokerVars, sub, tx, outbox, refused>>

\* restart_subscription_secs have passed since the delivery.
HandlerTimeout ==
    /\ stage \in Running
    /\ Fault("timeout")
    /\ Abandon
    /\ UNCHANGED <<dbVars, brokerVars, sub, tx, outbox, refused>>

\* Faulty: the message goes to the back of the queue.
NackToTheBack ==
    /\ stage = "nack"
    /\ queue' = Append(queue, held)
    /\ held' = NoMessage
    /\ stage' = "idle"
    /\ tx' = NoTx
    /\ UNCHANGED <<dbVars, log, acked, sub, wireVars, faults>>

\* Faulty: the nack does not ask for the message back (requeue = false).
NackWithoutRequeue ==
    /\ stage = "nack"
    /\ held' = NoMessage
    /\ stage' = "idle"
    /\ tx' = NoTx
    /\ UNCHANGED <<dbVars, log, queue, acked, sub, wireVars, faults>>

\* After DELAY_BEFORE_NACK: basic_nack(0, true, true), which returns every
\* unacknowledged message of the channel to the front of the queue.
Nack ==
    /\ stage = "nack"
    /\ queue' = <<held>> \o queue
    /\ held' = NoMessage
    /\ stage' = "idle"
    /\ tx' = NoTx
    /\ UNCHANGED <<dbVars, log, acked, sub, wireVars, faults>>

-----------------------------------------------------------------------------
(* Failures of the subscription and of the process                         *)

\* Faulty: deliveries need no acknowledgement (no_ack), nothing is put back.
RequeuedNever == queue

\* What the broker does with the unacknowledged message of a channel that dies.
Requeued == IF held = NoMessage THEN queue ELSE <<held>> \o queue

\* Frames already written reach the broker or do not.
LoseChannels ==
    /\ queue' = Requeued
    /\ held' = NoMessage
    /\ stage' = "idle"
    /\ tx' = NoTx
    /\ \E arrived \in SUBSET (inflight \cup stray) : outbox' = outbox \cup arrived
    /\ inflight' = {}
    /\ stray' = {}

\* The stream or an ack or nack fails: for_each stops, and nothing in the
\* running process subscribes again.
ConnectionLost ==
    /\ sub = "on"
    /\ Fault("connection")
    /\ sub' = "ended"
    /\ LoseChannels
    /\ UNCHANGED <<dbVars, log, acked, refused>>

Crash ==
    /\ sub # "down"
    /\ Fault("crash")
    /\ sub' = "down"
    /\ LoseChannels
    /\ UNCHANGED <<dbVars, log, acked, refused>>

\* start_server: connect, declare, subscribe.
Restart ==
    /\ sub = "down"
    /\ sub' = "on"
    /\ UNCHANGED <<dbVars, brokerVars, stage, tx, wireVars, faults>>

-----------------------------------------------------------------------------
Next ==
    \/ \E m \in Messages : Announce(m)
    \/ ChangeDatabase
    \/ Deliver
    \/ Parse
    \/ ReadFrom
    \/ ReadTo
    \/ ReadDevices
    \/ Publish
    \/ \E n \in inflight : Accept(n)
    \/ \E n \in inflight : Refuse(n)
    \/ \E n \in stray : AcceptStray(n)
    \/ Ack
    \/ DbFails
    \/ PublishFails
    \/ HandlerTimeout
    \/ Nack
    \/ ConnectionLost
    \/ Crash
    \/ Restart

Spec == Init /\ [][Next]_vars

\* The runtime polls a future that can go on, the broker answers and delivers,
\* and the orchestrator restarts a dead process.  Nothing is assumed about
\* faults, about the API, or about a subscription that has ended.
Fairness ==
    /\ WF_vars(Deliver)
    /\ WF_vars(Parse)
    /\ WF_vars(ReadFrom)
    /\ WF_vars(ReadTo)
    /\ WF_vars(ReadDevices)
    /\ WF_vars(Publish)
    /\ WF_vars(\E n \in inflight : Accept(n))
    /\ WF_vars(Ack)
    /\ WF_vars(Nack)
    /\ WF_vars(Restart)

FairSpec == Spec /\ Fairness

-----------------------------------------------------------------------------
(* Properties                                                              *)

\* Every variable stays in its type.
TypeOK ==
    /\ accounts \subseteq Accounts
    /\ deleted \subseteq Accounts
    /\ devices \in [Users -> SUBSET Devices]
    /\ changes \in 0..MaxChanges
    /\ log \in Seq(Messages)
    /\ queue \in Seq(Messages)
    /\ held \in Messages \cup {NoMessage}
    /\ acked \in Seq(Messages)
    /\ sub \in {"on", "ended", "down"}
    /\ stage \in Stages
    /\ tx \in TxInfo
    /\ inflight \subseteq Notification
    /\ stray \subseteq Notification
    /\ outbox \subseteq Notification
    /\ refused \subseteq Notification
    /\ faults \in 0..MaxFaults

HeldSeq == IF held = NoMessage THEN <<>> ELSE <<held>>

\* Nothing is lost, doubled or overtaken: at every moment the announcements in
\* the order the broker took them are the acknowledged ones, then the one being
\* handled, then the ready ones, whatever was requeued by a nack, a dead
\* connection or a crash on the way.
QueueOrder == log = acked \o HeldSeq \o queue

\* The notifications owed for m in every run of the handler: its receiver has
\* had a row from the start and still has it.
AlwaysStored(m) == To[m] \in Stored \cap accounts

Due(m) ==
    IF AlwaysStored(m)
    THEN {<<"push", m, d>> : d \in Registered[Owner[To[m]]]}
         \cup (IF To[m] \in WithCallback THEN {<<"callback", m>>} ELSE {})
    ELSE {}

\* What a notification is about, apart from the account ids it carries.
Notice(n) == IF n.kind = "push" THEN <<"push", n.msg, n.device>>
                                ELSE <<"callback", n.msg>>

Answered == {Notice(n) : n \in outbox \cup refused}

\* An acknowledged message has been announced to every device of the receiver
\* and to its callback url: each was answered by the broker first, even if
\* earlier attempts at it failed half way or the process crashed between.
AckedIsNotified == \A i \in DOMAIN acked : Due(acked[i]) \subseteq Answered

\* Accounts that have or had a row here.
Known == Stored \cup accounts \cup deleted

\* A notification is about an announced message, goes to the receiver's side
\* only (its own callback, a device of its owner), and names only accounts
\* this gateway has had a row for.
Genuine(n) ==
    /\ n.msg \in Elements(log)
    /\ n.kind = "callback" => n.account = To[n.msg] /\ n.account \in WithCallback
    /\ n.kind = "push" =>
         /\ n.to = To[n.msg]
         /\ n.device \in devices[Owner[n.to]]
         /\ n.from \subseteq From[n.msg] \cap Known

NotificationsAreGenuine ==
    \A n \in inflight \cup stray \cup outbox \cup refused : Genuine(n)

\* The component keeps the promise of module Delivery.
Abs == INSTANCE Delivery WITH
    Notices  <- [m \in Messages |->
                   {<<"callback", m>>} \cup {<<"push", m, d>> : d \in Devices}],
    waiting  <- HeldSeq \o queue,
    settled  <- acked,
    due      <- [m \in Messages |-> Due(m)],
    answered <- Answered

ImplementsDelivery == Abs!Spec

\* As long as the subscription is alive and no body is announced that does not
\* parse, each announced message is acknowledged in the end: faults that stop
\* only delay it.
EveryMessageSettles == \A m \in Messages :
    (m \in Elements(log))
        ~> \/ m \in Elements(acked)
           \/ sub = "ended"
           \/ Elements(log) \cap Malformed # {}

\* "Callback url is called when transaction to this account occured"
\* (docs/apispec.yml:1469): whoever else announces what, an announcement that
\* parses, for an account with a callback url, leads to its callback.
CallbackIsPublished == \A m \in Messages \ Malformed :
    (m \in Elements(log) /\ <<"callback", m>> \in Due(m))
        ~> (<<"callback", m>> \in Answered \/ <<"callback", m>> \notin Due(m))

=============================================================================
