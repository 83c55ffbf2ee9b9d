------------------------------ MODULE Startup -------------------------------
(***************************************************************************)
(* One life of the process after the other: start_server of lib.rs         *)
(* connects to the database and to RabbitMQ, declares exchange, queues and *)
(* bindings, subscribes, and leaves the subscription and the API to the    *)
(* runtime (lib.rs, rabbit/r2d2.rs, rabbit/transactions_publisher.rs,      *)
(* rabbit/transactions_consumer.rs, api/mod.rs).  A panic on the way ends  *)
(* the process, which is started again; what runs is not looked after.     *)
(***************************************************************************)
EXTENDS Naturals, Sequences

CONSTANTS
    MaxFaults,   \* bound: what goes wrong around the process
    MaxMessages  \* bound: announcements in the queue

ASSUME StartupAssumption == MaxFaults \in Nat /\ MaxMessages \in Nat

VARIABLES
    at,       \* where start_server is
    conn,     \* the connection to the broker
    task,     \* [Tasks -> how it is]: subscription, HTTP server, heartbeat
    next,     \* the declaration that init waits for
    prefetch, \* channels with prefetch count 1
    db, broker, \* up or down
    topology, \* what the broker knows of exchange, queues and bindings
    ready,    \* announcements waiting in the queue
    unacked,  \* announcements delivered and not settled
    vanished, \* routes of messages that were confirmed and put into no queue
    faults    \* what has gone wrong so far

process  == <<at, conn, task, next, prefetch>>
queue    == <<ready, unacked>>
bootVars == <<process, db, broker, topology, queue, vanished, faults>>

Routes == {"pushes", "callbacks", "emails"}

Item(kind, name) == [kind |-> kind, name |-> name]
Exchange     == Item("exchange", "notifications")
Transactions == Item("queue", "transactions")

\* Faulty: queues without bindings, as if the exchange were the default one.
QueuesOnly ==
    <<Exchange, Item("queue", "pushes"), Item("queue", "callbacks"), Item("queue", "emails")>>

\* Faulty: bindings before the queues they bind.
BindingsFirst ==
    <<Exchange, Item("bind", "pushes"), Item("bind", "callbacks"), Item("bind", "emails"),
      Item("queue", "pushes"), Item("queue", "callbacks"), Item("queue", "emails")>>

\* TransactionPublisherImpl::init, in the order of its futures: all durable, all
\* on one channel, where the broker answers in order.
Declarations ==
    <<Exchange, Item("queue", "pushes"), Item("queue", "callbacks"), Item("queue", "emails"),
      Item("bind", "pushes"), Item("bind", "callbacks"), Item("bind", "emails")>>

Items == [kind : {"exchange", "queue", "bind"},
          name : Routes \cup {"notifications", "transactions"}]

\* Waiting for an answer of the broker, without a timeout.
Calls      == {"publisher", "declare", "consumer", "queue", "consume"}
BootStages == {"down", "migrate", "pool", "connect", "api", "up"} \cup Calls
Tasks      == {"sub", "api", "heart"}

BootInit ==
    /\ at = "down" /\ conn = "none"
    /\ task = [t \in Tasks |-> "none"] /\ next = 1 /\ prefetch = {}
    /\ db \in {"up", "down"} /\ broker \in {"up", "down"}
    /\ topology = {} /\ ready = 0 /\ unacked = 0
    /\ vanished = {} /\ faults = 0

\* The broker takes back what a lost connection has not settled.
Requeue == ready' = ready + unacked /\ unacked' = 0

\* An expect or unwrap that meets an error, or the end of main.
Dies ==
    /\ at' = "down" /\ conn' = "none"
    /\ task' = [t \in Tasks |-> "none"] /\ next' = 1 /\ prefetch' = {}
    /\ Requeue

-----------------------------------------------------------------------------
(* Starting                                                                *)

\* Kubernetes starts the container again whenever it has ended.
Launch ==
    /\ at = "down"
    /\ at' = "migrate"
    /\ UNCHANGED <<conn, task, next, prefetch, db, broker, topology, queue, vanished, faults>>

\* "diesel migration run &&", and r2d2::Pool::build with its unwrap.
UseDatabase ==
    /\ at \in {"migrate", "pool"}
    /\ \/ /\ db = "up"
          /\ at' = IF at = "migrate" THEN "pool" ELSE "connect"
          /\ UNCHANGED <<conn, task, next, prefetch, queue>>
       \/ db = "down" /\ Dies
    /\ UNCHANGED <<db, broker, topology, vanished, faults>>

\* RabbitConnectionManager::create: connection and handshake have a timeout.
Connect ==
    /\ at = "connect"
    /\ \/ /\ broker = "up"
          /\ at' = "publisher" /\ conn' = "open" /\ task' = [task EXCEPT !.heart = "on"]
          /\ UNCHANGED <<next, prefetch, queue>>
       \/ broker = "down" /\ Dies
    /\ UNCHANGED <<db, broker, topology, vanished, faults>>

Replied(stage) == at = stage /\ conn = "open"

\* get_channel: open it, confirm_select, basic_qos.
PublisherChannel ==
    /\ Replied("publisher")
    /\ at' = "declare" /\ prefetch' = prefetch \cup {"publisher"}
    /\ UNCHANGED <<conn, task, next, db, broker, topology, queue, vanished, faults>>

\* A binding needs both of its ends; without, the broker closes the channel.
Possible(d) == d.kind = "bind" => {Exchange, Item("queue", d.name)} \subseteq topology

Declare ==
    /\ Replied("declare")
    /\ LET d == Declarations[next] IN
       \/ /\ Possible(d)
          /\ topology' = topology \cup {d}
          /\ IF next = Len(Declarations) THEN at' = "consumer" /\ UNCHANGED next
                                         ELSE next' = next + 1 /\ UNCHANGED at
          /\ UNCHANGED <<conn, task, prefetch, queue>>
       \/ ~Possible(d) /\ Dies /\ UNCHANGED topology
    /\ UNCHANGED <<db, broker, vanished, faults>>

\* Faulty: a channel without basic_qos.
ConsumerChannelOnly ==
    /\ Replied("consumer")
    /\ at' = "queue"
    /\ UNCHANGED <<conn, task, next, prefetch, db, broker, topology, queue, vanished, faults>>

\* subscribe: a channel of its own, the queue, and the consumer.
ConsumerChannel ==
    /\ Replied("consumer")
    /\ at' = "queue" /\ prefetch' = prefetch \cup {"consumer"}
    /\ UNCHANGED <<conn, task, next, db, broker, topology, queue, vanished, faults>>

DeclareQueue ==
    /\ Replied("queue")
    /\ at' = "consume" /\ topology' = topology \cup {Transactions}
    /\ UNCHANGED <<conn, task, next, prefetch, db, broker, queue, vanished, faults>>

\* The broker may deliver from now on; the subscription is spawned.
Consume ==
    /\ Replied("consume")
    /\ at' = "api" /\ task' = [task EXCEPT !.sub = "on"]
    /\ UNCHANGED <<conn, next, prefetch, db, broker, topology, queue, vanished, faults>>

\* api::server builds a pool of its own and binds the port; what goes wrong there
\* is logged, and the process stays.
StartApi ==
    /\ at = "api"
    /\ at' = "up"
    /\ \/ db = "up" /\ task' = [task EXCEPT !.api = "on"]
       \/ task' = [task EXCEPT !.api = "ended"]
    /\ UNCHANGED <<conn, next, prefetch, db, broker, topology, queue, vanished, faults>>

\* A call on a connection that breaks is an error.
CallFails ==
    /\ at \in Calls /\ conn = "broken"
    /\ Dies
    /\ UNCHANGED <<db, broker, topology, vanished, faults>>

Starting ==
    \/ Launch \/ UseDatabase \/ Connect \/ PublisherChannel \/ Declare
    \/ ConsumerChannel \/ DeclareQueue \/ Consume \/ StartApi \/ CallFails

-----------------------------------------------------------------------------
(* Running                                                                 *)

\* for_each ends with its stream, and nobody subscribes again.
SubscriptionEnds ==
    /\ task.sub = "on" /\ conn = "broken"
    /\ task' = [task EXCEPT !.sub = "ended"]
    /\ UNCHANGED <<at, conn, next, prefetch, db, broker, topology, queue, vanished, faults>>

\* The heartbeat finds out by failing to write.
HeartbeatEnds ==
    /\ task.heart = "on" /\ conn = "broken"
    /\ task' = [task EXCEPT !.heart = "ended"]
    /\ UNCHANGED <<at, conn, next, prefetch, db, broker, topology, queue, vanished, faults>>

\* shutdown_on_idle: main ends when no task is left.
Exit ==
    /\ at = "up" /\ \A t \in Tasks : task[t] = "ended"
    /\ Dies
    /\ UNCHANGED <<db, broker, topology, vanished, faults>>

\* The transactions service announces a transaction.
Announce ==
    /\ broker = "up" /\ Transactions \in topology /\ ready + unacked < MaxMessages
    /\ ready' = ready + 1
    /\ UNCHANGED <<process, db, broker, topology, unacked, vanished, faults>>

Deliver ==
    /\ task.sub = "on" /\ conn = "open" /\ ready > 0
    /\ "consumer" \in prefetch => unacked = 0
    /\ ready' = ready - 1 /\ unacked' = unacked + 1
    /\ UNCHANGED <<process, db, broker, topology, vanished, faults>>

\* basic_ack of one delivery, or basic_nack(0, true, true) of all there are.
Settle ==
    /\ task.sub = "on" /\ conn = "open" /\ unacked > 0
    /\ \/ unacked' = unacked - 1 /\ UNCHANGED ready
       \/ Requeue
    /\ UNCHANGED <<process, db, broker, topology, vanished, faults>>

\* The subscription sends pushes and callbacks, the API mails; the broker confirms
\* what it can route nowhere as well, as long as there is the exchange.
Publish(route) ==
    /\ IF route = "emails" THEN task.api = "on" ELSE task.sub = "on"
    /\ conn = "open" /\ Exchange \in topology
    /\ vanished' = IF {Item("queue", route), Item("bind", route)} \subseteq topology
                   THEN vanished ELSE vanished \cup {route}
    /\ UNCHANGED <<process, db, broker, topology, queue, faults>>

-----------------------------------------------------------------------------
(* What goes wrong around the process                                      *)

Fault == faults < MaxFaults /\ faults' = faults + 1

\* The connection is cut, or falls silent without being cut.
LoseConnection ==
    /\ Fault
    /\ \/ conn \in {"open", "silent"} /\ conn' = "broken" /\ Requeue
       \/ conn = "open" /\ conn' = "silent" /\ UNCHANGED queue
    /\ UNCHANGED <<at, task, next, prefetch, db, broker, topology, vanished>>

StopBroker ==
    /\ Fault /\ broker = "up"
    /\ broker' = "down"
    /\ IF conn \in {"open", "silent"} THEN conn' = "broken" /\ Requeue ELSE UNCHANGED <<conn, queue>>
    /\ UNCHANGED <<at, task, next, prefetch, db, topology, vanished>>

\* With what was durable, or with an empty disk.
StartBroker ==
    /\ broker = "down"
    /\ broker' = "up"
    /\ \/ UNCHANGED <<topology, ready>>
       \/ topology' = {} /\ ready' = 0
    /\ UNCHANGED <<process, db, unacked, vanished, faults>>

StopDatabase ==
    /\ Fault /\ db = "up"
    /\ db' = "down"
    /\ UNCHANGED <<process, broker, topology, queue, vanished>>

StartDatabase ==
    /\ db = "down"
    /\ db' = "up"
    /\ UNCHANGED <<process, broker, topology, queue, vanished, faults>>

Kill ==
    /\ Fault /\ at # "down"
    /\ Dies
    /\ UNCHANGED <<db, broker, topology, vanished>>

BootNext ==
    \/ Starting
    \/ SubscriptionEnds \/ HeartbeatEnds \/ Exit
    \/ Announce \/ Deliver \/ Settle
    \/ \E route \in Routes : Publish(route)
    \/ LoseConnection \/ StopBroker \/ StartBroker \/ StopDatabase \/ StartDatabase \/ Kill

BootSpec == BootInit /\ [][BootNext]_bootVars

\* The process runs and is restarted, the broker answers on a connection that is
\* open; nothing else has to happen.
FairBootSpec == BootSpec /\ WF_bootVars(Starting) /\ WF_bootVars(SubscriptionEnds) /\ WF_bootVars(Exit)

-----------------------------------------------------------------------------
(* Properties                                                              *)

\* Every variable stays in its type.
BootTypeOK ==
    /\ at \in BootStages
    /\ conn \in {"none", "open", "silent", "broken"}
    /\ task \in [Tasks -> {"none", "on", "ended"}]
    /\ next \in 1..Len(Declarations)
    /\ prefetch \subseteq {"publisher", "consumer"}
    /\ {db, broker} \subseteq {"up", "down"}
    /\ topology \subseteq Items
    /\ ready \in Nat /\ unacked \in Nat /\ faults \in 0..MaxFaults
    /\ vanished \subseteq Routes

\* Whatever the broker confirms is in a queue: before either half can publish, and
\* on every connection anew, exchange, queues and bindings are there, also when
\* the broker has come back with an empty disk in between.
NothingVanishes == vanished = {}

\* What module Notifications starts from: the handler never has more than one
\* delivery in its hands, so that a nack of all is a nack of this one.
OneAtATime == unacked <= 1

Serving == at = "up" /\ task.sub = "on" /\ task.api = "on" /\ conn = "open"

\* One half is gone and the process is not.
HalfUp == at = "up" /\ "ended" \in {task.sub, task.api}

\* The connection is silent, and nothing but the connection set-up has a timeout.
Hung == at \in Calls \cup {"api", "up"} /\ conn = "silent"

\* Whatever has gone wrong before, once database and broker are up for good the
\* process serves again and again, or is stuck in one of two ways the code has no
\* way out of: half of it has ended, or the broker's connection fell silent.
Recovers == <>[](db = "up" /\ broker = "up") => []<>(Serving \/ HalfUp \/ Hung)

=============================================================================
