# A TLA+ model of payments-gateway

payments-gateway is the HTTP front of a wallet: it keeps users, their devices
and their accounts in PostgreSQL, forwards transactions to a *transactions
service*, leaves passwords and tokens to *Storiqa*, and turns the transactions
service's announcements on RabbitMQ into push notifications and callbacks. Paths
below are relative to the repository; `lib.rs` means `src/lib.rs`.

The modules in this directory model the parts that keep state or that several
actors work on at once, how the process comes up and goes down, and the way of a
request from its route to its answer. Each is model-checked with TLC on a small
instance, and TLAPS proves every safety property, for all values of the constants.

## 1. The system

| component | state it keeps | operations | talks to | what is hard |
|---|---|---|---|---|
| Notificator and subscription loop (`lib.rs`, `services/rabbit.rs`, `rabbit/*`) | the delivered message, the attempt at it, frames on the confirm channel; the durable queue is the broker's | deliver, parse, read accounts and devices, publish, ack; nack after a failure or timeout | broker, database, the transactions service (announcements) | order and at-least-once delivery across nacks, timeouts, lost connections and crashes; rows read one by one while the API changes them |
| Creating a transaction (`services/transactions.rs`, `repos/transactions_fiat.rs`, `client/transactions`) | table `transactions_fiat`; the stage of each request | insert the fiat row, check the owner, call, put the answer together | database, transactions service | each statement commits by itself, the call can be lost either way, clients choose ids and repeat requests |
| Adding and confirming devices (`services/users.rs`, `repos/devices*.rs`, `services/email_sender.rs`) | tables `devices`, `devices_tokens`; the queue `emails` | the device of a sign-up, add_device (find, limit, upsert, mail), confirm_add_device | database, broker | check and write in separate statements, expiry, the width of the thread pool, times by the clocks of gateway and database |
| Session tokens (`services/auth.rs`, `api/controllers/mod.rs`, `api/controllers/users.rs`) | column `users.revoke_before`, column `devices.last_timestamp`; tokens held by clients | authenticate, sign in, refresh, revoke, change or reset the password | database, Storiqa | revoke_before is written after an await; everything is compared in whole seconds |
| Users and accounts (`services/users.rs`, `services/accounts.rs`, `repos/accounts.rs`, `repos/users.rs`) | tables `users`, `accounts`; users at Storiqa, accounts at the transactions service | sign up, sign in (merge_user), default accounts, create, update, delete; change the profile | database, Storiqa, transactions service | a chain of remote calls and inserts that breaks anywhere, concurrent first sign-ins, change first and check after; a profile kept in two places and changed in one after the other |
| Database executor (`repos/executor.rs`) | a connection per thread (`DB_CONN`), the r2d2 pool | execute, execute_transaction | PostgreSQL | threads keep connections for good; broken ones are found by failing |
| Listings (`services/transactions.rs`, `services/accounts.rs`, `repos/accounts.rs`) | none of their own | get_accounts_for_user, get_account_transactions, get_transactions_for_user, get_transaction | database, transactions service | offset and limit per account; pages are made one after another while rows and transactions come and go |
| Single account reads, rates and fees | none | get_account, get_rate, refresh_rate, get_fees | transactions service | only how they fail (below) |
| Amounts (`models/amount.rs`) | none | u128 to and from PostgreSQL's numeric digits | database | zeros left out, checked and unchecked arithmetic at the width of u128 |
| Forwarded user operations (`services/users.rs`, `client/storiqa`) | none | confirm_email, resend, reset_password, me | Storiqa | only how they fail (below) |
| Broker connection set-up (`lib.rs`, `rabbit/*`, `api/mod.rs`, `Dockerfile`, `k8s`) | the connection, two channels, the tasks of the runtime; exchange, queues and bindings at the broker | migrate, open the pool, connect, declare, subscribe, serve; restart | broker, database, Kubernetes | any step fails or hangs; a broker that comes back empty; one half of the process ends and the other goes on |
| HTTP server and routing (`api/mod.rs`, `api/utils.rs`, the `error.rs` of every layer) | none | 29 routes; an error is converted from client or repository to service, to controller, to status | all of the above | five conversions in a row decide what the client is told; routes that call several parties fail half way |
| Models and validation, configuration, logging, migrations, deployment | none of their own | parsing, formatting | | nothing concurrent |

**How they meet.** `start_server` runs two halves on one Tokio runtime: the
subscription (`rt.spawn(subscription)`, `lib.rs:164`) and the API
(`lib.rs:165`). Each half has its own `DbExecutorImpl` with its own connection
pool and its own `CpuPool` (`lib.rs:97-102`, `api/mod.rs:65-72`); with the
configured `cpu_pool.size = 1` the closures given to *one* half run one after the
other, while those of the two halves interleave statement by statement. A future
that is waiting for HTTP, for the broker or for a delay holds no database thread.
`execute` commits every statement by itself; `execute_transaction` commits a
closure as a whole. The two halves share the database and the publisher's
channel, nothing else. One process runs (`k8s`, replicas 1).

What follows from that decides the grain of the models: **one action per
database statement or per transaction commit, one per message or call in each
direction**, with every other actor free to move in between.

## 2. What makes each component correct

* *Notifications.* No announcement is lost, duplicated or overtaken inside the
  gateway; one that is acknowledged has been passed on to everyone who was owed
  it; nobody else is told; each is settled in the end.
* *Transactions.* The fiat value is stored before anyone can see the
  transaction; a repeated request is not sent twice; only the owner of the paying
  account gets anything sent; a successful answer shows the fiat value and either
  account as their rows are.
* *Devices.* A device is the one its user signed up with, or comes from a mailed
  token that was alive when it was confirmed; tokens are unique and mails are spaced; whoever is turned away is not
  turned away for longer than the timeout; confirming again is harmless.
* *Sessions.* After "revoke all" the older tokens stay out and the newer ones
  stay in.
* *Accounts.* A row has its account and its user; the default accounts come once
  and in order; only owners change rows.
* *Profiles.* The row never shows what Storiqa has not got, and differs from it only
  where a change failed half way, met another one or was made elsewhere.
* *Start.* Nothing is published before it can be routed; the handler has one delivery
  in its hands; after faults that end, the process serves again.
* *Listings.* A client that pages to the end has missed nothing that was there all
  the time, and has seen nothing of another user.
* *Amounts.* What is written is the amount, in PostgreSQL's form; what is read is the
  amount that is there, or an error.
* *Answers.* No failure behind the gateway is reported as the client's fault but by
  what Storiqa says itself; a refused request has left nothing behind, and where the
  code cannot have that, no more than it must; success means that everything is done,
  as far as the gateway looks.
* *Executor.* A closure has a connection; broken connections leave; none has two
  users; closures end, their answer agrees with what is stored, and no thread,
  connection or outage can be told from outside.

PROJECT.json lists the hazards behind these, at the lines where they bite.

## 3. Modules

### Delivery and Notifications

`Delivery` is the abstract specification: messages wait in line, notices are
answered by the broker, and a message leaves the line only from its front and
only when nothing due for it is unanswered. `Notifications` is the code:

| in the model | in the code |
|---|---|
| `queue`, `held` | the durable queue; the one unacknowledged message (prefetch count 1, `rabbit/r2d2.rs:21`) |
| `stage`, `tx` | where the future of `handle_message` is; what `get_transaction_info` has read so far |
| `inflight`, `stray` | publishes of this attempt without an answer; those an abandoned attempt has left on the channel |
| `sub` | the subscription: running, ended (`for_each` stopped, nobody subscribes again, `lib.rs:161-164`), or the process is down |
| `ReadFrom`, `ReadTo`, `ReadDevices` | the statements of `get_transaction_info`, each on its own; one `ReadFrom` for each sender |
| `Publish`, `Accept`, `Refuse`, `Ack` | `join_all` over the publishes, the broker's ack or nack, `basic_ack` |
| `HandlerTimeout`, `Nack` | `Timeout::new(.., restart_subscription_secs)`; after the delay, `basic_nack(0, true, true)` |
| `ConnectionLost`, `Crash`, `Restart` | the connection or the process dies at any point |
| `ChangeDatabase` | the API creates and deletes accounts and adds devices between any two statements |

`ImplementsDelivery` is the refinement: `waiting` is the held message in front of
the queue, `due` what the unchanging part of the database owes, and every step of
`Notifications` is a step of `Delivery` or a stutter; `NotificationsProofs` proves it for
all constants.

Points where the model follows the code and not what one may expect: the publish
future succeeds on a broker nack too (`rabbit/transactions_publisher.rs:86-103`),
so "answered" does not mean "taken"; a body that does not parse is nacked like
any other failure; notifications are delivered at least once, never exactly once.

### Transfers

`create_transaction` from the first statement to the answer. `Requests` carry an
id, a payer, a receiver and perhaps a fiat value; several may share an id.
`InsertFiat`, `CheckOwner`, `Send` are the steps of the closure and the call,
`Receive` is the transactions service (external: it creates, repeats or rejects,
and the call may reach it after the caller has given up), `GetAnswer` /
`CallFails` the end of the call, `ShowFrom`, `ShowTo`, `ShowFiat` the three
lookups of `add_additional_info_to_transaction`. `DbFails` and `Abort` break a
request off anywhere. Account rows come and go by other requests.

`AnswerIsTrue` speaks of both accounts of the transaction (`TrulyShown`). Each is
looked up by a statement of its own, some time after the transactions service has
answered; `view` keeps which of them had a row then and which had lost it (`had`,
`lost`). An account with a row at both times is shown, one without a row at both is
hidden, and in between either may happen, of the receiver as of the payer. A receiver
that never had a row is hidden; the payer, whose row was seen by `CheckOwner`, only if
the row was deleted.

What the code does not promise, and no property says: a fiat row stays when the request
is refused or lost afterwards, and its id cannot be used with a fiat value again
(`services/transactions.rs:86`). An account keeps its owner (`Owner` is a constant), so
`SentByOwner` is about ownership; that the account still has its row when the call
leaves is not required, as the code does not look again.

### Devices

`StartAdd`, `FindDevice`, `CheckLimit`, `SelectToken`, `UpdateToken`,
`InsertToken`, `GetTemplate`, `SendMail` are `add_device`, statement by statement, with
`upsert` taken apart into the select and the write it consists of, and the reading of
the template and the publish of the mail after it. `UnknownToken`, `StartConfirm`,
`GetToken`, `GetRegistered`, `CreateDevice` are the transaction of
`confirm_add_device`. A request holds a thread from its first statement to its
last (`InPool`, `ThreadFree`); the number of threads is a choice of `Init`, so
that one run covers the configured single thread and two. Statements of a
transaction run under READ COMMITTED, each sees what has been committed before it.
`granted` and `checked` are history variables for the properties.

The table has a second writer. `CreateUser` is the transaction of `create_user`: the
rows of the user and of the first device (`services/users.rs:101-117`), without token,
mail or confirmation, once per user, since a known user's key refuses the first insert.
`MergeUser` is the sign-in that writes the user's row and no device; without a row
`add_device` refuses (`StartAdd`). `DevicesAreConfirmed` says what each row goes
back to: its user's own sign-up, with that key, or a mailed token and its confirmation.

Two clocks are read. A new token row has its time from the column's default
`current_timestamp`, by the database; `upsert` updates it to `Utc::now()`, by the
gateway, and the gateway compares. `skew` is the first clock less the second, fixed in
a behaviour and chosen in `Init`; a database session whose time zone is not UTC has
the same effect. `num_seconds() as usize` turns a time that lies ahead into a huge
duration (`Younger`): while the row is ahead the limit does not hold and a fresh token
has expired. The properties say what is left: `DevicesAreConfirmed` gives a token the
skew in addition, `GrantsAreSpaced` excepts the grant after the first, and
`RefusalsAreDue` bounds how long anyone is kept out, which with a clock ahead is the
timeout and the skew.

### Sessions

A token is its `exp`, counted from the second it was issued. `Decode`, `GetUser`,
`GetDevice`, `UpdateTimestamp` are `authenticate`; `Call`, `Issue`,
`RevokeTokens` are a call to Storiqa, the issuing of a token there, and
`revoke_token_db` afterwards, with the await between. The leeway with which
tokens are decoded is the token's lifetime, hence `Alive`. `before` and
`overlapped` are history variables.

### Accounts

Signing up (`SignUp`, `InsertUser`), signing in (`SignIn`, `FindUser`,
`InsertUser`, `Authenticate`), the chain of default accounts (`CallCreate`,
`InsertAccount` once per `step`), creating one account (`StartCreate` and the same
two), and changing one in a transaction (`Change` takes the row's lock, `Commit`
looks at the owner and commits or rolls back). `GivenUp` is where the callers
differ: `post_users` ignores how the accounts went, `merge_user` does not.

### Profiles

Names and phone are kept by Storiqa (`storiqa`) and copied into the row of `users`
(`row`). A request stands for the values it sets, so a field holds the request it got
its value from. `SignUp` and `ReadMe` bring a profile in, `FindUser` and `InsertUser`
make the row; `Send`, `Receive`, `GetAnswer`, `UpdateRow` are `PUT /users`: the call
with the given fields, Storiqa carrying it out (external; also after the caller has
given up), the answer, and the one statement. `met` records which changes of a field
were between Storiqa and the row at the same time; `wire` and `applied` say where a
call is.

What the model follows here: the phone of a sign-up is neither sent to Storiqa nor
stored (`client/storiqa/mod.rs:150-157`); a missing name is stored as the empty string,
so that `get_full_name` never shows its "unknown" for a row that the gateway made; a
row that is found at sign-in is not refreshed; a `PUT` without fields goes to Storiqa
and then fails, as diesel makes no statement of no changes.

### Startup

`start_server`, one action for each thing it waits for: `Launch` and `UseDatabase`
(the entry point's `diesel migration run`, then the pool), `Connect`,
`PublisherChannel`, `Declare` once for each of the seven declarations,
`ConsumerChannel`, `DeclareQueue`, `Consume`, `StartApi`. An `expect` or `unwrap` that
meets an error ends the process (`Dies`), and Kubernetes starts it again. `task` is
what `rt` runs: `SubscriptionEnds`, `HeartbeatEnds`, and `Exit` when nothing is left
(`shutdown_on_idle`). `topology` is what the broker knows, `ready` and `unacked` count
the announcements, `vanished` collects what was confirmed and routed nowhere. Broker
and database stop and start, the broker with its disk or without; a connection breaks,
or falls `silent`. What `Executor` has too carries `Boot` in its name (`BootInit`,
`BootSpec`), so that one module holds the proofs about both.

Two states have no way out in the code, and `Recovers` names them. `HalfUp`: the
subscription or the API has ended while the process stays; the end of the one is
no reason for the other, the heartbeat's task alone keeps the runtime busy, and
`k8s/30-deploy-pay-gw.yml` has no liveness probe. `Hung`: only connecting has a timeout
(`rabbit/r2d2.rs:62-73`), the later calls wait for good. What is published has no
delivery mode, so the durable queues do not keep it over a restart of the broker; this
is not in the model, in which a message is done with once it is confirmed.

### Executor and Database

`DbExecutorImpl` itself: closures queue for the threads (`Submit`, `Start`), a
thread without a connection asks the pool (`Get`, `GetFails`), runs statements and
commits (`Statement`, `Succeed`, `JobFails`, `ConnectionFails`,
`CommitUnanswered`), and after a failure tests its connection with `SELECT 1`
(`Check`). PostgreSQL breaks single connections (`Break`) or goes away and comes
back (`Outage`). The other modules rely on what is shown here: a closure either
runs on a connection or fails, and a failed transaction leaves nothing, unless its
commit was under way. They allow every statement to fail; a commit that is done
and not answered is, for them, a request that fails after its last step.

`Database` says this without threads and connections: a closure is asked for, its
statements stay one by one (`Keep`) or all at once (`Commit`), and it is answered
(`Succeed`, `Fail`), after which nothing of it happens. `ImplementsDatabase` is the
refinement: `answer` is how far the caller is, by the stage of the job, and `kept` is
`stored`. What a commit that is not answered leaves open is in it: `Commit` without
the answer, then `Fail`.

### Listings

A client asks for a list, page by page. `Ask` and `AskAgain` are the client and
the check of the controllers that the list is its own; `ReadAccounts` and
`ReadAccount` are the statement that finds the accounts, `Fetch` one call to the
transactions service with offset and limit, once for each account and in the order
of their ids, `FetchOne` is `get_transaction`, `ListAccounts` the statement of
`get_accounts_for_user`, with `OFFSET` and `LIMIT` over the rows by `created_at`.
`Book`, `CreateAccount` and `DeleteAccount` happen at any point. Reading changes
nothing, so one client, chosen in `Init`, stands for all. In which order the
transactions service lists transactions is not known here; the model allows the
newest or the oldest first. What is added to each item afterwards
(`add_additional_info_to_transaction`) is in `Transfers`. `Only` is a `WHERE`: what it
leaves of a sequence stays in order; `Slice` is `OFFSET` and `LIMIT`.

### Amounts

Functions, no state: `ToNumeric` is `u128_to_pg_decimal` with its iterator (`Rest` is
what an iteration leaves, `Count` how many there are, `Zeros` what `skip_while` drops),
`FromNumeric` is `pg_decimal_to_u128` with its digits phase (`Read`, checked) and its
correction phase (`Correct`, where `pow` is not checked: `Checked` says whether the build
panics or wraps). `Value` is the definition they are measured by, the sum of the digits
at their places.

### Answers

Each route is the sequence of its steps (`Steps`, one definition per group of
controllers; `AnswerInit` picks one): what the client's request itself must have (`OwnInput`: headers, path,
body, validation), decoding tokens, calls to Storiqa and to the transactions
service, and closures of the database, in the order of the controllers and services.
A request is its `route` and how far it is (`at`); `done` collects the steps that have
changed something, `fault` is the failure that ended it, `status` the answer.

* `Faults` are what can go wrong at a step: every status the other server can answer
  with, no response, one that cannot be read; in Storiqa's GraphQL `errors` that tell of
  a refusal, errors that tell of a failure of its own (`"upstream"`), or neither errors
  nor data (`"nothing"`); a refusal by the closure (`Refusals`, from the `Err` in each), a violated
  key, a failed statement. A call or commit may have been done although its answer is
  lost (`DoneAnyway`).
* `HttpKind`, `TransactionsKind`, `StoriqaKind`, `ReposKind`, `FromTransactions`,
  `FromStoriqa`, `FromRepos`, `FromJwt`, `FromService`, `ControllerKind`, `StatusOf`
  are the `match` and `From` of each layer, one operator each; `ServiceKind` says which
  of them a step goes through.
* `Unsuccessful` is a reply with `success: false` to one of the four calls whose answer
  has that flag (`Flagged`): it is parsed (`client/storiqa/responses.rs:154-163`) and
  dropped (`client/storiqa/mod.rs:320`, 345, 372, 399), so the request goes on with
  nothing done. `SuccessIsWhole` names these calls among its exceptions.
* `Outage` is every failure that is not the client's doing: a failed statement, every
  status of Storiqa, every status of the transactions service but 422, a lost or
  unreadable answer, `"upstream"`, `"nothing"`, and a new token of Storiqa's that
  cannot be decoded. `OnlyStoriqaBlames` says which of these the code reports as the
  client's fault: `Misread`, and nothing else.
* `Proceed` is a step that succeeds; `NothingToDo`, `FoundUser`, `FoundNothing`,
  `ListedNothing` are the early ends in the code; `Ignore` is `post_users`, which
  answers with the user however the default accounts went; `Fail` and `Respond` end
  the request.

One call stands for a loop of the same calls. One request is enough, as no status
depends on another request; what requests do to each other is in the other modules.
Points to know when reading it: Storiqa's `errors`, with or without a payload, always
become a 422 (`get_error_payload` returns a value for any list), also when they tell of
a failure inside Storiqa; 401 is left for a response with neither data nor errors, and
for a new token that cannot be read; a reply whose errors tell of a refusal is taken to
have changed nothing, one of the other two kinds may have (`DoneAnyway`, and `Unclear`
in `RefusalsLeaveNothing`); an update or delete that finds no row is an
internal error, not a 404; a repeated fiat id is an internal error too, as
`create_transaction` discards the kind.

`MC*` modules give the constants of each instance; `*Proofs` modules hold the
theorems. Operators commented *Faulty* are variants of an action with a plausible
mistake in it; nothing uses them, and each property fails when the variant listed
with it in PROJECT.json takes the action's place.

## 4. Runs

| run | instance | states | shows |
|---|---|---|---|
| `notifications` | 3 messages, one malformed, 2 accounts, 2 users, 2 devices, any 2 faults, any 2 database changes | 270,084 | `QueueOrder`, `AckedIsNotified`, `NotificationsAreGenuine`, the refinement `ImplementsDelivery`, and `EveryMessageSettles` under `FairSpec` |
| `notif_poison` | a good and a malformed message, no faults | violated | `CallbackIsPublished` fails: section 7 |
| `transfers` | 4 requests, three of them with one id, three accounts of two users, one without a row at first, an outside address | 1,146,159 | `FiatBeforeLedger`, `FiatSentOnce`, `SentByOwner`, `AnswerIsTrue` |
| `devices` | a sign-up, sign-ins, 3 requests to add, 2 confirmations, seconds 0 to 3, 1 thread with the database's clock a second behind or ahead, or 2 threads with the same clock | 3,660,128 | `DevicesAreConfirmed`, `GrantsAreSpaced`, `TokensAreUnique`, `ConfirmsRepeat`, `RefusalsAreDue` |
| `sessions` | a renewal, a revocation, a reset and a sign-in of one user, 3 seconds | 1.5 million | `RevokedIsOlder`, `RevokedStaysOut` |
| `sessions_revoke` | two revocations and a sign-in | violated | `RevokeHolds` fails: section 7 |
| `accounts` | a sign-up and two sign-ins of one user, four requests about accounts | 216,538 | `RowsHaveAccounts`, `DefaultsOnce`, `DefaultsInOrder`, `OnlyOwnersChange` |
| `profiles` | 4 profile changes, a sign-up, a sign-in, a change made elsewhere; with and without a user and a row | 1,754,696 | `RowFollowsStoriqa`, `FieldsAgree` |
| `startup` | any 5 faults, up to 3 announcements, any number of restarts | 6,732 | `NothingVanishes`, `OneAtATime`, and `Recovers` under `FairBootSpec` |
| `executor` | 3 closures, 2 threads, 1 or 2 connections | 101,924 | `HealedNextTime`, `ConnectionsAreExclusive`, `NeverStarved`, `AnswersAreKept`, the refinement `ImplementsDatabase`, and `EveryJobEnds` under `FairSpec` |
| `listings` | 3 accounts of two users, 3 transactions, every kind of list, limits 1 and 2 | 752,379 | `HistoryIsComplete`, `AccountsAreComplete`, `ListedIsOwn`, and before it starts, `WritesExactly` and `ReadsExactly` |
| `answers` | every route, with any one failure at any step | 1,128 | `OnlyStoriqaBlames`, `RefusalsLeaveNothing`, `SuccessIsWhole` |

Deadlock is not checked: requests, messages, faults and time are finite in the
instances, and a state in which all are done has no step left.

The type invariants are proved and not checked again by a run. `WritesExactly` and `ReadsExactly` of `Amounts` speak of no
state: `MCListings` assumes them, and TLC evaluates them before the run, for all amounts
below 40 to the base 3 and all numerics of up to four digits with up to two more zeros.

**Bounds, and why they are enough.** All bounds are named constants.

* `MaxFaults = 2`: one fault can break an attempt and a second one its repetition
  or the recovery from the first, in any combination of the six kinds. What
  happens after a third starts again from a queue in order, which is what the
  inductive invariant of section 6 says without a bound.
* `MaxChanges`: one change can fall between the statements of one attempt, two can
  undo each other or fall into two attempts. Two messages show overtaking, a
  third one between shows overtaking of what is neither first nor last.
* `MaxTime`: in `devices`, a second more than the timeout and than the life of a token,
  both 2, so that a request is granted in second 0, refused in 1 and granted again in 2,
  and a token is alive in second 2 and expired in 3; in `sessions`, three times
  the life of a token, so that a token can be issued, revoked and outlived by
  another one.
* In `devices`, the user's row comes from a sign-up or a sign-in, as a user who has one
  cannot sign up; the sign-up's device shares its key with one of the requests to add.
  One thread with either skew, as the promises for one thread are the
  ones the skew weakens; two threads with one clock.
* In `profiles`, changes that share a field and that do not, one of them with no
  fields; a sign-up with the phone; a user who is there already with a missing field.
* `MaxFaults = 5` in `startup`: a fault can hit each of two starts in a row and what is
  running in between. Its states are few, since only the kind of each task and of each
  party matters; two announcements show a second delivery, the third one a
  redelivery beside them.
* Two threads are enough for every race between two statements; two connections
  for exclusion; one connection with two threads for starvation.
* In `listings`, a user with two accounts and three transactions, one of them
  between the two, makes pages with both limits that are full, half full and empty,
  and lists that move in front of and behind the offset.
* `answers` has no bound: the routes, their steps and their failures are finite, and
  all of them are tried.
* Requests of one user, device and id are the interesting ones, as rows of
  different users do not meet; where a stranger matters (`transfers`, `accounts`)
  there is one. In `transfers` there is a receiver with a row, one that may get one, and
  one outside, so that each can be shown, hidden, or lost on the way.

No symmetry is used: the instances give each request a part of its own.

**Fairness.** `notifications` assumes weak fairness of each step of the handler,
of the broker delivering and accepting, of ack and nack, and of `Restart`: the
Tokio runtime polls what is ready, the broker is alive, the nack delay ends, and
the orchestrator restarts a dead process. It assumes nothing about faults, which
the bound ends, about the API, or about an ended subscription: an ended
subscription is an escape the property names, because nothing in the code leads
out of it. The other escape is a body that does not parse: what it does to the
messages behind it is the subject of `notif_poison`. `executor` assumes that each thread goes on: `CpuPool`'s threads run,
`Pool::get` returns after its connection timeout, and a statement is answered or
its connection reports an error. It does not assume that the database comes back,
nor that a closure ever fails by itself. `startup` assumes that what is being started
goes on, and is started again when it has ended (`Starting`: the orchestrator's restart
policy, and the broker answering on an open connection), that a stream whose connection
broke ends, and that `main` ends when no task is left. That a dead heartbeat is noticed
is not assumed, nor that broker or database come back: `Recovers` has their return as
its premise.

## 5. What is abstracted

Currencies, names, and amounts outside module `Amounts`, addresses, mail templates and message bodies are
carried through and never decide anything in the modelled code; they are left out
or are single model values. Signatures are a set of requests whose signature
verifies. JSON that parses or not is a set of messages. Seconds are counted from
zero, a clock never goes back, and in `Devices` two clocks differ by a constant. Fresh ids are never used again, as UUIDs.

## 6. Theorems

Every theorem is proved for all values of the constants that satisfy the module's
one named assumption (the functions have their domains and ranges, the "none"
values are not members, a sign-up gives both names, account ids are ordered, a base is at
least 2 and smaller than the width, and the sets of threads and connections in `Executor`
and of requests in `Devices` are finite). TLC evaluates the same assumptions on the
instances. The proofs about a module that has steps have the same shape: an inductive
invariant, `Init` implies it, lemmas that each conjunct survives each action, and the
properties as consequences. The invariant was an invariant of a run before it was proved.

| module | proved | the invariant, and why it is needed |
|---|---|---|
| `NotificationsProofs` | `TypeOK`, `QueueOrder`, `AckedIsNotified`, `NotificationsAreGenuine`, `ImplementsDelivery` | `AckedIsNotified` is about messages already gone; the invariant says what an attempt has to have read by each stage (`TxOK`), and that when it waits for answers everything due is answered or in flight (`PublishedOK`). The receiver's row may go meanwhile: it can only make less due. `WireOK` says that a frame on the wire is about the message at the front or about one acknowledged before, which is what the refinement needs of a late answer. |
| `TransfersProofs` | `TypeOK`, `FiatBeforeLedger`, `FiatSentOnce`, `SentByOwner`, `AnswerIsTrue` | A request that the transactions service may yet hear of is past its insert (`FiatInv`: its value is stored, and it is the only one with that id and a value) and past its check (`OwnerInv`: the account is its user's, with a row or deleted since). `LedgerInv` says that an id the service has answered for has its transaction, `RowsInv` that a row that is gone stays gone, and `ViewInv` what each lookup has found of either account, between the answer of the transactions service and now. |
| `DevicesProofs` | `TypeOK`, `DevicesAreConfirmed`, `GrantsAreSpaced`, `TokensAreUnique`, `ConfirmsRepeat`, `RefusalsAreDue` | A row of a sign-up stays as it is (`SignedUpStays`). For the others, `UpdatedInv` and `ConfirmInv`: a time in a token row, and so the time a confirmation has read, is that of some request for this device, which is what the life of the token is counted from, within what the clocks differ by (`First` for a row as inserted, `Refreshed` for one updated since). `RefusalsAreDue` follows from it, on any number of threads. `AloneInv` (with one thread, one request is between its statements) carries the other three: `LimitInv` says that who is past the check has waited and that no grant is younger than the row with its key. |
| `RequestsProofs`, tokens | `TypeOK`, `RevokedIsOlder`, `RevokedStaysOut` | `HoldInv`: an answered revocation that met no other one is still in force, and what is waiting to be written is no older; `OverlapInv` makes sure that whoever runs into another is marked. |
| `AccountsProofs` | `TypeOK`, `RowsHaveAccounts`, `DefaultsOnce`, `DefaultsInOrder`, `OnlyOwnersChange` | `FounderInv`: of the requests that join a user, one has inserted the row, and only that one has remote accounts; `LockInv`: a changed row is there and locked until the transaction ends. |
| `RuntimeProofs`, executor | `TypeOK`, `HealedNextTime`, `ConnectionsAreExclusive`, `NeverStarved`, `AnswersAreKept`, `ImplementsDatabase` | `FailedInv`: a thread whose connection has failed a job is about to test it; `PoolInv`: no connection gets lost. `NeverStarved` is then a pigeonhole argument over finite sets. `StoredInv`: a plain closure has stored what it has done; with `AnswersAreKept` it makes every step one of `Database` or a stutter. |
| `ProfilesProofs` | `TypeOK`, `RowFollowsStoriqa`, `FieldsAgree` | `AgreeInv` says of each field whose change Storiqa had last: another client's, a `PUT` that failed or met another (`PutLast`), one that is alone on its way to the row (`Alone`), or nobody's who is still under way (`Quiet`). `FreshInv` keeps what a first sign-in is about to insert from being out of date. |
| `RuntimeProofs`, start | `BootTypeOK`, `NothingVanishes`, `OneAtATime` | `DeclaredInv`: a connection that was not lost has seen every declaration that `start_server` is past, as the broker can not have been away since; `HalvesInv`: nothing runs before the set-up is over and the consumer's channel has its limit. |
| `DataProofs`, lists | `TypeOK`, `HistoryIsComplete`, `AccountsAreComplete`, `ListedIsOwn` | What a client is to get (`Wanted`) and has not got stands behind the offset it asks from, and when a page with its account's window is made, on the page or behind the next offset (`PagesInv`): a list grows at one end and nothing in it changes, so items only move back. For accounts that is not so, a deletion moves those behind it forward; `PlacesInv` says that an account which no deletion in front of it has moved is where it was, and `AccountPagesInv` is `PagesInv` for those. `OwnInv` keeps what is fetched with the accounts it is fetched for. |
| `DataProofs`, amounts | `WritesExactly`, `ReadsExactly`, and that every amount comes back as it was (`AmountsComeBack`) | No invariant, as nothing moves, but inductions along the digits: after k digits of v, from the last, what is left of v makes up for them (`DigitsIs`); after k digits read, the partial result times the place of the last is the sum so far, or both are too large (`Agree`). A power that is needed for an amount is itself below the width (`ReadsOne`), which is why the unchecked `pow` does no harm to amounts. |
| `RequestsProofs`, answers | `AnswerTypeOK`, `OnlyStoriqaBlames`, `RefusalsLeaveNothing`, `SuccessIsWhole` | Two halves. About the tables, without a state: every route is `Tidy`, so nothing that changes something and is not in `LeftBehind` comes before a step that can refuse, and nothing is changed after a lookup that may come back empty; an outage goes through all the conversions to 500, or to one of the pairs of `Misread` where Storiqa is the one who fails (`OutagesEnd`), and every other status is that of a step in `CanRefuse` (`OthersCanRefuse`). About the request: `EndedInv` ties status and failure to the step it is at, `DoneInv` says that what is done is behind it, or was done although the answer failed, and `MissingInv` that what was passed over is what nothing called for, what Storiqa reports as unsuccessful, the rest of a sign-up's default accounts, or the whole `merge_user` of a known user. |

Two of the theorems are refinements. `NotificationsProofs!ImplementsPromise`: `Init`
maps to `Delivery`'s `Init`, an announcement to `Announce`, a change of the database to
`Excuse` (debts only shrink), the ack to `Settle`, and every other step to `Answer`.
`RuntimeProofs!Implements`: `Init` maps to `Database`'s `Init`, and every step to a step
of `Database` or a stutter (`PromiseStep`, one step of the proof for each kind of action).

What recursive functions compute is proved by induction over sets: `LeastOf` (a set of
numbers that is not empty has a least one, from the library's well-foundedness of `<`)
gives `Induction`, and that `SequenceInduction`; `Recursion` and `SameSteps` say that a
function given by its steps exists and is the only one, as a recursive definition alone
says neither to a prover. They hold for sets of numbers and of sequences, so each use
names the set of those for which the claim holds.

Only model-checked: the three liveness properties and what rests on fairness (outside the
prover's logic here), and of course the two violations. `Answers` has no constants, so its
run is exhaustive; its proof says why the order of the steps is what it has to be.

## 7. Where code and documentation differ

Two runs are expected to end in a violation; each states what a line of the
repository says.

* `notif_poison`: "Callback url is called when transaction to this account
  occured" (`docs/apispec.yml:1469`). An announcement whose body does not parse
  goes back to the front of the queue each time, and with a prefetch count of 1
  nothing behind it is ever delivered.
* `sessions_revoke`: "Revokes all jwt tokens and returns new jwt token"
  (`docs/apispec.yml:263`). `revoke_before` takes the value of the last writer,
  not the largest; two overlapping revocations may write in the other order.
  `RevokedStaysOut` says what does hold.

Three more differences are plain from the code and have no run:

* "can not send email more often then 30 seconds" (`services/users.rs:211`). The limit
  looks at one row with the device's public key, and there may be one per device and
  user with that key: a request that meets an older one gets its mail. `GrantsAreSpaced`
  is about keys of one device.
* "The numbers of items to return" (`docs/apispec.yml:1657`, at most 50).
  `get_transactions_for_user` applies offset and limit to each account and
  joins the lists (`services/transactions.rs:181-190`): an answer has up to limit
  items per account, and a transaction between two accounts of the user is in it
  twice. `HistoryIsComplete` says that paging with such answers still misses nothing.
* "Overflow in Pgnumeric to u128 (correction phase)" (`models/amount.rs:128`) is the error
  for a number too large. `10u128.pow` before it is not checked (the line above says
  "Todo - checked by using iteration"): a numeric like 10^40, whose power alone is beyond
  u128, makes a debug build panic and a release build go on with a wrong factor.
  `ReadsExactly` excepts these, and only these.

## 8. Not modelled

* *Balances*: `accounts.balance` is the only numeric column. `NewAccount` and
  `UpdateAccount` leave it out, so it keeps its default 0; balances in answers come from
  the transactions service. `Amounts` says what the conversion does with any value.
  `checked_add` and `checked_sub` are used by tests only.
* *The timestamp header*: `authenticate` stores it in `devices.last_timestamp`, which
  nothing reads. The error "received timestamp is less or equal to timestamp in db"
  (`services/error.rs:58`) is declared and never raised, so no property is about it.
* *Bodies that cannot be read* (`api/mod.rs:109`): the client is gone.
* *Models, configuration, logging, migrations, deployment*: read for the
  guards and values the modules use (keys, foreign keys, one thread, one replica).
* *Failed sign-ups*: a user whom Storiqa has created and whose local transaction failed
  gets the row by signing in (`merge_user`, in `Accounts`); that the client does so is up
  to it, and no property is about it.
* *Revocations during a request*: `revoke_before` is read once, when a request is
  authenticated (`services/auth.rs:79`); one that is answered after that does not stop
  the request, and `RevokedStaysOut` is about those answered before it came in.
* *Ties in `created_at`*: `list_for_user` orders by this column alone
  (`repos/accounts.rs:67`). `AccountsAreComplete` assumes that no two accounts of a user
  have been created in the same microsecond; PostgreSQL may list those in either order.
* *Clocks that are set*: in `Devices` the clocks of gateway and database differ by a
  constant, and neither is set back while the process runs.
* *What durable queues lose*: messages have no delivery mode and go when the broker
  restarts (section 3, Startup); the code promises nothing beyond the broker's answer.

## 9. Plan

Order: what can lose or misdirect money or messages first, then what the other
modules rest on, then reads and pure functions.

1. Done: `Delivery`, `Notifications`, `Transfers`, `Devices`, `Sessions`,
   `Accounts`, `Profiles`, `Startup`, `Executor` with `Database`, `Listings`, `Amounts`,
   `Answers`, each with its proofs.
2. `Database` with the statements of a module above as its closures: what the modules
   assume of `execute` and `execute_transaction` is then composed with what
   `ImplementsDatabase` shows.
3. `Startup` and `Notifications` in one behaviour, with the subscription's end and
   restart from the one and the attempt at a message from the other.
