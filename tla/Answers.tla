------------------------------ MODULE Answers ------------------------------
(***************************************************************************)
(* From a request to its answer: the steps each route takes, how each of   *)
(* them can fail, and the status that becomes of a failure on its way      *)
(* through the error kinds of clients, repositories, services and          *)
(* controllers (api, services/error.rs, client).  What the steps do to     *)
(* rows and accounts is in the other modules; here a step is done or not.  *)
(***************************************************************************)
EXTENDS Naturals, Sequences, SequencesExt

-----------------------------------------------------------------------------
(* The steps of the routes                                                 *)

\* get_auth, then authenticate in one closure of the database
Auth == <<"bearer", "jwt", "headers", "session">>

Account == <<"createAccount", "accountRow">>
DefaultAccounts == Account \o Account \o Account

SignIn == <<"me", "mergeUser">> \o DefaultAccounts \o <<"newJwt", "session">>

SessionRoutes ==
    [post_sessions       |-> <<"headers", "body", "getJWTByEmail">> \o SignIn,
     post_sessions_oauth |-> <<"headers", "body", "getJWTByProvider">> \o SignIn]

ForwardedRoutes ==
    [post_users_confirm_email        |-> <<"body", "verifyEmail">>,
     get_users_confirm_email         |-> <<"verifyEmail">>,
     post_users_reset_password       |-> <<"body", "requestPasswordReset">>,
     post_users_resend_confirm_email |-> <<"body", "resendEmailVerificationLink">>]

DeviceRoutes ==
    [post_users_add_device         |-> <<"body", "token", "mail">>,
     post_users_confirm_add_device |-> <<"body", "device">>,
     get_register_device           |-> <<"device">>]

RevokeTokenDb == <<"newJwt", "revokeTokens">>

TokenRoutes ==
    [post_users_change_password |-> Auth \o <<"body", "changePassword">> \o RevokeTokenDb,
     post_users_confirm_reset_password |->
        <<"body", "validate", "applyPasswordReset">> \o RevokeTokenDb,
     get_confirm_reset_password |-> <<>>,
     get_users_me               |-> Auth \o <<"me">>,
     post_sessions_refresh      |-> Auth \o <<"refreshJWT">>,
     post_sessions_revoke       |-> Auth \o <<"revokeJWT">> \o RevokeTokenDb]

\* Faulty: the user gets the row before Storiqa has agreed to the input.
UserRoutesRowFirst ==
    [post_users |-> <<"body", "userRow", "validate", "createUser">> \o DefaultAccounts,
     put_users  |-> Auth \o <<"body", "validate", "profile", "updateUser">>]

UserRoutes ==
    [post_users |-> <<"body", "validate", "createUser", "userRow">> \o DefaultAccounts,
     put_users  |-> Auth \o <<"body", "validate", "updateUser", "profile">>]

AccountRoutes ==
    [post_accounts      |-> Auth \o <<"path", "body", "validate">> \o Account,
     get_users_accounts |-> Auth \o <<"path", "query", "list", "balance">>,
     get_accounts       |-> Auth \o <<"account", "balance">>,
     put_accounts       |-> Auth \o <<"body", "validate", "update", "balance">>,
     delete_accounts    |-> Auth \o <<"delete">>]

TransactionRoutes ==
    [get_transaction   |-> Auth \o <<"accounts", "getTransaction", "info">>,
     post_transactions |->
        Auth \o <<"body", "fiat", "owned", "validate", "createTransaction", "info">>,
     get_users_transactions |->
        Auth \o <<"path", "query", "list", "accountTransactions", "info">>,
     get_accounts_transactions |->
        Auth \o <<"query", "ownAccount", "accountTransactions", "info">>]

RateRoutes ==
    [post_rate         |-> Auth \o <<"body", "rate">>,
     post_rate_refresh |-> Auth \o <<"body", "refreshRate">>,
     post_fees         |-> Auth \o <<"body", "fees">>]

Routes == DOMAIN SessionRoutes \cup DOMAIN ForwardedRoutes \cup DOMAIN DeviceRoutes
          \cup DOMAIN TokenRoutes \cup DOMAIN UserRoutes \cup DOMAIN AccountRoutes
          \cup DOMAIN TransactionRoutes \cup DOMAIN RateRoutes \cup {"not_found"}

Steps == [r \in Routes |->
    CASE r \in DOMAIN SessionRoutes -> SessionRoutes[r]
      [] r \in DOMAIN ForwardedRoutes -> ForwardedRoutes[r]
      [] r \in DOMAIN DeviceRoutes -> DeviceRoutes[r]
      [] r \in DOMAIN TokenRoutes -> TokenRoutes[r]
      [] r \in DOMAIN UserRoutes -> UserRoutes[r]
      [] r \in DOMAIN AccountRoutes -> AccountRoutes[r]
      [] r \in DOMAIN TransactionRoutes -> TransactionRoutes[r]
      [] r \in DOMAIN RateRoutes -> RateRoutes[r]
      [] OTHER -> <<"route">>]

Redirecting == {"get_users_confirm_email", "get_register_device", "get_confirm_reset_password"}

OwnInput == {"bearer", "headers", "path", "body", "query", "validate", "route"}
Decodes == {"jwt", "newJwt"}
StoriqaCalls == {"getJWTByEmail", "getJWTByProvider", "createUser", "updateUser", "me",
    "verifyEmail", "requestPasswordReset", "resendEmailVerificationLink",
    "applyPasswordReset", "changePassword", "refreshJWT", "revokeJWT"}
TransactionsCalls == {"createAccount", "balance", "createTransaction", "getTransaction",
    "accountTransactions", "rate", "refreshRate", "fees"}

\* The calls whose answer says whether there was success.
Flagged == {"requestPasswordReset", "resendEmailVerificationLink", "applyPasswordReset",
    "changePassword"}

\* What a step may leave behind.
Changing == {"createUser", "updateUser", "verifyEmail", "requestPasswordReset",
    "resendEmailVerificationLink", "applyPasswordReset", "changePassword", "revokeJWT",
    "createAccount", "createTransaction", "session", "mergeUser", "userRow", "accountRow",
    "profile", "token", "mail", "device", "fiat", "update", "delete", "revokeTokens"}

-----------------------------------------------------------------------------
(* How a step fails                                                        *)

\* A status of the other server, no response, or one that cannot be read.
Replies == {"400", "401", "404", "422", "500", "502", "504", "other", "lost", "garbled"}

\* Refusals of the closures themselves.  Beyond these a statement can fail: the pool,
\* the database, the broker, or no row where one is updated.
Refusals ==
    [session    |-> {"Unauthorized", "InvalidInput"},
     token      |-> {"Unauthorized", "InvalidInput"},
     device     |-> {"NotFound", "InvalidInput"},
     owned      |-> {"Unauthorized"},
     accounts   |-> {"Unauthorized"},
     account    |-> {"Unauthorized"},
     ownAccount |-> {"Unauthorized", "NotFound"},
     update     |-> {"Unauthorized"},
     delete     |-> {"Unauthorized"}]

RefusalsOf(s) == IF s \in DOMAIN Refusals THEN Refusals[s] ELSE {}

\* Inserts that a primary key can refuse; "fiat" hides it as an internal error.
Keyed == {"userRow", "mergeUser", "accountRow", "device", "fiat"}

\* Storiqa's errors tell of a refusal, or of a failure of its own ("upstream"); a reply
\* of Storiqa may also hold neither errors nor data ("nothing").
Faults(s) ==
    CASE s \in OwnInput -> {"refused"}
      [] s \in Decodes -> {"expired", "invalid"}
      [] s \in StoriqaCalls -> Replies \cup {"errors", "upstream", "nothing"}
      [] s \in TransactionsCalls -> Replies
      [] OTHER -> {"failed"} \cup RefusalsOf(s) \cup (IF s \in Keyed THEN {"unique"} ELSE {})

-----------------------------------------------------------------------------
(* What becomes of it: one operator per conversion between error kinds     *)

HttpKind(w) ==
    CASE w = "400" -> "BadRequest"
      [] w = "401" -> "Unauthorized"
      [] w = "404" -> "NotFound"
      [] w = "422" -> "Validation"
      [] w = "502" -> "BadGateway"
      [] w = "504" -> "GatewayTimeout"
      [] w \in {"500", "lost"} -> "Internal"
      [] OTHER -> "UnknownServerError"

TransactionsKind(w) ==
    IF w # "garbled" /\ HttpKind(w) = "Validation" THEN "Validation" ELSE "Internal"

FromTransactions(k) ==
    CASE k = "Validation" -> "InvalidInput"
      [] k = "Unauthorized" -> "Internal"
      [] OTHER -> "Internal"

\* Faulty: whatever is not data is a refusal.
StoriqaKindNoData(w) ==
    IF w \in {"errors", "upstream"} THEN "Validation" ELSE "Unauthorized"

\* Errors in the response become a payload, with or without one of their own.
StoriqaKind(w) ==
    CASE w \in {"errors", "upstream"} -> "Validation"
      [] w = "nothing" -> "Unauthorized"
      [] OTHER -> "Internal"

FromStoriqa(k) ==
    CASE k = "Validation" -> "InvalidInput"
      [] k = "Unauthorized" -> "Unauthorized"
      [] OTHER -> "Internal"

ReposKind(w) == IF w = "unique" THEN "Constraints" ELSE "Internal"

FromRepos(k) == IF k = "Constraints" THEN "InvalidInput" ELSE "Internal"

FromJwt(w) == IF w = "expired" THEN "InvalidInput" ELSE "Unauthorized"

ServiceKind(s, w) ==
    CASE s \in Decodes -> FromJwt(w)
      [] s \in StoriqaCalls -> FromStoriqa(StoriqaKind(w))
      [] s \in TransactionsCalls -> FromTransactions(TransactionsKind(w))
      [] s = "validate" -> "InvalidInput"
      [] s = "fiat" -> "Internal"
      [] w \in RefusalsOf(s) -> w
      [] OTHER -> FromRepos(ReposKind(w))

FromService(k) ==
    CASE k = "InvalidInput" -> "UnprocessableEntity"
      [] k = "MalformedInput" -> "BadRequest"
      [] OTHER -> k

ControllerKind(s, w) ==
    CASE s \in {"bearer", "headers", "path"} -> "Unauthorized"
      [] s \in {"body", "query"} -> "BadRequest"
      [] s = "route" -> "NotFound"
      [] OTHER -> FromService(ServiceKind(s, w))

StatusOf(k) ==
    CASE k = "BadRequest" -> 400
      [] k = "Unauthorized" -> 401
      [] k = "NotFound" -> 404
      [] k = "UnprocessableEntity" -> 422
      [] OTHER -> 500

-----------------------------------------------------------------------------
VARIABLES
    route,
    at,      \* the step the request is at
    done,    \* steps that have changed something
    fault,   \* the failure that ended the request, or NoFault
    status   \* of the answer, or 0

answerVars == <<route, at, done, fault, status>>

NoFault == <<"none", "none">>
End == Len(Steps[route]) + 1
Step == Steps[route][at]
Working == at < End /\ status = 0

AnswerInit ==
    /\ route \in Routes
    /\ at = 1
    /\ done = {}
    /\ fault = NoFault
    /\ status = 0

Effect == IF Step \in Changing THEN {at} ELSE {}

Proceed ==
    /\ Working /\ Step # "route"
    /\ done' = done \cup Effect
    /\ at' = at + 1
    /\ UNCHANGED <<route, fault, status>>

\* No fiat value was given; the device is confirmed already.
NothingToDo ==
    /\ Working /\ Step \in {"fiat", "device"}
    /\ at' = at + 1
    /\ UNCHANGED <<route, done, fault, status>>

\* Storiqa answers with success: false, at which nobody looks.
Unsuccessful ==
    /\ Working /\ Step \in Flagged
    /\ at' = at + 1
    /\ UNCHANGED <<route, done, fault, status>>

\* merge_user finds the user: no default accounts.
FoundUser ==
    /\ Working /\ Step = "mergeUser"
    /\ at' = at + 1 + Len(DefaultAccounts)
    /\ UNCHANGED <<route, done, fault, status>>

\* No such account or transaction: the answer is null.
FoundNothing ==
    /\ Working
    /\ \/ route = "get_accounts" /\ Step = "account"
       \/ route = "get_transaction" /\ Step = "getTransaction"
    /\ at' = End
    /\ UNCHANGED <<route, done, fault, status>>

\* A list may be empty: no calls for its members.
ListedNothing ==
    /\ Working /\ Step \in {"list", "accountTransactions"}
    /\ at' = End
    /\ UNCHANGED <<route, done, fault, status>>

\* What is not the client's doing.  Such a failure may come after the deed: of a call
\* whose answer is lost, or of a commit.
Outage(s, w) ==
    \/ w \in {"failed", "upstream", "nothing"}
    \/ s = "newJwt"
    \/ w \in Replies /\ ~(w = "422" /\ s \in TransactionsCalls)

DoneAnyway(w) == IF Outage(Step, w) THEN {done, done \cup Effect} ELSE {done}

\* Faulty: signing in goes on without accounts, as signing up does.
IgnoredEverywhere == Step \in ToSet(Account) /\ route # "post_accounts"

\* post_users answers with the user whatever becomes of the accounts.
Ignored == route = "post_users" /\ Step \in ToSet(Account)

Ignore(w) ==
    /\ Working /\ Ignored
    /\ at' = End
    /\ done' \in DoneAnyway(w)
    /\ UNCHANGED <<route, fault, status>>

Fail(w) ==
    /\ Working /\ ~Ignored
    /\ fault' = <<Step, w>>
    /\ status' = StatusOf(ControllerKind(Step, w))
    /\ done' \in DoneAnyway(w)
    /\ UNCHANGED <<route, at>>

Respond ==
    /\ at = End /\ status = 0
    /\ status' = IF route \in Redirecting THEN 308 ELSE 200
    /\ UNCHANGED <<route, at, done, fault>>

AnswerNext ==
    \/ Proceed \/ NothingToDo \/ Unsuccessful \/ FoundUser \/ FoundNothing \/ ListedNothing \/ Respond
    \/ Working /\ \E w \in Faults(Step) : Ignore(w) \/ Fail(w)

AnswerSpec == AnswerInit /\ [][AnswerNext]_answerVars

-----------------------------------------------------------------------------
(* Properties                                                              *)

\* Every variable stays in its type.
AnswerTypeOK ==
    /\ route \in Routes
    /\ at \in 1..End
    /\ done \subseteq {i \in DOMAIN Steps[route] : Steps[route][i] \in Changing}
    /\ fault = NoFault \/ (fault[1] \in ToSet(Steps[route]) /\ fault[2] \in Faults(fault[1]))
    /\ status \in {0, 200, 308, 400, 401, 404, 422, 500}

Refused == status \in 400..499
DoneSteps == {Steps[route][i] : i \in done}

\* How the failures of Storiqa that reach the client as its own fault are answered:
\* errors that tell of one, a reply without errors or data, and a new token that
\* cannot be read or has expired.
Misread == {<<"upstream", 422>>, <<"nothing", 401>>, <<"invalid", 401>>, <<"expired", 422>>}

\* Of all that can go wrong behind the gateway - a lost call, any status of Storiqa, any
\* status of the transactions service but 422 (its refusal of the gateway's own token
\* among them), a database failure - the conversions make a 500, except of what Storiqa
\* says in a reply that is well-formed: there, and nowhere else, the client may read
\* that it is at fault when it is not.
OnlyStoriqaBlames == fault # NoFault /\ Outage(fault[1], fault[2]) =>
    \/ status = 500
    \/ fault[1] \in StoriqaCalls \cup {"newJwt"} /\ <<fault[2], status>> \in Misread

\* What a refused request may leave behind, by route: the later steps of these are
\* at another server or in another statement.
LeftBehind ==
    LET signIn == {"mergeUser", "createAccount", "accountRow", "session"} IN
    [r \in Routes |->
        CASE r \in {"post_sessions", "post_sessions_oauth"} -> signIn
          [] r = "post_users" -> {"createUser"}
          [] r = "post_users_change_password" -> {"session", "changePassword"}
          [] r = "post_users_confirm_reset_password" -> {"applyPasswordReset"}
          [] r = "post_sessions_revoke" -> {"session", "revokeJWT"}
          [] r = "post_accounts" -> {"session", "createAccount"}
          [] r = "put_accounts" -> {"session", "update"}
          [] r = "post_transactions" -> {"session", "fiat"}
          [] OTHER -> {"session"}]

\* What Storiqa may have done although its reply, which tells of no refusal, is taken
\* for one.
Unclear == IF fault[2] \in {"upstream", "nothing"} THEN {fault[1]} ELSE {}

\* A request that is refused has changed nothing but the device's timestamp, save on
\* the routes that write before the last party that can refuse has been asked, and
\* save the call that Storiqa failed at.
RefusalsLeaveNothing == Refused => DoneSteps \subseteq LeftBehind[route] \cup Unclear

\* A request that is answered with success has done everything, except that signing
\* up may have stopped anywhere in the default accounts, a user who was there already
\* gets none, what there is no need for is not done, and a reset, a resent mail or a
\* password change that Storiqa reports as unsuccessful is taken as done.
SuccessIsWhole == status \in {200, 308} => \A i \in DOMAIN Steps[route] \ done :
    Steps[route][i] \in Changing \ ({"fiat", "device"} \cup Flagged) =>
        /\ Steps[route][i] \in {"mergeUser"} \cup ToSet(Account)
        /\ \/ route = "post_users"
           \/ /\ route \in DOMAIN SessionRoutes
              /\ DoneSteps \cap ({"mergeUser"} \cup ToSet(Account)) = {}

=============================================================================
