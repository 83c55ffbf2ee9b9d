------------------------------ MODULE Database ------------------------------
(***************************************************************************)
(* What the database executor promises, without threads and connections,   *)
(* and what the other modules rely on when each of their actions is one    *)
(* statement or one commit: the statements of a closure given to execute   *)
(* stay one by one, those of a closure given to execute_transaction all at *)
(* once or never, and once a closure is answered nothing of it happens any *)
(* more.  Success means that everything has happened; failure means it of  *)
(* nothing, as a commit may be done and not answered.                      *)
(***************************************************************************)
EXTENDS Naturals

CONSTANTS Jobs, Kind, Length  \* as in Executor

VARIABLES
    answer, \* [Jobs -> how far the caller is]
    kept    \* [Jobs -> statements that will stay]

vars == <<answer, kept>>

Init ==
    /\ answer = [j \in Jobs |-> "none"]
    /\ kept = [j \in Jobs |-> 0]

Ask(j) ==
    /\ answer[j] = "none"
    /\ answer' = [answer EXCEPT ![j] = "asked"]
    /\ UNCHANGED kept

\* execute: the next statement commits by itself.
Keep(j) ==
    /\ answer[j] = "asked" /\ Kind[j] = "plain" /\ kept[j] < Length[j]
    /\ kept' = [kept EXCEPT ![j] = @ + 1]
    /\ UNCHANGED answer

\* execute_transaction: COMMIT, with its answer or without.
Commit(j) ==
    /\ answer[j] = "asked" /\ Kind[j] = "transaction" /\ kept[j] = 0
    /\ kept' = [kept EXCEPT ![j] = Length[j]]
    /\ answer' \in {answer, [answer EXCEPT ![j] = "ok"]}

Succeed(j) ==
    /\ answer[j] = "asked" /\ Kind[j] = "plain" /\ kept[j] = Length[j]
    /\ answer' = [answer EXCEPT ![j] = "ok"]
    /\ UNCHANGED kept

Fail(j) ==
    /\ answer[j] = "asked"
    /\ answer' = [answer EXCEPT ![j] = "error"]
    /\ UNCHANGED kept

Next == \E j \in Jobs : Ask(j) \/ Keep(j) \/ Commit(j) \/ Succeed(j) \/ Fail(j)

Spec == Init /\ [][Next]_vars

=============================================================================
