------------------------------ MODULE Delivery ------------------------------
(***************************************************************************)
(* What the notification component promises, without saying how: messages  *)
(* about transactions wait in line, the broker is handed notices about     *)
(* them, and a message leaves the line only from its front and only when   *)
(* every notice still due for it has been answered by the broker.  Notices *)
(* may be handed over early, more than once, and even after the message    *)
(* has left: the promise is "at least once, in order", never "once".       *)
(***************************************************************************)
EXTENDS Sequences, FiniteSets

CONSTANTS Messages,  \* what the transactions service announces
          Notices    \* function from Messages to sets: the notices one can cause

VARIABLES waiting,   \* messages announced and not yet settled, oldest first
          settled,   \* messages done with, in the order they were settled
          due,       \* notices a message may not be settled without
          answered   \* notices the broker has answered for

vars == <<waiting, settled, due, answered>>

Elements(s) == {s[i] : i \in DOMAIN s}

DueSets == [Messages -> SUBSET UNION {Notices[m] : m \in Messages}]

Init ==
    /\ waiting = <<>>
    /\ settled = <<>>
    /\ due \in DueSets
    /\ answered = {}

Announce(m) ==
    /\ m \notin Elements(waiting) \cup Elements(settled)
    /\ waiting' = Append(waiting, m)
    /\ UNCHANGED <<settled, due, answered>>

\* Nothing is due any more for whom the account has been closed.
Excuse ==
    /\ due' \in DueSets
    /\ \A m \in Messages : due'[m] \subseteq due[m]
    /\ UNCHANGED <<waiting, settled, answered>>

\* Only the message at the front is worked on; a late answer may still come
\* in for one that was worked on before.
Answer ==
    /\ answered \subseteq answered'
    /\ \A n \in answered' \ answered :
          \E m \in Elements(settled) \cup
                   (IF waiting = <<>> THEN {} ELSE {Head(waiting)}) :
             n \in Notices[m]
    /\ UNCHANGED <<waiting, settled, due>>

Settle ==
    /\ waiting # <<>>
    /\ due[Head(waiting)] \subseteq answered
    /\ settled' = Append(settled, Head(waiting))
    /\ waiting' = Tail(waiting)
    /\ UNCHANGED <<due, answered>>

Next ==
    \/ \E m \in Messages : Announce(m)
    \/ Excuse
    \/ Answer
    \/ Settle

Spec == Init /\ [][Next]_vars

=============================================================================
