-------------------------- MODULE MCNotifications --------------------------
(***************************************************************************)
(* m1 pays a1, which is stored from the start, has a callback url and      *)
(* belongs to u1, who has registered d1.  m2 pays from both accounts into  *)
(* a2, which gets its row only while the system runs.  m3 pays an outside  *)
(* address.                                                                *)
(***************************************************************************)
EXTENDS Notifications, TLC

CONSTANTS m1, m2, m3, a1, a2, u1, u2, d1, d2

MCFrom       == [m \in Messages |-> IF m = m1 THEN {a2} ELSE {a1, a2}]
MCTo         == [m \in Messages |-> IF m = m1 THEN a1
                                    ELSE IF m = m2 THEN a2 ELSE NoAccount]
MCOwner      == a1 :> u1 @@ a2 :> u2
MCRegistered == u1 :> {d1} @@ u2 :> {}
=============================================================================
