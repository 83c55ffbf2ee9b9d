----------------------------- MODULE MCAccounts -----------------------------
(***************************************************************************)
(* r1 signs u1 up while r2 and r3 sign u1 in; r4 creates account a1 for    *)
(* u1; r5 deletes r2's first default account; r6, of u2, would delete a1,  *)
(* and r7, of u1, updates it.                                              *)
(***************************************************************************)
EXTENDS Accounts, TLC

CONSTANTS r1, r2, r3, r4, r5, r6, r7, u1, u2, a1

AllKinds == r1 :> "signup" @@ r2 :> "signin" @@ r3 :> "signin" @@ r4 :> "create"
            @@ r5 :> "delete" @@ r6 :> "delete" @@ r7 :> "update"

MCKind == [r \in Requests |-> AllKinds[r]]
MCUser == [r \in Requests |-> IF r = r6 THEN u2 ELSE u1]
MCId   == [r \in Requests |-> IF r = r5 THEN <<r2, 1>> ELSE a1]
=============================================================================
