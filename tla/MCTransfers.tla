---------------------------- MODULE MCTransfers ----------------------------
(***************************************************************************)
(* r1 is a payment, r2 repeats its id with another fiat value, r3 without  *)
(* one, to an outside address; r4 would pay from an account that is not    *)
(* its user's.  Of the receivers, a2 has a row from the start and a3 may   *)
(* get one.                                                                *)
(***************************************************************************)
EXTENDS Transfers, TLC

CONSTANTS r1, r2, r3, r4, t1, t2, a1, a2, a3, u1, u2, f1, f2

MCUser  == [r \in Requests |-> IF r = r4 THEN u2 ELSE u1]
MCId    == [r \in Requests |-> IF r = r4 THEN t2 ELSE t1]
MCFrom  == [r \in Requests |-> a1]
MCTo    == [r \in Requests |-> IF r = r3 THEN NoAccount ELSE IF r = r2 THEN a3 ELSE a2]
MCFiat  == [r \in Requests |-> IF r = r2 THEN f2 ELSE IF r = r3 THEN NoFiat ELSE f1]
MCOwner == a1 :> u1 @@ a2 :> u2 @@ a3 :> u2
=============================================================================
