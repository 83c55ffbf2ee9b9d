----------------------------- MODULE MCSessions -----------------------------
(***************************************************************************)
(* One user with one device: r1 uses a token, r2 renews it, r3 revokes     *)
(* all, r4 resets the password, r5 signs in.  A run takes some of them.    *)
(***************************************************************************)
EXTENDS Sessions, TLC

CONSTANTS r1, r2, r3, r4, r5, u1, d1

AllKinds == r1 :> "read" @@ r2 :> "refresh" @@ r3 :> "revoke" @@ r4 :> "reset" @@ r5 :> "login"
AllTimestamps == r1 :> 2 @@ r2 :> 1 @@ r3 :> 3 @@ r4 :> 0 @@ r5 :> 4

MCKind      == [r \in Requests |-> AllKinds[r]]
MCUser      == [r \in Requests |-> u1]
MCDevice    == [r \in Requests |-> d1]
MCTimestamp == [r \in Requests |-> AllTimestamps[r]]
=============================================================================
