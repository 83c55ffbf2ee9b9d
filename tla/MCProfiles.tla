----------------------------- MODULE MCProfiles -----------------------------
(***************************************************************************)
(* r1 changes both names, r2 the first name and the phone, r3 the last     *)
(* name, r4 nothing; r5 signs up with a phone, r6 signs in; r7 is a change *)
(* of the first name by another client of Storiqa.                         *)
(***************************************************************************)
EXTENDS Profiles, TLC

CONSTANTS r1, r2, r3, r4, r5, r6, r7

AllKinds == r1 :> "put" @@ r2 :> "put" @@ r3 :> "put" @@ r4 :> "put"
            @@ r5 :> "signup" @@ r6 :> "signin" @@ r7 :> "elsewhere"
AllSets  == r1 :> Names @@ r2 :> {"firstName", "phone"} @@ r3 :> {"lastName"} @@ r4 :> {}
            @@ r5 :> Fields @@ r6 :> {} @@ r7 :> {"firstName"}

MCKind == [r \in Requests |-> AllKinds[r]]
MCInitial == {[f \in Fields |-> "before"],
              [f \in Fields |-> IF f = "firstName" THEN "before" ELSE "unset"]}
MCSets == [r \in Requests |-> AllSets[r]]
=============================================================================
