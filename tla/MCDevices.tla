----------------------------- MODULE MCDevices -----------------------------
(***************************************************************************)
(* s1 signs u1 up, unless a sign-in has written its row already.  x1 and   *)
(* x2 are the same request sent twice; x3 adds the same device with a new  *)
(* key.  c1 confirms by the mailed link, c2 by the API.                    *)
(***************************************************************************)
EXTENDS Devices, TLC

CONSTANTS s1, x1, x2, x3, c1, c2, d1, d2, u1, k1, k2

MCUser   == [r \in Adds \cup SignUps |-> u1]
MCDevice == [r \in Adds \cup SignUps |-> IF r = s1 THEN d2 ELSE d1]
MCKey    == [r \in Adds \cup SignUps |-> IF r \in {x3, s1} THEN k2 ELSE k1]

\* One thread, with the database's clock behind and ahead; two threads.
MCSetups == {<<1, -1>>, <<1, 1>>, <<2, 0>>}

MCToken == [c \in Confirms |-> IF c = c1 THEN x1 ELSE x3]
MCGiven == [c \in Confirms |-> IF c = c1 THEN NoDevice ELSE d1]
=============================================================================
