----------------------------- MODULE MCListings -----------------------------
(***************************************************************************)
(* Accounts 1 and 2 are u1's, 3 is u2's.  t1 goes between u1's accounts,   *)
(* t2 between 1 and 3, t3 from outside to the address of 2.  u1 lists all, *)
(* one account, its accounts, or one transaction; u2 asks for account 1    *)
(* and for the lists of u1.  Amounts have four digits to the base 3, and   *)
(* numerics up to six.                                                     *)
(***************************************************************************)
EXTENDS Listings, Amounts

CONSTANTS t1, t2, t3, u1, u2, x1, x2, x3

MCOwner   == [a \in Accounts |-> IF a = 3 THEN u2 ELSE u1]
MCAddress == [a \in Accounts |-> IF a = 1 THEN x1 ELSE IF a = 2 THEN x2 ELSE x3]
MCEnds    == [t \in Transactions |-> IF t = t1 THEN {1, 2} ELSE IF t = t2 THEN {1, 3} ELSE {x2, 2}]
MCStored  == <<2, 3>>

Ask1(kind, auth, of, limit) ==
    [kind |-> kind, auth |-> auth, of |-> of, account |-> 1, tx |-> t3, limit |-> limit]

MCRequests ==
    {Ask1(kind, u1, u1, limit) : kind \in Kinds, limit \in {1, 2}}
    \cup {Ask1("account", u2, u2, 1), Ask1("user", u2, u1, 1), Ask1("single", u2, u2, 1)}

MCNumerics ==
    LET digits == UNION {[1..l -> Digit] : l \in 0..4}
    IN  {n \in [sign : {"positive", "negative", "nan"}, scale : {0, 1}, weight : -1..5,
                digits : digits] : Normal(n)}

\* What is written and read is exact.
ASSUME AmountsAreExact == WritesExactly /\ ReadsExactly
=============================================================================
