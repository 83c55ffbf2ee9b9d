------------------------------ MODULE Amounts -------------------------------
(***************************************************************************)
(* The numeric column accounts.balance: an amount is a u128, PostgreSQL    *)
(* keeps and sends digits to the base 10000 (models/amount.rs).            *)
(***************************************************************************)
EXTENDS Integers, Sequences

CONSTANTS
    Base,     \* 10_000
    Width,    \* 2^128
    Checked,  \* whether the build checks arithmetic: a debug build panics where
              \* a release build wraps
    Numerics  \* what the column may hold

Amount == 0..(Width - 1)
Digit  == 0..(Base - 1)
PgNumeric == [sign : {"positive", "negative", "nan"}, scale : Nat, weight : Int,
              digits : Seq(Digit)]

\* PostgreSQL sends no zeros in front or at the end, and zero with weight 0.
Normal(n) == IF n.digits = <<>> THEN n.weight = 0
             ELSE n.digits[1] # 0 /\ n.digits[Len(n.digits)] # 0

ASSUME AmountsAssumption ==
    /\ Base \in Nat \ {0, 1}
    /\ Width \in Nat /\ Base < Width
    /\ Checked \in BOOLEAN
    /\ Numerics \subseteq {n \in PgNumeric : Normal(n)}

\* Base to the e; the code has 10 to the 4 * e.
Power(e) ==
    LET f[n \in 0..e] == IF n = 0 THEN 1 ELSE Base * f[n - 1]
    IN  f[e]

-----------------------------------------------------------------------------
(* u128 to numeric                                                         *)

\* ToBase10000: what is left of v after i digits.
Rest(v, i) ==
    LET f[n \in 0..i] == IF n = 0 THEN v ELSE f[n - 1] \div Base
    IN  f[i]

\* It ends when nothing is left, and gives one digit at least.
Count(v) == CHOOSE i \in 1..(v + 1) : Rest(v, i) = 0 /\ \A j \in 1..(i - 1) : Rest(v, j) # 0

\* The least digit first.
ToBase10000(v) == [i \in 1..Count(v) |-> Rest(v, i - 1) % Base]

\* How many zeros skip_while skips.
Zeros(s) == CHOOSE k \in 0..Len(s) :
    (\A i \in 1..k : s[i] = 0) /\ (k < Len(s) => s[k + 1] # 0)

\* u128_to_pg_decimal
ToNumeric(v) ==
    LET s == ToBase10000(v)
    IN  [sign |-> "positive", scale |-> 0, weight |-> Len(s) - 1,
         digits |-> [i \in 1..(Len(s) - Zeros(s)) |-> s[Len(s) + 1 - i]]]

-----------------------------------------------------------------------------
(* Numeric to u128                                                         *)

Failed == -1

\* checked_mul and checked_add
Plus(r, d) == IF r = Failed \/ r * Base + d >= Width THEN Failed ELSE r * Base + d

\* The digits phase.
Read(s) ==
    LET f[k \in 0..Len(s)] == IF k = 0 THEN 0 ELSE Plus(f[k - 1], s[k])
    IN  f[Len(s)]

\* Digits to the base 10000 that were left out at the end.
Exponent(n) == n.weight - Len(n.digits) + 1

\* The correction phase.  Nobody checks pow: beyond Width a debug build panics, which
\* counts as failed, and a release build goes on with what is left modulo Width.
Correct(r, e) ==
    IF Checked /\ Power(e) >= Width THEN Failed
    ELSE LET product == r * (Power(e) % Width)
         IN  IF product >= Width THEN Failed ELSE product

\* pg_decimal_to_u128
FromNumeric(n) ==
    IF \/ n.sign # "positive" \/ n.scale # 0 \/ n.weight < 0
       \/ Read(n.digits) = Failed \/ Exponent(n) < 0
    THEN Failed
    ELSE Correct(Read(n.digits), Exponent(n))

-----------------------------------------------------------------------------
(* Properties                                                              *)

\* What a numeric without fraction stands for, digit by digit.
Value(n) ==
    LET f[k \in 0..Len(n.digits)] ==
            IF k = 0 THEN 0 ELSE f[k - 1] + n.digits[k] * Power(n.weight + 1 - k)
    IN  f[Len(n.digits)]

Whole(n) == n.sign = "positive" /\ n.scale = 0 /\ n.weight >= 0 /\ Exponent(n) >= 0

\* What is written is the amount, in the form PostgreSQL uses.
WritesExactly == \A v \in Amount :
    /\ ToNumeric(v) \in PgNumeric /\ Normal(ToNumeric(v)) /\ Whole(ToNumeric(v))
    /\ Value(ToNumeric(v)) = v

\* What is read is what the column holds if that is an amount. Anything else fails,
\* but for numbers so large that the unchecked pow wraps.
ReadsExactly == \A n \in Numerics :
    /\ Whole(n) /\ Value(n) < Width => FromNumeric(n) = Value(n)
    /\ ~ Whole(n) => FromNumeric(n) = Failed
    /\ Whole(n) /\ Value(n) >= Width /\ Power(Exponent(n)) < Width => FromNumeric(n) = Failed

=============================================================================
