----------------------------- MODULE DataProofs -----------------------------
(***************************************************************************)
(* Proofs about modules Listings and Amounts, the two about data: what is  *)
(* in a list after any number of pages, what becomes of any number.  Both  *)
(* rest on induction, stated here for sets (Induction) and for sequences   *)
(* (SequenceInduction).                                                    *)
(***************************************************************************)
EXTENDS Listings, Amounts, SequenceTheorems, WellFoundedInduction, TLAPS

-----------------------------------------------------------------------------
(* The inductive invariant of the lists                                    *)

\* Ids of deleted accounts do not come back; what the client began with is either
\* there or deleted, and what was booked stays booked.
HistoryOK ==
    /\ Elements(rows) \cap deleted = {}
    /\ Elements(start.rows) \subseteq Elements(rows) \cup deleted
    /\ Elements(start.ledger) \subseteq Elements(ledger)
    /\ stage = "new" =>
         start = [rows |-> <<>>, ledger |-> <<>>] /\ listed = {} /\ offset = 0
    /\ stage = "fetch" => request.kind # "accounts"

\* An account of the user that is or was stored, and what is about it.
IsOwn(a) == a \in Elements(rows) \cup deleted /\ Owner[a] = request.auth

IsAboutOwn(x) == \E a \in Elements(rows) \cup deleted :
    /\ Owner[a] = request.auth
    /\ x = a \/ (x \in Transactions /\ Involves(x, a))

OwnInv ==
    /\ \A a \in todo : IsOwn(a)
    /\ \A x \in Elements(page) \cup listed : IsAboutOwn(x)

\* A transaction the client is to get through account a.
Wanted(t, a) ==
    /\ t \in Elements(start.ledger)
    /\ a \in Elements(start.rows) \cap Elements(rows)
    /\ Asked(a) /\ a \in Ends[t]

\* It stands behind the first k of the account's list.
Behind(t, a, k) == \E i \in DOMAIN ListOf(a) : ListOf(a)[i] = t /\ i > k

\* This page has it, or is full and leaves it to the next.
OnThisOrNext(t, a) ==
    \/ t \in Elements(page)
    \/ Len(page) >= request.limit /\ Behind(t, a, offset + request.limit)

\* What the client has not got yet is neither on a page that it has got nor in front
\* of the page it asks for: a list grows at one of its ends, so items move back only.
PagesInv == \A t \in Transactions, a \in Accounts : (Wanted(t, a) /\ t \notin listed) =>
    /\ stage \in {"new", "read", "fetch", "answer", "error"} => Behind(t, a, offset)
    /\ stage = "answer" \/ (stage = "fetch" /\ a \notin todo) => OnThisOrNext(t, a)
    /\ stage = "answered" =>
         Len(page) >= request.limit /\ Behind(t, a, offset + request.limit)

\* The accounts the client began with, and those of them that cannot have moved.
Mine == Only(start.rows, OwnedBy(request.auth))
Stays(i) == i \in DOMAIN Mine /\ \A j \in 1..i : Mine[j] \notin deleted

\* The accounts that cannot have moved have not.
PlacesInv == \A i \in Nat : Stays(i) =>
    i \in DOMAIN RowsOf(request.auth) /\ RowsOf(request.auth)[i] = Mine[i]

AccountPagesInv == request.kind = "accounts" =>
    \A i \in Nat : (Stays(i) /\ Mine[i] \notin listed) =>
        /\ stage \in {"new", "read", "answer", "error"} => i > offset
        /\ stage = "answer" =>
             \/ Mine[i] \in Elements(page)
             \/ Len(page) >= request.limit /\ i > offset + request.limit
        /\ stage = "answered" =>
             Len(page) >= request.limit /\ i > offset + request.limit

IInv ==
    /\ TypeOK /\ HistoryOK /\ OwnInv
    /\ PagesInv /\ PlacesInv /\ AccountPagesInv

-----------------------------------------------------------------------------
(* Induction                                                               *)

LEMMA LeastOf ==
    ASSUME NEW T \in SUBSET Nat, T # {}
    PROVE  \E x \in T : \A y \in T : x <= y
<1> DEFINE R == {ss \in Nat \X Nat : ss[1] < ss[2]}
<1>1. IsWellFoundedOn(R, Nat)
  BY NatLessThanWellFounded DEF OpToRel
<1>2. \A x, y \in T : <<y, x>> \in R <=> y < x
  OBVIOUS
<1> HIDE DEF R
<1>3. PICK x \in T : \A y \in T : ~ (<<y, x>> \in R)
  BY <1>1, WFMin
<1>4. \A y \in T : x \in Nat /\ y \in Nat /\ ~ (y < x)
  BY <1>2, <1>3
<1>5. \A y \in T : x <= y
  BY <1>4
<1>6. QED
  BY <1>5

LEMMA Induction ==
    ASSUME NEW S, 0 \in S, \A n \in Nat : n \in S => n + 1 \in S
    PROVE  Nat \subseteq S
<1>1. SUFFICES ASSUME Nat \ S # {}
               PROVE  FALSE
  OBVIOUS
<1>2. PICK x \in Nat \ S : \A y \in Nat \ S : x <= y
  BY <1>1, LeastOf
<1>3. x # 0 /\ x - 1 \in Nat /\ x - 1 \notin Nat \ S
  BY <1>2
<1>4. QED
  BY <1>2, <1>3

-----------------------------------------------------------------------------
(* What Only keeps of a sequence                                           *)

\* f[n] is what S keeps of the first n items of s, for n up to m.
Filters(f, s, S, m) ==
    f = [n \in 0..m |->
            IF n = 0 THEN <<>>
            ELSE IF s[n] \in S THEN Append(f[n - 1], s[n]) ELSE f[n - 1]]

LEMMA FiltersStep ==
    ASSUME NEW s, NEW S, NEW m \in Nat, NEW f, Filters(f, s, S, m)
    PROVE  /\ f[0] = <<>>
           /\ \A n \in 0..m : n # 0 =>
                f[n] = IF s[n] \in S THEN Append(f[n - 1], s[n]) ELSE f[n - 1]
<1> DEFINE h == [n \in 0..m |->
            IF n = 0 THEN <<>>
            ELSE IF s[n] \in S THEN Append(f[n - 1], s[n]) ELSE f[n - 1]]
<1>1. f = h
  BY DEF Filters
<1>2. \A n \in 0..m : h[n] = IF n = 0 THEN <<>>
                           ELSE IF s[n] \in S THEN Append(f[n - 1], s[n]) ELSE f[n - 1]
  OBVIOUS
<1> HIDE DEF h
<1>3. \A n \in 0..m : f[n] = IF n = 0 THEN <<>>
                           ELSE IF s[n] \in S THEN Append(f[n - 1], s[n]) ELSE f[n - 1]
  BY <1>1, <1>2
<1>4. QED
  BY <1>3

LEMMA FiltersExist ==
    ASSUME NEW s, NEW S
    PROVE  \A m \in Nat : \E f : Filters(f, s, S, m)
<1> DEFINE N == {m \in Nat : \E f : Filters(f, s, S, m)}
<1>1. 0 \in N
  <2>1. Filters([n \in 0..0 |-> <<>>], s, S, 0)
    BY DEF Filters
  <2>2. QED
    BY <2>1
<1>2. ASSUME NEW m \in Nat, NEW f, Filters(f, s, S, m)
      PROVE  \E g : Filters(g, s, S, m + 1)
  <2> DEFINE last == IF s[m + 1] \in S THEN Append(f[m], s[m + 1]) ELSE f[m]
  <2> DEFINE g == [n \in 0..(m + 1) |-> IF n = m + 1 THEN last ELSE f[n]]
  <2> DEFINE h == [n \in 0..(m + 1) |->
            IF n = 0 THEN <<>>
            ELSE IF s[n] \in S THEN Append(g[n - 1], s[n]) ELSE g[n - 1]]
  <2>1. f[0] = <<>> /\ \A n \in 0..m : n # 0 =>
                f[n] = IF s[n] \in S THEN Append(f[n - 1], s[n]) ELSE f[n - 1]
    BY <1>2, FiltersStep
  <2>2. ASSUME NEW n \in 0..(m + 1)
        PROVE  g[n] = h[n]
    <3>1. CASE n = 0
      BY <2>1, <3>1
    <3>2. CASE n = m + 1
      <4>1. n - 1 = m /\ n # 0 /\ g[n] = last /\ g[m] = f[m]
        BY <3>2
      <4>2. QED
        BY <3>2, <4>1
    <3>3. CASE n # 0 /\ n # m + 1
      <4>1. n \in 0..m /\ n - 1 \in 0..m /\ g[n] = f[n] /\ g[n - 1] = f[n - 1]
        BY <3>3
      <4>2. QED
        BY <2>1, <3>3, <4>1
    <3>4. QED
      BY <3>1, <3>2, <3>3
  <2>3. g = h
    <3> HIDE DEF last
    <3>1. DOMAIN g = DOMAIN h /\ g = [n \in DOMAIN g |-> g[n]] /\ h = [n \in DOMAIN h |-> h[n]]
      OBVIOUS
    <3>2. QED
      BY <2>2, <3>1
  <2>4. Filters(g, s, S, m + 1)
    BY <2>3 DEF Filters
  <2>5. QED
    BY <2>4
<1>3. \A m \in Nat : m \in N => m + 1 \in N
  BY <1>2
<1>4. Nat \subseteq N
  <2> HIDE DEF N
  <2>1. QED
    BY <1>1, <1>3, Induction
<1>5. QED
  BY <1>4

LEMMA FiltersUnique ==
    ASSUME NEW s, NEW t, NEW S, NEW m \in Nat, NEW k \in Nat, m <= k,
           \A i \in 1..m : s[i] = t[i],
           NEW f, Filters(f, s, S, m), NEW g, Filters(g, t, S, k)
    PROVE  f[m] = g[m]
<1> DEFINE N == {n \in Nat : n <= m => f[n] = g[n]}
<1>a. \A h, r, j : j \in Nat /\ Filters(h, r, S, j) =>
         h[0] = <<>> /\ \A n \in 0..j : n # 0 =>
            h[n] = IF r[n] \in S THEN Append(h[n - 1], r[n]) ELSE h[n - 1]
  BY FiltersStep
<1>f. f[0] = <<>> /\ \A n \in 0..m : n # 0 =>
          f[n] = IF s[n] \in S THEN Append(f[n - 1], s[n]) ELSE f[n - 1]
  BY <1>a
<1>g. g[0] = <<>> /\ \A n \in 0..k : n # 0 =>
          g[n] = IF t[n] \in S THEN Append(g[n - 1], t[n]) ELSE g[n - 1]
  BY <1>a
<1>1. 0 \in N
  BY <1>f, <1>g
<1>2. ASSUME NEW n \in N, n + 1 <= m
      PROVE  f[n + 1] = g[n + 1]
  <2>1. f[n] = g[n] /\ n + 1 \in 0..m /\ n + 1 \in 0..k /\ n + 1 # 0 /\ (n + 1) - 1 = n
        /\ s[n + 1] = t[n + 1]
    BY <1>2
  <2>2. f[n + 1] = IF s[n + 1] \in S THEN Append(f[n], s[n + 1]) ELSE f[n]
    BY <2>1, <1>f
  <2>3. g[n + 1] = IF t[n + 1] \in S THEN Append(g[n], t[n + 1]) ELSE g[n]
    BY <2>1, <1>g
  <2>4. QED
    BY <2>1, <2>2, <2>3
<1>3. \A n \in Nat : n \in N => n + 1 \in N
  BY <1>2
<1>4. Nat \subseteq N
  <2> HIDE DEF N
  <2>1. QED
    BY <1>1, <1>3, Induction
<1>5. QED
  BY <1>4

LEMMA OnlyFilters ==
    ASSUME NEW X, NEW s \in Seq(X), NEW S
    PROVE  \E f : Filters(f, s, S, Len(s)) /\ Only(s, S) = f[Len(s)]
<1>1. \E f : Filters(f, s, S, Len(s))
  BY FiltersExist, LenProperties
<1> DEFINE f == CHOOSE f : Filters(f, s, S, Len(s))
<1>2. Filters(f, s, S, Len(s))
  BY <1>1
<1>3. Only(s, S) = f[Len(s)]
  BY Zenon DEF Only, Filters
<1>4. QED
  BY <1>2, <1>3

LEMMA OnlyEmpty == \A S : Only(<<>>, S) = <<>>
<1>1. ASSUME NEW S
      PROVE  Only(<<>>, S) = <<>>
  <2>1. PICK f : Filters(f, <<>>, S, Len(<<>>)) /\ Only(<<>>, S) = f[Len(<<>>)]
    <3>1. <<>> \in Seq({})
      OBVIOUS
    <3>2. QED
      BY <3>1, OnlyFilters
  <2>2. Len(<<>>) = 0
    OBVIOUS
  <2>3. Filters(f, <<>>, S, 0) /\ Only(<<>>, S) = f[0]
    BY <2>1, <2>2
  <2>4. f[0] = <<>>
    BY <2>3 DEF Filters
  <2>5. QED
    BY <2>3, <2>4
<1>2. QED
  BY <1>1

LEMMA OnlyAppend ==
    ASSUME NEW X, NEW s \in Seq(X), NEW e \in X, NEW S
    PROVE  Only(Append(s, e), S) = IF e \in S THEN Append(Only(s, S), e) ELSE Only(s, S)
<1> DEFINE t == Append(s, e)
<1>1. /\ t \in Seq(X) /\ Len(t) = Len(s) + 1 /\ Len(s) \in Nat
      /\ t[Len(t)] = e /\ \A i \in 1..Len(s) : s[i] = t[i]
  OBVIOUS
<1> HIDE DEF t
<1>2. PICK f : Filters(f, s, S, Len(s)) /\ Only(s, S) = f[Len(s)]
  BY OnlyFilters
<1>3. PICK g : Filters(g, t, S, Len(t)) /\ Only(t, S) = g[Len(t)]
  BY <1>1, OnlyFilters
<1>4. f[Len(s)] = g[Len(s)]
  BY <1>1, <1>2, <1>3, FiltersUnique
<1>5. g[Len(t)] = IF e \in S THEN Append(g[Len(s)], e) ELSE g[Len(s)]
  BY <1>1, <1>3, FiltersStep
<1>6. Only(t, S) = IF e \in S THEN Append(Only(s, S), e) ELSE Only(s, S)
  BY <1>2, <1>3, <1>4, <1>5
<1>7. QED
  BY <1>6 DEF t

\* What holds of the empty sequence and survives an Append holds of all sequences.
LEMMA SequenceInduction ==
    ASSUME NEW X, NEW P, <<>> \in P,
           \A s \in Seq(X), e \in X : s \in P => Append(s, e) \in P
    PROVE  Seq(X) \subseteq P
<1> DEFINE N == {n \in Nat : \A s \in Seq(X) : Len(s) = n => s \in P}
<1>1. 0 \in N
  <2>1. \A s \in Seq(X) : Len(s) = 0 => s = <<>>
    BY EmptySeq
  <2>2. QED
    BY <2>1
<1>2. ASSUME NEW n \in Nat, n \in N, NEW s \in Seq(X), Len(s) = n + 1
      PROVE  s \in P
  <2> DEFINE r == [i \in 1..n |-> s[i]]
  <2>1. r \in Seq(X) /\ Len(r) = n /\ s[n + 1] \in X
    BY <1>2
  <2>2. s = Append(r, s[n + 1])
    BY <1>2, <2>1
  <2>3. r \in P
    BY <1>2, <2>1
  <2> HIDE DEF r
  <2>4. QED
    BY <2>1, <2>2, <2>3
<1>3. \A n \in Nat : n \in N => n + 1 \in N
  BY <1>2
<1>4. Nat \subseteq N
  <2> HIDE DEF N
  <2>1. QED
    BY <1>1, <1>3, Induction
<1>5. QED
  BY <1>4, LenProperties

LEMMA OnlyType ==
    ASSUME NEW X, NEW S
    PROVE  \A s \in Seq(X) : Only(s, S) \in Seq(X \cap S)
<1> DEFINE P == {s \in Seq(X) : Only(s, S) \in Seq(X \cap S)}
<1>1. <<>> \in P
  <2>1. <<>> \in Seq(X) /\ <<>> \in Seq(X \cap S)
    BY EmptySeq
  <2>2. Only(<<>>, S) = <<>>
    BY OnlyEmpty
  <2>3. QED
    BY <2>1, <2>2
<1>2. ASSUME NEW s \in Seq(X), NEW e \in X, s \in P
      PROVE  Append(s, e) \in P
  <2>1. Append(s, e) \in Seq(X)
    BY <1>2
  <2>2. Only(s, S) \in Seq(X \cap S)
    BY <1>2
  <2>3. Only(Append(s, e), S) = IF e \in S THEN Append(Only(s, S), e) ELSE Only(s, S)
    BY OnlyAppend
  <2>4. e \in S => Append(Only(s, S), e) \in Seq(X \cap S)
    BY <2>2
  <2>5. QED
    BY <2>1, <2>2, <2>3, <2>4
<1>3. Seq(X) \subseteq P
  <2> HIDE DEF P
  <2>1. QED
    BY <1>1, <1>2, SequenceInduction
<1>4. QED
  BY <1>3

LEMMA OnlyInSeq ==
    ASSUME NEW X, NEW S
    PROVE  \A s \in Seq(X) : Only(s, S) \in Seq(X)
<1>1. \A s \in Seq(X \cap S) : s \in Seq(X)
  OBVIOUS
<1>2. QED
  BY <1>1, OnlyType

\* An item put at the end of a sequence is its only new element.
LEMMA ElementsOfAppend ==
    ASSUME NEW S, NEW s \in Seq(S), NEW e \in S
    PROVE  Elements(Append(s, e)) = Elements(s) \cup {e}
<1>1. /\ DOMAIN Append(s, e) = DOMAIN s \cup {Len(s) + 1}
      /\ \A i \in DOMAIN s : Append(s, e)[i] = s[i]
      /\ Append(s, e)[Len(s) + 1] = e
  BY AppendProperties, LenProperties
<1>2. QED
  BY <1>1 DEF Elements

LEMMA OnlyElements ==
    ASSUME NEW X, NEW S
    PROVE  \A s \in Seq(X) : Elements(Only(s, S)) = Elements(s) \cap S
<1> DEFINE P == {s \in Seq(X) : Elements(Only(s, S)) = Elements(s) \cap S}
<1>1. <<>> \in P
  BY OnlyEmpty DEF Elements
<1>2. ASSUME NEW s \in Seq(X), NEW e \in X, s \in P
      PROVE  Append(s, e) \in P
  <2>1. Append(s, e) \in Seq(X) /\ Elements(Append(s, e)) = Elements(s) \cup {e}
    BY <1>2, ElementsOfAppend
  <2>2. Elements(Only(s, S)) = Elements(s) \cap S
    BY <1>2
  <2>3. Only(Append(s, e), S) = IF e \in S THEN Append(Only(s, S), e) ELSE Only(s, S)
    BY OnlyAppend
  <2>4. Only(s, S) \in Seq(X)
    BY OnlyInSeq
  <2>5. Elements(Append(Only(s, S), e)) = Elements(Only(s, S)) \cup {e}
    BY <2>4, ElementsOfAppend
  <2>6. QED
    BY <2>1, <2>2, <2>3, <2>5
<1>3. Seq(X) \subseteq P
  <2> HIDE DEF P
  <2>1. QED
    BY <1>1, <1>2, SequenceInduction
<1>4. QED
  BY <1>3

LEMMA OnlyCommutes ==
    ASSUME NEW X, NEW S, NEW T
    PROVE  \A s \in Seq(X) : Only(Only(s, S), T) = Only(Only(s, T), S)
<1> DEFINE P == {s \in Seq(X) : Only(Only(s, S), T) = Only(Only(s, T), S)}
<1>1. <<>> \in P
  BY OnlyEmpty
<1>2. ASSUME NEW s \in Seq(X), NEW e \in X, s \in P
      PROVE  Append(s, e) \in P
  <2>1. Append(s, e) \in Seq(X) /\ Only(s, S) \in Seq(X) /\ Only(s, T) \in Seq(X)
    BY <1>2, OnlyInSeq
  <2>2. Only(Only(s, S), T) = Only(Only(s, T), S)
    BY <1>2
  <2>3. /\ Only(Append(s, e), S) = IF e \in S THEN Append(Only(s, S), e) ELSE Only(s, S)
        /\ Only(Append(s, e), T) = IF e \in T THEN Append(Only(s, T), e) ELSE Only(s, T)
    BY OnlyAppend
  <2>4. Only(Append(Only(s, S), e), T)
          = IF e \in T THEN Append(Only(Only(s, S), T), e) ELSE Only(Only(s, S), T)
    BY <2>1, OnlyAppend
  <2>5. Only(Append(Only(s, T), e), S)
          = IF e \in S THEN Append(Only(Only(s, T), S), e) ELSE Only(Only(s, T), S)
    BY <2>1, OnlyAppend
  <2>6. Only(Only(Append(s, e), S), T) = Only(Only(Append(s, e), T), S)
    BY <2>2, <2>3, <2>4, <2>5
  <2>7. QED
    BY <2>1, <2>6
<1>3. Seq(X) \subseteq P
  <2> HIDE DEF P
  <2>1. QED
    BY <1>1, <1>2, SequenceInduction
<1>4. QED
  BY <1>3

\* The items before the first one left out keep their places.
LEMMA OnlyPrefix ==
    ASSUME NEW X, NEW S
    PROVE  \A s \in Seq(X) : \A i \in 0..Len(s) : (\A j \in 1..i : s[j] \in S) =>
               i <= Len(Only(s, S)) /\ \A j \in 1..i : Only(s, S)[j] = s[j]
<1> DEFINE Kept(s, i) == i <= Len(Only(s, S)) /\ \A j \in 1..i : Only(s, S)[j] = s[j]
<1> DEFINE P == {s \in Seq(X) : /\ Len(Only(s, S)) <= Len(s)
                                /\ \A i \in 0..Len(s) : (\A j \in 1..i : s[j] \in S) => Kept(s, i)}
<1>1. <<>> \in P
  BY OnlyEmpty
<1>2. ASSUME NEW s \in Seq(X), NEW e \in X, s \in P
      PROVE  Append(s, e) \in P
  <2> DEFINE t == Append(s, e)
  <2>1. /\ t \in Seq(X) /\ Len(t) = Len(s) + 1 /\ Len(s) \in Nat
        /\ t[Len(s) + 1] = e /\ \A j \in 1..Len(s) : t[j] = s[j]
    BY <1>2
  <2>2. Only(s, S) \in Seq(X)
    BY OnlyInSeq
  <2>3. Only(t, S) = IF e \in S THEN Append(Only(s, S), e) ELSE Only(s, S)
    BY OnlyAppend
  <2>4. /\ e \in S => Len(Only(t, S)) = Len(Only(s, S)) + 1
                      /\ Only(t, S)[Len(Only(s, S)) + 1] = e
        /\ e \notin S => Only(t, S) = Only(s, S)
        /\ Len(Only(s, S)) \in Nat
        /\ \A j \in 1..Len(Only(s, S)) : Only(t, S)[j] = Only(s, S)[j]
    BY <2>2, <2>3
  <2> HIDE DEF t
  <2>5. Len(Only(s, S)) <= Len(s)
    BY <1>2
  <2>6. ASSUME NEW i \in 0..Len(t), \A j \in 1..i : t[j] \in S
        PROVE  Kept(t, i)
    <3>1. CASE i <= Len(s)
      <4>1. i \in 0..Len(s) /\ \A j \in 1..i : s[j] \in S /\ t[j] = s[j]
        BY <2>1, <2>6, <3>1
      <4>2. Kept(s, i)
        BY <1>2, <4>1
      <4>3. QED
        BY <2>4, <4>1, <4>2
    <3>2. CASE i = Len(s) + 1
      <4>1. Len(s) \in 0..Len(s) /\ \A j \in 1..Len(s) : s[j] \in S
        BY <2>1, <2>6, <3>2
      <4>2. Kept(s, Len(s))
        BY <1>2, <4>1
      <4>3. Len(Only(s, S)) = Len(s) /\ e \in S
        BY <2>1, <2>4, <2>5, <2>6, <3>2, <4>2
      <4>4. ASSUME NEW j \in 1..i
            PROVE  Only(t, S)[j] = t[j]
        <5>1. j \in 1..Len(s) \/ j = Len(s) + 1
          BY <2>1, <3>2
        <5>2. QED
          BY <2>1, <2>4, <4>2, <4>3, <5>1
      <4>5. QED
        BY <2>4, <3>2, <4>3, <4>4
    <3>3. QED
      BY <2>1, <3>1, <3>2
  <2>7. Len(Only(t, S)) <= Len(t)
    BY <2>1, <2>4, <2>5
  <2>8. t \in P
    BY <2>1, <2>6, <2>7
  <2>9. QED
    BY <2>8 DEF t
<1>3. Seq(X) \subseteq P
  <2> HIDE DEF P
  <2>1. QED
    BY <1>1, <1>2, SequenceInduction
<1>4. QED
  BY <1>3

-----------------------------------------------------------------------------
(* Lists                                                                   *)

LEMMA ElementsOfConcat ==
    ASSUME NEW X, NEW p \in Seq(X), NEW q \in Seq(X)
    PROVE  Elements(p \o q) = Elements(p) \cup Elements(q)
<1> DEFINE r == p \o q
<1>1. /\ Len(p) \in Nat /\ Len(q) \in Nat /\ Len(r) = Len(p) + Len(q)
      /\ DOMAIN p = 1..Len(p) /\ DOMAIN q = 1..Len(q) /\ DOMAIN r = 1..Len(r)
      /\ \A i \in 1..Len(p) + Len(q) : r[i] = IF i <= Len(p) THEN p[i] ELSE q[i - Len(p)]
  BY ConcatProperties, LenProperties
<1> HIDE DEF r
<1>2. ASSUME NEW i \in DOMAIN p
      PROVE  i \in DOMAIN r /\ r[i] = p[i]
  BY <1>1, <1>2
<1>3. ASSUME NEW i \in DOMAIN q
      PROVE  Len(p) + i \in DOMAIN r /\ r[Len(p) + i] = q[i]
  BY <1>1, <1>3
<1>4. ASSUME NEW i \in DOMAIN r
      PROVE  \/ i \in DOMAIN p /\ r[i] = p[i]
             \/ i - Len(p) \in DOMAIN q /\ r[i] = q[i - Len(p)]
  BY <1>1, <1>4
<1>5. Elements(r) = Elements(p) \cup Elements(q)
  BY <1>2, <1>3, <1>4 DEF Elements
<1>6. QED
  BY <1>5 DEF r

LEMMA WindowHas ==
    ASSUME NEW X, NEW s \in Seq(X), NEW o \in Nat, NEW k \in Nat,
           NEW top \in Nat, top = IF o + k < Len(s) THEN o + k ELSE Len(s)
    PROVE  LET r == SubSeq(s, o + 1, top)
           IN  /\ r \in Seq(X)
               /\ Elements(r) \subseteq Elements(s)
               /\ \A i \in DOMAIN s :
                    /\ o < i /\ i <= o + k => s[i] \in Elements(r)
                    /\ i > o + k => Len(r) >= k
<1> DEFINE r == SubSeq(s, o + 1, top)
<1>1. DOMAIN s = 1..Len(s)
  BY LenProperties
<1>n. Len(s) \in Nat
  BY LenProperties
<1>2. top <= Len(s) /\ top <= o + k /\ (top = Len(s) \/ top = o + k)
  BY <1>n
<1>3. o + 1 \in Int /\ top \in Int /\ top - (o + 1) + 1 = top - o
      /\ \A i \in (o + 1)..top : i \in 1..Len(s)
  BY <1>n, <1>2
<1>4. \A i \in (o + 1)..top : s[i] \in X
  <2>1. \A i \in 1..Len(s) : s[i] \in X
    OBVIOUS
  <2>2. QED
    BY <1>3, <2>1
<1>5. /\ r \in Seq(X)
      /\ Len(r) = IF o + 1 <= top THEN top - (o + 1) + 1 ELSE 0
      /\ \A i \in 1..(top - (o + 1) + 1) : r[i] = s[(o + 1) + i - 1]
  BY <1>3, <1>4, SubSeqProperties
<1> HIDE DEF r
<1>6. DOMAIN r = 1..Len(r) /\ Len(r) \in Nat
  BY <1>5, LenProperties
<1>7. Len(r) = IF o + 1 <= top THEN top - o ELSE 0
  BY <1>3, <1>5
<1>8. \A i \in 1..(top - o) : r[i] = s[o + i]
  <2>1. \A i \in 1..(top - o) : (o + 1) + i - 1 = o + i
    OBVIOUS
  <2>2. QED
    BY <1>3, <1>5, <2>1
<1>9. ASSUME NEW i \in DOMAIN r
      PROVE  o + i \in DOMAIN s /\ r[i] = s[o + i]
  <2>1. i \in 1..(top - o) /\ o + i \in 1..Len(s)
    BY <1>n, <1>2, <1>6, <1>7
  <2>2. QED
    BY <1>1, <1>8, <2>1
<1>10. Elements(r) \subseteq Elements(s)
  BY <1>9 DEF Elements
<1>11. ASSUME NEW i \in DOMAIN s, o < i, i <= o + k
       PROVE  s[i] \in Elements(r)
  <2>n. i \in 1..Len(s)
    BY <1>1
  <2>1. i <= top
    BY <1>n, <1>2, <1>11, <2>n
  <2>2. i - o \in 1..(top - o) /\ i - o \in 1..Len(r) /\ o + (i - o) = i
    BY <1>2, <1>7, <1>11, <2>n, <2>1
  <2>3. r[i - o] = s[i]
    BY <1>8, <2>2
  <2>4. QED
    BY <1>6, <2>2, <2>3 DEF Elements
<1>12. ASSUME NEW i \in DOMAIN s, i > o + k
       PROVE  Len(r) >= k
  <2>1. i \in 1..Len(s)
    BY <1>1
  <2>2. top = o + k
    BY <1>n, <1>12, <2>1
  <2>3. QED
    BY <1>7, <2>2
<1>13. QED
  BY <1>5, <1>10, <1>11, <1>12 DEF r

\* A page is part of the list, has what stands in its window, and is full when
\* the list goes on behind it.
LEMMA SliceHas ==
    ASSUME NEW X, NEW s \in Seq(X), offset \in Nat, request.limit \in Nat \ {0}
    PROVE  /\ Slice(s) \in Seq(X)
           /\ Elements(Slice(s)) \subseteq Elements(s)
           /\ \A i \in DOMAIN s :
                /\ offset < i /\ i <= offset + request.limit => s[i] \in Elements(Slice(s))
                /\ i > offset + request.limit => Len(Slice(s)) >= request.limit
<1> DEFINE k == request.limit
<1> DEFINE top == IF offset + k < Len(s) THEN offset + k ELSE Len(s)
<1>1. Slice(s) = SubSeq(s, offset + 1, top)
  BY DEF Slice
<1>2. k \in Nat /\ Len(s) \in Nat
  BY LenProperties
<1>3. \A l \in Nat, o \in Nat, u \in Nat : u = (IF o + l < Len(s) THEN o + l ELSE Len(s)) =>
        LET r == SubSeq(s, o + 1, u)
        IN  /\ r \in Seq(X)
            /\ Elements(r) \subseteq Elements(s)
            /\ \A i \in DOMAIN s :
                 /\ o < i /\ i <= o + l => s[i] \in Elements(r)
                 /\ i > o + l => Len(r) >= l
  BY WindowHas
<1> HIDE DEF k
<1>4. top \in Nat
  BY <1>2
<1>5. LET r == SubSeq(s, offset + 1, top)
      IN  /\ r \in Seq(X)
          /\ Elements(r) \subseteq Elements(s)
          /\ \A i \in DOMAIN s :
               /\ offset < i /\ i <= offset + k => s[i] \in Elements(r)
               /\ i > offset + k => Len(r) >= k
  <2> HIDE DEF top
  <2>1. top = IF offset + k < Len(s) THEN offset + k ELSE Len(s)
    BY DEF top
  <2>2. QED
    BY <1>2, <1>3, <1>4, <2>1, Zenon
<1>6. QED
  BY <1>1, <1>5 DEF k

LEMMA ReverseHas ==
    ASSUME NEW X, NEW s \in Seq(X)
    PROVE  /\ Reverse(s) \in Seq(X) /\ Len(Reverse(s)) = Len(s)
           /\ \A i \in 1..Len(s) : Reverse(s)[i] = s[Len(s) + 1 - i]
           /\ Elements(Reverse(s)) = Elements(s)
<1>1. Len(s) \in Nat /\ DOMAIN s = 1..Len(s)
  BY LenProperties
<1>2. /\ Reverse(s) \in [1..Len(s) -> X]
      /\ \A i \in 1..Len(s) : Reverse(s)[i] = s[Len(s) + 1 - i]
  BY <1>1 DEF Reverse
<1>3. Reverse(s) \in Seq(X) /\ Len(Reverse(s)) = Len(s)
  BY <1>1, <1>2
<1>4. DOMAIN Reverse(s) = 1..Len(s)
  BY <1>2
<1>5. \A i \in 1..Len(s) : Len(s) + 1 - i \in 1..Len(s) /\ Len(s) + 1 - (Len(s) + 1 - i) = i
  BY <1>1
<1>6. Elements(Reverse(s)) = Elements(s)
  BY <1>1, <1>2, <1>4, <1>5 DEF Elements
<1>7. QED
  BY <1>2, <1>3, <1>6

Of(a) == {t \in Transactions : a \in Ends[t]}

LEMMA ListOfHas ==
    ASSUME TypeOK, NEW a
    PROVE  /\ ListOf(a) \in Seq(Transactions)
           /\ Elements(ListOf(a)) = Elements(ledger) \cap Of(a)
<1>1. /\ Only(ledger, Of(a)) \in Seq(Transactions)
      /\ Elements(Only(ledger, Of(a))) = Elements(ledger) \cap Of(a)
  BY OnlyInSeq, OnlyElements DEF TypeOK
<1>2. ListOf(a) = IF newest THEN Reverse(Only(ledger, Of(a))) ELSE Only(ledger, Of(a))
  BY DEF ListOf, Of
<1>3. QED
  BY <1>1, <1>2, ReverseHas

\* A booking moves the items of a list back or leaves them where they are.
LEMMA ListsGrow ==
    ASSUME TypeOK, NEW t \in Transactions, Book(t), NEW a,
           NEW i \in DOMAIN ListOf(a)
    PROVE  \E j \in DOMAIN (ListOf(a)') :
               j \in Nat /\ j >= i /\ ListOf(a)'[j] = ListOf(a)[i]
<1> DEFINE old == Only(ledger, Of(a))
<1> DEFINE new == Only(Append(ledger, t), Of(a))
<1>1. old \in Seq(Transactions)
  BY OnlyInSeq DEF TypeOK
<1>2. new = IF t \in Of(a) THEN Append(old, t) ELSE old
  BY OnlyAppend DEF TypeOK
<1>3. ListOf(a) = IF newest THEN Reverse(old) ELSE old
  BY DEF ListOf, Of
<1>4. ListOf(a)' = IF newest THEN Reverse(new) ELSE new
  BY DEF ListOf, Of, Book
<1> HIDE DEF old, new
<1>5. CASE t \notin Of(a)
  <2>1. ListOf(a)' = ListOf(a)
    BY <1>2, <1>3, <1>4, <1>5
  <2>2. i \in Nat
    BY ListOfHas, LenProperties
  <2>3. QED
    BY <2>1, <2>2
<1>6. CASE t \in Of(a)
  <2>1. new = Append(old, t)
    BY <1>2, <1>6
  <2>2. /\ new \in Seq(Transactions) /\ Len(old) \in Nat /\ Len(new) = Len(old) + 1
        /\ DOMAIN old = 1..Len(old) /\ DOMAIN new = 1..Len(new)
        /\ \A k \in 1..Len(old) : new[k] = old[k]
    BY <1>1, <2>1
  <2>3. CASE ~newest
    <3>1. ListOf(a) = old /\ ListOf(a)' = new
      BY <1>3, <1>4, <2>3
    <3>2. i \in 1..Len(old)
      BY <2>2, <3>1
    <3>3. i \in DOMAIN new /\ i \in Nat /\ i >= i /\ new[i] = old[i]
      BY <2>2, <3>2
    <3>4. QED
      BY <3>1, <3>3
  <2>4. CASE newest
    <3>1. ListOf(a) = Reverse(old) /\ ListOf(a)' = Reverse(new)
      BY <1>3, <1>4, <2>4
    <3>2. /\ Reverse(old) \in Seq(Transactions) /\ Len(Reverse(old)) = Len(old)
          /\ \A k \in 1..Len(old) : Reverse(old)[k] = old[Len(old) + 1 - k]
      BY <1>1, ReverseHas
    <3>3. /\ Reverse(new) \in Seq(Transactions) /\ Len(Reverse(new)) = Len(new)
          /\ \A k \in 1..Len(new) : Reverse(new)[k] = new[Len(new) + 1 - k]
      BY <2>2, ReverseHas
    <3>d. DOMAIN Reverse(old) = 1..Len(old) /\ DOMAIN Reverse(new) = 1..Len(new)
      BY <3>2, <3>3, LenProperties
    <3>4. i \in 1..Len(old) /\ i + 1 \in 1..Len(new) /\ Len(old) + 1 - i \in 1..Len(old)
          /\ Len(new) + 1 - (i + 1) = Len(old) + 1 - i
      BY <2>2, <3>1, <3>d
    <3>5. /\ i + 1 \in DOMAIN Reverse(new) /\ i + 1 \in Nat /\ i + 1 >= i
          /\ Reverse(new)[i + 1] = Reverse(old)[i]
      <4>1. Reverse(new)[i + 1] = new[Len(old) + 1 - i]
        BY <3>3, <3>4
      <4>2. QED
        BY <2>2, <3>2, <3>d, <3>4, <4>1
    <3>6. QED
      BY <3>1, <3>5
  <2>5. QED
    BY <2>3, <2>4
<1>7. QED
  BY <1>5, <1>6

-----------------------------------------------------------------------------
(* The invariant holds at the start                                        *)

LEMMA Requested ==
    ASSUME TypeOK
    PROVE  /\ request.limit \in Nat /\ request.limit \in Nat \ {0} /\ request.kind \in Kinds
           /\ request.auth \in Users /\ request.of \in Users
           /\ request.account \in Accounts /\ request.tx \in Transactions
  BY ListingsAssumption DEF TypeOK, Request

LEMMA Rows ==
    ASSUME TypeOK
    PROVE  /\ RowsOf(request.auth) \in Seq(Accounts)
           /\ Elements(RowsOf(request.auth)) = Elements(rows) \cap OwnedBy(request.auth)
           /\ Elements(rows) \subseteq Accounts
<1>1. rows \in Seq(Accounts)
  BY DEF TypeOK
<1>2. Elements(rows) \subseteq Accounts
  BY <1>1 DEF Elements
<1>3. QED
  BY <1>1, <1>2, OnlyInSeq, OnlyElements DEF RowsOf

LEMMA MineIs ==
    ASSUME TypeOK
    PROVE  Mine \in Seq(Accounts) /\ DOMAIN Mine = 1..Len(Mine) /\ Len(Mine) \in Nat
<1>1. start.rows \in Seq(Accounts)
  BY DEF TypeOK
<1>2. Mine \in Seq(Accounts)
  BY <1>1, OnlyInSeq DEF Mine
<1>3. QED
  BY <1>2, LenProperties

LEMMA InitInv == Init => IInv
<1> SUFFICES ASSUME Init
             PROVE  IInv
  OBVIOUS
<1>1. TypeOK
  BY ListingsAssumption DEF Init, TypeOK
<1>2. Elements(<<>>) = {}
  BY DEF Elements
<1>3. HistoryOK
  BY <1>2 DEF Init, HistoryOK
<1>4. OwnInv
  BY <1>2 DEF Init, OwnInv
<1>5. PagesInv
  BY <1>2 DEF Init, PagesInv, Wanted
<1>6. \A i \in Nat : ~ Stays(i)
  <2>1. Mine = <<>>
    BY OnlyEmpty DEF Init, Mine
  <2>2. QED
    BY <2>1 DEF Stays
<1>7. PlacesInv /\ AccountPagesInv
  BY <1>6 DEF PlacesInv, AccountPagesInv
<1>8. QED
  BY <1>1, <1>3, <1>4, <1>5, <1>7 DEF IInv

-----------------------------------------------------------------------------
(* Types                                                                   *)

LEMMA ElementsIn ==
    ASSUME NEW X, NEW s \in Seq(X)
    PROVE  Elements(s) \subseteq X
  BY DEF Elements

LEMMA TypeStep == IInv /\ [Next]_vars => TypeOK'
<1> SUFFICES ASSUME IInv, [Next]_vars
             PROVE  TypeOK'
  OBVIOUS
<1> USE DEF TypeOK, client, environment
<1>t. TypeOK
  BY DEF IInv
<1>r. /\ request.limit \in Nat \ {0} /\ request.auth \in Users
      /\ request.account \in Accounts /\ request.tx \in Transactions
  BY <1>t, Requested
<1>1. CASE Ask
  BY <1>t, <1>1 DEF Ask, Open, Allowed
<1>2. CASE AskAgain
  BY <1>t, <1>r, <1>2 DEF AskAgain, Open, Allowed
<1>3. CASE ReadAccounts
  <2>1. Elements(RowsOf(request.auth)) \subseteq Accounts
    BY <1>t, Rows
  <2>2. QED
    BY <1>t, <1>3, <2>1 DEF ReadAccounts
<1>4. CASE ReadAccount
  BY <1>t, <1>r, <1>4 DEF ReadAccount
<1>5. CASE FetchOne
  <2>1. page' = <<request.tx>> \/ page' = <<>>
    BY <1>5 DEF FetchOne
  <2>2. <<>> \in Seq(Accounts \cup Transactions)
        /\ <<request.tx>> \in Seq(Accounts \cup Transactions)
    BY <1>r
  <2>3. page' \in Seq(Accounts \cup Transactions)
    BY <2>1, <2>2
  <2>4. QED
    BY <1>t, <1>5, <2>3 DEF FetchOne
<1>6. CASE Fetched
  BY <1>t, <1>6 DEF Fetched
<1>7. CASE ListAccounts
  <2>1. RowsOf(request.auth) \in Seq(Accounts)
    BY <1>t, Rows
  <2>2. Slice(RowsOf(request.auth)) \in Seq(Accounts)
    BY <1>t, <1>r, <2>1, SliceHas
  <2>3. Slice(RowsOf(request.auth)) \in Seq(Accounts \cup Transactions)
    BY <2>2
  <2>4. QED
    BY <1>t, <1>7, <2>3 DEF ListAccounts
<1>8. CASE Answer
  <2>1. Elements(page) \subseteq Accounts \cup Transactions
    BY <1>t, ElementsIn
  <2>2. QED
    BY <1>t, <1>8, <2>1 DEF Answer
<1>9. CASE Fails
  BY <1>t, <1>9 DEF Fails
<1>10. ASSUME NEW a \in Accounts, Fetch(a)
       PROVE  TypeOK'
  <2>1. ListOf(a) \in Seq(Transactions)
    BY <1>t, ListOfHas
  <2>2. Slice(ListOf(a)) \in Seq(Transactions)
    BY <1>t, <1>r, <2>1, SliceHas
  <2>3. Slice(ListOf(a)) \in Seq(Accounts \cup Transactions)
    BY <2>2
  <2>4. page \o Slice(ListOf(a)) \in Seq(Accounts \cup Transactions)
    BY <1>t, <2>3, ConcatProperties
  <2>5. QED
    BY <1>t, <1>10, <2>4 DEF Fetch
<1>11. ASSUME NEW a \in Accounts, CreateAccount(a)
       PROVE  TypeOK'
  <2>1. Append(rows, a) \in Seq(Accounts)
    BY <1>t, AppendProperties
  <2>2. QED
    BY <1>t, <1>11, <2>1 DEF CreateAccount
<1>12. ASSUME NEW a \in Accounts, DeleteAccount(a)
       PROVE  TypeOK'
  <2>1. Only(rows, Accounts \ {a}) \in Seq(Accounts)
    BY <1>t, OnlyInSeq
  <2>2. QED
    BY <1>t, <1>12, <2>1 DEF DeleteAccount
<1>13. ASSUME NEW t \in Transactions, Book(t)
       PROVE  TypeOK'
  <2>1. Append(ledger, t) \in Seq(Transactions)
    BY <1>t, AppendProperties
  <2>2. QED
    BY <1>t, <1>13, <2>1 DEF Book
<1>14. CASE UNCHANGED vars
  BY <1>t, <1>14 DEF vars
<1>15. QED
  BY <1>1, <1>2, <1>3, <1>4, <1>5, <1>6, <1>7, <1>8, <1>9, <1>10, <1>11, <1>12, <1>13, <1>14
     DEF Next

-----------------------------------------------------------------------------
(* What the client began with                                              *)

\* Accounts and transactions do not come back and do not vanish.
LEMMA Environment ==
    ASSUME IInv, [Next]_vars
    PROVE  /\ Elements(rows') \subseteq Accounts
           /\ Elements(rows) \cup deleted \subseteq Elements(rows') \cup deleted'
           /\ deleted \subseteq deleted'
           /\ Elements(rows') \cap deleted' = {}
           /\ Elements(rows') \cap (Elements(rows) \cup deleted) \subseteq Elements(rows)
           /\ Elements(ledger) \subseteq Elements(ledger')
           /\ request' = request
<1>t. /\ rows \in Seq(Accounts) /\ ledger \in Seq(Transactions) /\ deleted \subseteq Accounts
      /\ Elements(rows) \subseteq Accounts /\ Elements(rows) \cap deleted = {}
  BY Rows DEF IInv, TypeOK, HistoryOK
<1>1. ASSUME NEW a \in Accounts, CreateAccount(a)
      PROVE  /\ Elements(rows') = Elements(rows) \cup {a} /\ a \notin Elements(rows) \cup deleted
             /\ UNCHANGED <<client, deleted, ledger, newest, stage, todo, page>>
  BY <1>t, <1>1, ElementsOfAppend DEF CreateAccount
<1>2. ASSUME NEW a \in Accounts, DeleteAccount(a)
      PROVE  /\ Elements(rows') = Elements(rows) \ {a} /\ deleted' = deleted \cup {a}
             /\ a \in Elements(rows)
             /\ UNCHANGED <<client, ledger, newest, stage, todo, page>>
  <2>1. Elements(Only(rows, Accounts \ {a})) = Elements(rows) \cap (Accounts \ {a})
    BY <1>t, OnlyElements
  <2>2. QED
    BY <1>t, <1>2, <2>1 DEF DeleteAccount
<1>3. ASSUME NEW t \in Transactions, Book(t)
      PROVE  /\ Elements(ledger') = Elements(ledger) \cup {t}
             /\ UNCHANGED <<client, rows, deleted, newest, stage, todo, page>>
  BY <1>t, <1>3, ElementsOfAppend DEF Book
<1>4. CASE UNCHANGED <<request, environment>>
  BY <1>t, <1>4 DEF environment
<1>5. \/ UNCHANGED <<request, environment>>
      \/ \E a \in Accounts : CreateAccount(a) \/ DeleteAccount(a)
      \/ \E t \in Transactions : Book(t)
  BY DEF Next, vars, client, Ask, AskAgain, ReadAccounts, ReadAccount, FetchOne, Fetched,
         ListAccounts, Answer, Fails, Fetch
<1>6. QED
  BY <1>t, <1>1, <1>2, <1>3, <1>4, <1>5 DEF client

LEMMA HistoryStep == IInv /\ [Next]_vars => HistoryOK'
<1> SUFFICES ASSUME IInv, [Next]_vars
             PROVE  HistoryOK'
  OBVIOUS
<1>h. HistoryOK
  BY DEF IInv
<1>e. /\ Elements(rows) \cup deleted \subseteq Elements(rows') \cup deleted'
      /\ Elements(rows') \cap deleted' = {}
      /\ Elements(ledger) \subseteq Elements(ledger')
      /\ request' = request
  BY Environment
<1>1. CASE Ask
  <2>1. start' = [rows |-> rows, ledger |-> ledger] /\ stage' \in {"read", "refused"}
        /\ UNCHANGED <<rows, deleted, ledger>>
    BY <1>1 DEF Ask, Open, environment
  <2>2. QED
    BY <1>h, <1>e, <2>1 DEF HistoryOK
<1>2. CASE UNCHANGED start
  <2>1. stage' = "new" => stage = "new" /\ UNCHANGED <<listed, offset>>
    BY DEF Next, vars, client, environment, Ask, AskAgain, Open, ReadAccounts, ReadAccount,
           FetchOne, Fetched, ListAccounts, Answer, Fails, Fetch, CreateAccount,
           DeleteAccount, Book
  <2>2. stage' = "fetch" => stage = "fetch" \/ request.kind # "accounts"
    BY DEF Next, vars, client, environment, Ask, AskAgain, Open, ReadAccounts, ReadAccount,
           FetchOne, Fetched, ListAccounts, Answer, Fails, Fetch, CreateAccount,
           DeleteAccount, Book
  <2>3. QED
    BY <1>h, <1>e, <1>2, <2>1, <2>2 DEF HistoryOK
<1>3. Ask \/ UNCHANGED start
  BY DEF Next, vars, client, AskAgain, ReadAccounts, ReadAccount, FetchOne, Fetched,
         ListAccounts, Answer, Fails, Fetch, CreateAccount, DeleteAccount, Book
<1>4. QED
  BY <1>1, <1>2, <1>3

-----------------------------------------------------------------------------
(* Whose it is                                                             *)

LEMMA OwnStep == IInv /\ [Next]_vars => OwnInv'
<1> SUFFICES ASSUME IInv, [Next]_vars
             PROVE  OwnInv'
  OBVIOUS
<1>t. TypeOK /\ OwnInv
  BY DEF IInv
<1>e. /\ Elements(rows) \cup deleted \subseteq Elements(rows') \cup deleted'
      /\ request' = request
  BY Environment
<1>o. \A a : IsOwn(a) => IsOwn(a)'
  BY <1>e DEF IsOwn
<1>a. \A x : IsAboutOwn(x) => IsAboutOwn(x)'
  BY <1>e DEF IsAboutOwn, Involves
<1>m. \A a \in Elements(RowsOf(request.auth)) : IsOwn(a)
  BY <1>t, Rows DEF IsOwn, OwnedBy
<1>1. CASE Ask \/ AskAgain
  <2>1. todo' = {} /\ page' = <<>> /\ listed' = listed
    BY <1>1 DEF Ask, AskAgain, Open
  <2>2. Elements(<<>>) = {}
    BY DEF Elements
  <2>3. QED
    BY <1>t, <1>a, <2>1, <2>2 DEF OwnInv
<1>2. CASE ReadAccounts
  BY <1>t, <1>o, <1>a, <1>m, <1>2 DEF OwnInv, ReadAccounts, client
<1>3. CASE ReadAccount
  BY <1>t, <1>o, <1>a, <1>m, <1>3 DEF OwnInv, ReadAccount, client
<1>4. CASE FetchOne
  <2>1. todo' = {} /\ UNCHANGED listed
    BY <1>4 DEF FetchOne, client
  <2>2. ASSUME NEW x \in Elements(page')
        PROVE  IsAboutOwn(x)
    <3>1. /\ page' = <<request.tx>>
          /\ \E a \in todo : Involves(request.tx, a)
      BY <1>4, <2>2 DEF FetchOne, Elements
    <3>2. x = request.tx
      BY <2>2, <3>1 DEF Elements
    <3>3. request.tx \in Transactions
      BY <1>t, Requested
    <3>4. QED
      BY <1>t, <3>1, <3>2, <3>3 DEF OwnInv, IsOwn, IsAboutOwn
  <2>3. QED
    BY <1>t, <1>a, <2>1, <2>2 DEF OwnInv
<1>5. CASE ListAccounts
  <2>1. RowsOf(request.auth) \in Seq(Accounts)
    BY <1>t, Rows
  <2>2. Elements(Slice(RowsOf(request.auth))) \subseteq Elements(RowsOf(request.auth))
    BY <1>t, <2>1, SliceHas, Requested DEF TypeOK
  <2>3. \A x \in Elements(page') : IsOwn(x)
    BY <1>5, <1>m, <2>2 DEF ListAccounts
  <2>4. \A x \in Elements(page') : IsAboutOwn(x)
    BY <2>3 DEF IsOwn, IsAboutOwn
  <2>5. QED
    BY <1>t, <1>o, <1>a, <1>5, <2>4 DEF OwnInv, ListAccounts, client
<1>6. CASE Answer
  BY <1>t, <1>o, <1>a, <1>6 DEF OwnInv, Answer
<1>7. ASSUME NEW a \in Accounts, Fetch(a)
      PROVE  OwnInv'
  <2>1. /\ ListOf(a) \in Seq(Transactions)
        /\ Elements(ListOf(a)) = Elements(ledger) \cap Of(a)
    BY <1>t, ListOfHas
  <2>2. /\ Slice(ListOf(a)) \in Seq(Transactions)
        /\ Elements(Slice(ListOf(a))) \subseteq Elements(ListOf(a))
    BY <1>t, <2>1, SliceHas, Requested DEF TypeOK
  <2>3. Slice(ListOf(a)) \in Seq(Accounts \cup Transactions)
    BY <2>2
  <2>4. Elements(page') = Elements(page) \cup Elements(Slice(ListOf(a)))
    BY <1>t, <1>7, <2>3, ElementsOfConcat DEF TypeOK, Fetch
  <2>5. IsOwn(a)
    BY <1>t, <1>7 DEF OwnInv, Fetch
  <2>6. \A x \in Elements(Slice(ListOf(a))) : IsAboutOwn(x)
    BY <2>1, <2>2, <2>5 DEF IsOwn, IsAboutOwn, Of, Involves
  <2>7. todo' \subseteq todo /\ UNCHANGED listed
    BY <1>7 DEF Fetch, client
  <2>8. QED
    BY <1>t, <1>o, <1>a, <2>4, <2>6, <2>7 DEF OwnInv
<1>8. CASE UNCHANGED <<todo, page, listed>>
  BY <1>t, <1>o, <1>a, <1>8 DEF OwnInv
<1>9. QED
  BY <1>1, <1>2, <1>3, <1>4, <1>5, <1>6, <1>7, <1>8
     DEF Next, vars, client, Fetched, Fails, CreateAccount, DeleteAccount, Book

-----------------------------------------------------------------------------
(* Pages of transactions                                                   *)

LEMMA WantedBefore ==
    ASSUME IInv, [Next]_vars, UNCHANGED start, NEW t, NEW a, Wanted(t, a)'
    PROVE  Wanted(t, a)
<1>1. /\ Elements(rows') \cap (Elements(rows) \cup deleted) \subseteq Elements(rows)
      /\ request' = request
  BY Environment
<1>2. Elements(start.rows) \subseteq Elements(rows) \cup deleted
  BY DEF IInv, HistoryOK
<1>3. QED
  BY <1>1, <1>2 DEF Wanted, Asked

\* What stands behind a place still does after any step.
LEMMA BehindStep ==
    ASSUME IInv, [Next]_vars, NEW t, NEW a, NEW k \in Nat, Behind(t, a, k)
    PROVE  Behind(t, a, k)'
<1>t. TypeOK
  BY DEF IInv
<1>1. PICK i \in DOMAIN ListOf(a) : ListOf(a)[i] = t /\ i > k
  BY DEF Behind
<1>n. i \in Nat
  BY <1>t, ListOfHas, LenProperties
<1>2. CASE UNCHANGED <<ledger, newest>>
  <2>1. ListOf(a)' = ListOf(a)
    BY <1>2 DEF ListOf
  <2>2. QED
    BY <1>1, <2>1 DEF Behind
<1>3. ASSUME NEW u \in Transactions, Book(u)
      PROVE  Behind(t, a, k)'
  <2>1. PICK j \in DOMAIN (ListOf(a)') :
            j \in Nat /\ j >= i /\ ListOf(a)'[j] = ListOf(a)[i]
    BY <1>t, <1>3, ListsGrow
  <2>2. j > k
    BY <1>1, <1>n, <2>1
  <2>3. QED
    BY <1>1, <2>1, <2>2 DEF Behind
<1>4. QED
  BY <1>2, <1>3 DEF Next, vars, environment, Ask, AskAgain, ReadAccounts, ReadAccount, FetchOne,
     Fetched, ListAccounts, Answer, Fails, Fetch, CreateAccount, DeleteAccount

\* What the client asks for is there when it asks.
LEMMA PagesAsk == IInv /\ [Next]_vars /\ Ask => PagesInv'
<1> SUFFICES ASSUME IInv, [Next]_vars, Ask, NEW t \in Transactions, NEW a \in Accounts,
                    Wanted(t, a)'
             PROVE  Behind(t, a, offset)' /\ stage' \in {"read", "refused"}
  BY DEF PagesInv
<1>1. /\ stage' \in {"read", "refused"} /\ offset' = 0
      /\ start' = [rows |-> rows, ledger |-> ledger] /\ ledger' = ledger /\ newest' = newest
  BY DEF Ask, Open, IInv, HistoryOK, environment
<1>2. t \in Elements(ListOf(a))
  <2>1. t \in Elements(ledger) \cap Of(a)
    BY <1>1 DEF Wanted, Of
  <2>2. QED
    BY <2>1, ListOfHas DEF IInv
<1>3. Behind(t, a, 0)
  <2>1. PICK i \in DOMAIN ListOf(a) : ListOf(a)[i] = t
    BY <1>2 DEF Elements
  <2>2. i > 0
    BY ListOfHas, LenProperties DEF IInv
  <2>3. QED
    BY <2>1, <2>2 DEF Behind
<1>4. Behind(t, a, offset)'
  <2>1. ListOf(a)' = ListOf(a)
    BY <1>1 DEF ListOf
  <2>2. QED
    BY <1>1, <1>3, <2>1 DEF Behind
<1>5. QED
  BY <1>1, <1>4

LEMMA PagesFetch ==
    ASSUME IInv, NEW b \in Accounts, Fetch(b), [Next]_vars
    PROVE  PagesInv'
<1>t. /\ TypeOK /\ PagesInv /\ request.limit \in Nat /\ request.limit \in Nat \ {0}
      /\ offset \in Nat /\ page \in Seq(Accounts \cup Transactions) /\ Len(page) \in Nat
  BY Requested, LenProperties DEF IInv, TypeOK
<1>f. /\ stage = "fetch" /\ stage' = "fetch" /\ b \in todo /\ todo' = todo \ {b}
      /\ page' = page \o Slice(ListOf(b))
      /\ UNCHANGED <<request, offset, listed, start, environment>>
  BY DEF Fetch, client
<1>s. /\ Slice(ListOf(b)) \in Seq(Transactions)
      /\ \A i \in DOMAIN ListOf(b) :
           /\ offset < i /\ i <= offset + request.limit
                => ListOf(b)[i] \in Elements(Slice(ListOf(b)))
           /\ i > offset + request.limit => Len(Slice(ListOf(b))) >= request.limit
  BY <1>t, ListOfHas, SliceHas
<1>p. /\ Elements(page') = Elements(page) \cup Elements(Slice(ListOf(b)))
      /\ Len(page') = Len(page) + Len(Slice(ListOf(b))) /\ Len(Slice(ListOf(b))) \in Nat
  <2>1. Slice(ListOf(b)) \in Seq(Accounts \cup Transactions)
    BY <1>s
  <2>2. QED
    BY <1>t, <1>f, <2>1, ElementsOfConcat, ConcatProperties, LenProperties
<1>l. \A a : ListOf(a)' = ListOf(a)
  BY <1>f DEF ListOf, environment
<1> SUFFICES ASSUME NEW t \in Transactions, NEW a \in Accounts, Wanted(t, a)', t \notin listed'
             PROVE  Behind(t, a, offset)' /\ (a \notin todo' => OnThisOrNext(t, a)')
  BY <1>f DEF PagesInv
<1>w. Wanted(t, a) /\ t \notin listed
  BY <1>f, WantedBefore
<1>1. Behind(t, a, offset) /\ (a \notin todo => OnThisOrNext(t, a))
  BY <1>t, <1>f, <1>w DEF PagesInv
<1>2. Behind(t, a, offset)'
  BY <1>1, <1>f, <1>l DEF Behind
<1>3. CASE a \notin todo
  <2>1. CASE t \in Elements(page)
    BY <1>2, <1>p, <2>1 DEF OnThisOrNext
  <2>2. CASE Len(page) >= request.limit /\ Behind(t, a, offset + request.limit)
    <3>1. Behind(t, a, offset + request.limit)'
      BY <2>2, <1>f, <1>l DEF Behind
    <3>2. Len(page') >= request'.limit
      BY <1>t, <1>f, <1>p, <2>2
    <3>3. QED
      BY <1>2, <3>1, <3>2 DEF OnThisOrNext
  <2>3. QED
    BY <1>1, <1>2, <1>3, <2>1, <2>2 DEF OnThisOrNext
<1>4. CASE a = b
  <2>1. PICK i \in DOMAIN ListOf(b) : ListOf(b)[i] = t /\ i > offset
    BY <1>1, <1>4 DEF Behind
  <2>n. i \in Nat
    BY <1>t, ListOfHas, LenProperties
  <2>2. CASE i <= offset + request.limit
    <3>1. t \in Elements(page')
      BY <1>s, <1>p, <2>1, <2>2
    <3>2. QED
      BY <1>2, <3>1 DEF OnThisOrNext
  <2>3. CASE i > offset + request.limit
    <3>1. Behind(t, a, offset + request.limit)'
      BY <1>4, <1>f, <1>l, <2>1, <2>3 DEF Behind
    <3>2. Len(page') >= request'.limit
      BY <1>t, <1>f, <1>s, <1>p, <2>3
    <3>3. QED
      BY <1>2, <3>1, <3>2 DEF OnThisOrNext
  <2>4. QED
    BY <1>t, <2>n, <2>2, <2>3
<1>5. QED
  BY <1>2, <1>3, <1>4, <1>f

LEMMA PagesStep == IInv /\ [Next]_vars => PagesInv'
<1> SUFFICES ASSUME IInv, [Next]_vars, ~ Ask, ~ (\E b \in Accounts : Fetch(b)),
                    NEW t \in Transactions, NEW a \in Accounts,
                    Wanted(t, a)', t \notin listed'
             PROVE  /\ stage' \in {"new", "read", "fetch", "answer", "error"} => Behind(t, a, offset)'
                    /\ stage' = "answer" \/ (stage' = "fetch" /\ a \notin todo') => OnThisOrNext(t, a)'
                    /\ stage' = "answered" =>
                         /\ Len(page') >= request'.limit
                         /\ Behind(t, a, offset + request.limit)'
  <2>1. IInv /\ [Next]_vars /\ Ask => PagesInv'
    BY PagesAsk
  <2>2. IInv /\ [Next]_vars /\ (\E b \in Accounts : Fetch(b)) => PagesInv'
    BY PagesFetch
  <2>3. QED
    BY <2>1, <2>2 DEF PagesInv
<1>t. /\ offset \in Nat /\ offset + request.limit \in Nat
      /\ request' = request
      /\ stage \in {"new", "read", "fetch", "answer", "answered", "refused", "error"}
  BY Requested, Environment DEF IInv, TypeOK
<1>s. UNCHANGED start /\ listed \subseteq listed'
  BY DEF Next, vars, client, environment, AskAgain, ReadAccounts, ReadAccount, FetchOne, Fetched,
         ListAccounts, Answer, Fails, CreateAccount, DeleteAccount, Book
<1>w. Wanted(t, a) /\ t \notin listed
  BY <1>s, WantedBefore
<1>i. /\ stage \in {"new", "read", "fetch", "answer", "error"} => Behind(t, a, offset)
      /\ stage = "answer" \/ (stage = "fetch" /\ a \notin todo) => OnThisOrNext(t, a)
      /\ stage = "answered" =>
           Len(page) >= request.limit /\ Behind(t, a, offset + request.limit)
  BY <1>w DEF IInv, PagesInv
<1>b. /\ Behind(t, a, offset) => (offset' = offset => Behind(t, a, offset)')
      /\ Behind(t, a, offset + request.limit) =>
           /\ offset' = offset => Behind(t, a, offset + request.limit)'
           /\ offset' = offset + request.limit => Behind(t, a, offset)'
  <2>1. \A k \in Nat : Behind(t, a, k) => Behind(t, a, k)'
    BY BehindStep
  <2>2. \A k \in Nat : Behind(t, a, k) => \E i \in DOMAIN (ListOf(a)') : ListOf(a)'[i] = t /\ i > k
    BY <2>1 DEF Behind
  <2>3. QED
    BY <1>t, <2>2 DEF Behind
<1>o. UNCHANGED <<offset, page>> /\ OnThisOrNext(t, a) => OnThisOrNext(t, a)'
  BY <1>t, <1>b DEF OnThisOrNext
<1>1. CASE AskAgain
  <2>1. CASE stage = "answered"
    BY <1>1, <1>i, <1>b, <2>1 DEF AskAgain, Open
  <2>2. CASE stage = "error"
    BY <1>1, <1>i, <1>b, <2>2 DEF AskAgain, Open
  <2>3. QED
    BY <1>1, <2>1, <2>2 DEF AskAgain
<1>2. CASE ReadAccounts
  <2>1. a \in Elements(RowsOf(request.auth))
    <3>1. a \in Elements(rows) \cap OwnedBy(request.auth)
      <4>1. a \in Elements(rows) /\ Owner[a] = request.auth
        BY <1>w DEF Wanted, Asked
      <4>2. QED
        BY <4>1 DEF OwnedBy
    <3>2. QED
      BY <3>1, Rows DEF IInv
  <2>2. QED
    BY <1>2, <1>i, <1>b, <2>1 DEF ReadAccounts, client
<1>3. CASE ReadAccount
  <2>1. a = request.account
    BY <1>3, <1>w DEF ReadAccount, Wanted, Asked
  <2>2. QED
    BY <1>3, <1>i, <1>b, <2>1 DEF ReadAccount, client
<1>4. CASE FetchOne
  BY <1>4, <1>w DEF FetchOne, Wanted, Asked
<1>5. CASE Fetched
  BY <1>5, <1>i, <1>b, <1>o DEF Fetched, client
<1>6. CASE ListAccounts
  BY <1>6, <1>w DEF ListAccounts, Wanted, Asked
<1>7. CASE Answer
  <2>1. t \notin Elements(page)
    BY <1>7 DEF Answer
  <2>2. Len(page) >= request.limit /\ Behind(t, a, offset + request.limit)
    BY <1>7, <1>i, <2>1 DEF Answer, OnThisOrNext
  <2>3. QED
    BY <1>7, <1>t, <1>b, <2>2 DEF Answer
<1>8. CASE Fails
  BY <1>8, <1>i, <1>b DEF Fails, client
<1>9. CASE UNCHANGED <<client, stage, todo, page>>
  BY <1>9, <1>t, <1>i, <1>b, <1>o DEF client
<1>10. QED
  BY <1>1, <1>2, <1>3, <1>4, <1>5, <1>6, <1>7, <1>8, <1>9
     DEF Next, vars, CreateAccount, DeleteAccount, Book

-----------------------------------------------------------------------------
(* Pages of accounts                                                       *)

LEMMA StaysBefore ==
    ASSUME IInv, [Next]_vars, UNCHANGED start, NEW i, Stays(i)'
    PROVE  Stays(i) /\ Mine' = Mine
<1>1. deleted \subseteq deleted' /\ request' = request
  BY Environment
<1>2. Mine' = Mine
  BY <1>1 DEF Mine
<1>3. QED
  BY <1>1, <1>2 DEF Stays

LEMMA PlacesStep == IInv /\ [Next]_vars => PlacesInv'
<1> SUFFICES ASSUME IInv, [Next]_vars, NEW i \in Nat, Stays(i)'
             PROVE  /\ i \in DOMAIN (RowsOf(request.auth)')
                    /\ RowsOf(request.auth)'[i] = Mine'[i]
  BY DEF PlacesInv
<1>t. TypeOK /\ PlacesInv /\ rows \in Seq(Accounts) /\ request' = request
  BY Environment DEF IInv, TypeOK
<1>1. CASE Ask
  <2>1. Mine' = RowsOf(request.auth)'
    BY <1>1, <1>t DEF Ask, Mine, RowsOf, environment
  <2>2. QED
    BY <2>1 DEF Stays
<1>2. CASE UNCHANGED <<start, rows>>
  <2>1. RowsOf(request.auth)' = RowsOf(request.auth)
    BY <1>2, <1>t DEF RowsOf
  <2>2. Stays(i) /\ Mine' = Mine
    BY <1>2, StaysBefore
  <2>3. QED
    BY <1>t, <2>1, <2>2 DEF PlacesInv
<1>3. ASSUME NEW a \in Accounts, CreateAccount(a)
      PROVE  /\ i \in DOMAIN (RowsOf(request.auth)')
             /\ RowsOf(request.auth)'[i] = Mine'[i]
  <2>1. Stays(i) /\ Mine' = Mine
    BY <1>3, StaysBefore DEF CreateAccount, client
  <2>2. i \in DOMAIN RowsOf(request.auth) /\ RowsOf(request.auth)[i] = Mine[i]
    BY <1>t, <2>1 DEF PlacesInv
  <2>3. RowsOf(request.auth) \in Seq(Accounts)
    BY <1>t, Rows
  <2>4. RowsOf(request.auth)' = Only(Append(rows, a), OwnedBy(request.auth))
    BY <1>t, <1>3 DEF CreateAccount, RowsOf
  <2>5. RowsOf(request.auth)' =
           IF a \in OwnedBy(request.auth) THEN Append(RowsOf(request.auth), a)
                                          ELSE RowsOf(request.auth)
    <3>1. \A S : Only(Append(rows, a), S) = IF a \in S THEN Append(Only(rows, S), a) ELSE Only(rows, S)
      BY <1>t, OnlyAppend
    <3>2. QED
      BY <2>4, <3>1 DEF RowsOf
  <2>6. /\ i \in DOMAIN Append(RowsOf(request.auth), a)
        /\ Append(RowsOf(request.auth), a)[i] = RowsOf(request.auth)[i]
    BY <2>2, <2>3, AppendProperties, LenProperties
  <2>7. QED
    BY <2>1, <2>2, <2>5, <2>6
<1>4. ASSUME NEW a \in Accounts, DeleteAccount(a)
      PROVE  /\ i \in DOMAIN (RowsOf(request.auth)')
             /\ RowsOf(request.auth)'[i] = Mine'[i]
  <2> DEFINE old == RowsOf(request.auth)
  <2> DEFINE others == Accounts \ {a}
  <2>1. Stays(i) /\ Mine' = Mine /\ deleted' = deleted \cup {a}
    BY <1>4, StaysBefore DEF DeleteAccount, client
  <2>2. /\ old \in Seq(Accounts) /\ DOMAIN old = 1..Len(old) /\ Len(old) \in Nat
    BY <1>t, Rows, LenProperties
  <2>3. RowsOf(request.auth)' = Only(old, others)
    <3>1. RowsOf(request.auth)' = Only(Only(rows, others), OwnedBy(request.auth))
      BY <1>t, <1>4 DEF DeleteAccount, RowsOf
    <3>2. QED
      BY <1>t, <3>1, OnlyCommutes DEF RowsOf
  <2>4. \A j \in 1..i : j \in DOMAIN Mine /\ Mine[j] \in others /\ Stays(j)
    <3>1. i \in 1..Len(Mine) /\ DOMAIN Mine = 1..Len(Mine) /\ Mine \in Seq(Accounts)
      BY <1>t, <2>1, MineIs DEF Stays
    <3>2. \A j \in 1..i : Mine[j] \notin deleted /\ Mine[j] # a
      BY <2>1 DEF Stays
    <3>3. ASSUME NEW j \in 1..i
          PROVE  j \in DOMAIN Mine /\ Mine[j] \in others /\ Stays(j)
      <4>1. j \in 1..Len(Mine) /\ \A k \in 1..j : k \in 1..i
        BY <3>1
      <4>2. QED
        BY <3>1, <3>2, <4>1 DEF Stays
    <3>4. QED
      BY <3>3
  <2>5. \A j \in 1..i : j \in DOMAIN old /\ old[j] = Mine[j]
    BY <1>t, <2>4 DEF PlacesInv
  <2>6. i \in 1..i /\ i \in DOMAIN old
    <3>1. i \in 1..i
      BY <1>t, <2>1, MineIs DEF Stays
    <3>2. QED
      BY <3>1, <2>5
  <2>7. i \in 0..Len(old) /\ \A j \in 1..i : old[j] \in others
    BY <2>2, <2>4, <2>5, <2>6
  <2> HIDE DEF old, others
  <2>8. i <= Len(Only(old, others)) /\ \A j \in 1..i : Only(old, others)[j] = old[j]
    BY <2>2, <2>7, OnlyPrefix
  <2>9. Only(old, others) \in Seq(Accounts)
    BY <2>2, OnlyInSeq
  <2>10. i \in DOMAIN Only(old, others)
    BY <2>6, <2>8, <2>9, LenProperties
  <2>11. QED
    BY <2>1, <2>3, <2>5, <2>6, <2>8, <2>10
<1>5. QED
  BY <1>1, <1>2, <1>3, <1>4 DEF Next, vars, client, environment, AskAgain, ReadAccounts, ReadAccount,
     FetchOne, Fetched, ListAccounts, Answer, Fails, Fetch, Book

LEMMA AccountPagesStep == IInv /\ [Next]_vars => AccountPagesInv'
<1> SUFFICES ASSUME IInv, [Next]_vars, request.kind = "accounts", NEW i \in Nat, Stays(i)',
                    Mine'[i] \notin listed'
             PROVE  /\ stage' \in {"new", "read", "answer", "error"} => i > offset'
                    /\ stage' = "answer" =>
                         \/ Mine'[i] \in Elements(page')
                         \/ Len(page') >= request'.limit /\ i > offset' + request'.limit
                    /\ stage' = "answered" =>
                         Len(page') >= request'.limit /\ i > offset' + request'.limit
  BY Environment DEF AccountPagesInv
<1>t. /\ TypeOK /\ offset \in Nat /\ request' = request
      /\ request.limit \in Nat \ {0} /\ request.limit \in Nat
      /\ stage \in {"new", "read", "fetch", "answer", "answered", "refused", "error"}
      /\ stage # "fetch"
  BY Environment, Requested DEF IInv, TypeOK, HistoryOK
<1>1. CASE Ask
  <2>1. Mine' = RowsOf(request.auth)'
    BY <1>1, <1>t DEF Ask, Mine, RowsOf, environment
  <2>2. RowsOf(request.auth)' = RowsOf(request.auth)
    BY <1>1, <1>t DEF Ask, RowsOf, environment
  <2>3. i \in DOMAIN RowsOf(request.auth)
    BY <2>1, <2>2 DEF Stays
  <2>4. i > 0
    BY <1>t, <2>3, Rows, LenProperties
  <2>5. offset' = 0 /\ stage' \in {"read", "refused"}
    BY <1>1 DEF Ask, Open, IInv, HistoryOK
  <2>6. QED
    BY <2>4, <2>5
<1>2. CASE UNCHANGED start
  <2>1. listed \subseteq listed'
    BY <1>2 DEF Next, vars, client, Ask, AskAgain, ReadAccounts, ReadAccount, FetchOne, Fetched,
       ListAccounts, Answer, Fails, Fetch, CreateAccount, DeleteAccount, Book
  <2>2. Stays(i) /\ Mine' = Mine /\ Mine[i] \notin listed
    BY <1>2, <2>1, StaysBefore
  <2>3. /\ stage \in {"new", "read", "answer", "error"} => i > offset
        /\ stage = "answer" =>
             \/ Mine[i] \in Elements(page)
             \/ Len(page) >= request.limit /\ i > offset + request.limit
        /\ stage = "answered" =>
             Len(page) >= request.limit /\ i > offset + request.limit
    BY <2>2 DEF IInv, AccountPagesInv
  <2>4. CASE AskAgain
    BY <1>t, <2>3, <2>4 DEF AskAgain, Open
  <2>5. CASE ListAccounts
    <3>1. /\ RowsOf(request.auth) \in Seq(Accounts)
          /\ i \in DOMAIN RowsOf(request.auth) /\ RowsOf(request.auth)[i] = Mine[i]
      BY <1>t, <2>2, Rows DEF IInv, PlacesInv
    <3>2. /\ stage = "read" /\ stage' = "answer" /\ page' = Slice(RowsOf(request.auth))
          /\ offset' = offset
      BY <2>5 DEF ListAccounts, client
    <3>3. /\ offset < i /\ i <= offset + request.limit => Mine[i] \in Elements(page')
          /\ i > offset + request.limit => Len(page') >= request.limit
      <4>1. \A k \in DOMAIN RowsOf(request.auth) :
               /\ offset < k /\ k <= offset + request.limit
                    => RowsOf(request.auth)[k] \in Elements(Slice(RowsOf(request.auth)))
               /\ k > offset + request.limit => Len(Slice(RowsOf(request.auth))) >= request.limit
        BY <1>t, <3>1, SliceHas
      <4>2. QED
        BY <3>1, <3>2, <4>1
    <3>4. i > offset
      BY <2>3, <3>2
    <3>5. i <= offset + request.limit \/ i > offset + request.limit
      BY <1>t
    <3>6. QED
      BY <1>t, <2>2, <3>2, <3>3, <3>4, <3>5
  <2>6. CASE Answer
    BY <1>t, <2>2, <2>3, <2>6 DEF Answer
  <2>7. CASE Fails
    BY <1>t, <2>3, <2>7 DEF Fails, client
  <2>8. CASE UNCHANGED <<client, stage, todo, page>>
    BY <1>t, <2>2, <2>3, <2>8 DEF client
  <2>9. CASE Ask
    BY <2>3, <2>9 DEF Ask, Open
  <2>10. ~ (ReadAccounts \/ ReadAccount \/ FetchOne \/ Fetched \/ \E a \in Accounts : Fetch(a))
    BY <1>t DEF ReadAccounts, ReadAccount, FetchOne, Fetched, Fetch
  <2>11. QED
    BY <2>4, <2>5, <2>6, <2>7, <2>8, <2>9, <2>10
       DEF Next, vars, CreateAccount, DeleteAccount, Book
<1>3. QED
  BY <1>1, <1>2 DEF Next, vars, client, AskAgain, ReadAccounts, ReadAccount, FetchOne, Fetched,
     ListAccounts, Answer, Fails, Fetch, CreateAccount, DeleteAccount, Book

-----------------------------------------------------------------------------
(* Theorems                                                                *)

\* The invariant of the lists: what the client has not got yet stands behind what
\* it has asked for.
THEOREM Invariance == Spec => []IInv
<1>1. IInv /\ [Next]_vars => IInv'
  <2> SUFFICES ASSUME IInv, [Next]_vars
               PROVE  IInv'
    OBVIOUS
  <2>1. TypeOK' /\ HistoryOK' /\ OwnInv'
    BY TypeStep, HistoryStep, OwnStep
  <2>2. PagesInv' /\ PlacesInv' /\ AccountPagesInv'
    BY PagesStep, PlacesStep, AccountPagesStep
  <2>3. QED
    BY <2>1, <2>2 DEF IInv
<1>2. QED
  BY InitInv, <1>1, PTL DEF Spec

\* Type correctness, for every ledger, list of accounts and window a client asks for
\* (services/transactions.rs, services/accounts.rs).
THEOREM TypeCorrect == Spec => []TypeOK
<1>1. IInv => TypeOK
  BY DEF IInv
<1>2. QED
  BY <1>1, Invariance, PTL

\* Whatever is listed is about an account of the user who asks: the accounts come from
\* get_by_user and the transactions from the ids of those (services/transactions.rs).
THEOREM OnlyOwnIsListed == Spec => []ListedIsOwn
<1>1. IInv => ListedIsOwn
  BY DEF IInv, OwnInv, IsAboutOwn, ListedIsOwn
<1>2. QED
  BY <1>1, Invariance, PTL

\* A client that pages to the end has every transaction that was there when it began, of
\* each account that has been there all the time, whatever the number of accounts
\* whose windows get_transactions_for_user puts into a page.
THEOREM HistoryReachesClient == Spec => []HistoryIsComplete
<1>1. IInv => HistoryIsComplete
  <2> SUFFICES ASSUME IInv, Finished, NEW t \in Elements(start.ledger),
                      NEW a \in Elements(start.rows) \cap Elements(rows),
                      Asked(a), a \in Ends[t], t \notin listed
               PROVE  FALSE
    BY DEF HistoryIsComplete
  <2>t. TypeOK /\ page \in Seq(Accounts \cup Transactions) /\ start.ledger \in Seq(Transactions)
    BY DEF IInv, TypeOK
  <2>1. t \in Transactions /\ a \in Accounts
    BY <2>t, Rows, ElementsIn
  <2>2. Wanted(t, a)
    BY DEF Wanted
  <2>3. Len(page) >= request.limit
    BY <2>1, <2>2 DEF IInv, PagesInv, Finished
  <2>4. QED
    BY <2>t, <2>3, Requested, LenProperties DEF Finished
<1>2. QED
  BY <1>1, Invariance, PTL

\* A client that pages through its accounts has every one that no deletion in front of it
\* has moved (list_for_user, repos/accounts.rs).
THEOREM AccountsReachClient == Spec => []AccountsAreComplete
<1>1. IInv => AccountsAreComplete
  <2> SUFFICES ASSUME IInv, Finished, request.kind = "accounts", NEW i \in DOMAIN Mine,
                      \A j \in 1..i : Mine[j] \notin deleted, Mine[i] \notin listed
               PROVE  FALSE
    BY DEF AccountsAreComplete, Mine
  <2>t. TypeOK /\ page \in Seq(Accounts \cup Transactions)
    BY DEF IInv, TypeOK
  <2>1. i \in Nat /\ Stays(i)
    BY <2>t, MineIs DEF Stays
  <2>2. Len(page) >= request.limit
    BY <2>1 DEF IInv, AccountPagesInv, Finished
  <2>3. QED
    BY <2>t, <2>2, Requested, LenProperties DEF Finished
<1>2. QED
  BY <1>1, Invariance, PTL

-----------------------------------------------------------------------------
(* Recursive functions                                                     *)

\* f begins with a and makes the steps of G, m times.
Steps(f, a, G, m) == f[0] = a /\ \A n \in 1..m : f[n] = G[<<f[n - 1], n>>]

LEMMA Recursion ==
    ASSUME NEW X, NEW a \in X, NEW G \in [X \X Nat -> X], NEW m \in Nat
    PROVE  \E f \in [0..m -> X] : Steps(f, a, G, m)
<1> DEFINE Fits(f, k) == f[0] = a /\ \A n \in 1..k : f[n] = G[<<f[n - 1], n>>]
<1> DEFINE N == {k \in Nat : \E f \in [0..k -> X] : Fits(f, k)}
<1>1. 0 \in N
  <2> DEFINE f == [n \in 0..0 |-> a]
  <2>1. f \in [0..0 -> X] /\ Fits(f, 0)
    OBVIOUS
  <2>2. QED
    BY <2>1
<1>2. ASSUME NEW k \in Nat, NEW f \in [0..k -> X], Fits(f, k)
      PROVE  \E g \in [0..(k + 1) -> X] : Fits(g, k + 1)
  <2> DEFINE last == G[<<f[k], k + 1>>]
  <2> DEFINE g == [n \in 0..(k + 1) |-> IF n = k + 1 THEN last ELSE f[n]]
  <2>1. last \in X
    BY <1>2
  <2>2. g \in [0..(k + 1) -> X]
    <3> HIDE DEF last
    <3>1. QED
      BY <2>1
  <2>3. g[0] = a /\ g[k + 1] = last /\ \A n \in 0..k : g[n] = f[n]
    <3> HIDE DEF last
    <3>1. QED
      BY <1>2
  <2>4. ASSUME NEW n \in 1..(k + 1)
        PROVE  g[n] = G[<<g[n - 1], n>>]
    <3> HIDE DEF g
    <3>1. CASE n = k + 1
      BY <2>3, <3>1
    <3>2. CASE n \in 1..k
      BY <1>2, <2>3, <3>2
    <3>3. QED
      BY <3>1, <3>2
  <2>5. QED
    <3> HIDE DEF g
    <3>1. QED
      BY <2>2, <2>3, <2>4
<1>3. \A k \in Nat : k \in N => k + 1 \in N
  <2> HIDE DEF Fits
  <2>1. QED
    BY <1>2
<1>4. Nat \subseteq N
  <2> HIDE DEF N
  <2>1. QED
    BY <1>1, <1>3, Induction
<1>5. QED
  BY <1>4 DEF Steps

\* Functions that begin alike and make the same steps are alike.
Alike(f, g, m) == f[0] = g[0] /\ \A n \in 1..m : f[n - 1] = g[n - 1] => f[n] = g[n]

LEMMA SameSteps ==
    ASSUME NEW m \in Nat, NEW f, NEW g, Alike(f, g, m)
    PROVE  \A n \in 0..m : f[n] = g[n]
<1> DEFINE N == {n \in Nat : n <= m => f[n] = g[n]}
<1>1. 0 \in N
  BY DEF Alike
<1>2. \A n \in Nat : n \in N => n + 1 \in N
  <2> SUFFICES ASSUME NEW n \in N, n + 1 <= m
               PROVE  f[n + 1] = g[n + 1]
    OBVIOUS
  <2>1. n + 1 \in 1..m /\ (n + 1) - 1 = n /\ f[n] = g[n]
    OBVIOUS
  <2>2. QED
    BY <2>1 DEF Alike
<1>3. Nat \subseteq N
  <2> HIDE DEF N
  <2>1. QED
    BY <1>1, <1>2, Induction
<1>4. QED
  BY <1>3

-----------------------------------------------------------------------------
(* Powers                                                                  *)

Powers(f, e) == f = [n \in 0..e |-> IF n = 0 THEN 1 ELSE Base * f[n - 1]]

LEMMA PowersOf ==
    ASSUME NEW e \in Nat
    PROVE  \E f \in [0..e -> Nat] :
               /\ f[0] = 1 /\ \A n \in 1..e : f[n] = Base * f[n - 1]
               /\ Power(e) = f[e]
<1> DEFINE G == [p \in Nat \X Nat |-> Base * p[1]]
<1>1. G \in [Nat \X Nat -> Nat]
  BY AmountsAssumption
<1>2. PICK g \in [0..e -> Nat] : g[0] = 1 /\ \A n \in 1..e : g[n] = G[<<g[n - 1], n>>]
  <2> HIDE DEF G
  <2>1. 1 \in Nat
    OBVIOUS
  <2>2. \E g \in [0..e -> Nat] : Steps(g, 1, G, e)
    BY <1>1, <2>1, Recursion
  <2>3. QED
    BY <2>2 DEF Steps
<1>3. \A n \in 1..e : g[n] = Base * g[n - 1]
  <2>1. \A n \in 1..e : n \in Nat /\ n - 1 \in 0..e
    OBVIOUS
  <2>2. QED
    BY <1>2, <2>1
<1>4. Powers(g, e)
  <2> DEFINE h == [n \in 0..e |-> IF n = 0 THEN 1 ELSE Base * g[n - 1]]
  <2>1. \A n \in 0..e : (n = 0 \/ n \in 1..e) /\ (n \in 1..e => n # 0)
    OBVIOUS
  <2>2. \A n \in 0..e : g[n] = h[n]
    BY <1>2, <1>3, <2>1, Zenon
  <2>3. g = h
    BY <2>2
  <2>4. QED
    BY <2>3 DEF Powers
<1> DEFINE f == CHOOSE f : Powers(f, e)
<1>5. Powers(f, e)
  BY <1>4
<1>6. Power(e) = f[e]
  BY Zenon DEF Power, Powers
<1> HIDE DEF f
<1>7. f[0] = 1 /\ \A n \in 1..e : f[n] = Base * f[n - 1]
  <2>1. 0 \in 0..e /\ \A n \in 1..e : n \in 0..e /\ n # 0
    OBVIOUS
  <2> DEFINE h == [n \in 0..e |-> IF n = 0 THEN 1 ELSE Base * f[n - 1]]
  <2>2. f = h
    BY <1>5 DEF Powers
  <2>3. \A n \in 0..e : h[n] = IF n = 0 THEN 1 ELSE Base * f[n - 1]
    OBVIOUS
  <2> HIDE DEF h
  <2>4. QED
    BY <2>1, <2>2, <2>3, Zenon
<1>8. \A n \in 0..e : g[n] = f[n]
  <2>1. \A n \in 1..e : g[n - 1] = f[n - 1] => g[n] = f[n]
    BY <1>3, <1>7, Zenon
  <2>2. g[0] = f[0]
    BY <1>2, <1>7
  <2>3. Alike(g, f, e)
    BY <2>1, <2>2 DEF Alike
  <2>4. QED
    BY <2>3, SameSteps
<1>9. e \in 0..e
  OBVIOUS
<1>10. Power(e) = g[e]
  BY <1>6, <1>8, <1>9
<1>11. QED
  BY <1>2, <1>3, <1>10, Zenon

LEMMA PowerStep ==
    /\ Power(0) = 1
    /\ \A e \in Nat : Power(e) \in Nat /\ Power(e + 1) = Base * Power(e)
<1>1. Power(0) = 1
  BY PowersOf
<1>2. ASSUME NEW e \in Nat
      PROVE  Power(e) \in Nat /\ Power(e + 1) = Base * Power(e)
  <2>s. \A f, g : Alike(f, g, e) => \A n \in 0..e : f[n] = g[n]
    BY SameSteps
  <2>1. PICK f \in [0..e -> Nat] :
            f[0] = 1 /\ (\A n \in 1..e : f[n] = Base * f[n - 1]) /\ Power(e) = f[e]
    BY PowersOf
  <2>a. e + 1 \in Nat
    OBVIOUS
  <2>2. PICK g \in [0..(e + 1) -> Nat] :
            /\ g[0] = 1 /\ \A n \in 1..(e + 1) : g[n] = Base * g[n - 1]
            /\ Power(e + 1) = g[e + 1]
    BY <2>a, PowersOf, Zenon
  <2>b. \A n \in 1..e : n \in 1..(e + 1)
    OBVIOUS
  <2>3. \A n \in 1..e : f[n - 1] = g[n - 1] => f[n] = g[n]
    BY <2>1, <2>2, <2>b, Zenon
  <2>c. f[0] = g[0]
    BY <2>1, <2>2
  <2>d. \A n \in 0..e : f[n] = g[n]
    <3>1. Alike(f, g, e)
      BY <2>3, <2>c DEF Alike
    <3>2. QED
      BY <3>1, <2>s, Zenon
  <2>4. f[e] = g[e]
    BY <2>d
  <2>5. g[e + 1] = Base * g[e]
    BY <2>2
  <2>6. QED
    BY <2>1, <2>2, <2>4, <2>5
<1>3. QED
  BY <1>1, <1>2

-----------------------------------------------------------------------------
(* Digits                                                                  *)

LEMMA DivMod ==
    ASSUME NEW x \in Nat
    PROVE  /\ x \div Base \in Nat /\ x % Base \in Digit
           /\ x = Base * (x \div Base) + (x % Base)
           /\ x # 0 => x \div Base < x
<1>1. x \div Base \in Nat /\ x % Base \in Digit /\ x = Base * (x \div Base) + (x % Base)
  BY AmountsAssumption DEF Digit
<1>2. ASSUME NEW b \in Nat, b >= 2, NEW q \in Nat, NEW r \in Nat, x = b * q + r, x # 0
      PROVE  q < x
  <2>1. CASE q = 0
    BY <1>2, <2>1
  <2>2. CASE q # 0
    <3>1. b * q >= 2 * q
      BY <1>2
    <3>2. QED
      BY <1>2, <2>2, <3>1
  <2>3. QED
    BY <2>1, <2>2
<1>3. QED
  BY <1>1, <1>2, AmountsAssumption DEF Digit

Rests(f, v, i) == f = [n \in 0..i |-> IF n = 0 THEN v ELSE f[n - 1] \div Base]

LEMMA RestsOf ==
    ASSUME NEW v \in Nat, NEW i \in Nat
    PROVE  \E f \in [0..i -> Nat] :
               /\ f[0] = v /\ \A n \in 1..i : f[n] = f[n - 1] \div Base
               /\ Rest(v, i) = f[i]
<1> DEFINE G == [p \in Nat \X Nat |-> p[1] \div Base]
<1>1. G \in [Nat \X Nat -> Nat]
  BY DivMod
<1>2. PICK g \in [0..i -> Nat] : g[0] = v /\ \A n \in 1..i : g[n] = G[<<g[n - 1], n>>]
  <2> HIDE DEF G
  <2>1. v \in Nat
    OBVIOUS
  <2>2. \E g \in [0..i -> Nat] : Steps(g, v, G, i)
    BY <1>1, <2>1, Recursion
  <2>3. QED
    BY <2>2 DEF Steps
<1>3. \A n \in 1..i : g[n] = g[n - 1] \div Base
  <2>1. \A n \in 1..i : n \in Nat /\ n - 1 \in 0..i
    OBVIOUS
  <2>2. QED
    BY <1>2, <2>1
<1>4. Rests(g, v, i)
  <2> DEFINE h == [n \in 0..i |-> IF n = 0 THEN v ELSE g[n - 1] \div Base]
  <2>1. \A n \in 0..i : (n = 0 \/ n \in 1..i) /\ (n \in 1..i => n # 0)
    OBVIOUS
  <2>2. \A n \in 0..i : g[n] = h[n]
    BY <1>2, <1>3, <2>1, Zenon
  <2>3. g = h
    BY <2>2
  <2>4. QED
    BY <2>3 DEF Rests
<1> DEFINE f == CHOOSE f : Rests(f, v, i)
<1>5. Rests(f, v, i)
  BY <1>4
<1>6. Rest(v, i) = f[i]
  BY Zenon DEF Rest, Rests
<1> HIDE DEF f
<1>7. f[0] = v /\ \A n \in 1..i : f[n] = f[n - 1] \div Base
  <2>1. 0 \in 0..i /\ \A n \in 1..i : n \in 0..i /\ n # 0
    OBVIOUS
  <2> DEFINE h == [n \in 0..i |-> IF n = 0 THEN v ELSE f[n - 1] \div Base]
  <2>2. f = h
    BY <1>5 DEF Rests
  <2>3. \A n \in 0..i : h[n] = IF n = 0 THEN v ELSE f[n - 1] \div Base
    OBVIOUS
  <2> HIDE DEF h
  <2>4. QED
    BY <2>1, <2>2, <2>3, Zenon
<1>8. \A n \in 0..i : g[n] = f[n]
  <2>1. \A n \in 1..i : g[n - 1] = f[n - 1] => g[n] = f[n]
    BY <1>3, <1>7, Zenon
  <2>2. g[0] = f[0]
    BY <1>2, <1>7
  <2>3. Alike(g, f, i)
    BY <2>1, <2>2 DEF Alike
  <2>4. QED
    BY <2>3, SameSteps
<1>9. i \in 0..i
  OBVIOUS
<1>10. Rest(v, i) = g[i]
  BY <1>6, <1>8, <1>9
<1>11. QED
  BY <1>2, <1>3, <1>10, Zenon

LEMMA RestStep ==
    ASSUME NEW v \in Nat
    PROVE  /\ Rest(v, 0) = v
           /\ \A i \in Nat : Rest(v, i) \in Nat /\ Rest(v, i + 1) = Rest(v, i) \div Base
<1>1. Rest(v, 0) = v
  BY RestsOf
<1>2. ASSUME NEW i \in Nat
      PROVE  Rest(v, i) \in Nat /\ Rest(v, i + 1) = Rest(v, i) \div Base
  <2>s. \A f, g : Alike(f, g, i) => \A n \in 0..i : f[n] = g[n]
    BY SameSteps
  <2>1. PICK f \in [0..i -> Nat] :
            f[0] = v /\ (\A n \in 1..i : f[n] = f[n - 1] \div Base) /\ Rest(v, i) = f[i]
    BY RestsOf
  <2>a. i + 1 \in Nat
    OBVIOUS
  <2>2. PICK g \in [0..(i + 1) -> Nat] :
            /\ g[0] = v /\ \A n \in 1..(i + 1) : g[n] = g[n - 1] \div Base
            /\ Rest(v, i + 1) = g[i + 1]
    BY <2>a, RestsOf, Zenon
  <2>b. \A n \in 1..i : n \in 1..(i + 1)
    OBVIOUS
  <2>3. \A n \in 1..i : f[n - 1] = g[n - 1] => f[n] = g[n]
    BY <2>1, <2>2, <2>b, Zenon
  <2>c. f[0] = g[0]
    BY <2>1, <2>2
  <2>d. \A n \in 0..i : f[n] = g[n]
    <3>1. Alike(f, g, i)
      BY <2>3, <2>c DEF Alike
    <3>2. QED
      BY <3>1, <2>s, Zenon
  <2>4. f[i] = g[i]
    BY <2>d
  <2>5. g[i + 1] = g[i] \div Base
    BY <2>2
  <2>6. QED
    BY <2>1, <2>2, <2>4, <2>5
<1>3. QED
  BY <1>1, <1>2

\* Dividing comes to an end, after v + 1 digits at the latest.
LEMMA RestEnds ==
    ASSUME NEW v \in Nat
    PROVE  Rest(v, v + 1) = 0
<1> DEFINE N == {i \in Nat : Rest(v, i) # 0 => Rest(v, i) + i <= v}
<1>1. 0 \in N
  BY RestStep
<1>2. ASSUME NEW i \in Nat, i \in N, Rest(v, i + 1) # 0
      PROVE  Rest(v, i + 1) + (i + 1) <= v
  <2>1. Rest(v, i) \in Nat /\ Rest(v, i + 1) \in Nat /\ Rest(v, i + 1) = Rest(v, i) \div Base
    BY RestStep
  <2>2. Rest(v, i) # 0
    <3>1. 0 \div Base = 0
      BY AmountsAssumption
    <3>2. QED
      BY <1>2, <2>1, <3>1
  <2>3. Rest(v, i + 1) < Rest(v, i)
    BY <2>1, <2>2, DivMod
  <2>4. Rest(v, i) + i <= v
    BY <1>2, <2>2
  <2>5. QED
    BY <2>1, <2>3, <2>4
<1>3. \A i \in Nat : i \in N => i + 1 \in N
  BY <1>2
<1>4. Nat \subseteq N
  <2> HIDE DEF N
  <2>1. QED
    BY <1>1, <1>3, Induction
<1>5. v + 1 \in N /\ Rest(v, v + 1) \in Nat
  BY <1>4, RestStep
<1>6. QED
  BY <1>5

LEMMA CountIs ==
    ASSUME NEW v \in Nat
    PROVE  /\ Count(v) \in 1..(v + 1) /\ Rest(v, Count(v)) = 0
           /\ \A j \in 1..(Count(v) - 1) : Rest(v, j) # 0
<1> DEFINE T == {i \in Nat : i >= 1 /\ Rest(v, i) = 0}
<1>1. v + 1 \in T
  BY RestEnds
<1>2. PICK x \in T : \A y \in T : x <= y
  <2> HIDE DEF T
  <2>1. T \in SUBSET Nat /\ T # {}
    BY <1>1 DEF T
  <2>2. QED
    BY <2>1, LeastOf
<1>3. x \in 1..(v + 1) /\ Rest(v, x) = 0 /\ \A j \in 1..(x - 1) : Rest(v, j) # 0
  BY <1>1, <1>2
<1>4. QED
  BY <1>3, Zenon DEF Count

LEMMA DigitsIs ==
    ASSUME NEW v \in Nat
    PROVE  /\ ToBase10000(v) \in Seq(Digit) /\ Len(ToBase10000(v)) = Count(v)
           /\ \A i \in 1..Count(v) :
                Rest(v, i - 1) = Base * Rest(v, i) + ToBase10000(v)[i]
<1>1. Count(v) \in Nat
  BY CountIs
<1>2. ASSUME NEW i \in 1..Count(v)
      PROVE  /\ Rest(v, i - 1) % Base \in Digit
             /\ Rest(v, i - 1) = Base * Rest(v, i) + (Rest(v, i - 1) % Base)
  <2>1. i - 1 \in Nat /\ (i - 1) + 1 = i
    BY <1>1
  <2>2. Rest(v, i - 1) \in Nat /\ Rest(v, i) = Rest(v, i - 1) \div Base
    BY <2>1, RestStep
  <2>3. QED
    BY <2>2, DivMod
<1>3. ToBase10000(v) \in [1..Count(v) -> Digit]
  BY <1>2 DEF ToBase10000
<1>4. \A i \in 1..Count(v) : ToBase10000(v)[i] = Rest(v, i - 1) % Base
  BY DEF ToBase10000
<1>5. ToBase10000(v) \in Seq(Digit) /\ Len(ToBase10000(v)) = Count(v)
  BY <1>1, <1>3
<1>6. QED
  BY <1>2, <1>4, <1>5, Zenon

LEMMA ZerosIs ==
    ASSUME NEW s \in Seq(Digit)
    PROVE  /\ Zeros(s) \in 0..Len(s) /\ \A i \in 1..Zeros(s) : s[i] = 0
           /\ Zeros(s) < Len(s) => s[Zeros(s) + 1] # 0
<1> DEFINE T == {k \in Nat : k = Len(s) \/ (k < Len(s) /\ s[k + 1] # 0)}
<1>1. Len(s) \in T
  OBVIOUS
<1>2. PICK x \in T : \A y \in T : x <= y
  <2> HIDE DEF T
  <2>1. T \in SUBSET Nat /\ T # {}
    BY <1>1 DEF T
  <2>2. QED
    BY <2>1, LeastOf
<1>3. x \in 0..Len(s)
  BY <1>2
<1>4. ASSUME NEW i \in 1..x
      PROVE  s[i] = 0
  <2>1. i - 1 \in Nat /\ i - 1 < Len(s) /\ (i - 1) + 1 = i /\ i - 1 < x /\ x \in Nat
    BY <1>3
  <2>2. i - 1 \notin T
    BY <1>2, <2>1
  <2>3. QED
    BY <2>1, <2>2
<1>5. x < Len(s) => s[x + 1] # 0
  BY <1>2
<1>6. \E k \in 0..Len(s) : (\A i \in 1..k : s[i] = 0) /\ (k < Len(s) => s[k + 1] # 0)
  BY <1>3, <1>4, <1>5
<1>7. QED
  BY <1>6, Zenon DEF Zeros

-----------------------------------------------------------------------------
(* Arithmetic                                                              *)

LEMMA Distribute ==
    ASSUME NEW r \in Nat, NEW b \in Nat, NEW d \in Nat, NEW p \in Nat
    PROVE  (b * r + d) * p = r * (b * p) + d * p
<1>1. (b * r + d) * p = (b * r) * p + d * p
  OBVIOUS
<1>2. (b * r) * p = r * (b * p)
  OBVIOUS
<1>3. QED
  BY <1>1, <1>2

LEMMA PowerPositive == \A e \in Nat : Power(e) \in Nat /\ Power(e) >= 1
<1> DEFINE N == {e \in Nat : Power(e) >= 1}
<1>1. 0 \in N
  BY PowerStep
<1>2. ASSUME NEW e \in Nat, e \in N
      PROVE  Power(e + 1) >= 1
  <2>1. Power(e) \in Nat /\ Power(e) >= 1 /\ Power(e + 1) = Base * Power(e)
    BY <1>2, PowerStep
  <2>2. \A b, p \in Nat : b >= 1 /\ p >= 1 => b * p >= 1
    OBVIOUS
  <2>3. QED
    BY <2>1, <2>2, AmountsAssumption
<1>3. \A e \in Nat : e \in N => e + 1 \in N
  BY <1>2
<1>4. Nat \subseteq N
  <2> HIDE DEF N
  <2>1. QED
    BY <1>1, <1>3, Induction
<1>5. QED
  BY <1>4, PowerStep

-----------------------------------------------------------------------------
(* Reading digits                                                          *)

Result == Nat \cup {Failed}

LEMMA FailedIsNone == Failed \notin Nat
  BY DEF Failed

LEMMA PlusType ==
    \A r \in Result, d \in Digit : Plus(r, d) \in Result
  BY AmountsAssumption DEF Plus, Result, Digit, Failed

Reads(f, s) == f = [k \in 0..Len(s) |-> IF k = 0 THEN 0 ELSE Plus(f[k - 1], s[k])]

LEMMA ReadOf ==
    ASSUME NEW s \in Seq(Digit)
    PROVE  \E f \in [0..Len(s) -> Result] :
               /\ f[0] = 0 /\ \A k \in 1..Len(s) : f[k] = Plus(f[k - 1], s[k])
               /\ Read(s) = f[Len(s)]
<1> DEFINE l == Len(s)
<1> DEFINE G == [p \in Result \X Nat |-> IF p[2] \in 1..l THEN Plus(p[1], s[p[2]]) ELSE 0]
<1>l. l \in Nat /\ l = Len(s) /\ \A k \in 1..l : s[k] \in Digit
  OBVIOUS
<1>1. G \in [Result \X Nat -> Result] /\ 0 \in Result
  <2>1. \A p \in Result \X Nat : p[2] \in 1..l => Plus(p[1], s[p[2]]) \in Result
    <3>1. \A p \in Result \X Nat : p[1] \in Result
      OBVIOUS
    <3>2. QED
      BY <3>1, <1>l, PlusType, Zenon
  <2>2. 0 \in Result
    BY DEF Result
  <2> HIDE DEF l
  <2>3. QED
    BY <2>1, <2>2
<1>2. PICK g \in [0..l -> Result] : g[0] = 0 /\ \A n \in 1..l : g[n] = G[<<g[n - 1], n>>]
  <2> HIDE DEF G, l
  <2>1. \E g \in [0..l -> Result] : Steps(g, 0, G, l)
    BY <1>l, <1>1, Recursion
  <2>2. QED
    BY <2>1 DEF Steps
<1>3. \A n \in 1..l : g[n] = Plus(g[n - 1], s[n])
  <2> HIDE DEF l
  <2>1. \A n \in 1..l : n \in Nat /\ n - 1 \in 0..l
    BY <1>l
  <2>2. QED
    BY <1>2, <2>1
<1>4. Reads(g, s)
  <2> DEFINE h == [k \in 0..l |-> IF k = 0 THEN 0 ELSE Plus(g[k - 1], s[k])]
  <2>1. \A n \in 0..l : (n = 0 \/ n \in 1..l) /\ (n \in 1..l => n # 0)
    OBVIOUS
  <2>2. \A n \in 0..l : g[n] = h[n]
    BY <1>2, <1>3, <2>1, Zenon
  <2>3. g = h
    BY <2>2
  <2>4. QED
    BY <2>3 DEF Reads
<1> DEFINE f == CHOOSE f : Reads(f, s)
<1>5. Reads(f, s)
  BY <1>4
<1>6. Read(s) = f[l]
  BY Zenon DEF Read, Reads
<1> HIDE DEF f
<1>7. f[0] = 0 /\ \A n \in 1..l : f[n] = Plus(f[n - 1], s[n])
  <2>1. 0 \in 0..l /\ \A n \in 1..l : n \in 0..l /\ n # 0
    OBVIOUS
  <2> DEFINE h == [k \in 0..l |-> IF k = 0 THEN 0 ELSE Plus(f[k - 1], s[k])]
  <2>2. f = h
    BY <1>5 DEF Reads
  <2>3. \A n \in 0..l : h[n] = IF n = 0 THEN 0 ELSE Plus(f[n - 1], s[n])
    OBVIOUS
  <2> HIDE DEF h
  <2>4. QED
    BY <2>1, <2>2, <2>3, Zenon
<1>8. \A n \in 0..l : g[n] = f[n]
  <2>1. \A n \in 1..l : g[n - 1] = f[n - 1] => g[n] = f[n]
    BY <1>3, <1>7, Zenon
  <2>2. g[0] = f[0]
    BY <1>2, <1>7
  <2>3. Alike(g, f, l)
    BY <2>1, <2>2 DEF Alike
  <2> HIDE DEF l
  <2>4. QED
    BY <1>l, <2>3, SameSteps
<1>9. l \in 0..l
  BY <1>l
<1>10. Read(s) = g[l]
  BY <1>6, <1>8, <1>9
<1>11. QED
  BY <1>2, <1>3, <1>10, Zenon

\* A numeric whose digits all stand in front of the point.
LEMMA PlaceType ==
    ASSUME NEW n \in PgNumeric, Whole(n), NEW k \in 0..Len(n.digits)
    PROVE  n.weight + 1 - k \in Nat
<1>1. Len(n.digits) \in Nat /\ n.weight \in Int
  BY DEF PgNumeric
<1>2. QED
  BY <1>1 DEF Whole, Exponent

Values(f, n) == f = [k \in 0..Len(n.digits) |->
    IF k = 0 THEN 0 ELSE f[k - 1] + n.digits[k] * Power(n.weight + 1 - k)]

LEMMA ValueOf ==
    ASSUME NEW n \in PgNumeric, Whole(n)
    PROVE  \E f \in [0..Len(n.digits) -> Nat] :
               /\ f[0] = 0
               /\ \A k \in 1..Len(n.digits) :
                    f[k] = f[k - 1] + n.digits[k] * Power(n.weight + 1 - k)
               /\ Value(n) = f[Len(n.digits)]
<1> DEFINE l == Len(n.digits)
<1> DEFINE t == [k \in 1..l |-> n.digits[k] * Power(n.weight + 1 - k)]
<1> DEFINE G == [p \in Nat \X Nat |-> IF p[2] \in 1..l THEN p[1] + t[p[2]] ELSE 0]
<1>l. l \in Nat /\ l = Len(n.digits)
  BY DEF PgNumeric
<1>t. \A k \in 1..l : t[k] \in Nat /\ t[k] = n.digits[k] * Power(n.weight + 1 - k)
  <2> SUFFICES ASSUME NEW k \in 1..l
               PROVE  n.digits[k] * Power(n.weight + 1 - k) \in Nat
    OBVIOUS
  <2>1. n.digits[k] \in Nat
    BY AmountsAssumption DEF PgNumeric, Digit
  <2>2. k \in 0..Len(n.digits)
    BY <1>l
  <2>3. Power(n.weight + 1 - k) \in Nat
    BY <2>2, PlaceType, PowerPositive
  <2> HIDE DEF l
  <2>4. QED
    BY <2>1, <2>3
<1> HIDE DEF t
<1>1. G \in [Nat \X Nat -> Nat]
  <2> HIDE DEF l
  <2>1. QED
    BY <1>t
<1>2. PICK g \in [0..l -> Nat] : g[0] = 0 /\ \A m \in 1..l : g[m] = G[<<g[m - 1], m>>]
  <2> HIDE DEF G, l
  <2>1. \E g \in [0..l -> Nat] : Steps(g, 0, G, l)
    BY <1>l, <1>1, Recursion
  <2>2. QED
    BY <2>1 DEF Steps
<1>3. \A m \in 1..l : g[m] = g[m - 1] + n.digits[m] * Power(n.weight + 1 - m)
  <2>1. \A m \in 1..l : g[m] = g[m - 1] + t[m]
    <3> HIDE DEF l
    <3>1. \A m \in 1..l : m \in Nat /\ m - 1 \in 0..l
      BY <1>l
    <3>2. QED
      BY <1>2, <3>1
  <2>2. QED
    BY <2>1, <1>t, Zenon
<1>4. Values(g, n)
  <2> DEFINE h == [k \in 0..l |->
          IF k = 0 THEN 0 ELSE g[k - 1] + n.digits[k] * Power(n.weight + 1 - k)]
  <2>1. \A m \in 0..l : (m = 0 \/ m \in 1..l) /\ (m \in 1..l => m # 0)
    OBVIOUS
  <2>2. \A m \in 0..l : g[m] = h[m]
    BY <1>2, <1>3, <2>1, Zenon
  <2>3. g = h
    BY <2>2
  <2>4. QED
    BY <2>3 DEF Values
<1> DEFINE f == CHOOSE f : Values(f, n)
<1>5. Values(f, n)
  BY <1>4
<1>6. Value(n) = f[l]
  BY Zenon DEF Value, Values
<1> HIDE DEF f
<1>7. f[0] = 0 /\ \A m \in 1..l : f[m] = f[m - 1] + n.digits[m] * Power(n.weight + 1 - m)
  <2>1. 0 \in 0..l /\ \A m \in 1..l : m \in 0..l /\ m # 0
    BY <1>l
  <2> DEFINE h == [k \in 0..l |->
          IF k = 0 THEN 0 ELSE f[k - 1] + n.digits[k] * Power(n.weight + 1 - k)]
  <2>2. f = h
    BY <1>5 DEF Values
  <2>3. \A k \in 0..l : h[k] = IF k = 0 THEN 0
                               ELSE f[k - 1] + n.digits[k] * Power(n.weight + 1 - k)
    OBVIOUS
  <2> HIDE DEF h
  <2>4. QED
    BY <2>1, <2>2, <2>3, Zenon
<1>8. \A m \in 0..l : g[m] = f[m]
  <2>1. \A m \in 1..l : g[m - 1] = f[m - 1] => g[m] = f[m]
    BY <1>3, <1>7, Zenon
  <2>2. g[0] = f[0]
    BY <1>2, <1>7
  <2>3. Alike(g, f, l)
    BY <2>1, <2>2 DEF Alike
  <2> HIDE DEF l
  <2>4. QED
    BY <1>l, <2>3, SameSteps
<1>9. l \in 0..l
  BY <1>l
<1>10. Value(n) = g[l]
  BY <1>6, <1>8, <1>9
<1>11. QED
  BY <1>2, <1>3, <1>10, Zenon

-----------------------------------------------------------------------------
(* Reading                                                                 *)

\* The first digits as read, and what they stand for at their places, of which the
\* last is the one with power p.
Agree(n, r, x, p) ==
    \/ r = Failed /\ x >= Width * p
    \/ /\ r \in Nat /\ r < Width /\ x = r * p

LEMMA AgreeStep ==
    ASSUME NEW r \in Result, NEW x \in Nat, NEW d \in Digit, NEW p \in Nat, p >= 1,
           NEW n, Agree(n, r, x, Base * p)
    PROVE  Agree(n, Plus(r, d), x + d * p, p)
<1>0. Base \in Nat /\ Base >= 1 /\ Width \in Nat /\ d \in Nat /\ Base * p \in Nat /\ d * p \in Nat
  BY AmountsAssumption DEF Digit
<1>1. CASE r = Failed
  <2>1. Plus(r, d) = Failed
    BY <1>1 DEF Plus
  <2>2. x >= Width * (Base * p)
    BY <1>1, FailedIsNone, Zenon DEF Agree
  <2>3. Width * (Base * p) >= Width * p
    <3>1. Base * p >= p
      BY <1>0
    <3>2. QED
      BY <1>0, <3>1
  <2>4. x + d * p >= Width * p
    BY <1>0, <2>2, <2>3
  <2>5. QED
    BY <2>1, <2>4 DEF Agree
<1>2. CASE r # Failed
  <2>1. r \in Nat /\ x = r * (Base * p)
    BY <1>2 DEF Agree
  <2>2. (Base * r + d) * p = x + d * p
    BY <1>0, <2>1, Distribute
  <2>3. r * Base = Base * r /\ Base * r + d \in Nat
    BY <1>0, <2>1
  <2>4. CASE Base * r + d < Width
    BY <1>0, <1>2, <2>2, <2>3, <2>4 DEF Agree, Plus
  <2>5. CASE Base * r + d >= Width
    <3>1. Plus(r, d) = Failed
      BY <2>3, <2>5 DEF Plus
    <3>2. (Base * r + d) * p >= Width * p
      <4>1. \A a, b, c \in Nat : a >= b => a * c >= b * c
        OBVIOUS
      <4>2. QED
        BY <4>1, <1>0, <2>3, <2>5
    <3>3. QED
      BY <2>2, <3>1, <3>2 DEF Agree
  <2>6. QED
    BY <1>0, <2>3, <2>4, <2>5
<1>3. QED
  BY <1>1, <1>2

\* The digits phase fails when the digits are no amount at their places, and gives the
\* number they make otherwise.
LEMMA DigitsPhase ==
    ASSUME NEW n \in PgNumeric, Whole(n)
    PROVE  /\ Read(n.digits) \in Result /\ Value(n) \in Nat
           /\ Agree(n, Read(n.digits), Value(n), Power(Exponent(n)))
           /\ n.digits # <<>> /\ n.digits[1] # 0 => Read(n.digits) # 0
<1> DEFINE l == Len(n.digits)
<1>l. l \in Nat /\ l = Len(n.digits) /\ n.digits \in Seq(Digit) /\ n.weight \in Int
  BY DEF PgNumeric
<1>f. PICK f \in [0..Len(n.digits) -> Result] :
          /\ f[0] = 0 /\ \A k \in 1..Len(n.digits) : f[k] = Plus(f[k - 1], n.digits[k])
          /\ Read(n.digits) = f[Len(n.digits)]
  BY <1>l, ReadOf
<1>g. PICK g \in [0..Len(n.digits) -> Nat] :
          /\ g[0] = 0
          /\ \A k \in 1..Len(n.digits) :
               g[k] = g[k - 1] + n.digits[k] * Power(n.weight + 1 - k)
          /\ Value(n) = g[Len(n.digits)]
  BY ValueOf
<1> DEFINE J(k) ==
        /\ Agree(n, f[k], g[k], Power(n.weight + 1 - k))
        /\ k > 0 /\ n.digits[1] # 0 => f[k] # 0
<1> DEFINE N == {k \in Nat : k <= l => J(k)}
<1>1. 0 \in N
  <2>1. Power(n.weight + 1 - 0) \in Nat
    <3>1. 0 \in 0..Len(n.digits)
      BY <1>l
    <3>2. QED
      BY <3>1, PlaceType, PowerPositive
  <2>2. Agree(n, 0, 0, Power(n.weight + 1 - 0))
    BY <2>1, AmountsAssumption DEF Agree
  <2>3. QED
    BY <1>f, <1>g, <2>2
<1>2. ASSUME NEW k \in Nat, k + 1 <= l, J(k)
      PROVE  J(k + 1)
  <2> DEFINE e == n.weight + 1 - (k + 1)
  <2>1. k \in 0..Len(n.digits) /\ k + 1 \in 1..Len(n.digits) /\ (k + 1) - 1 = k /\ k + 1 \in 0..Len(n.digits)
    BY <1>l, <1>2
  <2>2. e \in Nat /\ n.weight + 1 - k = e + 1
    BY <1>l, <2>1, PlaceType
  <2>3. n.digits[k + 1] \in Digit /\ f[k] \in Result /\ g[k] \in Nat
    BY <1>l, <2>1
  <2>4. f[k + 1] = Plus(f[k], n.digits[k + 1]) /\ g[k + 1] = g[k] + n.digits[k + 1] * Power(e)
    BY <1>f, <1>g, <2>1
  <2> HIDE DEF e
  <2>5. Power(e) \in Nat /\ Power(e) >= 1 /\ Power(e + 1) = Base * Power(e)
    BY <2>2, PowerStep, PowerPositive
  <2>6. Agree(n, f[k], g[k], Base * Power(e))
    BY <1>2, <2>2, <2>5
  <2>7. Agree(n, f[k + 1], g[k + 1], Power(e))
    BY <2>3, <2>4, <2>5, <2>6, AgreeStep
  <2>8. ASSUME n.digits[1] # 0
        PROVE  f[k + 1] # 0
    <3>1. f[k + 1] = Failed \/ f[k + 1] = f[k] * Base + n.digits[k + 1]
      BY <2>4 DEF Plus
    <3>2. CASE k = 0
      BY <1>f, <2>3, <2>8, <3>1, <3>2, AmountsAssumption DEF Digit, Failed
    <3>3. CASE k # 0
      <4>1. f[k] # 0
        BY <1>2, <2>8, <3>3
      <4>2. f[k] = Failed \/ (f[k] \in Nat /\ f[k] >= 1)
        BY <2>3, <4>1 DEF Result
      <4>3. \A r, b, d \in Nat : r >= 1 /\ b >= 1 => r * b + d # 0
        OBVIOUS
      <4>4. CASE f[k] = Failed
        BY <2>4, <4>4 DEF Plus, Failed
      <4>5. CASE f[k] \in Nat /\ f[k] >= 1
        <5>1. f[k] * Base + n.digits[k + 1] # 0
          BY <2>3, <4>3, <4>5, AmountsAssumption DEF Digit
        <5>2. QED
          BY <3>1, <5>1 DEF Failed
      <4>6. QED
        BY <4>2, <4>4, <4>5
    <3>4. QED
      BY <3>2, <3>3
  <2>9. QED
    BY <2>7, <2>8 DEF e
<1>3. \A k \in Nat : k \in N => k + 1 \in N
  <2> SUFFICES ASSUME NEW k \in Nat, k \in N, k + 1 <= l
               PROVE  J(k + 1)
    OBVIOUS
  <2>1. k <= l
    BY <1>l
  <2>2. J(k)
    BY <2>1
  <2> HIDE DEF J
  <2>3. QED
    BY <1>2, <2>2
<1>4. Nat \subseteq N
  <2> HIDE DEF N
  <2>1. QED
    BY <1>1, <1>3, Induction
<1>5. J(l)
  <2> HIDE DEF J
  <2>1. QED
    BY <1>l, <1>4
<1>6. n.weight + 1 - l = Exponent(n)
  BY <1>l DEF Exponent
<1>7. l \in 0..l
  BY <1>l
<1>8. n.digits # <<>> => l > 0
  BY <1>l, EmptySeq
<1>9. QED
  BY <1>f, <1>g, <1>5, <1>6, <1>7, <1>8

\* What pg_decimal_to_u128 makes of one numeric.
LEMMA ReadsOne ==
    ASSUME NEW n \in PgNumeric, Normal(n)
    PROVE  /\ Whole(n) /\ Value(n) < Width => FromNumeric(n) = Value(n)
           /\ ~ Whole(n) => FromNumeric(n) = Failed
           /\ Whole(n) /\ Value(n) >= Width /\ Power(Exponent(n)) < Width
                => FromNumeric(n) = Failed
<1>1. ~ Whole(n) => FromNumeric(n) = Failed
  <2>1. n.weight \in Int /\ Exponent(n) \in Int
    <3>1. n.weight \in Int /\ Len(n.digits) \in Nat
      BY DEF PgNumeric
    <3>2. QED
      BY <3>1 DEF Exponent
  <2>2. QED
    BY <2>1 DEF Whole, FromNumeric
<1>2. ASSUME Whole(n)
      PROVE  /\ Value(n) < Width => FromNumeric(n) = Value(n)
             /\ Value(n) >= Width /\ Power(Exponent(n)) < Width => FromNumeric(n) = Failed
  <2> DEFINE r == Read(n.digits)
  <2> DEFINE x == Value(n)
  <2> DEFINE p == Power(Exponent(n))
  <2>0. Exponent(n) \in Nat /\ n.weight \in Int
    <3>1. n.weight \in Int /\ Len(n.digits) \in Nat
      BY DEF PgNumeric
    <3>2. QED
      BY <1>2, <3>1 DEF Whole, Exponent
  <2>1. r \in Result /\ x \in Nat /\ Agree(n, r, x, p) /\ (n.digits # <<>> /\ n.digits[1] # 0 => r # 0)
    BY <1>2, DigitsPhase
  <2>2. p \in Nat /\ p >= 1
    BY <2>0, PowerPositive
  <2>3. FromNumeric(n) = IF r = Failed THEN Failed ELSE Correct(r, Exponent(n))
    BY <1>2, <2>0 DEF FromNumeric, Whole
  <2>4. CASE r = Failed
    <3>1. x >= Width * p
      BY <2>1, <2>4, FailedIsNone, Zenon DEF Agree
    <3>2. Width * p >= Width
      BY <2>2, AmountsAssumption
    <3> HIDE DEF x, p
    <3>3. x >= Width
      BY <2>1, <2>2, <3>1, <3>2, AmountsAssumption
    <3>4. QED
      BY <2>1, <2>3, <2>4, <3>3, AmountsAssumption DEF x, p
  <2>5. CASE r # Failed
    <3>1. r \in Nat /\ r < Width /\ x = r * p
      BY <2>1, <2>5 DEF Agree
    <3>2. x < Width => p < Width
      <4>1. CASE r = 0
        <5>1. n.digits = <<>>
          BY <2>1, <4>1 DEF Normal
        <5>2. Exponent(n) = 1
          BY <5>1 DEF Normal, Exponent
        <5>3. Power(0) = 1 /\ Power(0 + 1) = Base * Power(0)
          BY PowerStep
        <5>4. QED
          BY <5>2, <5>3, AmountsAssumption
      <4>2. CASE r # 0
        <5>1. \A a, b \in Nat : a # 0 => a * b >= b
          OBVIOUS
        <5> HIDE DEF r, p, x
        <5>2. r * p >= p
          BY <2>2, <3>1, <4>2, <5>1
        <5>3. QED
          BY <2>1, <2>2, <3>1, <5>2, AmountsAssumption
      <4>3. QED
        BY <4>1, <4>2
    <3>3. ASSUME p < Width
          PROVE  Correct(r, Exponent(n)) = IF x >= Width THEN Failed ELSE x
      <4>1. p % Width = p
        <5> HIDE DEF p
        <5>1. QED
          BY <2>2, <3>3, AmountsAssumption
      <4>2. ~ (Power(Exponent(n)) >= Width)
        BY <2>2, <3>3, AmountsAssumption
      <4>3. Correct(r, Exponent(n)) =
              IF r * (p % Width) >= Width THEN Failed ELSE r * (p % Width)
        BY <4>2, Zenon DEF Correct
      <4>4. QED
        BY <3>1, <4>1, <4>3, Zenon
    <3> HIDE DEF r, p, x
    <3>4. QED
      BY <2>1, <2>3, <2>5, <3>2, <3>3, AmountsAssumption DEF r, p, x
  <2>6. QED
    BY <2>4, <2>5
<1>3. QED
  BY <1>1, <1>2

\* A numeric that is an amount is read as that amount, one that is not fails, for any
\* base, width and number of digits, whether the build checks arithmetic or not
\* (pg_decimal_to_u128, models/amount.rs).
THEOREM ReadingIsExact == ReadsExactly
  BY ReadsOne, AmountsAssumption DEF ReadsExactly

-----------------------------------------------------------------------------
(* Writing                                                                 *)

\* As the last digits of v are zeros, v is what is left of it, at its place.
LEMMA ZerosAtTheEnd ==
    ASSUME NEW v \in Nat, NEW z \in 0..Count(v),
           \A i \in 1..z : ToBase10000(v)[i] = 0
    PROVE  v = Rest(v, z) * Power(z)
<1> DEFINE N == {k \in Nat : k <= z => v = Rest(v, k) * Power(k)}
<1>0. z \in Nat /\ Count(v) \in Nat
  BY CountIs
<1>1. 0 \in N
  BY RestStep, PowerStep
<1>2. ASSUME NEW k \in Nat, k \in N, k + 1 <= z
      PROVE  v = Rest(v, k + 1) * Power(k + 1)
  <2>1. v = Rest(v, k) * Power(k)
    BY <1>0, <1>2
  <2>2. k + 1 \in 1..z /\ k + 1 \in 1..Count(v) /\ (k + 1) - 1 = k
    BY <1>0, <1>2
  <2>3. Rest(v, k) = Base * Rest(v, k + 1) + 0
    BY <2>2, DigitsIs
  <2>4. Rest(v, k + 1) \in Nat /\ Power(k) \in Nat /\ Power(k + 1) = Base * Power(k)
    <3>1. k + 1 \in Nat
      OBVIOUS
    <3>2. QED
      BY <3>1, RestStep, PowerStep, Zenon
  <2>5. (Base * Rest(v, k + 1) + 0) * Power(k)
          = Rest(v, k + 1) * (Base * Power(k)) + 0 * Power(k)
    BY <2>4, Distribute, AmountsAssumption
  <2>6. Rest(v, k + 1) * (Base * Power(k)) \in Int /\ 0 * Power(k) = 0
    BY <2>4, AmountsAssumption
  <2>7. QED
    BY <2>1, <2>3, <2>4, <2>5, <2>6
<1>3. \A k \in Nat : k \in N => k + 1 \in N
  BY <1>2
<1>4. Nat \subseteq N
  <2> HIDE DEF N
  <2>1. QED
    BY <1>1, <1>3, Induction
<1>5. QED
  BY <1>0, <1>4

\* The parts of the numeric for v.
LEMMA NumericIs ==
    ASSUME NEW v \in Nat
    PROVE  LET s == ToBase10000(v)
               n == ToNumeric(v)
           IN  /\ n \in PgNumeric /\ Whole(n)
               /\ s \in Seq(Digit) /\ Len(s) = Count(v) /\ Count(v) \in Nat /\ Count(v) >= 1
               /\ Zeros(s) \in 0..Count(v)
               /\ n.weight = Count(v) - 1 /\ Len(n.digits) = Count(v) - Zeros(s)
               /\ \A i \in 1..(Count(v) - Zeros(s)) : n.digits[i] = s[Count(v) + 1 - i]
<1> DEFINE s == ToBase10000(v)
<1> DEFINE n == ToNumeric(v)
<1> DEFINE c == Count(v)
<1> DEFINE z == Zeros(s)
<1>1. s \in Seq(Digit) /\ Len(s) = c /\ c \in Nat /\ c >= 1
  BY DigitsIs, CountIs
<1>2. z \in 0..c
  <2> HIDE DEF s, c
  <2>1. QED
    BY <1>1, ZerosIs
<1> DEFINE d == [i \in 1..(c - z) |-> s[c + 1 - i]]
<1>3. n = [sign |-> "positive", scale |-> 0, weight |-> c - 1, digits |-> d]
  BY <1>1, Zenon DEF ToNumeric
<1> HIDE DEF n, s, c, z
<1>4. \A i \in 1..(c - z) : c + 1 - i \in 1..c
  BY <1>1, <1>2
<1>5. \A i \in 1..(c - z) : s[c + 1 - i] \in Digit
  BY <1>1, <1>4
<1>6. c - z \in Nat
  BY <1>1, <1>2
<1>7. d \in Seq(Digit) /\ Len(d) = c - z
  BY <1>5, <1>6
<1>8. \A i \in 1..(c - z) : d[i] = s[c + 1 - i]
  OBVIOUS
<1> HIDE DEF d
<1>9. n \in PgNumeric
  BY <1>1, <1>3, <1>7 DEF PgNumeric
<1>10. n.sign = "positive" /\ n.scale = 0 /\ n.weight = c - 1 /\ n.digits = d
  BY <1>3
<1>11. Whole(n)
  BY <1>1, <1>2, <1>7, <1>10 DEF Whole, Exponent
<1>12. QED
  BY <1>1, <1>2, <1>7, <1>8, <1>9, <1>10, <1>11 DEF n, s, c, z

LEMMA WritesOne ==
    ASSUME NEW v \in Nat
    PROVE  Normal(ToNumeric(v)) /\ Value(ToNumeric(v)) = v
<1> DEFINE s == ToBase10000(v)
<1> DEFINE n == ToNumeric(v)
<1> DEFINE c == Count(v)
<1> DEFINE z == Zeros(s)
<1> DEFINE l == c - z
<1>1. /\ n \in PgNumeric /\ Whole(n)
      /\ s \in Seq(Digit) /\ Len(s) = c /\ c \in Nat /\ c >= 1 /\ z \in 0..c
      /\ n.weight = c - 1 /\ Len(n.digits) = l
      /\ \A i \in 1..l : n.digits[i] = s[c + 1 - i]
  BY NumericIs
<1>2. (\A i \in 1..z : s[i] = 0) /\ (z < c => s[z + 1] # 0)
  <2> HIDE DEF s, c, l, n
  <2>1. QED
    BY <1>1, ZerosIs
<1>3. v = Rest(v, z) * Power(z)
  <2>1. z \in 0..Count(v)
    BY <1>1
  <2> HIDE DEF z
  <2>2. QED
    BY <1>2, <2>1, ZerosAtTheEnd
<1>4. \A i \in 1..c : Rest(v, i - 1) = Base * Rest(v, i) + s[i]
  BY DigitsIs
<1>5. Rest(v, c) = 0 /\ \A j \in 1..(c - 1) : Rest(v, j) # 0
  BY CountIs
<1>6. \A i \in Nat : Rest(v, i) \in Nat
  BY RestStep
<1>7. Normal(n)
  <2>1. CASE z = c
    <3>1. v = 0 * Power(c)
      BY <1>3, <1>5, <2>1
    <3>2. v = 0
      BY <1>1, <3>1, PowerPositive
    <3>3. Rest(v, 1) = 0
      <4>1. Rest(v, 0) = v /\ Rest(v, 0 + 1) = Rest(v, 0) \div Base
        BY RestStep
      <4>2. 0 \div Base = 0
        BY AmountsAssumption
      <4>3. QED
        BY <3>2, <4>1, <4>2
    <3> HIDE DEF n, c, z, s
    <3>4. c = 1
      BY <1>1, <1>5, <3>3
    <3>5. n.digits = <<>>
      <4>1. Len(n.digits) = 0 /\ n.digits \in Seq(Digit)
        BY <1>1, <2>1 DEF PgNumeric
      <4>2. QED
        BY <4>1, EmptySeq
    <3>6. QED
      BY <1>1, <3>4, <3>5 DEF Normal
  <2>2. CASE z # c
    <3> HIDE DEF n, c, z, s
    <3>1. l \in Nat /\ l >= 1 /\ 1 \in 1..l /\ l \in 1..l /\ c + 1 - 1 = c /\ c + 1 - l = z + 1 /\ z < c
      BY <1>1, <2>2
    <3>2. n.digits[1] = s[c] /\ n.digits[l] = s[z + 1]
      <4> HIDE DEF l
      <4>1. QED
        BY <1>1, <3>1
    <3>3. s[c] # 0
      <4>1. CASE c = 1
        BY <1>1, <1>2, <3>1, <4>1
      <4>2. CASE c # 1
        <5>1. c \in 1..c /\ c - 1 \in 1..(c - 1)
          BY <1>1, <4>2
        <5>2. Rest(v, c - 1) # 0 /\ Rest(v, c - 1) = Base * 0 + s[c]
          BY <1>4, <1>5, <5>1
        <5>3. s[c] \in Nat
          BY <1>1, <5>1, AmountsAssumption DEF Digit
        <5>4. QED
          BY <5>2, <5>3, AmountsAssumption
      <4>3. QED
        BY <4>1, <4>2
    <3>4. n.digits # <<>>
      <4>1. Len(n.digits) # 0
        BY <1>1, <3>1
      <4>2. QED
        BY <4>1
    <3> HIDE DEF l
    <3>5. QED
      BY <1>1, <1>2, <3>1, <3>2, <3>3, <3>4 DEF Normal
  <2>3. QED
    BY <2>1, <2>2
<1>g. PICK g \in [0..Len(n.digits) -> Nat] :
          /\ g[0] = 0
          /\ \A k \in 1..Len(n.digits) :
               g[k] = g[k - 1] + n.digits[k] * Power(n.weight + 1 - k)
          /\ Value(n) = g[Len(n.digits)]
  <2> HIDE DEF n
  <2>1. QED
    BY <1>1, ValueOf
<1> HIDE DEF n, c, z, s
<1> DEFINE N == {k \in Nat : k <= l => g[k] = Rest(v, c - k) * Power(c - k)}
<1>8. 0 \in N
  <2>1. c - 0 = c /\ Power(c) \in Nat
    BY <1>1, PowerPositive
  <2>2. 0 * Power(c) = 0
    BY <2>1
  <2>3. QED
    BY <1>g, <1>5, <2>1, <2>2
<1>9. ASSUME NEW k \in Nat, k \in N, k + 1 <= l
      PROVE  g[k + 1] = Rest(v, c - (k + 1)) * Power(c - (k + 1))
  <2> DEFINE e == c - (k + 1)
  <2>1. /\ e \in Nat /\ c - k = e + 1 /\ k <= l /\ k + 1 \in 1..l /\ (k + 1) - 1 = k
        /\ n.weight + 1 - (k + 1) = e /\ c + 1 - (k + 1) = e + 1 /\ (e + 1) - 1 = e
        /\ e + 1 \in 1..c
    BY <1>1, <1>9
  <2> HIDE DEF e, l
  <2>2. g[k] = Rest(v, e + 1) * Power(e + 1)
    BY <1>9, <2>1
  <2>3. g[k + 1] = g[k] + n.digits[k + 1] * Power(e) /\ n.digits[k + 1] = s[e + 1]
    BY <1>g, <1>1, <2>1
  <2>4. Rest(v, e) = Base * Rest(v, e + 1) + s[e + 1]
    BY <1>4, <2>1
  <2>5. Rest(v, e + 1) \in Nat /\ Power(e) \in Nat /\ Power(e + 1) = Base * Power(e) /\ s[e + 1] \in Nat
    <3>1. e + 1 \in Nat
      BY <2>1
    <3>2. Rest(v, e + 1) \in Nat
      BY <1>6, <3>1
    <3>3. s[e + 1] \in Digit
      BY <1>1, <2>1
    <3>4. s[e + 1] \in Nat
      BY <3>3, AmountsAssumption DEF Digit
    <3>5. Power(e) \in Nat /\ Power(e + 1) = Base * Power(e)
      BY <2>1, PowerStep, Zenon
    <3>6. QED
      BY <3>2, <3>4, <3>5
  <2>6. (Base * Rest(v, e + 1) + s[e + 1]) * Power(e)
          = Rest(v, e + 1) * (Base * Power(e)) + s[e + 1] * Power(e)
    BY <2>5, Distribute, AmountsAssumption
  <2>7. g[k + 1] = Rest(v, e) * Power(e)
    BY <2>2, <2>3, <2>4, <2>5, <2>6, Zenon
  <2>8. QED
    BY <2>7 DEF e
<1>10. \A k \in Nat : k \in N => k + 1 \in N
  BY <1>9
<1>11. Nat \subseteq N
  <2> HIDE DEF N
  <2>1. QED
    BY <1>8, <1>10, Induction
<1>12. l \in Nat /\ c - l = z
  BY <1>1
<1>13. g[l] = Rest(v, z) * Power(z)
  BY <1>11, <1>12
<1>14. QED
  BY <1>1, <1>3, <1>7, <1>13, <1>g DEF n

-----------------------------------------------------------------------------
(* Both                                                                    *)

\* What is written is the amount in PostgreSQL's own form (u128_to_pg_decimal,
\* models/amount.rs).
THEOREM WritingIsExact == WritesExactly
<1>1. \A v \in Amount : v \in Nat
  BY AmountsAssumption DEF Amount
<1>2. QED
  BY <1>1, NumericIs, WritesOne DEF WritesExactly

\* Whatever is stored comes back as it was (models/amount.rs).
THEOREM AmountsComeBack == \A v \in Amount : FromNumeric(ToNumeric(v)) = v
<1>1. SUFFICES ASSUME NEW v \in Amount
               PROVE  FromNumeric(ToNumeric(v)) = v
  OBVIOUS
<1>2. v \in Nat /\ v < Width
  BY AmountsAssumption DEF Amount
<1>3. ToNumeric(v) \in PgNumeric /\ Whole(ToNumeric(v))
  BY <1>2, NumericIs
<1>4. Normal(ToNumeric(v)) /\ Value(ToNumeric(v)) = v
  BY <1>2, WritesOne
<1>5. QED
  BY <1>2, <1>3, <1>4, ReadsOne

=============================================================================
