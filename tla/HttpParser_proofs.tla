-------------------------- MODULE HttpParser_proofs --------------------------
(***************************************************************************)
(* Proofs about http_parser.h: about UrlParse, for strings and URLs of any *)
(* length, the type invariant, that the parts of any accepted string are   *)
(* neighbouring pieces of it and that those of a URL are restored; about   *)
(* HttpMessage, for any streams of requests, what headers_ and body_ hold. *)
(***************************************************************************)
EXTENDS UrlParse, HttpMessage, SequenceTheorems, WellFoundedInduction, TLAPS

(***************************************************************************)
(* Least and greatest numbers, and induction along an interval.            *)
(***************************************************************************)
LEMMA LessRelation == OpToRel(<, Nat) = {p \in Nat \X Nat : p[1] < p[2]}
BY DEF OpToRel

LEMMA LeastOf == ASSUME NEW S \in SUBSET Nat, S # {}
                 PROVE  \E x \in S : \A y \in S : x <= y
<1>1. IsWellFoundedOn({p \in Nat \X Nat : p[1] < p[2]}, Nat)
  BY NatLessThanWellFounded, LessRelation
<1>2. PICK x \in S : \A y \in S : <<y, x>> \notin {p \in Nat \X Nat : p[1] < p[2]}
  BY <1>1, WFMin
<1>3. \A y \in S : ~(y < x)
  BY <1>2
<1> QED BY <1>3

LEMMA GreatestOf ==
    ASSUME NEW n \in Nat, NEW S \in SUBSET (0 .. n), S # {}
    PROVE  \E x \in S : \A y \in S : y <= x
<1> DEFINE R == {n - i : i \in S}
<1>1. R \in SUBSET Nat /\ R # {}
  <2>1. \A i \in S : i \in Int /\ i <= n
    OBVIOUS
  <2>2. \A i \in S : n - i \in Nat
    BY <2>1
  <2> QED BY <2>2
<1>2. PICK x \in R : \A y \in R : x <= y
  BY <1>1, LeastOf
<1>3. PICK i \in S : x = n - i
  BY <1>2
<1>4. \A j \in S : j <= i
  <2> TAKE j \in S
  <2>1. x <= n - j
    BY <1>2
  <2> QED BY <2>1, <1>3
<1> QED BY <1>3, <1>4

LEMMA AlongInterval ==
    ASSUME NEW lo \in Nat, NEW hi \in Nat, NEW T, lo \in T,
           \A i \in lo .. hi - 1 : i \in T => i + 1 \in T
    PROVE  \A i \in lo .. hi : i \in T
<1> DEFINE S == {i \in lo .. hi : i \notin T}
<1>1. SUFFICES ASSUME S # {} PROVE FALSE
  OBVIOUS
<1>2. S \in SUBSET Nat
  OBVIOUS
<1>3. PICK x \in S : \A y \in S : x <= y
  <2> HIDE DEF S
  <2> QED BY <1>1, <1>2, LeastOf
<1>4. x # lo /\ x \in lo .. hi /\ x \notin T
  OBVIOUS
<1>5. x - 1 \in lo .. hi - 1 /\ x - 1 \notin S
  BY <1>3, <1>4
<1>6. x - 1 \in T
  BY <1>5
<1>7. (x - 1) + 1 = x
  BY <1>4
<1> QED BY <1>4, <1>5, <1>6, <1>7

LEMMA MinIn == ASSUME NEW S \in SUBSET Nat, S # {} PROVE Min(S) \in S
BY LeastOf DEF Min

\* The greatest of a set of integers from -1 to n is the mirror of a least one.
LEMMA MaxIn == ASSUME NEW n \in Nat, NEW S \in SUBSET (-1 .. n), S # {}
               PROVE  Max(S) \in S
<1> DEFINE R == {n - i : i \in S}
<1>1. R \in SUBSET Nat /\ R # {}
  <2>1. \A i \in S : i \in Int /\ i <= n
    OBVIOUS
  <2>2. \A i \in S : n - i \in Nat
    BY <2>1
  <2> QED BY <2>2
<1>2. PICK x \in R : \A y \in R : x <= y
  BY <1>1, LeastOf
<1>3. PICK i \in S : x = n - i
  BY <1>2
<1>4. \A j \in S : i >= j
  <2> TAKE j \in S
  <2>1. x <= n - j
    BY <1>2
  <2> QED BY <2>1, <1>3
<1> QED BY <1>3, <1>4 DEF Max
-----------------------------------------------------------------------------
(***************************************************************************)
(* UrlParse: texts and their concatenation.                                *)
(***************************************************************************)
Chars == {":", "/", "?", "=", "&", "c"} \cup Digits

LEMMA TextsAre == Texts = Seq(Chars)
BY DEF Texts, Chars

LEMMA TextLen == ASSUME NEW s \in Texts
                 PROVE  Len(s) \in Nat /\ \A i \in 1 .. Len(s) : s[i] \in Chars
BY TextsAre

LEMMA Conc == \A s, t \in Texts : s \o t \in Texts
BY TextsAre

LEMMA ConcIs ==
    ASSUME NEW x \in Texts, NEW y \in Texts
    PROVE  /\ x \o y \in Texts
           /\ Len(x) \in Nat /\ Len(y) \in Nat
           /\ Len(x \o y) = Len(x) + Len(y)
           /\ \A i \in 1 .. Len(x) : (x \o y)[i] = x[i]
           /\ \A i \in 1 .. Len(y) : (x \o y)[Len(x) + i] = y[i]
<1>1. x \in Seq(Chars) /\ y \in Seq(Chars)
  BY TextsAre
<1>2. Len(x) \in Nat /\ Len(y) \in Nat
  BY TextLen
<1>3. /\ Len(x \o y) = Len(x) + Len(y)
      /\ \A i \in 1 .. Len(x) + Len(y) :
           (x \o y)[i] = IF i <= Len(x) THEN x[i] ELSE y[i - Len(x)]
  BY <1>1, ConcatProperties
<1>4. \A i \in 1 .. Len(x) : (x \o y)[i] = x[i]
  BY <1>2, <1>3
<1>5. ASSUME NEW i \in 1 .. Len(y) PROVE (x \o y)[Len(x) + i] = y[i]
  <2>1. Len(x) + i \in 1 .. Len(x) + Len(y) /\ ~(Len(x) + i <= Len(x)) /\ (Len(x) + i) - Len(x) = i
    BY <1>2
  <2> QED BY <2>1, <1>3
<1> QED BY <1>2, <1>3, <1>4, <1>5, Conc

LEMMA ConcLen == \A x, y \in Texts : Len(x) \in Nat /\ Len(x \o y) = Len(x) + Len(y)
BY ConcIs

LEMMA EmptyText == <<>> \in Texts
BY TextsAre
-----------------------------------------------------------------------------
(***************************************************************************)
(* The two recursive functions: each is total on its domain, as there is a *)
(* function on any beginning of it that obeys the definition.              *)
(***************************************************************************)
LEMMA NumberIsNat == ASSUME NEW ds, Len(ds) \in Nat PROVE Number(ds) \in Nat
<1> DEFINE L == Len(ds)
           Digit(v, n) == IF n = 0 THEN 0 ELSE 10 * v[n - 1] + 1
           T == {k \in 0 .. L : \E v \in [0 .. k -> Nat] : \A n \in 0 .. k : v[n] = Digit(v, n)}
<1>1. 0 \in T
  <2> DEFINE v == [n \in 0 .. 0 |-> 0]
  <2>1. v \in [0 .. 0 -> Nat] /\ \A n \in 0 .. 0 : v[n] = Digit(v, n)
    OBVIOUS
  <2>2. 0 \in 0 .. L
    OBVIOUS
  <2> HIDE DEF v
  <2> QED BY <2>1, <2>2
<1>2. ASSUME NEW k \in 0 .. L - 1, k \in T PROVE k + 1 \in T
  <2>1. PICK v \in [0 .. k -> Nat] : \A n \in 0 .. k : v[n] = Digit(v, n)
    BY <1>2
  <2> DEFINE w == [n \in 0 .. k + 1 |-> IF n = k + 1 THEN 10 * v[k] + 1 ELSE v[n]]
  <2>2. k \in Nat /\ k + 1 \in 0 .. L /\ v[k] \in Nat
    BY <2>1
  <2>3. w \in [0 .. k + 1 -> Nat]
    <3>1. ASSUME NEW n \in 0 .. k + 1
          PROVE  (IF n = k + 1 THEN 10 * v[k] + 1 ELSE v[n]) \in Nat
      <4>1. CASE n = k + 1
        BY <4>1, <2>2
      <4>2. CASE n # k + 1
        <5>1. n \in 0 .. k
          BY <4>2, <2>2
        <5> QED BY <4>2, <5>1, <2>1
      <4> QED BY <4>1, <4>2
    <3> QED BY <3>1
  <2>4. ASSUME NEW n \in 0 .. k + 1 PROVE w[n] = Digit(w, n)
    <3>1. CASE n = k + 1
      <4>1. n # 0 /\ n - 1 = k /\ k \in 0 .. k + 1 /\ k # k + 1
        BY <3>1, <2>2
      <4>2. w[n] = 10 * v[k] + 1 /\ w[k] = v[k]
        BY <3>1, <4>1
      <4> QED BY <4>1, <4>2
    <3>2. CASE n # k + 1
      <4>1. n \in 0 .. k
        BY <3>2, <2>2
      <4>2. v[n] = Digit(v, n) /\ w[n] = v[n]
        BY <3>2, <4>1, <2>1
      <4>3. n # 0 => n - 1 \in 0 .. k + 1 /\ n - 1 # k + 1
        BY <4>1, <2>2
      <4>4. n # 0 => w[n - 1] = v[n - 1]
        BY <4>3
      <4> QED BY <4>2, <4>4
    <3> QED BY <3>1, <3>2
  <2> HIDE DEF w
  <2> QED BY <2>2, <2>3, <2>4
<1>3. L \in T
  <2>1. 0 \in Nat /\ L \in Nat /\ L \in 0 .. L
    OBVIOUS
  <2> HIDE DEF T
  <2> QED BY <2>1, <1>1, <1>2, AlongInterval
<1>4. PICK v \in [0 .. L -> Nat] : \A n \in 0 .. L : v[n] = Digit(v, n)
  BY <1>3
<1> DEFINE Value == CHOOSE f : f = [n \in 0 .. L |-> IF n = 0 THEN 0 ELSE 10 * f[n - 1] + 1]
<1>5. v = [n \in 0 .. L |-> IF n = 0 THEN 0 ELSE 10 * v[n - 1] + 1]
  BY <1>4
<1>6. Value = [n \in 0 .. L |-> IF n = 0 THEN 0 ELSE 10 * Value[n - 1] + 1]
  BY <1>5
<1> HIDE DEF Value
<1>7. \A n \in 0 .. L : n \in {i \in 0 .. L : Value[i] \in Nat}
  <2> DEFINE U == {i \in 0 .. L : Value[i] \in Nat}
  <2>1. 0 \in U
    BY <1>6
  <2>2. ASSUME NEW i \in 0 .. L - 1, i \in U PROVE i + 1 \in U
    <3>1. i + 1 \in 0 .. L /\ i + 1 # 0 /\ (i + 1) - 1 = i
      OBVIOUS
    <3>2. Value[i + 1] = 10 * Value[i] + 1
      BY <3>1, <1>6
    <3>3. Value[i] \in Nat
      BY <2>2
    <3>4. Value[i + 1] \in Nat
      BY <3>2, <3>3
    <3> QED BY <3>1, <3>4
  <2>3. 0 \in Nat /\ L \in Nat
    OBVIOUS
  <2> HIDE DEF U
  <2>4. \A i \in 0 .. L : i \in U
    BY <2>1, <2>2, <2>3, AlongInterval
  <2> QED BY <2>4 DEF U
<1>8. L \in 0 .. L
  OBVIOUS
<1>9. Number(ds) = Value[L]
  BY DEF Number, Value
<1> QED BY <1>7, <1>8, <1>9

Arguments == [key : Texts, value : Texts]

Separator(i) == IF i = 1 THEN <<"?">> ELSE <<"&">>

LEMMA SeparatorIs == \A i : Separator(i) \in Texts /\ Len(Separator(i)) = 1
<1>1. <<"?">> \in Texts /\ <<"&">> \in Texts /\ Len(<<"?">>) = 1 /\ Len(<<"&">>) = 1
  BY TextsAre DEF Chars
<1> QED BY <1>1 DEF Separator

LEMMA ArgTextIs == ASSUME NEW a \in Arguments PROVE ArgText(a) \in Texts
<1>1. <<"=">> \in Texts /\ a.key \in Texts /\ a.value \in Texts
  BY TextsAre DEF Arguments, Chars
<1> QED BY <1>1, Conc DEF ArgText

LEMMA ArgsTextIs ==
    ASSUME NEW q \in Seq(Arguments)
    PROVE  /\ Len(q) \in Nat
           /\ ArgsText(q) \in [1 .. Len(q) + 1 -> Texts]
           /\ ArgsText(q)[Len(q) + 1] = <<>>
           /\ \A i \in 1 .. Len(q) :
                ArgsText(q)[i] = Separator(i) \o ArgText(q[i]) \o ArgsText(q)[i + 1]
<1> DEFINE L == Len(q)
           Own(i) == Separator(i) \o ArgText(q[i])
           Rest(r, i) == IF i > L THEN <<>> ELSE Own(i) \o r[i + 1]
\* There is such a function for the last k arguments.
           T == {k \in 0 .. L : \E r \in [L + 1 - k .. L + 1 -> Texts] :
                                   \A i \in L + 1 - k .. L + 1 : r[i] = Rest(r, i)}
<1>0. L \in Nat
  OBVIOUS
<1>1. \A i \in 1 .. L : Own(i) \in Texts
  <2> TAKE i \in 1 .. L
  <2>1. q[i] \in Arguments
    OBVIOUS
  <2> QED BY <2>1, SeparatorIs, ArgTextIs, Conc
<1> HIDE DEF L, Own
<1>2. 0 \in T
  <2> DEFINE r == [i \in L + 1 .. L + 1 |-> <<>>]
  <2>1. L + 1 - 0 = L + 1 /\ 0 \in 0 .. L /\ <<>> \in Texts
    BY <1>0, TextsAre
  <2>2. r \in [L + 1 .. L + 1 -> Texts] /\ \A i \in L + 1 .. L + 1 : r[i] = <<>>
    BY <2>1
  <2>3. \A i \in L + 1 .. L + 1 : i > L
    BY <1>0
  <2> HIDE DEF r
  <2> QED BY <2>1, <2>2, <2>3
<1>3. ASSUME NEW k \in 0 .. L - 1, k \in T PROVE k + 1 \in T
  <2> DEFINE j == L - k
  <2>1. /\ j \in 1 .. L /\ L + 1 - k = j + 1 /\ L + 1 - (k + 1) = j /\ k + 1 \in 0 .. L
        /\ j \in Nat
    BY <1>0
  <2>2. PICK r \in [j + 1 .. L + 1 -> Texts] : \A i \in j + 1 .. L + 1 : r[i] = Rest(r, i)
    BY <1>3, <2>1
  <2> HIDE DEF j
  <2> DEFINE w == [i \in j .. L + 1 |-> IF i = j THEN Own(j) \o r[j + 1] ELSE r[i]]
  <2>3. r[j + 1] \in Texts /\ Own(j) \in Texts
    BY <1>0, <1>1, <2>1, <2>2
  <2>4. Own(j) \o r[j + 1] \in Texts
    BY <2>3, Conc
  <2>5. \A i \in j .. L + 1 : i # j => i \in j + 1 .. L + 1
    BY <1>0, <2>1
  <2>6. w \in [j .. L + 1 -> Texts]
    BY <2>2, <2>4, <2>5
  <2>7. ASSUME NEW i \in j .. L + 1 PROVE w[i] = Rest(w, i)
    <3>1. CASE i = j
      <4>1. ~(i > L) /\ j + 1 \in j .. L + 1 /\ j + 1 # j
        BY <3>1, <1>0, <2>1
      <4>2. w[i] = Own(j) \o r[j + 1] /\ w[j + 1] = r[j + 1]
        BY <3>1, <4>1
      <4> QED BY <3>1, <4>1, <4>2
    <3>2. CASE i # j
      <4>1. i \in j + 1 .. L + 1
        BY <3>2, <2>5
      <4>2. r[i] = Rest(r, i) /\ w[i] = r[i]
        BY <3>2, <4>1, <2>2
      <4>3. ~(i > L) => i + 1 \in j .. L + 1 /\ i + 1 # j
        BY <4>1, <1>0, <2>1
      <4>4. ~(i > L) => w[i + 1] = r[i + 1]
        BY <4>3
      <4> QED BY <4>2, <4>4
    <3> QED BY <3>1, <3>2
  <2> HIDE DEF w
  <2> QED BY <2>1, <2>6, <2>7
<1>4. L \in T
  <2>1. 0 \in Nat /\ L \in 0 .. L
    BY <1>0
  <2> HIDE DEF T
  <2> QED BY <1>0, <2>1, <1>2, <1>3, AlongInterval
<1>5. PICK r \in [1 .. L + 1 -> Texts] : \A i \in 1 .. L + 1 : r[i] = Rest(r, i)
  <2>1. L + 1 - L = 1
    BY <1>0
  <2> QED BY <1>4, <2>1
<1> DEFINE F == CHOOSE f : f = [i \in 1 .. L + 1 |-> IF i > L THEN <<>> ELSE Own(i) \o f[i + 1]]
<1>6. r = [i \in 1 .. L + 1 |-> IF i > L THEN <<>> ELSE Own(i) \o r[i + 1]]
  BY <1>5
<1>7. F = [i \in 1 .. L + 1 |-> IF i > L THEN <<>> ELSE Own(i) \o F[i + 1]]
  BY <1>6
<1>8. ArgsText(q) = F
  BY DEF ArgsText, F, Own, Separator, L
<1> HIDE DEF F
<1>9. F[L + 1] = <<>> /\ \A i \in 1 .. L : F[i] = Own(i) \o F[i + 1]
  <2>1. L + 1 \in 1 .. L + 1 /\ L + 1 > L
    BY <1>0
  <2>2. \A i \in 1 .. L : i \in 1 .. L + 1 /\ ~(i > L)
    BY <1>0
  <2> QED BY <2>1, <2>2, <1>7
<1>10. \A i \in 1 .. L + 1 : F[i] \in Texts
  <2> DEFINE U == {k \in 0 .. L : F[L + 1 - k] \in Texts}
  <2>1. 0 \in U
    <3>1. L + 1 - 0 = L + 1 /\ 0 \in 0 .. L /\ <<>> \in Texts
      BY <1>0, TextsAre
    <3> QED BY <3>1, <1>9
  <2>2. ASSUME NEW k \in 0 .. L - 1, k \in U PROVE k + 1 \in U
    <3>1. L - k \in 1 .. L /\ L + 1 - (k + 1) = L - k /\ (L - k) + 1 = L + 1 - k /\ k + 1 \in 0 .. L
      BY <1>0
    <3>2. F[L - k] = Own(L - k) \o F[(L - k) + 1]
      BY <3>1, <1>9
    <3>3. F[(L - k) + 1] \in Texts
      BY <3>1, <2>2
    <3>4. F[L - k] \in Texts
      BY <3>1, <3>2, <3>3, <1>1, Conc
    <3> QED BY <3>1, <3>4
  <2>3. 0 \in Nat
    OBVIOUS
  <2> HIDE DEF U
  <2>4. \A k \in 0 .. L : k \in U
    BY <2>1, <2>2, <2>3, <1>0, AlongInterval
  <2>5. ASSUME NEW i \in 1 .. L + 1 PROVE F[i] \in Texts
    <3>1. L + 1 - i \in 0 .. L /\ L + 1 - (L + 1 - i) = i
      BY <1>0
    <3> QED BY <3>1, <2>4 DEF U
  <2> QED BY <2>5
<1>11. F \in [1 .. L + 1 -> Texts]
  BY <1>7, <1>10
<1> QED BY <1>0, <1>8, <1>9, <1>11 DEF L, Own
-----------------------------------------------------------------------------
(***************************************************************************)
(* Searches.                                                               *)
(***************************************************************************)
LEMMA FindFirstIs ==
    ASSUME NEW s, Len(s) \in Nat, NEW cs, NEW lo \in Nat
    PROVE  \/ FindFirst(s, cs, lo) = npos
           \/ /\ FindFirst(s, cs, lo) \in lo .. Len(s) - 1
              /\ s[FindFirst(s, cs, lo) + 1] \in cs
<1> DEFINE hits == {i \in lo .. Len(s) - 1 : s[i + 1] \in cs}
<1>1. CASE hits = {}
  BY <1>1 DEF FindFirst
<1>2. CASE hits # {}
  <2>1. hits \in SUBSET Nat
    OBVIOUS
  <2>2. Min(hits) \in hits
    <3> HIDE DEF hits
    <3> QED BY <2>1, <1>2, MinIn
  <2>3. FindFirst(s, cs, lo) = Min(hits)
    BY <1>2 DEF FindFirst
  <2> QED BY <2>2, <2>3
<1> QED BY <1>1, <1>2

LEMMA FindLastIs ==
    ASSUME NEW s, Len(s) \in Nat, NEW cs
    PROVE  FindLast(s, cs) \in {npos} \cup 0 .. Len(s) - 1
<1> DEFINE hits == {npos} \cup {i \in 0 .. Len(s) - 1 : s[i + 1] \in cs}
<1>1. hits \in SUBSET (-1 .. Len(s)) /\ hits # {}
  BY DEF npos
<1>2. Max(hits) \in hits
  <2> HIDE DEF hits
  <2> QED BY <1>1, MaxIn
<1> QED BY <1>2 DEF FindLast
LEMMA FirstHere ==
    ASSUME NEW s, Len(s) \in Nat, NEW cs, NEW lo \in Nat, NEW k \in Nat, lo <= k,
           k < Len(s), s[k + 1] \in cs, \A i \in lo .. k - 1 : s[i + 1] \notin cs
    PROVE  FindFirst(s, cs, lo) = k
<1> DEFINE hits == {i \in lo .. Len(s) - 1 : s[i + 1] \in cs}
<1>1. k \in hits /\ hits \in SUBSET Nat
  OBVIOUS
<1>2. \A i \in hits : k <= i
  OBVIOUS
<1>3. \E x \in hits : \A y \in hits : x <= y
  BY <1>1, <1>2
<1>4. Min(hits) \in hits /\ \A y \in hits : Min(hits) <= y
  <2> HIDE DEF hits
  <2> QED BY <1>3 DEF Min
<1>5. Min(hits) = k
  <2>1. Min(hits) \in Nat /\ Min(hits) <= k /\ k <= Min(hits)
    <3> HIDE DEF hits
    <3> QED BY <1>1, <1>2, <1>4
  <2> QED BY <2>1
<1>6. hits # {}
  BY <1>1
<1> QED BY <1>5, <1>6 DEF FindFirst

LEMMA NoneFirst ==
    ASSUME NEW s, Len(s) \in Nat, NEW cs, NEW lo \in Nat,
           \A i \in lo .. Len(s) - 1 : s[i + 1] \notin cs
    PROVE  FindFirst(s, cs, lo) = npos
BY DEF FindFirst

LEMMA LastHere ==
    ASSUME NEW s, Len(s) \in Nat, NEW cs, NEW k \in Nat, k < Len(s), s[k + 1] \in cs,
           \A i \in k + 1 .. Len(s) - 1 : s[i + 1] \notin cs
    PROVE  FindLast(s, cs) = k
<1> DEFINE hits == {npos} \cup {i \in 0 .. Len(s) - 1 : s[i + 1] \in cs}
<1>1. k \in hits /\ \A i \in hits : i \in Int /\ i <= k
  BY DEF npos
<1>2. Max(hits) \in hits /\ \A y \in hits : Max(hits) >= y
  <2>1. \E x \in hits : \A y \in hits : x >= y
    <3> HIDE DEF hits
    <3> QED BY <1>1
  <2> HIDE DEF hits
  <2> QED BY <2>1 DEF Max
<1>3. Max(hits) = k
  <2> DEFINE m == Max(hits)
  <2>1. m \in hits /\ m >= k
    BY <1>1, <1>2
  <2>2. m \in Int /\ m <= k
    BY <2>1, <1>1
  <2> HIDE DEF m
  <2>3. m = k
    BY <2>1, <2>2
  <2> QED BY <2>3 DEF m
<1> QED BY <1>3 DEF FindLast

LEMMA NoneLast ==
    ASSUME NEW s, Len(s) \in Nat, NEW cs, \A i \in 0 .. Len(s) - 1 : s[i + 1] \notin cs
    PROVE  FindLast(s, cs) = npos
<1> DEFINE hits == {npos} \cup {i \in 0 .. Len(s) - 1 : s[i + 1] \in cs}
<1>1. hits = {-1}
  BY DEF npos
<1>2. Max({-1}) = -1
  BY DEF Max
<1> QED BY <1>1, <1>2 DEF FindLast, npos
-----------------------------------------------------------------------------
(***************************************************************************)
(* Substrings.                                                             *)
(***************************************************************************)
LEMMA PartIs ==
    ASSUME NEW s \in Texts, NEW a \in Nat, NEW b \in Nat, a <= b, b <= Len(s)
    PROVE  /\ Part(s, a, b) \in Texts
           /\ Len(Part(s, a, b)) = b - a
           /\ \A i \in 1 .. b - a : Part(s, a, b)[i] = s[a + i]
<1>1. \A i \in a + 1 .. b : s[i] \in Chars
  BY TextLen
<1>2. /\ SubSeq(s, a + 1, b) \in Seq(Chars)
      /\ Len(SubSeq(s, a + 1, b)) = IF a + 1 <= b THEN b - (a + 1) + 1 ELSE 0
      /\ \A i \in 1 .. b - (a + 1) + 1 : SubSeq(s, a + 1, b)[i] = s[(a + 1) + i - 1]
  BY <1>1, SubSeqProperties
<1>3. Len(Part(s, a, b)) = b - a
  BY <1>2 DEF Part
<1>4. \A i \in 1 .. b - a : Part(s, a, b)[i] = s[a + i]
  BY <1>2 DEF Part
<1> QED BY <1>2, <1>3, <1>4, TextsAre DEF Part

LEMMA PartsAre ==
    \A s \in Texts : \A a, b \in Nat : a <= b /\ b <= Len(s) =>
       /\ Part(s, a, b) \in Texts
       /\ Len(Part(s, a, b)) = b - a
       /\ \A i \in 1 .. b - a : Part(s, a, b)[i] = s[a + i]
BY PartIs

\* resize: the beginning of a piece is a piece.
LEMMA PartOfPart ==
    ASSUME NEW s \in Texts, NEW a \in Nat, NEW b \in Nat, a <= b, b <= Len(s),
           NEW n \in Nat, n <= b - a
    PROVE  Part(Part(s, a, b), 0, n) = Part(s, a, a + n)
<1> DEFINE p == Part(s, a, b)
           q == Part(p, 0, n)
           r == Part(s, a, a + n)
<1>0. Len(s) \in Nat
  BY TextLen
<1>1. /\ p \in Texts /\ Len(p) = b - a
      /\ \A i \in 1 .. b - a : p[i] = s[a + i]
  BY PartIs
<1> HIDE DEF p
<1>2. /\ q \in Texts /\ Len(q) = n
      /\ \A i \in 1 .. n : q[i] = p[i]
  <2>1. 0 \in Nat /\ 0 <= n /\ n <= Len(p)
    BY <1>1
  <2>2. /\ q \in Texts /\ Len(q) = n - 0
        /\ \A i \in 1 .. n - 0 : q[i] = p[0 + i]
    BY <1>1, <2>1, PartsAre
  <2>3. n - 0 = n /\ \A i \in 1 .. n : 0 + i = i
    OBVIOUS
  <2> QED BY <2>2, <2>3
<1>3. /\ r \in Texts /\ Len(r) = n
      /\ \A i \in 1 .. n : r[i] = s[a + i]
  <2>1. a + n \in Nat /\ a <= a + n /\ a + n <= Len(s) /\ (a + n) - a = n
    BY <1>0
  <2>2. /\ r \in Texts /\ Len(r) = (a + n) - a
        /\ \A i \in 1 .. (a + n) - a : r[i] = s[a + i]
    BY <2>1, PartsAre
  <2> QED BY <2>1, <2>2
<1> HIDE DEF q, r
<1>4. \A i \in 1 .. Len(q) : q[i] = r[i]
  BY <1>1, <1>2, <1>3
<1>5. q = r
  BY <1>2, <1>3, <1>4, TextsAre, SeqEqual
<1> QED BY <1>5 DEF p, q, r

\* Text t is in s from position k on.
At(s, k, t) ==
    /\ k + Len(t) <= Len(s)
    /\ \A i \in 1 .. Len(t) : s[k + i] = t[i]

LEMMA AtSelf == ASSUME NEW s \in Texts PROVE At(s, 0, s)
<1>1. Len(s) \in Nat
  BY TextLen
<1> QED BY <1>1 DEF At

LEMMA AtSplit ==
    ASSUME NEW s \in Texts, NEW k \in Nat, NEW x \in Texts, NEW y \in Texts, At(s, k, x \o y)
    PROVE  At(s, k, x) /\ At(s, k + Len(x), y)
<1>1. /\ Len(x) \in Nat /\ Len(y) \in Nat /\ Len(s) \in Nat
      /\ Len(x \o y) = Len(x) + Len(y)
      /\ \A i \in 1 .. Len(x) : (x \o y)[i] = x[i]
      /\ \A i \in 1 .. Len(y) : (x \o y)[Len(x) + i] = y[i]
  BY ConcIs, TextLen
<1>2. /\ k + (Len(x) + Len(y)) <= Len(s)
      /\ \A i \in 1 .. Len(x) + Len(y) : s[k + i] = (x \o y)[i]
  BY <1>1 DEF At
<1>3. At(s, k, x)
  <2>1. k + Len(x) <= Len(s) /\ \A i \in 1 .. Len(x) : i \in 1 .. Len(x) + Len(y)
    BY <1>1, <1>2
  <2> QED BY <2>1, <1>1, <1>2 DEF At
<1>4. At(s, k + Len(x), y)
  <2>1. (k + Len(x)) + Len(y) <= Len(s)
    BY <1>1, <1>2
  <2>2. ASSUME NEW i \in 1 .. Len(y) PROVE s[(k + Len(x)) + i] = y[i]
    <3>1. Len(x) + i \in 1 .. Len(x) + Len(y) /\ k + (Len(x) + i) = (k + Len(x)) + i
      BY <1>1
    <3> QED BY <3>1, <1>1, <1>2
  <2> QED BY <2>1, <2>2 DEF At
<1> QED BY <1>3, <1>4

LEMMA AtIsPart ==
    ASSUME NEW s \in Texts, NEW k \in Nat, NEW t \in Texts, At(s, k, t)
    PROVE  Part(s, k, k + Len(t)) = t
<1>1. Len(t) \in Nat /\ Len(s) \in Nat
  BY TextLen
<1>2. k + Len(t) \in Nat /\ k <= k + Len(t) /\ k + Len(t) <= Len(s) /\ (k + Len(t)) - k = Len(t)
  BY <1>1 DEF At
<1> DEFINE p == Part(s, k, k + Len(t))
<1>3. p \in Texts /\ Len(p) = Len(t) /\ \A i \in 1 .. Len(t) : p[i] = s[k + i]
  <2>1. /\ p \in Texts /\ Len(p) = (k + Len(t)) - k
        /\ \A i \in 1 .. (k + Len(t)) - k : p[i] = s[k + i]
    BY <1>2, PartsAre
  <2> HIDE DEF p
  <2> QED BY <2>1, <1>2
<1> HIDE DEF p
<1>4. \A i \in 1 .. Len(p) : p[i] = t[i]
  BY <1>3 DEF At
<1>5. p = t
  BY <1>3, <1>4, TextsAre, SeqEqual
<1> QED BY <1>5 DEF p

LEMMA AtBegin ==
    \A s, x, y \in Texts : At(s, 0, x \o y) => At(s, 0, x) /\ At(s, Len(x), y)
<1> SUFFICES ASSUME NEW s \in Texts, NEW x \in Texts, NEW y \in Texts, At(s, 0, x \o y)
             PROVE  At(s, 0, x) /\ At(s, Len(x), y)
  OBVIOUS
<1>1. 0 \in Nat /\ Len(x) \in Nat /\ 0 + Len(x) = Len(x)
  BY TextLen
<1>2. At(s, 0, x) /\ At(s, 0 + Len(x), y)
  BY <1>1, AtSplit
<1> QED BY <1>1, <1>2

LEMMA AtJoin ==
    ASSUME NEW s \in Texts, NEW k \in Nat, NEW x \in Texts, NEW y \in Texts,
           At(s, k, x), At(s, k + Len(x), y)
    PROVE  At(s, k, x \o y)
<1>1. /\ Len(x) \in Nat /\ Len(y) \in Nat /\ Len(s) \in Nat
      /\ Len(x \o y) = Len(x) + Len(y)
      /\ \A i \in 1 .. Len(x) : (x \o y)[i] = x[i]
      /\ \A i \in 1 .. Len(y) : (x \o y)[Len(x) + i] = y[i]
  BY ConcIs, TextLen
<1>2. k + (Len(x) + Len(y)) <= Len(s)
  BY <1>1 DEF At
<1>3. ASSUME NEW i \in 1 .. Len(x) + Len(y) PROVE s[k + i] = (x \o y)[i]
  <2>1. CASE i <= Len(x)
    <3>1. i \in 1 .. Len(x)
      BY <2>1, <1>1
    <3> QED BY <3>1, <1>1 DEF At
  <2>2. CASE ~(i <= Len(x))
    <3> DEFINE j == i - Len(x)
    <3>1. j \in 1 .. Len(y) /\ Len(x) + j = i /\ (k + Len(x)) + j = k + i
      BY <2>2, <1>1
    <3> HIDE DEF j
    <3>2. s[(k + Len(x)) + j] = y[j] /\ (x \o y)[Len(x) + j] = y[j]
      BY <3>1, <1>1 DEF At
    <3> QED BY <3>1, <3>2
  <2> QED BY <2>1, <2>2
<1> QED BY <1>1, <1>2, <1>3 DEF At

\* The first of cs at or after the beginning of a text t without any, when
\* one follows.
LEMMA FirstAfter ==
    ASSUME NEW s \in Texts, NEW k \in Nat, NEW t \in Texts, At(s, k, t), NEW cs, Without(t, cs),
           k + Len(t) < Len(s), s[k + Len(t) + 1] \in cs
    PROVE  FindFirst(s, cs, k) = k + Len(t)
<1>1. Len(t) \in Nat /\ Len(s) \in Nat /\ DOMAIN t = 1 .. Len(t)
  BY TextLen, TextsAre
<1>2. ASSUME NEW i \in k .. (k + Len(t)) - 1 PROVE s[i + 1] \notin cs
  <2>1. i - k + 1 \in 1 .. Len(t) /\ k + (i - k + 1) = i + 1
    BY <1>1
  <2> QED BY <2>1, <1>1 DEF At, Without
<1> DEFINE m == k + Len(t)
<1>3. m \in Nat /\ k <= m /\ m < Len(s) /\ s[m + 1] \in cs
      /\ \A i \in k .. m - 1 : s[i + 1] \notin cs
  BY <1>1, <1>2
<1> HIDE DEF m
<1>4. FindFirst(s, cs, k) = m
  BY <1>1, <1>3, FirstHere
<1> QED BY <1>4 DEF m

\* There is none when the text is the last.
LEMMA NoneAfter ==
    ASSUME NEW s \in Texts, NEW k \in Nat, NEW t \in Texts, At(s, k, t), NEW cs, Without(t, cs),
           k + Len(t) = Len(s)
    PROVE  FindFirst(s, cs, k) = npos
<1>1. Len(t) \in Nat /\ Len(s) \in Nat /\ DOMAIN t = 1 .. Len(t)
  BY TextLen, TextsAre
<1>2. ASSUME NEW i \in k .. Len(s) - 1 PROVE s[i + 1] \notin cs
  <2>1. i - k + 1 \in 1 .. Len(t) /\ k + (i - k + 1) = i + 1
    BY <1>1
  <2> QED BY <2>1, <1>1 DEF At, Without
<1> QED BY <1>1, <1>2, NoneFirst
-----------------------------------------------------------------------------
(***************************************************************************)
(* The inductive invariant: which parts are known at each pc, and where in *)
(* raw they are.                                                           *)
(***************************************************************************)
Accepted == pc = "done" /\ parsed

HostKnown == pc \in {"host", "port", "url", "args"} \/ Accepted

PortKnown == pc \in {"port", "url", "args"} \/ Accepted

UrlKnown == pc = "args" \/ Accepted

ProtocolInv ==
    HostKnown => /\ protocol_end \in 0 .. Len(raw) - 1
                 /\ protocol = Part(raw, 0, protocol_end)

HostInv ==
    PortKnown => /\ host_end \in host_start .. Len(raw) - 1
                 /\ \E n \in host_start .. host_end : host = Part(raw, host_start, n)

UrlInv ==
    UrlKnown => /\ url_end \in host_end .. Len(raw)
                /\ url = Part(raw, host_end, url_end)

IInv == TypeOK /\ ProtocolInv /\ HostInv /\ UrlInv /\ (parsed => pc = "done")

LEMMA UrlEndIs ==
    ASSUME raw \in Texts, host_end \in Nat, host_end <= Len(raw)
    PROVE  /\ url_end \in host_end .. Len(raw)
           /\ url_end = Len(raw) \/ raw[url_end + 1] = "?"
<1>1. Len(raw) \in Nat
  BY TextLen
<1>2. \/ FindFirst(raw, {"?"}, host_end) = npos
      \/ /\ FindFirst(raw, {"?"}, host_end) \in host_end .. Len(raw) - 1
         /\ raw[FindFirst(raw, {"?"}, host_end) + 1] \in {"?"}
  BY <1>1, FindFirstIs
<1>3. url_end = IF FindFirst(raw, {"?"}, host_end) = npos THEN Len(raw)
                ELSE FindFirst(raw, {"?"}, host_end)
  BY DEF url_end, OrEnd
<1> QED BY <1>1, <1>2, <1>3 DEF npos
-----------------------------------------------------------------------------
\* The text of the port with its colon.
Colon(u) == IF u.port = None THEN <<>> ELSE <<":">> \o u.port

LEMMA UrlIs ==
    ASSUME NEW u \in Urls
    PROVE  /\ u.protocol \in Texts /\ u.host \in Texts /\ u.path \in Texts
           /\ Colon(u) \in Texts /\ u.host \o Colon(u) \in Texts
           /\ u.query \in Seq(Arguments) /\ QueryText(u.query) \in Texts
           /\ u.port # None => u.port \in Texts
<1>1. IsUrl(u)
  BY UrlsAssumption
<1>2. u.protocol \in Texts /\ u.host \in Texts /\ u.path \in Texts /\ u.query \in Seq(Arguments)
      /\ (u.port # None => u.port \in Texts)
  BY <1>1 DEF IsUrl, Arguments
<1>3. <<":">> \in Texts /\ <<>> \in Texts
  BY TextsAre DEF Chars
<1>4. Colon(u) \in Texts
  BY <1>2, <1>3, Conc DEF Colon
<1>5. QueryText(u.query) \in Texts
  <2>1. Len(u.query) \in Nat /\ ArgsText(u.query) \in [1 .. Len(u.query) + 1 -> Texts]
    BY <1>2, ArgsTextIs
  <2>2. 1 \in 1 .. Len(u.query) + 1
    BY <2>1
  <2> QED BY <2>1, <2>2 DEF QueryText
<1> QED BY <1>2, <1>4, <1>5, Conc

LEMMA TextIs ==
    ASSUME NEW u \in Urls
    PROVE  /\ Text(u) \in Texts
           /\ Text(u) = ((((u.protocol \o <<":", "/", "/">>) \o u.host) \o Colon(u)) \o u.path)
                          \o QueryText(u.query)
           /\ <<":", "/", "/">> \in Texts
           /\ u.protocol \o <<":", "/", "/">> \in Texts
           /\ (u.protocol \o <<":", "/", "/">>) \o u.host \in Texts
           /\ ((u.protocol \o <<":", "/", "/">>) \o u.host) \o Colon(u) \in Texts
           /\ (((u.protocol \o <<":", "/", "/">>) \o u.host) \o Colon(u)) \o u.path \in Texts
<1>1. <<":", "/", "/">> \in Texts
  BY TextsAre DEF Chars
<1>2. u.protocol \o <<":", "/", "/">> \in Texts
  BY <1>1, UrlIs, Conc
<1>3. (u.protocol \o <<":", "/", "/">>) \o u.host \in Texts
  BY <1>2, UrlIs, Conc
<1>4. ((u.protocol \o <<":", "/", "/">>) \o u.host) \o Colon(u) \in Texts
  BY <1>3, UrlIs, Conc
<1>5. (((u.protocol \o <<":", "/", "/">>) \o u.host) \o Colon(u)) \o u.path \in Texts
  BY <1>4, UrlIs, Conc
<1>6. Text(u) = ((((u.protocol \o <<":", "/", "/">>) \o u.host) \o Colon(u)) \o u.path)
                  \o QueryText(u.query)
  BY DEF Text, Colon
<1>7. Text(u) \in Texts
  BY <1>5, <1>6, UrlIs, Conc
<1> QED BY <1>1, <1>2, <1>3, <1>4, <1>5, <1>6, <1>7

LEMMA InitIInv == Init => IInv
<1> SUFFICES ASSUME Init PROVE IInv OBVIOUS
<1>1. raw \in Texts /\ parts \in Urls \cup {None}
  BY TextIs, StringsAssumption DEF Init, Start
<1>2. /\ pc = "protocol" /\ parsed = FALSE
      /\ protocol = <<>> /\ host = <<>> /\ port = None /\ url = <<>>
      /\ args = <<>> /\ arg_start = 0
  BY DEF Init, Start
<1>3. \A k \in DOMAIN args : k \in Texts /\ args[k] \in Texts
  BY <1>2
<1>4. TypeOK
  BY <1>1, <1>2, <1>3, EmptyText DEF TypeOK
<1> QED BY <1>2, <1>4 DEF IInv, ProtocolInv, HostInv, UrlInv, HostKnown, PortKnown,
                          UrlKnown, Accepted
-----------------------------------------------------------------------------
LEMMA SameEnds ==
    raw' = raw => /\ protocol_end' = protocol_end /\ host_start' = host_start
                  /\ host_end' = host_end /\ url_end' = url_end
BY DEF protocol_end, host_start, host_end, url_end, OrEnd

LEMMA ParseProtocolStep == ASSUME IInv, ParseProtocol PROVE IInv'
<1>0. raw' = raw /\ raw \in Texts /\ Len(raw) \in Nat
  BY TextLen DEF IInv, TypeOK, ParseProtocol
<1>1. CASE protocol_end = npos
  BY <1>1, <1>0 DEF ParseProtocol, Finish, IInv, TypeOK, ProtocolInv, HostInv, UrlInv,
                    HostKnown, PortKnown, UrlKnown, Accepted
<1>2. CASE protocol_end # npos
  <2>1. protocol_end \in 0 .. Len(raw) - 1
    BY <1>2, <1>0, FindFirstIs DEF protocol_end
  <2>2. protocol' = Part(raw, 0, protocol_end) /\ pc' = "host" /\ parsed' = parsed
    BY <1>2 DEF ParseProtocol
  <2>3. protocol' \in Texts
    BY <2>1, <2>2, <1>0, PartsAre
  <2>4. TypeOK'
    BY <2>2, <2>3 DEF ParseProtocol, IInv, TypeOK
  <2>5. ProtocolInv'
    BY <2>1, <2>2, <1>0, SameEnds DEF ProtocolInv
  <2>6. ~parsed
    BY DEF IInv, ParseProtocol
  <2> QED BY <2>2, <2>4, <2>5, <2>6 DEF IInv, HostInv, UrlInv, PortKnown, UrlKnown, Accepted
<1> QED BY <1>1, <1>2

LEMMA ParseHostStep == ASSUME IInv, ParseHost PROVE IInv'
<1>0. raw' = raw /\ raw \in Texts /\ Len(raw) \in Nat /\ pc = "host" /\ ~parsed
  BY TextLen DEF IInv, TypeOK, ParseHost
<1>1. protocol_end \in 0 .. Len(raw) - 1 /\ protocol = Part(raw, 0, protocol_end)
  BY <1>0 DEF IInv, ProtocolInv, HostKnown
<1>2. host_start \in Nat
  BY <1>1 DEF host_start
<1>3. CASE host_end = npos
  BY <1>3, <1>0 DEF ParseHost, Finish, IInv, TypeOK, ProtocolInv, HostInv, UrlInv,
                    HostKnown, PortKnown, UrlKnown, Accepted
<1>4. CASE host_end # npos
  <2>1. host_end \in host_start .. Len(raw) - 1
    BY <1>4, <1>0, <1>2, FindFirstIs DEF host_end
  <2>2. host' = Part(raw, host_start, host_end) /\ pc' = "port" /\ parsed' = parsed
        /\ protocol' = protocol
    BY <1>4 DEF ParseHost
  <2>3. host_end \in Nat /\ host_start <= host_end /\ host_end <= Len(raw)
    BY <2>1, <1>0, <1>2
  <2>4. host' \in Texts
    BY <2>2, <2>3, <1>0, <1>2, PartsAre
  <2>5. TypeOK'
    BY <2>2, <2>4 DEF ParseHost, IInv, TypeOK
  <2>6. ProtocolInv'
    BY <2>2, <1>0, <1>1, SameEnds DEF ProtocolInv
  <2>7. HostInv'
    <3>1. host_end \in host_start .. host_end
      BY <2>3, <1>2
    <3> QED BY <3>1, <2>1, <2>2, <1>0, SameEnds DEF HostInv
  <2> QED BY <2>2, <2>5, <2>6, <2>7, <1>0 DEF IInv, UrlInv, UrlKnown, Accepted
<1> QED BY <1>3, <1>4

LEMMA ParsePortStep == ASSUME IInv, ParsePort PROVE IInv'
<1>0. raw' = raw /\ raw \in Texts /\ Len(raw) \in Nat /\ pc = "port" /\ ~parsed
      /\ protocol' = protocol
  BY TextLen DEF IInv, TypeOK, ParsePort
<1>1. protocol_end \in 0 .. Len(raw) - 1 /\ protocol = Part(raw, 0, protocol_end)
  BY <1>0 DEF IInv, ProtocolInv, HostKnown
<1>2. host_start \in Nat
  BY <1>1 DEF host_start
<1>3. host_end \in host_start .. Len(raw) - 1
  BY <1>0 DEF IInv, HostInv, PortKnown
<1>4. PICK n \in host_start .. host_end : host = Part(raw, host_start, n)
  BY <1>0 DEF IInv, HostInv, PortKnown
<1>5. n \in Nat /\ host_start <= n /\ n <= Len(raw)
  BY <1>0, <1>2, <1>3, <1>4
<1>6. host \in Texts /\ Len(host) = n - host_start
  BY <1>0, <1>2, <1>4, <1>5, PartsAre
<1>7. ProtocolInv'
  BY <1>0, <1>1, SameEnds DEF ProtocolInv
<1>8. CASE UNCHANGED <<host, port, parsed>> /\ pc' \in {"url", "threw"}
  <2>1. TypeOK'
    BY <1>8 DEF ParsePort, IInv, TypeOK
  <2>2. HostInv'
    BY <1>0, <1>3, <1>4, <1>8, SameEnds DEF HostInv
  <2> QED BY <1>7, <1>8, <1>0, <2>1, <2>2 DEF IInv, UrlInv, UrlKnown, Accepted
<1>9. CASE Finish(FALSE) /\ UNCHANGED <<host, port>>
  BY <1>9, <1>0 DEF ParsePort, Finish, IInv, TypeOK, ProtocolInv, HostInv, UrlInv,
                    HostKnown, PortKnown, UrlKnown, Accepted
<1>10. CASE /\ HasPort /\ IsInt(PortText) /\ port' = Number(PortText)
            /\ host' = Part(host, 0, host_real_end)
            /\ pc' = "url" /\ UNCHANGED parsed
  <2>1. host_real_end \in 0 .. Len(host) - 1
    <3>1. Len(host) \in Nat
      BY <1>2, <1>5, <1>6
    <3>2. host_real_end # npos
      BY <1>10 DEF HasPort
    <3> QED BY <3>1, <3>2, FindLastIs DEF host_real_end
  <2>2. host_real_end \in Nat /\ host_real_end <= n - host_start
    BY <2>1, <1>2, <1>5, <1>6
  <2>3. host' = Part(raw, host_start, host_start + host_real_end)
    BY <1>0, <1>2, <1>4, <1>5, <1>10, <2>2, PartOfPart
  <2>4. host_start + host_real_end \in host_start .. host_end
    BY <2>2, <1>2, <1>3, <1>4, <1>5
  <2>5. host' \in Texts
    <3>1. host_start + host_real_end \in Nat /\ host_start <= host_start + host_real_end
          /\ host_start + host_real_end <= Len(raw)
      BY <2>2, <1>0, <1>2, <1>5
    <3> QED BY <3>1, <2>3, <1>0, <1>2, PartsAre
  <2>6. port' \in 0 .. MaxInt
    <3>1. host_real_end + 1 \in Nat /\ host_real_end + 1 <= Len(host) /\ Len(host) \in Nat
      BY <2>1, <1>2, <1>5, <1>6
    <3>2. PortText \in Texts
      BY <3>1, <1>6, PartsAre DEF PortText
    <3>3. Number(PortText) \in Nat
      BY <3>2, TextLen, NumberIsNat
    <3> QED BY <3>3, <1>10, StringsAssumption DEF IsInt
  <2>7. TypeOK'
    BY <1>10, <2>5, <2>6 DEF ParsePort, IInv, TypeOK
  <2>8. HostInv'
    BY <1>0, <1>3, <2>3, <2>4, SameEnds DEF HostInv
  <2> QED BY <1>7, <1>10, <1>0, <2>7, <2>8 DEF IInv, UrlInv, UrlKnown, Accepted
<1> QED BY <1>8, <1>9, <1>10 DEF ParsePort, NoPort, TakePort
-----------------------------------------------------------------------------
LEMMA ParseUrlStep == ASSUME IInv, ParseUrl PROVE IInv'
<1>0. raw' = raw /\ raw \in Texts /\ Len(raw) \in Nat /\ pc = "url" /\ ~parsed
      /\ protocol' = protocol /\ host' = host
  BY TextLen DEF IInv, TypeOK, ParseUrl
<1>1. protocol_end \in 0 .. Len(raw) - 1 /\ protocol = Part(raw, 0, protocol_end)
  BY <1>0 DEF IInv, ProtocolInv, HostKnown
<1>2. host_start \in Nat
  BY <1>1 DEF host_start
<1>3. /\ host_end \in host_start .. Len(raw) - 1
      /\ \E n \in host_start .. host_end : host = Part(raw, host_start, n)
  BY <1>0 DEF IInv, HostInv, PortKnown
<1>4. host_end \in Nat /\ host_end <= Len(raw)
  BY <1>0, <1>2, <1>3
<1>5. url_end \in host_end .. Len(raw)
  BY <1>0, <1>4, UrlEndIs
<1>6. url_end \in Nat /\ host_end <= url_end /\ url_end <= Len(raw)
  BY <1>4, <1>5, <1>0
<1>7. url' = Part(raw, host_end, url_end) /\ url' \in Texts
  BY <1>0, <1>4, <1>6, PartsAre DEF ParseUrl
<1>8. ProtocolInv'
  BY <1>0, <1>1, SameEnds DEF ProtocolInv
<1>9. HostInv'
  BY <1>0, <1>3, SameEnds DEF HostInv
<1>10. UrlInv'
  BY <1>0, <1>5, <1>7, SameEnds DEF UrlInv
<1>11. TypeOK'
  <2>0. parsed \in BOOLEAN /\ arg_start \in Nat
    BY DEF IInv, TypeOK
  <2>1. arg_start' \in Nat
    <3>1. arg_start' = arg_start \/ arg_start' = url_end + 1
      BY DEF ParseUrl
    <3> HIDE DEF url_end
    <3> QED BY <3>1, <2>0, <1>6
  <2>2. pc' \in {"done", "args"} /\ parsed' \in BOOLEAN
    <3>1. CASE url_end = Len(raw)
      BY <3>1 DEF ParseUrl, Finish
    <3>2. CASE url_end # Len(raw)
      BY <3>2, <2>0 DEF ParseUrl
    <3> QED BY <3>1, <3>2
  <2>3. UNCHANGED <<raw, protocol, host, port, args, parts>>
    BY DEF ParseUrl
  <2> QED BY <1>7, <2>1, <2>2, <2>3 DEF IInv, TypeOK
<1>12. parsed' => pc' = "done"
  BY <1>0 DEF ParseUrl, Finish
<1> QED BY <1>8, <1>9, <1>10, <1>11, <1>12 DEF IInv

LEMMA ParseArgStep == ASSUME IInv, ParseArg PROVE IInv'
<1>0. raw' = raw /\ raw \in Texts /\ Len(raw) \in Nat /\ pc = "args" /\ ~parsed
      /\ protocol' = protocol /\ host' = host /\ url' = url /\ arg_start \in Nat
  BY TextLen DEF IInv, TypeOK, ParseArg
<1>1. ProtocolInv'
  BY <1>0, SameEnds DEF IInv, ProtocolInv, HostKnown
<1>2. HostInv'
  BY <1>0, SameEnds DEF IInv, HostInv, PortKnown
<1>3. UrlInv'
  BY <1>0, SameEnds DEF IInv, UrlInv, UrlKnown
<1>4. CASE Finish(TRUE) /\ UNCHANGED <<args, arg_start, parts>>
  BY <1>1, <1>2, <1>3, <1>4 DEF ParseArg, Finish, IInv, TypeOK
<1>5. CASE /\ arg_start < Len(raw) /\ arg_end # npos
           /\ args' = Assign(args, Part(raw, arg_start, arg_end), Part(raw, arg_end + 1, value_end))
           /\ arg_start' = value_end + 1
           /\ UNCHANGED <<pc, parsed>>
  <2>1. arg_end \in arg_start .. Len(raw) - 1
    BY <1>0, <1>5, FindFirstIs DEF arg_end
  <2>2. arg_end \in Nat /\ arg_start <= arg_end /\ arg_end <= Len(raw) /\ arg_end + 1 \in Nat
        /\ arg_end + 1 <= Len(raw)
    BY <2>1, <1>0
  <2>3. \/ FindFirst(raw, {"&"}, arg_end + 1) = npos
        \/ FindFirst(raw, {"&"}, arg_end + 1) \in arg_end + 1 .. Len(raw) - 1
    BY <2>2, <1>0, FindFirstIs
  <2>4. value_end \in arg_end + 1 .. Len(raw)
    BY <2>2, <2>3, <1>0 DEF value_end, OrEnd
  <2>5. value_end \in Nat /\ arg_end + 1 <= value_end /\ value_end <= Len(raw)
    BY <2>2, <2>4, <1>0
  <2>6. Part(raw, arg_start, arg_end) \in Texts /\ Part(raw, arg_end + 1, value_end) \in Texts
    BY <2>2, <2>5, <1>0, PartsAre
  <2>7. \A k \in DOMAIN args : k \in Texts /\ args[k] \in Texts
    BY DEF IInv, TypeOK
  <2> DEFINE key == Part(raw, arg_start, arg_end)
             value == Part(raw, arg_end + 1, value_end)
  <2>8. args' = [k \in DOMAIN args \cup {key} |-> IF k = key THEN value ELSE args[k]]
    BY <1>5 DEF Assign
  <2>9. key \in Texts /\ value \in Texts
    BY <2>6
  <2> HIDE DEF key, value
  <2>10. \A k \in DOMAIN args' : k \in Texts /\ args'[k] \in Texts
    BY <2>7, <2>8, <2>9
  <2>11. TypeOK'
    BY <1>5, <2>5, <2>10 DEF ParseArg, IInv, TypeOK
  <2> QED BY <1>0, <1>1, <1>2, <1>3, <1>5, <2>11 DEF IInv
<1> QED BY <1>4, <1>5 DEF ParseArg

LEMMA IInvStep == IInv /\ [Next]_vars => IInv'
<1> SUFFICES ASSUME IInv, [Next]_vars PROVE IInv' OBVIOUS
<1>1. CASE UNCHANGED vars
  <2>1. raw' = raw /\ pc' = pc /\ parsed' = parsed /\ protocol' = protocol
        /\ host' = host /\ url' = url
    BY <1>1 DEF vars
  <2>2. TypeOK'
    BY <1>1 DEF vars, IInv, TypeOK
  <2>3. ProtocolInv' /\ HostInv' /\ UrlInv'
    BY <2>1, SameEnds DEF IInv, ProtocolInv, HostInv, UrlInv, HostKnown, PortKnown,
                          UrlKnown, Accepted
  <2> QED BY <2>1, <2>2, <2>3 DEF IInv
<1>2. CASE Next
  BY <1>2, ParseProtocolStep, ParseHostStep, ParsePortStep, ParseUrlStep, ParseArgStep
     DEF Next
<1> QED BY <1>1, <1>2

LEMMA Invariance == Spec => []IInv
BY InitIInv, IInvStep, PTL DEF Spec

\* Url::Parse: every part is a string of characters, a port an int.
THEOREM PartsTyped == Spec => []TypeOK
<1>1. IInv => TypeOK
  BY DEF IInv
<1> QED BY <1>1, Invariance, PTL

\* Url::Parse: of any accepted string, of any length, protocol, host and path
\* are neighbouring pieces from its beginning.
THEOREM PartsArePieces == Spec => []PiecesOfRaw
<1>1. IInv => PiecesOfRaw
  <2> SUFFICES ASSUME IInv, pc = "done", parsed PROVE PiecesOfRaw
    BY DEF PiecesOfRaw
  <2>1. raw \in Texts /\ Len(raw) \in Nat
    BY TextLen DEF IInv, TypeOK
  <2>2. protocol_end \in 0 .. Len(raw) - 1 /\ protocol = Part(raw, 0, protocol_end)
    BY DEF IInv, ProtocolInv, HostKnown, Accepted
  <2>3. protocol_end \in Nat /\ Len(protocol) = protocol_end /\ host_start \in Nat
    <3>1. protocol_end \in Nat /\ 0 <= protocol_end /\ protocol_end <= Len(raw)
      BY <2>1, <2>2
    <3>2. Len(protocol) = protocol_end - 0
      BY <3>1, <2>1, <2>2, PartsAre
    <3> QED BY <3>1, <3>2 DEF host_start
  <2>4. Len(protocol) + 3 = host_start /\ FindFirst(raw, {"/"}, Len(protocol) + 3) = host_end
    BY <2>3 DEF host_start, host_end
  <2>5. host_end \in host_start .. Len(raw) - 1
    BY DEF IInv, HostInv, PortKnown, Accepted
  <2>6. PICK n \in host_start .. host_end : host = Part(raw, host_start, n)
    BY DEF IInv, HostInv, PortKnown, Accepted
  <2>7. host_start + Len(host) = n
    <3>1. n \in Nat /\ host_start <= n /\ n <= Len(raw)
      BY <2>1, <2>3, <2>5, <2>6
    <3>2. Len(host) = n - host_start
      BY <3>1, <2>1, <2>3, <2>6, PartsAre
    <3> QED BY <3>1, <3>2, <2>3
  <2>8. host_end \in Nat /\ host_end <= Len(raw)
    BY <2>1, <2>3, <2>5
  <2>9. url_end \in host_end .. Len(raw) /\ url = Part(raw, host_end, url_end)
        /\ (url_end = Len(raw) \/ raw[url_end + 1] = "?")
    BY <2>1, <2>8, UrlEndIs DEF IInv, UrlInv, UrlKnown, Accepted
  <2>10. host_end + Len(url) = url_end
    <3>1. url_end \in Nat /\ host_end <= url_end /\ url_end <= Len(raw)
      BY <2>1, <2>8, <2>9
    <3>2. Len(url) = url_end - host_end
      BY <3>1, <2>1, <2>8, <2>9, PartsAre
    <3> QED BY <3>1, <3>2, <2>8
  <2>11. url_end <= Len(raw)
    BY <2>1, <2>8, <2>9
  <2> QED BY <2>2, <2>3, <2>4, <2>6, <2>7, <2>9, <2>10, <2>11 DEF PiecesOfRaw
<1> QED BY <1>1, Invariance, PTL
-----------------------------------------------------------------------------
(***************************************************************************)
(* A URL put together from parts: where in its text each of them is, and   *)
(* what Parse has of them at each pc.                                      *)
(***************************************************************************)
HostAt(u) == Len(u.protocol) + 3

PathAt(u) == HostAt(u) + Len(u.host \o Colon(u))

QueryAt(u) == PathAt(u) + Len(u.path)

\* args_ after the first n arguments.
ArgsUpTo(q, n) ==
    [k \in {q[i].key : i \in 1 .. n} |-> q[Max({i \in 1 .. n : q[i].key = k})].value]

\* Parse is at the i-th argument of u, of which it has the ones before.
AtArg(u, i) ==
    /\ arg_start > 0
    /\ At(raw, arg_start - 1, ArgsText(u.query)[i])
    /\ arg_start - 1 + Len(ArgsText(u.query)[i]) = Len(raw)
    /\ args = ArgsUpTo(u.query, i - 1)

Restored(u) ==
    /\ raw = Text(u)
    /\ pc # "protocol" => protocol = u.protocol
    /\ pc \in {"protocol", "host", "port"} => port = None
    /\ pc = "port" => host = u.host \o Colon(u)
    /\ pc \in {"url", "args"} \/ (pc = "done" /\ parsed) =>
         /\ ~PortThrows(u) /\ ~PortRefused(u)
         /\ host = u.host
         /\ port = IF u.port = None THEN None ELSE Number(u.port)
    /\ pc = "args" \/ (pc = "done" /\ parsed) => url = u.path
    /\ pc \in {"protocol", "host", "port", "url"} => args = <<>>
    /\ pc = "args" => \E i \in 1 .. Len(u.query) + 1 : AtArg(u, i)
    /\ pc = "done" /\ parsed => args = ArgsOf(u)
    /\ pc = "done" /\ ~parsed => PortRefused(u)
    /\ pc = "threw" => PortThrows(u)

RestoredInv == parts # None => Restored(parts)

\* Where the parts are.
LEMMA PartsLaid ==
    ASSUME NEW u \in Urls, NEW s, s = Text(u)
    PROVE  /\ s \in Texts /\ Len(s) \in Nat
           /\ HostAt(u) \in Nat /\ PathAt(u) \in Nat /\ QueryAt(u) \in Nat
           /\ At(s, 0, u.protocol)
           /\ At(s, Len(u.protocol), <<":", "/", "/">>)
           /\ At(s, HostAt(u), u.host \o Colon(u))
           /\ At(s, PathAt(u), u.path)
           /\ At(s, QueryAt(u), QueryText(u.query))
           /\ QueryAt(u) + Len(QueryText(u.query)) = Len(s)
<1> DEFINE P == u.protocol
           S == <<":", "/", "/">>
           H == u.host
           C == Colon(u)
           U == u.path
           Q == QueryText(u.query)
           A == P \o S
           B == A \o H
           D == B \o C
           E == D \o U
<1>1. /\ P \in Texts /\ S \in Texts /\ H \in Texts /\ C \in Texts /\ U \in Texts /\ Q \in Texts
      /\ A \in Texts /\ B \in Texts /\ D \in Texts /\ E \in Texts
      /\ s = E \o Q
      /\ s \in Texts /\ Len(s) \in Nat
      /\ H \o C \in Texts
  BY UrlIs, TextIs, TextLen
<1>2. Len(S) = 3
  OBVIOUS
<1> HIDE DEF P, S, H, C, U, Q
<1>3. /\ Len(P) \in Nat /\ Len(H) \in Nat /\ Len(C) \in Nat /\ Len(U) \in Nat /\ Len(Q) \in Nat
  BY <1>1, ConcLen
<1>4. /\ Len(H \o C) = Len(H) + Len(C)
      /\ Len(A) = Len(P) + 3 /\ Len(B) = Len(A) + Len(H) /\ Len(D) = Len(B) + Len(C)
      /\ Len(E) = Len(D) + Len(U) /\ Len(s) = Len(E) + Len(Q)
  <2>0. Len(H \o C) = Len(H) + Len(C)
    BY <1>1, ConcLen
  <2>1. Len(A) = Len(P) + 3
    <3>1. Len(P \o S) = Len(P) + Len(S)
      BY <1>1, ConcLen
    <3> QED BY <3>1, <1>2
  <2> HIDE DEF A
  <2>2. Len(B) = Len(A) + Len(H)
    BY <1>1, ConcLen
  <2> HIDE DEF B
  <2>3. Len(D) = Len(B) + Len(C)
    BY <1>1, ConcLen
  <2> HIDE DEF D
  <2>4. Len(E) = Len(D) + Len(U)
    BY <1>1, ConcLen
  <2> HIDE DEF E
  <2>5. Len(s) = Len(E) + Len(Q)
    BY <1>1, ConcLen
  <2> QED BY <2>0, <2>1, <2>2, <2>3, <2>4, <2>5
<1>5. /\ HostAt(u) = Len(P) + 3 /\ PathAt(u) = HostAt(u) + Len(H \o C)
      /\ QueryAt(u) = PathAt(u) + Len(U)
  BY DEF HostAt, PathAt, QueryAt, P, H, C, U
<1>6. At(s, 0, E) /\ At(s, Len(E), Q)
  <2>1. At(s, 0, E \o Q)
    BY <1>1, AtSelf
  <2> HIDE DEF E
  <2> QED BY <1>1, <2>1, AtBegin
<1>7. At(s, 0, D) /\ At(s, Len(D), U)
  <2> HIDE DEF D
  <2> QED BY <1>1, <1>6, AtBegin
<1>8. At(s, 0, B) /\ At(s, Len(B), C)
  <2> HIDE DEF B
  <2> QED BY <1>1, <1>7, AtBegin
<1>9. At(s, 0, A) /\ At(s, Len(A), H)
  <2> HIDE DEF A
  <2> QED BY <1>1, <1>8, AtBegin
<1>10. At(s, 0, P) /\ At(s, Len(P), S)
  BY <1>1, <1>9, AtBegin
<1> HIDE DEF A, B, D, E
<1>11. /\ HostAt(u) = Len(A) /\ PathAt(u) = Len(D) /\ QueryAt(u) = Len(E)
       /\ Len(B) = Len(A) + Len(H) /\ Len(A) \in Nat /\ Len(D) \in Nat /\ Len(E) \in Nat
       /\ Len(E) + Len(Q) = Len(s)
  BY <1>3, <1>4, <1>5
<1>12. At(s, HostAt(u), H \o C)
  BY <1>1, <1>8, <1>9, <1>11, AtJoin
<1> QED BY <1>1, <1>6, <1>7, <1>10, <1>11, <1>12 DEF P, S, H, C, U, Q

\* The text of the arguments from one on begins with a separator.
LEMMA ArgsTextBegins ==
    ASSUME NEW q \in Seq(Arguments), NEW i \in 1 .. Len(q) + 1
    PROVE  /\ ArgsText(q)[i] \in Texts
           /\ i = Len(q) + 1 => Len(ArgsText(q)[i]) = 0
           /\ i <= Len(q) => /\ Len(ArgsText(q)[i]) > 0
                             /\ ArgsText(q)[i][1] = IF i = 1 THEN "?" ELSE "&"
<1> DEFINE R == ArgsText(q)
<1>1. /\ Len(q) \in Nat /\ R \in [1 .. Len(q) + 1 -> Texts] /\ R[Len(q) + 1] = <<>>
      /\ \A j \in 1 .. Len(q) : R[j] = Separator(j) \o ArgText(q[j]) \o R[j + 1]
  BY ArgsTextIs
<1> HIDE DEF R
<1>2. R[i] \in Texts
  BY <1>1
<1>3. ASSUME i <= Len(q) PROVE Len(R[i]) > 0 /\ R[i][1] = IF i = 1 THEN "?" ELSE "&"
  <2>1. i \in 1 .. Len(q) /\ i + 1 \in 1 .. Len(q) + 1
    BY <1>1, <1>3
  <2>2. q[i] \in Arguments
    BY <2>1
  <2> DEFINE a == ArgText(q[i])
             t == R[i + 1]
             c == Separator(i)
             ca == c \o a
  <2>3. a \in Texts /\ t \in Texts /\ c \in Texts /\ Len(c) = 1
    BY <1>1, <2>1, <2>2, ArgTextIs, SeparatorIs
  <2>4. R[i] = ca \o t
    BY <1>1, <2>1
  <2>5. c[1] = IF i = 1 THEN "?" ELSE "&"
    BY DEF Separator
  <2> HIDE DEF a, t, c
  <2>6. ca \in Texts /\ Len(a) \in Nat /\ Len(ca) = 1 + Len(a) /\ ca[1] = c[1]
    <3>1. Len(c \o a) = Len(c) + Len(a) /\ Len(a) \in Nat /\ c \o a \in Texts
      BY <2>3, ConcIs
    <3>2. \A j \in 1 .. Len(c) : (c \o a)[j] = c[j]
      BY <2>3, ConcIs
    <3> QED BY <3>1, <3>2, <2>3
  <2> HIDE DEF ca
  <2>7. Len(t) \in Nat /\ Len(ca \o t) = Len(ca) + Len(t) /\ (ca \o t)[1] = ca[1]
    <3>1. 1 \in 1 .. Len(ca)
      BY <2>6
    <3> QED BY <3>1, <2>3, <2>6, ConcIs
  <2> QED BY <2>4, <2>5, <2>6, <2>7
<1>4. i = Len(q) + 1 => Len(R[i]) = 0
  BY <1>1
<1> QED BY <1>2, <1>3, <1>4 DEF R

LEMMA PortIs ==
    ASSUME NEW u \in Urls
    PROVE  /\ Without(Colon(u), {"/"}) /\ Without(u.host \o Colon(u), {"/"})
           /\ Without(u.protocol, {":", "/"}) /\ Without(u.host, {":"})
           /\ Without(u.path, {"?"}) /\ Len(u.path) > 0 /\ u.path[1] = "/"
           /\ u.port # None => Without(u.port, {":"})
<1>1. IsUrl(u)
  BY UrlsAssumption
<1>2. Without(Colon(u), {"/"})
  <2>1. CASE u.port = None
    BY <2>1 DEF Colon, Without
  <2>2. CASE u.port # None
    <3> DEFINE t == u.port
               c == <<":">>
    <3>1. t \in Texts /\ Without(t, {":", "/"}) /\ c \in Texts /\ Len(c) = 1
      BY <1>1, <2>2, TextsAre DEF IsUrl, Chars
    <3>2. Colon(u) = c \o t
      BY <2>2 DEF Colon
    <3>3. c[1] = ":"
      OBVIOUS
    <3> HIDE DEF t, c
    <3>4. /\ c \o t \in Texts /\ Len(c \o t) = 1 + Len(t) /\ Len(t) \in Nat
          /\ \A i \in 1 .. 1 : (c \o t)[i] = c[i]
          /\ \A i \in 1 .. Len(t) : (c \o t)[1 + i] = t[i]
      <4>1. /\ c \o t \in Texts /\ Len(c \o t) = Len(c) + Len(t) /\ Len(t) \in Nat
            /\ \A i \in 1 .. Len(c) : (c \o t)[i] = c[i]
            /\ \A i \in 1 .. Len(t) : (c \o t)[Len(c) + i] = t[i]
        BY <3>1, ConcIs
      <4> QED BY <4>1, <3>1
    <3>5. DOMAIN (c \o t) = 1 .. 1 + Len(t) /\ DOMAIN t = 1 .. Len(t)
      BY <3>1, <3>4, TextsAre
    <3>6. ASSUME NEW i \in 1 .. 1 + Len(t) PROVE (c \o t)[i] # "/"
      <4>1. CASE i = 1
        BY <4>1, <3>3, <3>4
      <4>2. CASE i # 1
        <5>1. i - 1 \in 1 .. Len(t) /\ 1 + (i - 1) = i
          BY <4>2, <3>4
        <5> QED BY <5>1, <3>1, <3>4, <3>5 DEF Without
      <4> QED BY <4>1, <4>2
    <3> QED BY <3>2, <3>5, <3>6 DEF Without
  <2> QED BY <2>1, <2>2
<1>3. Without(u.host \o Colon(u), {"/"})
  <2> DEFINE h == u.host
             c == Colon(u)
  <2>1. h \in Texts /\ c \in Texts /\ Without(h, {":", "/"}) /\ Without(c, {"/"})
    BY <1>1, <1>2, UrlIs DEF IsUrl
  <2> HIDE DEF h, c
  <2>2. /\ h \o c \in Texts /\ Len(h \o c) = Len(h) + Len(c) /\ Len(h) \in Nat /\ Len(c) \in Nat
        /\ \A i \in 1 .. Len(h) : (h \o c)[i] = h[i]
        /\ \A i \in 1 .. Len(c) : (h \o c)[Len(h) + i] = c[i]
    BY <2>1, ConcIs
  <2>3. DOMAIN (h \o c) = 1 .. Len(h) + Len(c) /\ DOMAIN h = 1 .. Len(h) /\ DOMAIN c = 1 .. Len(c)
    BY <2>1, <2>2, TextsAre
  <2>4. ASSUME NEW i \in 1 .. Len(h) + Len(c) PROVE (h \o c)[i] # "/"
    <3>1. CASE i <= Len(h)
      BY <3>1, <2>1, <2>2, <2>3 DEF Without
    <3>2. CASE ~(i <= Len(h))
      <4>1. i - Len(h) \in 1 .. Len(c) /\ Len(h) + (i - Len(h)) = i
        BY <3>2, <2>2
      <4> QED BY <4>1, <2>1, <2>2, <2>3 DEF Without
    <3> QED BY <3>1, <3>2
  <2>5. Without(h \o c, {"/"})
    BY <2>3, <2>4 DEF Without
  <2> QED BY <2>5 DEF h, c
<1>4. Len(u.path) > 0
  <2>1. u.path \in Seq(Chars) /\ u.path # <<>>
    BY <1>1, TextsAre DEF IsUrl
  <2> QED BY <2>1, EmptySeq, LenProperties
<1> QED BY <1>1, <1>2, <1>3, <1>4 DEF IsUrl, Without

\* What Parse finds in the text of a URL.
LEMMA EndsAre ==
    ASSUME NEW u \in Urls, raw = Text(u)
    PROVE  /\ protocol_end = Len(u.protocol) /\ host_start = HostAt(u)
           /\ host_end = PathAt(u) /\ url_end = QueryAt(u)
           /\ url_end = Len(raw) <=> Len(u.query) = 0
           /\ Part(raw, 0, protocol_end) = u.protocol
           /\ Part(raw, host_start, host_end) = u.host \o Colon(u)
           /\ Part(raw, host_end, url_end) = u.path
<1> DEFINE P == u.protocol
           S == <<":", "/", "/">>
           HC == u.host \o Colon(u)
           U == u.path
           q == u.query
           Q == QueryText(q)
<1>1. /\ raw \in Texts /\ Len(raw) \in Nat
      /\ HostAt(u) \in Nat /\ PathAt(u) \in Nat /\ QueryAt(u) \in Nat
      /\ At(raw, 0, P) /\ At(raw, Len(P), S) /\ At(raw, HostAt(u), HC)
      /\ At(raw, PathAt(u), U) /\ At(raw, QueryAt(u), Q)
      /\ QueryAt(u) + Len(Q) = Len(raw)
  BY PartsLaid
<1>2. P \in Texts /\ HC \in Texts /\ U \in Texts /\ Q \in Texts /\ q \in Seq(Arguments)
  BY UrlIs
<1>3. Len(P) \in Nat /\ Len(HC) \in Nat /\ Len(U) \in Nat /\ Len(Q) \in Nat
  BY <1>2, TextLen
<1>4. /\ Without(P, {":", "/"}) /\ Without(HC, {"/"}) /\ Without(U, {"?"})
      /\ Len(U) > 0 /\ U[1] = "/"
  BY PortIs
<1>5. HostAt(u) = Len(P) + 3 /\ PathAt(u) = HostAt(u) + Len(HC) /\ QueryAt(u) = PathAt(u) + Len(U)
  BY DEF HostAt, PathAt, QueryAt
<1>6. Len(S) = 3 /\ S[1] = ":"
  OBVIOUS
<1>7. /\ Len(q) \in Nat
      /\ Len(q) = 0 => Len(Q) = 0
      /\ Len(q) # 0 => Len(Q) > 0 /\ Q[1] = "?"
  <2>1. Len(q) \in Nat
    BY <1>2
  <2>2. 1 \in 1 .. Len(q) + 1 /\ (Len(q) = 0 <=> 1 = Len(q) + 1) /\ (Len(q) # 0 => 1 <= Len(q))
    BY <2>1
  <2> QED BY <2>1, <2>2, <1>2, ArgsTextBegins DEF QueryText
<1> HIDE DEF P, S, HC, U, q, Q
<1>8. protocol_end = Len(P)
  <2>1. Len(P) < Len(raw) /\ raw[Len(P) + 1] \in {":", "/"}
    <3>1. 1 \in 1 .. Len(S) /\ Len(P) + Len(S) <= Len(raw)
      BY <1>1, <1>6 DEF At
    <3>2. raw[Len(P) + 1] = S[1]
      BY <1>1, <3>1 DEF At
    <3> QED BY <3>1, <3>2, <1>1, <1>3, <1>6
  <2>2. 0 + Len(P) = Len(P) /\ 0 \in Nat
    BY <1>3
  <2>3. FindFirst(raw, {":", "/"}, 0) = 0 + Len(P)
    BY <1>1, <1>2, <1>4, <2>1, <2>2, FirstAfter
  <2> QED BY <2>2, <2>3 DEF protocol_end
<1>9. host_start = HostAt(u)
  BY <1>5, <1>8 DEF host_start
<1>10. host_end = PathAt(u)
  <2>1. 1 \in 1 .. Len(U) /\ PathAt(u) + Len(U) <= Len(raw)
    BY <1>1, <1>3, <1>4 DEF At
  <2>2. raw[PathAt(u) + 1] = "/"
    BY <1>1, <1>4, <2>1 DEF At
  <2>3. PathAt(u) < Len(raw)
    BY <1>1, <1>3, <1>4, <2>1
  <2>4. FindFirst(raw, {"/"}, HostAt(u)) = HostAt(u) + Len(HC)
    BY <1>1, <1>2, <1>4, <1>5, <2>2, <2>3, FirstAfter
  <2> QED BY <2>4, <1>5, <1>9 DEF host_end
<1>11. url_end = QueryAt(u) /\ (url_end = Len(raw) <=> Len(q) = 0)
  <2>1. CASE Len(q) = 0
    <3>1. PathAt(u) + Len(U) = Len(raw)
      BY <2>1, <1>1, <1>5, <1>7
    <3>2. FindFirst(raw, {"?"}, PathAt(u)) = npos
      BY <3>1, <1>1, <1>2, <1>4, NoneAfter
    <3> QED BY <2>1, <3>1, <3>2, <1>5, <1>10 DEF url_end, OrEnd
  <2>2. CASE Len(q) # 0
    <3>1. 1 \in 1 .. Len(Q)
      BY <2>2, <1>3, <1>7
    <3>2. raw[QueryAt(u) + 1] = "?" /\ QueryAt(u) < Len(raw)
      BY <3>1, <2>2, <1>1, <1>3, <1>7 DEF At
    <3>3. FindFirst(raw, {"?"}, PathAt(u)) = PathAt(u) + Len(U)
      BY <3>2, <1>1, <1>2, <1>4, <1>5, FirstAfter
    <3>4. QueryAt(u) # npos
      BY <1>1 DEF npos
    <3>5. url_end = QueryAt(u)
      BY <3>3, <3>4, <1>5, <1>10 DEF url_end, OrEnd
    <3> QED BY <3>2, <3>5, <2>2, <1>1
  <2> QED BY <2>1, <2>2
<1>12. Part(raw, 0, protocol_end) = P
  <2>1. 0 + Len(P) = Len(P) /\ 0 \in Nat
    BY <1>3
  <2>2. Part(raw, 0, 0 + Len(P)) = P
    BY <1>1, <1>2, <2>1, AtIsPart
  <2> QED BY <2>1, <2>2, <1>8
<1>13. Part(raw, host_start, host_end) = HC
  BY <1>1, <1>2, <1>5, <1>9, <1>10, AtIsPart
<1>14. Part(raw, host_end, url_end) = U
  BY <1>1, <1>2, <1>5, <1>10, <1>11, AtIsPart
<1> QED BY <1>8, <1>9, <1>10, <1>11, <1>12, <1>13, <1>14 DEF P, S, HC, U, q, Q
-----------------------------------------------------------------------------
(***************************************************************************)
(* The arguments.                                                          *)
(***************************************************************************)
LEMMA ArgsNone == ASSUME NEW q PROVE ArgsUpTo(q, 0) = <<>>
<1> DEFINE f == ArgsUpTo(q, 0)
<1>1. {q[i].key : i \in 1 .. 0} = {}
  OBVIOUS
<1>2. f = [k \in {} |-> q[Max({i \in 1 .. 0 : q[i].key = k})].value]
  BY <1>1 DEF ArgsUpTo
<1> HIDE DEF f
<1>3. f \in [1 .. 0 -> {}]
  BY <1>2
<1>4. f \in Seq({}) /\ Len(f) = 0
  <2>1. 0 \in Nat
    OBVIOUS
  <2> QED BY <2>1, <1>3, SeqDef, LenProperties
<1>5. f = <<>>
  BY <1>4, EmptySeq
<1> QED BY <1>5 DEF f

\* args_[key] = value for one more argument.
LEMMA OneMoreArg ==
    ASSUME NEW q, NEW n \in Nat
    PROVE  Assign(ArgsUpTo(q, n), q[n + 1].key, q[n + 1].value) = ArgsUpTo(q, n + 1)
<1> DEFINE f == ArgsUpTo(q, n)
           key == q[n + 1].key
           Of(m, k) == {i \in 1 .. m : q[i].key = k}
<1>1. f = [k \in {q[i].key : i \in 1 .. n} |-> q[Max(Of(n, k))].value]
  BY DEF ArgsUpTo
<1>2. ArgsUpTo(q, n + 1) = [k \in {q[i].key : i \in 1 .. n + 1} |-> q[Max(Of(n + 1, k))].value]
  BY DEF ArgsUpTo
<1>3. 1 .. n + 1 = (1 .. n) \cup {n + 1}
  OBVIOUS
<1>4. {q[i].key : i \in 1 .. n + 1} = {q[i].key : i \in 1 .. n} \cup {key}
  BY <1>3
<1>5. Max(Of(n + 1, key)) = n + 1
  <2> DEFINE S == Of(n + 1, key)
  <2>1. n + 1 \in S /\ \A i \in S : i \in Int /\ i <= n + 1
    OBVIOUS
  <2> HIDE DEF S
  <2>2. Max(S) \in S /\ \A i \in S : Max(S) >= i
    <3>1. \E x \in S : \A y \in S : x >= y
      BY <2>1
    <3> QED BY <3>1 DEF Max
  <2>3. Max(S) = n + 1
    <3> DEFINE m == Max(S)
    <3>1. m >= n + 1 /\ m \in Int /\ m <= n + 1
      BY <2>1, <2>2
    <3> HIDE DEF m
    <3>2. m = n + 1
      BY <3>1
    <3> QED BY <3>2 DEF m
  <2> QED BY <2>3 DEF S
<1>6. \A k : k # key => Of(n + 1, k) = Of(n, k)
  BY <1>3
<1>7. DOMAIN f = {q[i].key : i \in 1 .. n}
  BY <1>1
<1>8. Assign(f, key, q[n + 1].value) =
        [k \in {q[i].key : i \in 1 .. n + 1} |-> IF k = key THEN q[n + 1].value ELSE f[k]]
  BY <1>4, <1>7 DEF Assign
<1>9. ASSUME NEW k \in {q[i].key : i \in 1 .. n + 1}
      PROVE  (IF k = key THEN q[n + 1].value ELSE f[k]) = q[Max(Of(n + 1, k))].value
  <2>1. CASE k = key
    BY <2>1, <1>5
  <2>2. CASE k # key
    <3>1. k \in {q[i].key : i \in 1 .. n}
      BY <2>2, <1>4
    <3>2. f[k] = q[Max(Of(n, k))].value
      BY <3>1, <1>1
    <3> QED BY <2>2, <3>2, <1>6
  <2> QED BY <2>1, <2>2
<1> HIDE DEF f, key, Of
<1>10. Assign(f, key, q[n + 1].value) = ArgsUpTo(q, n + 1)
  BY <1>2, <1>8, <1>9
<1> QED BY <1>10 DEF f, key

LEMMA ArgsAre ==
    ASSUME NEW u, u.query \in Seq(Arguments)
    PROVE  ArgsOf(u) = ArgsUpTo(u.query, Len(u.query))
<1>1. DOMAIN u.query = 1 .. Len(u.query)
  OBVIOUS
<1> QED BY <1>1 DEF ArgsOf, ArgsUpTo

\* One turn of the loop, at the i-th argument or past the last.
LEMMA ArgIs ==
    ASSUME NEW u \in Urls, raw = Text(u), arg_start \in Nat,
           NEW i \in 1 .. Len(u.query), AtArg(u, i)
    PROVE  /\ arg_start < Len(raw) /\ arg_end # npos
           /\ Part(raw, arg_start, arg_end) = u.query[i].key
           /\ Part(raw, arg_end + 1, value_end) = u.query[i].value
           /\ value_end \in Nat
           /\ At(raw, value_end, ArgsText(u.query)[i + 1])
           /\ value_end + Len(ArgsText(u.query)[i + 1]) = Len(raw)
<1> DEFINE q == u.query
           R == ArgsText(q)
           k == q[i].key
           v == q[i].value
           c == Separator(i)
           e == <<"=">>
           t == R[i + 1]
           ke == k \o e
           a == ke \o v
           ca == c \o a
<1>1. raw \in Texts /\ Len(raw) \in Nat /\ q \in Seq(Arguments) /\ Len(q) \in Nat
  BY PartsLaid, UrlIs, ArgsTextIs
<1>2. q[i] \in Arguments /\ i \in Nat
  BY <1>1
<1>3. k \in Texts /\ v \in Texts /\ c \in Texts /\ e \in Texts /\ Len(c) = 1 /\ Len(e) = 1
      /\ e[1] = "="
  BY <1>2, SeparatorIs, TextsAre DEF Arguments, Chars
<1>4. /\ t \in Texts /\ R[i] = ca \o t
      /\ i = Len(q) => Len(t) = 0
      /\ i # Len(q) => Len(t) > 0 /\ t[1] = "&"
  <2>1. i + 1 \in 1 .. Len(q) + 1 /\ i + 1 # 1
        /\ (i = Len(q) => i + 1 = Len(q) + 1) /\ (i # Len(q) => i + 1 <= Len(q))
    BY <1>1, <1>2
  <2>2. R[i] = ca \o t
    BY <1>1, ArgsTextIs DEF ArgText
  <2> QED BY <2>1, <2>2, <1>1, ArgsTextBegins
<1>5. Without(k, {"=", "&"}) /\ Without(v, {"&"}) /\ Without(k, {"="})
  <2>1. IsUrl(u) /\ i \in DOMAIN q
    BY <1>1, UrlsAssumption
  <2> QED BY <2>1 DEF IsUrl, Without
<1> DEFINE b == arg_start - 1
<1>6. b \in Nat /\ At(raw, b, R[i]) /\ b + Len(R[i]) = Len(raw) /\ arg_start = b + 1
  BY DEF AtArg
<1> HIDE DEF q, R, k, v, c, e, t, b
<1>7. ke \in Texts
  BY <1>3, Conc
<1> HIDE DEF ke
<1>8. a \in Texts
  BY <1>3, <1>7, Conc
<1> HIDE DEF a
<1>9. ca \in Texts
  BY <1>3, <1>8, Conc
<1> HIDE DEF ca
<1>10. /\ Len(k) \in Nat /\ Len(v) \in Nat /\ Len(t) \in Nat
       /\ Len(ke) = Len(k) + 1 /\ Len(a) = Len(ke) + Len(v) /\ Len(ca) = 1 + Len(a)
       /\ Len(R[i]) = Len(ca) + Len(t)
  <2>1. Len(k) \in Nat /\ Len(v) \in Nat /\ Len(t) \in Nat
    BY <1>3, <1>4, ConcLen
  <2>2. Len(k \o e) = Len(k) + Len(e) /\ Len(ke \o v) = Len(ke) + Len(v)
        /\ Len(c \o a) = Len(c) + Len(a) /\ Len(ca \o t) = Len(ca) + Len(t)
    BY <1>3, <1>4, <1>7, <1>8, <1>9, ConcLen
  <2> QED BY <2>1, <2>2, <1>3, <1>4 DEF ke, a, ca
\* The places of the key, of "=", of the value and of the rest.
<1>11. At(raw, b, ca) /\ At(raw, b + Len(ca), t)
  BY <1>1, <1>4, <1>6, <1>9, AtSplit
<1>12. At(raw, arg_start, a)
  BY <1>1, <1>3, <1>6, <1>8, <1>11, AtSplit DEF ca
<1>13. At(raw, arg_start, ke) /\ At(raw, arg_start + Len(ke), v)
  BY <1>1, <1>3, <1>7, <1>12, AtSplit DEF a
<1>14. At(raw, arg_start, k) /\ At(raw, arg_start + Len(k), e)
  BY <1>1, <1>3, <1>13, AtSplit DEF ke
<1> DEFINE m == arg_start + Len(k)
           w == m + 1
           x == w + Len(v)
<1>15. /\ m \in Nat /\ w \in Nat /\ x \in Nat
       /\ w = arg_start + Len(ke) /\ x = b + Len(ca)
       /\ x + Len(t) = Len(raw) /\ m < Len(raw) /\ arg_start < Len(raw) /\ m + 1 <= Len(raw)
  BY <1>1, <1>6, <1>10
<1>16. raw[m + 1] = "="
  <2>1. 1 \in 1 .. Len(e)
    BY <1>3
  <2> HIDE DEF m
  <2> QED BY <2>1, <1>3, <1>14 DEF At, m
<1>17. arg_end = m
  <2>1. FindFirst(raw, {"="}, arg_start) = arg_start + Len(k)
    BY <1>1, <1>3, <1>5, <1>14, <1>15, <1>16, FirstAfter
  <2> QED BY <2>1 DEF arg_end
<1>18. Part(raw, arg_start, arg_end) = k
  BY <1>1, <1>3, <1>14, <1>17, AtIsPart
<1> HIDE DEF m
<1>19. value_end = x
  <2>1. CASE i = Len(q)
    <3>1. w + Len(v) = Len(raw)
      BY <2>1, <1>4, <1>15
    <3>2. FindFirst(raw, {"&"}, w) = npos
      BY <3>1, <1>1, <1>3, <1>5, <1>13, <1>15, NoneAfter
    <3> QED BY <3>1, <3>2, <1>17 DEF value_end, OrEnd
  <2>2. CASE i # Len(q)
    <3>1. 1 \in 1 .. Len(t)
      BY <2>2, <1>4, <1>10
    <3>2. raw[x + 1] = "&" /\ x < Len(raw)
      <4>1. At(raw, x, t) /\ t[1] = "&"
        BY <2>2, <1>4, <1>11, <1>15
      <4>2. x \in Nat /\ x + Len(t) = Len(raw)
        BY <1>15
      <4> HIDE DEF x
      <4>3. raw[x + 1] = "&"
        BY <3>1, <4>1 DEF At
      <4>4. x < Len(raw)
        BY <2>2, <4>2, <1>1, <1>4, <1>10
      <4> QED BY <4>3, <4>4
    <3>3. FindFirst(raw, {"&"}, w) = w + Len(v)
      BY <3>2, <1>1, <1>3, <1>5, <1>13, <1>15, FirstAfter
    <3>4. w + Len(v) # npos
      BY <1>15 DEF npos
    <3> QED BY <3>3, <3>4, <1>17 DEF value_end, OrEnd
  <2> QED BY <2>1, <2>2
<1>20. Part(raw, arg_end + 1, value_end) = v
  BY <1>1, <1>3, <1>13, <1>15, <1>17, <1>19, AtIsPart
<1>21. arg_end # npos
  BY <1>15, <1>17 DEF npos
<1> QED BY <1>11, <1>15, <1>18, <1>19, <1>20, <1>21 DEF q, R, k, v, t
-----------------------------------------------------------------------------
(***************************************************************************)
(* The steps.                                                              *)
(***************************************************************************)
LEMMA RestoredInit == Init => RestoredInv
<1> SUFFICES ASSUME Init, parts # None PROVE Restored(parts)
  BY DEF RestoredInv
<1>1. /\ raw = Text(parts) /\ pc = "protocol" /\ parsed = FALSE
      /\ port = None /\ args = <<>>
  BY DEF Init, Start
<1> QED BY <1>1 DEF Restored

LEMMA ParseProtocolRestores ==
    ASSUME IInv, NEW u \in Urls, Restored(u), ParseProtocol
    PROVE  Restored(u)'
<1>1. raw = Text(u) /\ port = None /\ args = <<>> /\ pc = "protocol"
  BY DEF Restored, ParseProtocol
<1>2. protocol_end # npos /\ Part(raw, 0, protocol_end) = u.protocol
  <2>1. protocol_end = Len(u.protocol) /\ Part(raw, 0, protocol_end) = u.protocol
    BY <1>1, EndsAre
  <2>2. Len(u.protocol) \in Nat
    BY UrlIs, TextLen
  <2> QED BY <2>1, <2>2 DEF npos
<1>3. /\ raw' = raw /\ protocol' = u.protocol /\ pc' = "host" /\ port' = None /\ args' = <<>>
  BY <1>1, <1>2 DEF ParseProtocol
<1> QED BY <1>1, <1>3 DEF Restored

LEMMA ParseHostRestores ==
    ASSUME IInv, NEW u \in Urls, Restored(u), ParseHost
    PROVE  Restored(u)'
<1>1. raw = Text(u) /\ port = None /\ args = <<>> /\ pc = "host" /\ protocol = u.protocol
  BY DEF Restored, ParseHost
<1>2. host_end # npos /\ Part(raw, host_start, host_end) = u.host \o Colon(u)
  <2>1. host_end = PathAt(u) /\ Part(raw, host_start, host_end) = u.host \o Colon(u)
    BY <1>1, EndsAre
  <2>2. PathAt(u) \in Nat
    BY <1>1, PartsLaid
  <2> QED BY <2>1, <2>2 DEF npos
<1>3. /\ raw' = raw /\ host' = u.host \o Colon(u) /\ pc' = "port" /\ port' = None
      /\ args' = <<>> /\ protocol' = protocol
  BY <1>1, <1>2 DEF ParseHost
<1> QED BY <1>1, <1>3 DEF Restored

\* The colon of the port, if there is one, is the last of host and port.
LEMMA ColonIs ==
    ASSUME NEW u \in Urls, raw = Text(u), host = u.host \o Colon(u)
    PROVE  /\ u.port = None => ~HasPort /\ host = u.host
           /\ u.port # None => /\ HasPort /\ PortText = u.port
                               /\ Part(host, 0, host_real_end) = u.host
<1> DEFINE h == u.host
<1>1. h \in Texts /\ host \in Texts /\ Without(h, {":"}) /\ Len(h) \in Nat /\ Len(host) \in Nat
      /\ DOMAIN h = 1 .. Len(h)
  BY UrlIs, PortIs, TextLen, TextsAre
<1>2. CASE u.port = None
  <2>1. host = h
    <3>1. Colon(u) = <<>> /\ h \in Seq(Chars)
      BY <1>1, <1>2, TextsAre DEF Colon
    <3> QED BY <3>1, ConcatEmptySeq
  <2>2. ASSUME NEW i \in 0 .. Len(h) - 1 PROVE h[i + 1] \notin {":"}
    <3>1. i + 1 \in 1 .. Len(h)
      BY <1>1
    <3> QED BY <3>1, <1>1 DEF Without
  <2>3. FindLast(h, {":"}) = npos
    BY <1>1, <2>2, NoneLast
  <2> QED BY <1>2, <2>1, <2>3 DEF HasPort, host_real_end
<1>3. CASE u.port # None
  <2> DEFINE t == u.port
             c == <<":">>
             ct == c \o t
  <2>1. t \in Texts /\ c \in Texts /\ Len(c) = 1 /\ c[1] = ":" /\ Without(t, {":"})
        /\ DOMAIN t = 1 .. Len(t)
    BY <1>3, UrlIs, PortIs, TextsAre DEF Chars
  <2>2. host = h \o ct
    BY <1>3 DEF Colon
  <2> HIDE DEF h, t, c
  <2>3. /\ ct \in Texts /\ Len(ct) = 1 + Len(t) /\ Len(t) \in Nat /\ ct[1] = ":"
        /\ \A i \in 1 .. Len(t) : ct[1 + i] = t[i]
    <3>1. /\ ct \in Texts /\ Len(ct) = Len(c) + Len(t) /\ Len(t) \in Nat
          /\ \A i \in 1 .. Len(c) : ct[i] = c[i]
          /\ \A i \in 1 .. Len(t) : ct[Len(c) + i] = t[i]
      BY <2>1, ConcIs
    <3> QED BY <3>1, <2>1
  <2>4. At(host, 0, h) /\ At(host, Len(h), ct)
    <3>1. At(host, 0, h \o ct)
      BY <1>1, <2>2, AtSelf
    <3> QED BY <3>1, <1>1, <2>3, AtBegin
  <2>5. At(host, Len(h), c) /\ At(host, Len(h) + 1, t)
    BY <2>1, <2>4, <1>1, AtSplit
  <2>6. Len(host) = (Len(h) + 1) + Len(t)
    <3>1. Len(host) = Len(h) + Len(ct)
      BY <1>1, <2>2, <2>3, ConcLen
    <3> QED BY <3>1, <1>1, <2>3
  <2> HIDE DEF ct
  <2>7. host_real_end = Len(h)
    <3>1. host[Len(h) + 1] = ":"
      <4>1. 1 \in 1 .. Len(c)
        BY <2>1
      <4> QED BY <4>1, <2>1, <2>5 DEF At
    <3>2. ASSUME NEW i \in Len(h) + 1 .. Len(host) - 1 PROVE host[i + 1] \notin {":"}
      <4> DEFINE j == i - Len(h)
      <4>1. j \in 1 .. Len(t) /\ (Len(h) + 1) + j = i + 1
        BY <1>1, <2>3, <2>6
      <4> HIDE DEF j
      <4>2. host[(Len(h) + 1) + j] = t[j]
        BY <4>1, <2>5 DEF At
      <4> QED BY <4>1, <4>2, <2>1 DEF Without
    <3>3. Len(h) < Len(host)
      BY <1>1, <2>3, <2>6
    <3>4. FindLast(host, {":"}) = Len(h)
      BY <1>1, <3>1, <3>2, <3>3, LastHere
    <3> QED BY <3>4 DEF host_real_end
  <2>8. HasPort
    <3>1. host_end = HostAt(u) + Len(host) /\ HostAt(u) \in Nat /\ HostAt(u) = Len(u.protocol) + 3
          /\ Len(u.protocol) \in Nat
      BY EndsAre, PartsLaid, UrlIs, TextLen DEF PathAt, HostAt
    <3>2. Len(h) # npos
      BY <1>1 DEF npos
    <3> DEFINE e == host_end
    <3>3. e = (Len(u.protocol) + 3) + ((Len(h) + 1) + Len(t)) /\ Len(u.protocol) \in Nat
      BY <3>1, <2>6
    <3> HIDE DEF e
    <3>4. Len(h) \in Nat /\ Len(t) \in Nat
      BY <2>3, <1>1
    <3>5. Len(h) < e - 1
      <4>1. \A x, y, z \in Nat : y < ((x + 3) + ((y + 1) + z)) - 1
        OBVIOUS
      <4> QED BY ONLY <3>3, <3>4, <4>1
    <3> QED BY <3>2, <3>5, <2>7 DEF HasPort, e
  <2>9. PortText = t
    <3>1. Len(h) + 1 \in Nat
      BY <1>1
    <3> QED BY <3>1, <1>1, <2>1, <2>5, <2>6, <2>7, AtIsPart DEF PortText
  <2>10. Part(host, 0, host_real_end) = h
    <3>1. 0 \in Nat /\ 0 + Len(h) = Len(h)
      BY <1>1
    <3>2. Part(host, 0, 0 + Len(h)) = h
      BY <3>1, <1>1, <2>4, AtIsPart
    <3> QED BY <3>1, <3>2, <2>7
  <2> QED BY <1>3, <2>8, <2>9, <2>10 DEF h, t
<1> QED BY <1>2, <1>3

LEMMA ParsePortRestores ==
    ASSUME IInv, NEW u \in Urls, Restored(u), ParsePort
    PROVE  Restored(u)'
<1>1. /\ raw = Text(u) /\ port = None /\ args = <<>> /\ pc = "port" /\ protocol = u.protocol
      /\ host = u.host \o Colon(u)
  BY DEF Restored, ParsePort
<1>2. raw' = raw /\ args' = args /\ protocol' = protocol
  BY DEF ParsePort
<1>3. parsed = FALSE
  BY <1>1 DEF IInv, TypeOK
<1>4. CASE u.port = None
  <2>1. ~HasPort /\ host = u.host
    BY <1>1, <1>4, ColonIs
  <2>2. pc' = "url" /\ host' = u.host /\ port' = None
    BY <2>1, <1>1 DEF ParsePort, NoPort
  <2>3. ~PortThrows(u) /\ ~PortRefused(u)
    BY <1>4 DEF PortThrows, PortRefused
  <2> QED BY <1>1, <1>2, <1>4, <2>2, <2>3 DEF Restored
<1>5. CASE u.port # None
  <2>1. HasPort /\ PortText = u.port /\ Part(host, 0, host_real_end) = u.host
    BY <1>1, <1>5, ColonIs
  <2>2. TakePort
    BY <2>1 DEF ParsePort, NoPort
  <2>3. Number(u.port) \in Nat /\ MaxInt \in Nat
    <3>1. Len(u.port) \in Nat
      BY <1>5, UrlIs, TextLen
    <3> QED BY <3>1, NumberIsNat, StringsAssumption
  <2>4. CASE BadPort(u.port)
    <3>1. Finish(FALSE)
      BY <2>1, <2>2, <2>4 DEF TakePort
    <3>2. PortRefused(u)
      BY <1>5, <2>4 DEF PortRefused
    <3> QED BY <1>1, <1>2, <3>1, <3>2 DEF Finish, Restored
  <2>5. CASE ~BadPort(u.port) /\ ~IsInt(u.port)
    <3>1. pc' = "threw"
      BY <2>1, <2>2, <2>5 DEF TakePort
    <3>2. PortThrows(u)
      BY <1>5, <2>3, <2>5 DEF PortThrows, IsInt
    <3> QED BY <1>1, <1>2, <3>1, <3>2 DEF Restored
  <2>6. CASE ~BadPort(u.port) /\ IsInt(u.port)
    <3>1. pc' = "url" /\ host' = u.host /\ port' = Number(u.port)
      BY <2>1, <2>2, <2>6 DEF TakePort
    <3>2. ~PortThrows(u) /\ ~PortRefused(u)
      BY <2>3, <2>6 DEF PortThrows, PortRefused, IsInt
    <3> QED BY <1>1, <1>2, <1>5, <3>1, <3>2 DEF Restored
  <2> QED BY <2>4, <2>5, <2>6
<1> QED BY <1>4, <1>5

LEMMA ParseUrlRestores ==
    ASSUME IInv, NEW u \in Urls, Restored(u), ParseUrl
    PROVE  Restored(u)'
<1> DEFINE q == u.query
<1>1. /\ raw = Text(u) /\ args = <<>> /\ pc = "url" /\ protocol = u.protocol /\ host = u.host
      /\ port = IF u.port = None THEN None ELSE Number(u.port)
      /\ ~PortThrows(u) /\ ~PortRefused(u)
  BY DEF Restored, ParseUrl
<1>2. UNCHANGED <<raw, protocol, host, port, args>>
  BY DEF ParseUrl
<1>3. parsed = FALSE
  BY <1>1 DEF IInv, TypeOK
<1>4. /\ url_end = QueryAt(u) /\ (url_end = Len(raw) <=> Len(q) = 0)
      /\ Part(raw, host_end, url_end) = u.path
  BY <1>1, EndsAre
<1>5. url' = u.path
  BY <1>4 DEF ParseUrl
<1>6. q \in Seq(Arguments) /\ Len(q) \in Nat
  BY UrlIs, ArgsTextIs
<1>7. CASE url_end = Len(raw)
  <2>1. Finish(TRUE)
    BY <1>7 DEF ParseUrl
  <2>2. args' = ArgsOf(u)
    <3>1. Len(q) = 0
      BY <1>4, <1>7
    <3>2. ArgsOf(u) = ArgsUpTo(q, Len(q))
      BY <1>6, ArgsAre
    <3>3. ArgsUpTo(q, 0) = <<>>
      BY ArgsNone
    <3> QED BY <3>1, <3>2, <3>3, <1>1, <1>2
  <2> QED BY <1>1, <1>2, <1>5, <2>1, <2>2 DEF Finish, Restored
<1>8. CASE url_end # Len(raw)
  <2>1. arg_start' = QueryAt(u) + 1 /\ pc' = "args"
    BY <1>4, <1>8 DEF ParseUrl
  <2>2. /\ QueryAt(u) \in Nat /\ At(raw, QueryAt(u), ArgsText(q)[1])
        /\ QueryAt(u) + Len(ArgsText(q)[1]) = Len(raw)
    BY <1>1, PartsLaid DEF QueryText
  <2>3. QueryAt(u) + 1 > 0 /\ (QueryAt(u) + 1) - 1 = QueryAt(u)
    BY <2>2
  <2>4. args = ArgsUpTo(q, 1 - 1)
    <3>1. 1 - 1 = 0
      OBVIOUS
    <3> QED BY <3>1, <1>1, ArgsNone
  <2>5. AtArg(u, 1)'
    BY <2>1, <2>2, <2>3, <2>4, <1>2 DEF AtArg
  <2>6. 1 \in 1 .. Len(q) + 1
    BY <1>6
  <2> HIDE DEF q
  <2>7. (\E i \in 1 .. Len(u.query) + 1 : AtArg(u, i))'
    BY <2>5, <2>6 DEF q
  <2> QED BY <1>1, <1>2, <1>5, <2>1, <2>7 DEF Restored
<1> QED BY <1>7, <1>8

LEMMA ParseArgRestores ==
    ASSUME IInv, NEW u \in Urls, Restored(u), ParseArg
    PROVE  Restored(u)'
<1> DEFINE q == u.query
<1>1. /\ raw = Text(u) /\ pc = "args" /\ protocol = u.protocol /\ host = u.host
      /\ port = IF u.port = None THEN None ELSE Number(u.port)
      /\ url = u.path
      /\ ~PortThrows(u) /\ ~PortRefused(u)
  BY DEF Restored, ParseArg
<1>2. UNCHANGED <<raw, protocol, host, port, url>>
  BY DEF ParseArg
<1>3. arg_start \in Nat
  BY DEF IInv, TypeOK
<1>4. PICK i \in 1 .. Len(q) + 1 : AtArg(u, i)
  BY <1>1 DEF Restored
<1>5. q \in Seq(Arguments) /\ Len(q) \in Nat /\ Len(raw) \in Nat
  BY <1>1, UrlIs, ArgsTextIs, PartsLaid
<1>6. CASE i = Len(q) + 1
  <2>1. arg_start >= Len(raw)
    <3>1. Len(ArgsText(q)[i]) = 0
      BY <1>5, <1>6, ArgsTextBegins
    <3>2. arg_start - 1 + 0 = Len(raw)
      BY <3>1, <1>4 DEF AtArg
    <3> QED BY <3>2, <1>3, <1>5
  <2>2. Finish(TRUE) /\ args' = args
    <3>1. ~(arg_start < Len(raw))
      BY <2>1, <1>3, <1>5
    <3> QED BY <3>1 DEF ParseArg
  <2>3. args = ArgsOf(u)
    <3>1. i - 1 = Len(q)
      BY <1>5, <1>6
    <3>2. args = ArgsUpTo(q, i - 1)
      BY <1>4 DEF AtArg
    <3> QED BY <3>1, <3>2, <1>5, ArgsAre
  <2> QED BY <1>1, <1>2, <2>2, <2>3 DEF Finish, Restored
<1>7. CASE i # Len(q) + 1
  <2>1. i \in 1 .. Len(q) /\ i + 1 \in 1 .. Len(q) + 1 /\ i - 1 \in Nat /\ (i - 1) + 1 = i
        /\ (i + 1) - 1 = i
    BY <1>5, <1>7
  <2>2. /\ arg_start < Len(raw) /\ arg_end # npos
        /\ Part(raw, arg_start, arg_end) = q[i].key
        /\ Part(raw, arg_end + 1, value_end) = q[i].value
        /\ value_end \in Nat
        /\ At(raw, value_end, ArgsText(q)[i + 1])
        /\ value_end + Len(ArgsText(q)[i + 1]) = Len(raw)
    BY <1>1, <1>3, <1>4, <2>1, ArgIs
  <2>3. /\ args' = Assign(args, q[i].key, q[i].value)
        /\ arg_start' = value_end + 1 /\ pc' = pc /\ parsed' = parsed
    <3>1. ~(arg_start >= Len(raw))
      BY <2>2, <1>3, <1>5
    <3> QED BY <3>1, <2>2 DEF ParseArg
  <2>4. args' = ArgsUpTo(q, (i + 1) - 1)
    <3>1. args = ArgsUpTo(q, i - 1)
      BY <1>4 DEF AtArg
    <3>2. Assign(ArgsUpTo(q, i - 1), q[(i - 1) + 1].key, q[(i - 1) + 1].value)
            = ArgsUpTo(q, (i - 1) + 1)
      BY <2>1, OneMoreArg
    <3> QED BY <2>1, <2>3, <3>1, <3>2
  <2>5. arg_start' > 0 /\ arg_start' - 1 = value_end
    <3> DEFINE e == value_end
    <3>1. e \in Nat /\ arg_start' = e + 1
      BY <2>2, <2>3
    <3> HIDE DEF e
    <3>2. arg_start' > 0 /\ arg_start' - 1 = e
      BY <3>1
    <3> QED BY <3>2 DEF e
  <2>6. AtArg(u, i + 1)'
    BY <2>2, <2>4, <2>5, <1>2 DEF AtArg
  <2>7. (\E j \in 1 .. Len(u.query) + 1 : AtArg(u, j))'
    BY <2>1, <2>6
  <2>8. pc' = "args"
    BY <2>3, <1>1
  <2> QED BY <1>1, <1>2, <2>7, <2>8 DEF Restored
<1> QED BY <1>6, <1>7

LEMMA RestoredStep == IInv /\ RestoredInv /\ [Next]_vars => RestoredInv'
<1> SUFFICES ASSUME IInv, RestoredInv, [Next]_vars, parts' # None PROVE Restored(parts)'
  BY DEF RestoredInv
<1>1. parts' = parts /\ parts \in Urls
  BY DEF Next, vars, ParseProtocol, ParseHost, ParsePort, ParseUrl, ParseArg, IInv, TypeOK
<1> DEFINE u == parts
<1>2. u \in Urls /\ Restored(u)
  BY <1>1 DEF RestoredInv
<1>3. CASE UNCHANGED vars
  BY <1>2, <1>3 DEF vars, Restored, AtArg
<1>4. CASE Next
  <2>1. PICK w \in Urls : w = parts
    BY <1>1
  <2>2. Restored(w)'
    BY <1>2, <1>4, <2>1, ParseProtocolRestores, ParseHostRestores, ParsePortRestores,
       ParseUrlRestores, ParseArgRestores DEF Next
  <2> QED BY <1>1, <2>1, <2>2
<1> QED BY <1>3, <1>4

LEMMA RestoredInvariance == Spec => []RestoredInv
BY InitIInv, IInvStep, RestoredInit, RestoredStep, PTL DEF Spec

\* Url::Parse: a URL of any parts is taken apart into them, but for a port that
\* is no number, which it refuses, or no int, for which stoi throws.
THEOREM AllPartsRestored == Spec => []PartsRestored
<1>1. IInv /\ RestoredInv => PartsRestored
  <2> SUFFICES ASSUME IInv, RestoredInv, parts # None, pc \in {"done", "threw"}
               PROVE  /\ pc = "threw" <=> PortThrows(parts)
                      /\ pc = "done" => (parsed <=> ~PortRefused(parts))
                      /\ pc = "done" /\ parsed =>
                           /\ protocol = parts.protocol
                           /\ host = parts.host
                           /\ port = IF parts.port = None THEN None ELSE Number(parts.port)
                           /\ url = parts.path
                           /\ args = ArgsOf(parts)
    BY DEF PartsRestored
  <2>1. Restored(parts) /\ parsed \in BOOLEAN
    BY DEF RestoredInv, IInv, TypeOK
  <2>2. PortRefused(parts) => ~PortThrows(parts)
    BY DEF PortRefused, PortThrows
  <2> QED BY <2>1, <2>2 DEF Restored
<1> QED BY <1>1, Invariance, RestoredInvariance, PTL
-----------------------------------------------------------------------------
(***************************************************************************)
(* How far Parse is from its end.                                          *)
(***************************************************************************)
ArgStartInv == pc = "args" => arg_start <= Len(raw) + 1

LEMMA ArgMoves ==
    ASSUME IInv, pc = "args", arg_start < Len(raw), arg_end # npos
    PROVE  /\ Len(raw) \in Nat /\ arg_start \in Nat
           /\ value_end \in Nat /\ arg_start < value_end /\ value_end <= Len(raw)
<1>0. Len(raw) \in Nat /\ arg_start \in Nat
  BY TextLen DEF IInv, TypeOK
<1>1. arg_end \in arg_start .. Len(raw) - 1
  BY <1>0, FindFirstIs DEF arg_end
<1>2. arg_end \in Nat /\ arg_start <= arg_end /\ arg_end + 1 <= Len(raw) /\ arg_end + 1 \in Nat
  BY <1>0, <1>1
<1>3. \/ FindFirst(raw, {"&"}, arg_end + 1) = npos
      \/ FindFirst(raw, {"&"}, arg_end + 1) \in arg_end + 1 .. Len(raw) - 1
  BY <1>0, <1>2, FindFirstIs
<1>4. value_end \in arg_end + 1 .. Len(raw)
  BY <1>0, <1>2, <1>3 DEF value_end, OrEnd
<1> QED BY <1>0, <1>2, <1>4

LEMMA UrlMoves ==
    ASSUME IInv, pc = "url"
    PROVE  Len(raw) \in Nat /\ url_end \in Nat /\ url_end <= Len(raw)
<1>0. raw \in Texts /\ Len(raw) \in Nat
  BY TextLen DEF IInv, TypeOK
<1>1. protocol_end \in 0 .. Len(raw) - 1
  BY DEF IInv, ProtocolInv, HostKnown
<1>2. host_start \in Nat
  BY <1>1 DEF host_start
<1>3. host_end \in host_start .. Len(raw) - 1
  BY DEF IInv, HostInv, PortKnown
<1>4. host_end \in Nat /\ host_end <= Len(raw)
  BY <1>0, <1>2, <1>3
<1>5. url_end \in host_end .. Len(raw)
  BY <1>0, <1>4, UrlEndIs
<1> QED BY <1>0, <1>4, <1>5

LEMMA ArgStartStep == IInv /\ ArgStartInv /\ [Next]_vars => ArgStartInv'
<1> SUFFICES ASSUME IInv, ArgStartInv, [Next]_vars, pc' = "args"
             PROVE  arg_start' <= Len(raw') + 1
  BY DEF ArgStartInv
<1>1. CASE UNCHANGED vars
  BY <1>1 DEF vars, ArgStartInv
<1>2. CASE ParseProtocol \/ ParseHost \/ ParsePort
  BY <1>2 DEF ParseProtocol, ParseHost, ParsePort, NoPort, TakePort, Finish
<1>3. CASE ParseUrl
  <2>1. pc = "url" /\ raw' = raw /\ arg_start' = url_end + 1
    BY <1>3 DEF ParseUrl, Finish
  <2> HIDE DEF url_end
  <2> QED BY <2>1, UrlMoves
<1>4. CASE ParseArg
  <2>1. /\ pc = "args" /\ raw' = raw /\ arg_start < Len(raw) /\ arg_end # npos
        /\ arg_start' = value_end + 1
    BY <1>4 DEF ParseArg, Finish
  <2> HIDE DEF value_end
  <2> QED BY <2>1, ArgMoves
<1> QED BY <1>1, <1>2, <1>3, <1>4 DEF Next

LEMMA ArgStartInvariance == Spec => []ArgStartInv
<1>1. Init => ArgStartInv
  BY DEF Init, Start, ArgStartInv
<1> QED BY <1>1, InitIInv, IInvStep, ArgStartStep, PTL DEF Spec

\* A bound on the steps Parse has left.
StepsLeft ==
    CASE pc = "protocol" -> Len(raw) + 6
      [] pc = "host"     -> Len(raw) + 5
      [] pc = "port"     -> Len(raw) + 4
      [] pc = "url"      -> Len(raw) + 3
      [] pc = "args"     -> Len(raw) + 2 - arg_start
      [] OTHER           -> 0

NearerTheEnd == StepsLeft \in Nat /\ StepsLeft' \in Nat /\ StepsLeft' < StepsLeft

\* Url::Parse: every step, and every turn of the loop over the arguments among
\* them, brings Parse nearer to its end, whatever the string: why ParseEnds
\* holds of strings of any length.
THEOREM ParseGetsOn == Spec => [][NearerTheEnd]_vars
<1>1. IInv /\ ArgStartInv /\ [Next]_vars => [NearerTheEnd]_vars
  <2> SUFFICES ASSUME IInv, ArgStartInv, Next
               PROVE  StepsLeft \in Nat /\ StepsLeft' \in Nat /\ StepsLeft' < StepsLeft
    BY DEF NearerTheEnd
  <2>0. Len(raw) \in Nat /\ arg_start \in Nat /\ raw' = raw
    BY TextLen DEF IInv, TypeOK, Next, ParseProtocol, ParseHost, ParsePort, ParseUrl, ParseArg
  <2>1. CASE ParseProtocol
    <3>1. pc = "protocol" /\ pc' \in {"host", "done"}
      BY <2>1 DEF ParseProtocol, Finish
    <3> QED BY <2>0, <3>1 DEF StepsLeft
  <2>2. CASE ParseHost
    <3>1. pc = "host" /\ pc' \in {"port", "done"}
      BY <2>2 DEF ParseHost, Finish
    <3> QED BY <2>0, <3>1 DEF StepsLeft
  <2>3. CASE ParsePort
    <3>1. pc = "port" /\ pc' \in {"url", "done", "threw"}
      BY <2>3 DEF ParsePort, NoPort, TakePort, Finish
    <3> QED BY <2>0, <3>1 DEF StepsLeft
  <2>4. CASE ParseUrl
    <3>1. pc = "url" /\ (pc' = "done" \/ (pc' = "args" /\ arg_start' = url_end + 1))
      BY <2>4 DEF ParseUrl, Finish
    <3>2. url_end \in Nat /\ url_end <= Len(raw)
      BY <3>1, UrlMoves
    <3> HIDE DEF url_end
    <3> QED BY <2>0, <3>1, <3>2 DEF StepsLeft
  <2>5. CASE ParseArg
    <3>1. pc = "args" /\ arg_start <= Len(raw) + 1
      BY <2>5 DEF ParseArg, ArgStartInv
    <3>2. \/ pc' = "done"
          \/ /\ pc' = "args" /\ arg_start < Len(raw) /\ arg_end # npos
             /\ arg_start' = value_end + 1
      BY <2>5 DEF ParseArg, Finish
    <3>3. CASE pc' = "done"
      BY <2>0, <3>1, <3>3 DEF StepsLeft
    <3>4. CASE /\ pc' = "args" /\ arg_start < Len(raw) /\ arg_end # npos
               /\ arg_start' = value_end + 1
      <4>1. value_end \in Nat /\ arg_start < value_end /\ value_end <= Len(raw)
        BY <3>1, <3>4, ArgMoves
      <4> HIDE DEF value_end
      <4> QED BY <2>0, <3>1, <3>4, <4>1 DEF StepsLeft
    <3> QED BY <3>2, <3>3, <3>4
  <2> QED BY <2>1, <2>2, <2>3, <2>4, <2>5 DEF Next
<1> QED BY <1>1, Invariance, ArgStartInvariance, PTL DEF Spec
-----------------------------------------------------------------------------
(***************************************************************************)
(* HttpMessage: what of a stream s has gone by at place n, and the         *)
(* inductive invariant, in terms of the values that have gone by whole and *)
(* the names before them.                                                  *)
(***************************************************************************)
WholeValues(s, n) == {p \in 1 .. n : s[p].kind = "value" /\ s[p].piece = PieceCount}

NameOf(s, p) == s[p - PieceCount].text

\* Those of the request at place n.
ValuesHere(s, n) == {p \in WholeValues(s, n) : s[p].req = s[n].req}

LastOfName(s, p, S) == \A q \in S : NameOf(s, q) = NameOf(s, p) => q <= p

\* h has of each name the last of the values at places S.
HeadersHave(s, S, h) ==
    \A p \in S : LastOfName(s, p, S) =>
        /\ Whole(NameOf(s, p)) \in DOMAIN h
        /\ h[Whole(NameOf(s, p))] = Whole(s[p].text)

MessageTypeOK ==
    /\ stream \in Streams
    /\ at \in Nat /\ given \in Nat /\ at <= given /\ given <= Len(stream)
    /\ stage \in {"idle", "parse", "complete", "return"}
    /\ errno \in BOOLEAN /\ message_parsed \in BOOLEAN /\ header_parsed \in BOOLEAN

\* Unless a text of the request at `at` came in pieces, http_parser_execute is
\* not inside of one, and __last_field_ is the name it has just gone through.
AtBoundary ==
    at > 0 /\ stream[at].req \notin cut =>
        /\ IsText(stream[at]) => stream[at].piece = PieceCount
        /\ stream[at].kind = "name" => last_field = Whole(stream[at].text)

\* method_ and status_ are of the request that has just ended.
OfEnded ==
    /\ stage = "complete" => at > 0
    /\ at > 0 /\ stream[at].last /\ stage # "complete" => of = stream[at].req

HeadersHere ==
    at > 0 /\ stream[at].req \notin cut =>
        HeadersHave(stream, ValuesHere(stream, at), headers)

HeadersEver ==
    cut = {} =>
        /\ HeadersHave(stream, WholeValues(stream, at), headers)
        /\ DOMAIN headers = {Whole(NameOf(stream, p)) : p \in WholeValues(stream, at)}

Chunks(s, n) == {p \in 1 .. n : s[p].kind = "chunk"}

\* body_ is a chunk of the request that the last chunk is of, unless a text of
\* that request came in pieces.
BodyOf(s, C) ==
    C # {} /\ s[LastOf(C)].req \notin cut =>
        \E p \in C : /\ s[p].piece = 1 /\ s[p].req = s[LastOf(C)].req
                    /\ body = Whole(s[p].text)

BodyHere == BodyOf(stream, Chunks(stream, at))

MessageIInv ==
    /\ MessageTypeOK
    /\ AtBoundary
    /\ OfEnded
    /\ HeadersHere
    /\ HeadersEver
    /\ BodyHere
-----------------------------------------------------------------------------
(***************************************************************************)
(* Runs of tokens.                                                         *)
(***************************************************************************)
LEMMA LastOfIs ==
    ASSUME NEW n \in Nat, NEW S \in SUBSET (0 .. n), S # {}
    PROVE  LastOf(S) \in S /\ \A q \in S : q <= LastOf(S)
BY GreatestOf DEF LastOf

\* What is known of a well-formed stream, token by token.
LEMMA StreamIs == ASSUME NEW s \in Streams PROVE s \in Seq(Tokens) /\ Len(s) \in Nat
<1>1. s \in Seq(Tokens)
  BY StreamsAssumption DEF WellFormed
<1> QED BY <1>1, LenProperties

LEMMA TokenIs ==
    ASSUME NEW s \in Streams, NEW p \in 1 .. Len(s)
    PROVE  /\ s[p] \in Tokens
           /\ IsText(s[p]) /\ s[p].piece > 1 =>
                /\ p > 1
                /\ s[p - 1].kind = s[p].kind /\ s[p - 1].text = s[p].text
                /\ s[p - 1].req = s[p].req /\ s[p - 1].piece = s[p].piece - 1
           /\ s[p].kind = "value" /\ s[p].piece = 1 =>
                /\ p > 1 /\ s[p - 1].kind = "name" /\ s[p - 1].req = s[p].req
                /\ s[p - 1].piece = PieceCount
<1>1. WellFormed(s)
  BY StreamsAssumption
<1>3. s[p] \in Tokens
  BY StreamIs
<1>4. ASSUME IsText(s[p]), s[p].piece > 1
      PROVE  /\ p > 1
             /\ s[p - 1].kind = s[p].kind /\ s[p - 1].text = s[p].text
             /\ s[p - 1].req = s[p].req /\ s[p - 1].piece = s[p].piece - 1
  <2>1. p > 1 /\ s[p - 1] = [s[p] EXCEPT !.piece = @ - 1, !.last = FALSE]
    BY <1>1, <1>4 DEF WellFormed
  <2> QED BY <2>1, <1>3 DEF Tokens
<1>5. ASSUME s[p].kind = "value", s[p].piece = 1
      PROVE  /\ p > 1 /\ s[p - 1].kind = "name" /\ s[p - 1].req = s[p].req
             /\ s[p - 1].piece = PieceCount
  BY <1>1, <1>5 DEF WellFormed
<1> QED BY <1>3, <1>4, <1>5

LEMMA RequestsFollow ==
    ASSUME NEW s \in Streams, NEW p \in 1 .. Len(s), NEW q \in 1 .. Len(s), p <= q
    PROVE  s[p].req <= s[q].req
<1>1. WellFormed(s)
  BY StreamsAssumption
<1>2. s[p].req \in Nat
  BY TokenIs DEF Tokens
<1>3. CASE p = q
  BY <1>2, <1>3
<1>4. CASE p < q
  BY <1>1, <1>4 DEF WellFormed
<1> QED BY <1>3, <1>4

\* The tokens that one data callback is for are pieces of one text, in order.
LEMMA RunIs ==
    ASSUME MessageTypeOK, NEW kind \in {"name", "value", "chunk"}, Sees(kind)
    PROVE  /\ RunEnd \in at + 1 .. given
           /\ \A q \in at + 1 .. RunEnd :
                /\ stream[q].kind = kind
                /\ stream[q].text = stream[at + 1].text
                /\ stream[q].req = stream[at + 1].req
                /\ stream[q].piece = stream[at + 1].piece + (q - (at + 1))
<1>0. at \in Nat /\ given \in Nat /\ at < given /\ given <= Len(stream)
      /\ stream[at + 1].kind = kind /\ Len(stream) \in Nat /\ stream \in Streams
  BY StreamIs DEF MessageTypeOK, Sees, Token
<1>1. at + 1 \in Run
  BY <1>0 DEF Run
<1>2. Run \in SUBSET (0 .. given)
  BY <1>0 DEF Run
<1>3. RunEnd \in Run /\ \A q \in Run : q <= RunEnd
  <2>1. \E p \in Run : \A q \in Run : q <= p
    BY <1>0, <1>1, <1>2, GreatestOf
  <2> QED BY <2>1 DEF RunEnd
<1> DEFINE e == RunEnd
<1>4. e \in at + 1 .. given
      /\ \A q \in at + 2 .. e : /\ stream[q].kind = kind
                                /\ stream[q].piece = stream[q - 1].piece + 1
  BY <1>0, <1>3 DEF Run, Token
<1> HIDE DEF e
<1> DEFINE T == {q \in at + 1 .. e :
                   /\ stream[q].kind = kind
                   /\ stream[q].text = stream[at + 1].text
                   /\ stream[q].req = stream[at + 1].req
                   /\ stream[q].piece = stream[at + 1].piece + (q - (at + 1))}
<1>6. stream[at + 1] \in Tokens
  BY <1>0, TokenIs
<1>7. at + 1 \in T
  <2>1. stream[at + 1].piece = stream[at + 1].piece + ((at + 1) - (at + 1))
    BY <1>0, <1>6, WordsAssumption DEF Tokens
  <2> QED BY <2>1, <1>0, <1>4
<1>8. ASSUME NEW i \in at + 1 .. e - 1, i \in T PROVE i + 1 \in T
  <2>1. i + 1 \in at + 2 .. e /\ i + 1 \in 1 .. Len(stream) /\ (i + 1) - 1 = i /\ i \in Nat
    BY <1>0, <1>4
  <2>2. stream[i + 1].kind = kind /\ stream[i + 1].piece = stream[i].piece + 1
    BY <1>4, <2>1
  <2>3. stream[i] \in Tokens
    BY <1>0, <1>4, TokenIs
  <2>4. stream[i].piece \in 1 .. PieceCount /\ stream[at + 1].piece \in 1 .. PieceCount
    BY <2>3, <1>6 DEF Tokens
  <2>5. IsText(stream[i + 1]) /\ stream[i + 1].piece > 1
    BY <2>2, <2>4, WordsAssumption DEF IsText
  <2>6. stream[i].text = stream[i + 1].text /\ stream[i].req = stream[i + 1].req
    BY <2>1, <2>5, <1>0, TokenIs
  <2>7. stream[i + 1].piece = stream[at + 1].piece + ((i + 1) - (at + 1))
    <3>1. stream[i].piece = stream[at + 1].piece + (i - (at + 1))
      BY <1>8
    <3>2. stream[at + 1].piece \in Int
      BY <2>4
    <3>3. \A a, b, j \in Int : (b + (j - (a + 1))) + 1 = b + ((j + 1) - (a + 1))
      OBVIOUS
    <3>4. at \in Int /\ i \in Int
      BY <2>1, <1>0
    <3> QED BY <3>1, <3>2, <3>3, <3>4, <2>2
  <2> QED BY <2>1, <2>2, <2>6, <2>7, <1>0, <1>4, <1>8
<1>9. \A i \in at + 1 .. e : i \in T
  <2>1. at + 1 \in Nat /\ e \in Nat
    BY <1>0, <1>4
  <2> HIDE DEF T
  <2> QED BY <2>1, <1>7, <1>8, AlongInterval
<1> QED BY <1>4, <1>9 DEF e

\* Before a whole value is the name it belongs to.
LEMMA NameBeforeValue ==
    ASSUME NEW s \in Streams, NEW n \in 0 .. Len(s), NEW p \in WholeValues(s, n)
    PROVE  p - PieceCount \in 1 .. n /\ s[p - PieceCount].kind = "name"
<1> DEFINE N == PieceCount
<1>0. /\ N \in Nat \ {0} /\ n \in Nat /\ p \in 1 .. n /\ p \in 1 .. Len(s)
      /\ s[p].kind = "value" /\ s[p].piece = N
  BY WordsAssumption, StreamIs DEF WholeValues
<1> DEFINE T == {i \in 0 .. N - 1 : /\ p - i >= 1
                                    /\ s[p - i].kind = "value"
                                    /\ s[p - i].piece = N - i}
<1> HIDE DEF N
<1>1. 0 \in T
  BY <1>0
<1>2. ASSUME NEW i \in 0 .. (N - 1) - 1, i \in T PROVE i + 1 \in T
  <2>1. p - i \in 1 .. Len(s) /\ i \in Nat /\ N - i > 1
    BY <1>0, <1>2
  <2>2. IsText(s[p - i]) /\ s[p - i].piece > 1
    BY <2>1, <1>2 DEF IsText
  <2>3. /\ p - i > 1
        /\ s[(p - i) - 1].kind = s[p - i].kind
        /\ s[(p - i) - 1].piece = s[p - i].piece - 1
    BY <2>1, <2>2, TokenIs
  <2>4. i \in Nat /\ N \in Nat /\ p \in Nat /\ p - i > 1
    BY <2>1, <2>3, <1>0
  <2>5. (p - i) - 1 = p - (i + 1) /\ (N - i) - 1 = N - (i + 1) /\ i + 1 \in 0 .. N - 1
        /\ p - (i + 1) >= 1
    BY <2>1, <2>4
  <2> QED BY <2>3, <2>5, <1>2
<1>3. N - 1 \in T
  <2>1. 0 \in Nat /\ N - 1 \in Nat /\ N - 1 \in 0 .. N - 1
    BY <1>0
  <2>2. \A i \in 0 .. N - 1 : i \in T
    <3> HIDE DEF T
    <3> QED BY <2>1, <1>1, <1>2, AlongInterval
  <2> QED BY <2>1, <2>2
<1>4. p - (N - 1) \in 1 .. Len(s) /\ s[p - (N - 1)].kind = "value"
      /\ s[p - (N - 1)].piece = 1
  BY <1>0, <1>3
<1>5. p - (N - 1) > 1 /\ s[(p - (N - 1)) - 1].kind = "name"
  BY <1>4, TokenIs
<1>6. (p - (N - 1)) - 1 = p - N /\ p - N \in 1 .. n
  BY <1>0, <1>5
<1> QED BY <1>5, <1>6 DEF N
-----------------------------------------------------------------------------
(***************************************************************************)
(* From place n of a stream to a later place m.                            *)
(***************************************************************************)
LEMMA ValuesStay ==
    ASSUME NEW s, NEW n \in Nat, NEW m \in Nat, n <= m,
           \A q \in n + 1 .. m : s[q].kind = "value" => s[q].piece # PieceCount
    PROVE  WholeValues(s, m) = WholeValues(s, n)
BY DEF WholeValues

LEMMA OneMoreValue ==
    ASSUME NEW s, NEW n \in Nat, NEW m \in Nat, n < m,
           \A q \in n + 1 .. m - 1 : s[q].kind = "value" => s[q].piece # PieceCount,
           s[m].kind = "value", s[m].piece = PieceCount
    PROVE  WholeValues(s, m) = WholeValues(s, n) \cup {m}
BY DEF WholeValues

LEMMA ValuesHereMove ==
    ASSUME NEW s \in Streams, NEW n \in Nat, NEW m \in Nat, n < m, m <= Len(s),
           NEW New \in SUBSET {m}, WholeValues(s, m) = WholeValues(s, n) \cup New
    PROVE  \/ ValuesHere(s, m) = New
           \/ /\ n > 0 /\ s[n].req = s[m].req
              /\ ValuesHere(s, m) = ValuesHere(s, n) \cup New
<1>1. Len(s) \in Nat /\ m \in 1 .. Len(s)
  BY StreamIs
<1>2. ValuesHere(s, m) = {p \in WholeValues(s, n) : s[p].req = s[m].req} \cup New
  BY DEF ValuesHere
<1>3. CASE {p \in WholeValues(s, n) : s[p].req = s[m].req} = {}
  BY <1>2, <1>3
<1>4. CASE {p \in WholeValues(s, n) : s[p].req = s[m].req} # {}
  <2>1. PICK p \in WholeValues(s, n) : s[p].req = s[m].req
    BY <1>4
  <2>2. p \in 1 .. Len(s) /\ n \in 1 .. Len(s) /\ p <= n
    BY <1>1, <2>1 DEF WholeValues
  <2>3. s[p].req <= s[n].req /\ s[n].req <= s[m].req
    BY <1>1, <2>2, RequestsFollow
  <2>4. s[n].req \in Nat /\ s[m].req \in Nat
    BY <1>1, <2>2, TokenIs DEF Tokens
  <2>5. s[n].req = s[m].req
    BY <2>1, <2>3, <2>4
  <2>6. ValuesHere(s, m) = ValuesHere(s, n) \cup New
    BY <1>2, <2>5 DEF ValuesHere
  <2> QED BY <2>2, <2>5, <2>6
<1> QED BY <1>3, <1>4

LEMMA WholeDiffers == \A a, b : Whole(a) = Whole(b) => a = b
BY DEF Whole, Pieces

\* headers_[name] = value, with a later value.
LEMMA PutHas ==
    ASSUME NEW s, NEW m \in Nat, NEW S \in SUBSET (0 .. m - 1), NEW h, HeadersHave(s, S, h)
    PROVE  LET g == Put(h, Whole(NameOf(s, m)), Whole(s[m].text)) IN
           /\ DOMAIN g = DOMAIN h \cup {Whole(NameOf(s, m))}
           /\ HeadersHave(s, S \cup {m}, g)
<1> DEFINE k == Whole(NameOf(s, m))
           v == Whole(s[m].text)
           g == Put(h, k, v)
<1>1. /\ DOMAIN g = DOMAIN h \cup {k}
      /\ g[k] = v
      /\ \A j \in DOMAIN h : j # k => g[j] = h[j]
  <2> HIDE DEF k, v
  <2> QED BY DEF Put
<1> HIDE DEF g
<1>2. ASSUME NEW p \in S \cup {m}, LastOfName(s, p, S \cup {m})
      PROVE  /\ Whole(NameOf(s, p)) \in DOMAIN g
             /\ g[Whole(NameOf(s, p))] = Whole(s[p].text)
  <2>1. CASE p = m
    BY <1>1, <2>1
  <2>2. CASE p # m
    <3>1. p \in S /\ p \in Nat /\ p < m
      BY <2>2
    <3>2. NameOf(s, m) # NameOf(s, p)
      BY <1>2, <3>1 DEF LastOfName
    <3>3. LastOfName(s, p, S)
      BY <1>2 DEF LastOfName
    <3>4. /\ Whole(NameOf(s, p)) \in DOMAIN h
          /\ h[Whole(NameOf(s, p))] = Whole(s[p].text)
      BY <3>1, <3>3 DEF HeadersHave
    <3>5. Whole(NameOf(s, p)) # k
      BY <3>2, WholeDiffers
    <3> QED BY <3>4, <3>5, <1>1
  <2> QED BY <2>1, <2>2
<1>3. HeadersHave(s, S \cup {m}, g)
  BY <1>2 DEF HeadersHave
<1> QED BY <1>1, <1>3 DEF g

LEMMA SameInterval ==
    ASSUME NEW a \in Nat, NEW b \in Nat, NEW n \in Nat \ {0}, a <= b, a .. b = 1 .. n
    PROVE  a = 1 /\ b = n
<1>1. a \in 1 .. n /\ b \in 1 .. n /\ 1 \in a .. b /\ n \in a .. b
  OBVIOUS
<1> QED BY <1>1

LEMMA CallIs ==
    ASSUME MessageTypeOK, NEW kind \in {"name", "value", "chunk"}, Calls(kind)
    PROVE  /\ at \in Nat /\ at' \in Nat /\ at < at' /\ at' <= given /\ given <= Len(stream)
           /\ \A q \in at + 1 .. at' :
                /\ stream[q].kind = kind
                /\ stream[q].text = stream[at'].text
                /\ stream[q].req = stream[at'].req
                /\ stream[q].piece = stream[at'].piece - (at' - q)
           /\ Reported = Pieces(stream[at'].text, stream[at + 1].piece, stream[at'].piece)
           /\ cut \subseteq cut'
           /\ stream[at'].req \notin cut' =>
                /\ Reported = Whole(stream[at'].text) /\ cut' = cut
                /\ stream[at + 1].piece = 1 /\ stream[at'].piece = PieceCount
<1>1. Sees(kind) /\ at' = RunEnd
  BY DEF Calls, GoesOn
<1>2. /\ RunEnd \in at + 1 .. given
      /\ \A q \in at + 1 .. RunEnd :
           /\ stream[q].kind = kind
           /\ stream[q].text = stream[at + 1].text
           /\ stream[q].req = stream[at + 1].req
           /\ stream[q].piece = stream[at + 1].piece + (q - (at + 1))
  BY <1>1, RunIs
<1>3. at \in Nat /\ given \in Nat /\ given <= Len(stream) /\ Len(stream) \in Nat
      /\ stream \in Streams
  BY StreamIs DEF MessageTypeOK
<1>4. at' \in Nat /\ at < at' /\ at' <= given /\ at' \in at + 1 .. at'
  BY <1>1, <1>2, <1>3
<1>5. stream[at + 1] \in Tokens /\ stream[at'] \in Tokens
  BY <1>3, <1>4, TokenIs
<1>6. stream[at + 1].piece \in Nat /\ stream[at'].piece \in Nat
  BY <1>5, WordsAssumption DEF Tokens
<1>7. /\ stream[at'].kind = kind
      /\ stream[at'].text = stream[at + 1].text
      /\ stream[at'].req = stream[at + 1].req
      /\ stream[at'].piece = stream[at + 1].piece + (at' - (at + 1))
  BY <1>1, <1>2, <1>4
<1>8. ASSUME NEW q \in at + 1 .. at'
      PROVE  /\ stream[q].kind = kind
             /\ stream[q].text = stream[at'].text
             /\ stream[q].req = stream[at'].req
             /\ stream[q].piece = stream[at'].piece - (at' - q)
  <2>1. /\ stream[q].kind = kind
        /\ stream[q].text = stream[at + 1].text
        /\ stream[q].req = stream[at + 1].req
        /\ stream[q].piece = stream[at + 1].piece + (q - (at + 1))
    BY <1>1, <1>2
  <2>2. stream[at + 1].piece + (q - (at + 1)) = stream[at'].piece - (at' - q)
    <3>1. \A a, b, c, d, e \in Int : d = c + (b - (a + 1)) => c + (e - (a + 1)) = d - (b - e)
      OBVIOUS
    <3>2. q \in Int
      BY <1>3, <1>4
    <3>3. /\ stream[at + 1].piece \in Int /\ stream[at'].piece \in Int
          /\ at \in Int /\ at' \in Int
      BY <1>3, <1>4, <1>6
    <3>4. stream[at'].piece = stream[at + 1].piece + (at' - (at + 1))
      BY <1>7
    <3> QED BY ONLY <3>1, <3>2, <3>3, <3>4
  <2> QED BY <1>7, <2>1, <2>2
<1>9. Reported = Pieces(stream[at'].text, stream[at + 1].piece, stream[at'].piece)
  BY <1>1, <1>7 DEF Reported, Token
<1>10. cut' = IF Reported = Whole(stream[at'].text) THEN cut ELSE cut \cup {stream[at'].req}
  BY <1>7 DEF Calls, Token
<1>11. ASSUME stream[at'].req \notin cut'
       PROVE  /\ Reported = Whole(stream[at'].text) /\ cut' = cut
              /\ stream[at + 1].piece = 1 /\ stream[at'].piece = PieceCount
  <2>1. Reported = Whole(stream[at'].text) /\ cut' = cut
    BY <1>10, <1>11
  <2>2. stream[at + 1].piece .. stream[at'].piece = 1 .. PieceCount
    BY <1>9, <2>1 DEF Whole, Pieces
  <2>3. stream[at + 1].piece <= stream[at'].piece
    BY <1>3, <1>4, <1>6, <1>7
  <2>4. stream[at + 1].piece = 1 /\ stream[at'].piece = PieceCount
    BY <1>6, <2>2, <2>3, WordsAssumption, SameInterval
  <2> QED BY <2>1, <2>4
<1> QED BY <1>3, <1>4, <1>8, <1>9, <1>10, <1>11
-----------------------------------------------------------------------------
(***************************************************************************)
(* The steps.                                                              *)
(***************************************************************************)
\* headers_ stays, and no value has gone by whole.
LEMMA HeadersStay ==
    ASSUME MessageIInv, stream' = stream, headers' = headers, cut \subseteq cut',
           at' \in Nat, at <= at', at' <= Len(stream),
           WholeValues(stream, at') = WholeValues(stream, at)
    PROVE  HeadersHere' /\ HeadersEver'
<1>1. stream \in Streams /\ at \in Nat
  BY DEF MessageIInv, MessageTypeOK
<1>2. HeadersEver'
  <2> SUFFICES ASSUME cut' = {}
               PROVE  /\ HeadersHave(stream, WholeValues(stream, at'), headers)
                      /\ DOMAIN headers = {Whole(NameOf(stream, p)) : p \in WholeValues(stream, at')}
    BY DEF HeadersEver
  <2> QED BY DEF MessageIInv, HeadersEver
<1>3. HeadersHere'
  <2> SUFFICES ASSUME at' > 0, stream[at'].req \notin cut'
               PROVE  HeadersHave(stream, ValuesHere(stream, at'), headers)
    BY DEF HeadersHere
  <2>1. CASE at' = at
    BY <2>1 DEF MessageIInv, HeadersHere
  <2>2. CASE at' # at
    <3>1. \/ ValuesHere(stream, at') = {}
          \/ /\ at > 0 /\ stream[at].req = stream[at'].req
             /\ ValuesHere(stream, at') = ValuesHere(stream, at) \cup {}
      <4> DEFINE m == at'
                 New == {}
      <4>1. m \in Nat /\ at < m /\ m <= Len(stream) /\ New \in SUBSET {m}
            /\ WholeValues(stream, m) = WholeValues(stream, at) \cup New
        BY <1>1, <2>2
      <4> HIDE DEF m, New
      <4>2. \/ ValuesHere(stream, m) = New
            \/ /\ at > 0 /\ stream[at].req = stream[m].req
               /\ ValuesHere(stream, m) = ValuesHere(stream, at) \cup New
        BY <4>1, <1>1, ValuesHereMove
      <4> QED BY <4>2 DEF m, New
    <3>2. CASE ValuesHere(stream, at') = {}
      BY <3>2 DEF HeadersHave
    <3>3. CASE /\ at > 0 /\ stream[at].req = stream[at'].req
               /\ ValuesHere(stream, at') = ValuesHere(stream, at) \cup {}
      BY <3>3 DEF MessageIInv, HeadersHere
    <3> QED BY <3>1, <3>2, <3>3
  <2> QED BY <2>1, <2>2
<1> QED BY <1>2, <1>3

LEMMA BodyStays ==
    ASSUME BodyHere, stream' = stream, body' = body, cut \subseteq cut', at \in Nat,
           at' \in Nat, at <= at', \A q \in at + 1 .. at' : stream[q].kind # "chunk"
    PROVE  BodyHere'
<1>1. Chunks(stream, at') = Chunks(stream, at)
  BY DEF Chunks
<1> DEFINE C == Chunks(stream, at)
<1>2. BodyOf(stream, C)
  BY DEF BodyHere
<1> HIDE DEF C
<1>3. BodyOf(stream, C)'
  <2>1. C' = C
    BY <1>1 DEF C
  <2> QED BY <1>2, <2>1 DEF BodyOf
<1> QED BY <1>3 DEF BodyHere, C

\* A step that goes through no token.
LEMMA StandStill ==
    ASSUME MessageIInv, MessageTypeOK', OfEnded',
           UNCHANGED <<stream, at, last_field, headers, body, cut>>
    PROVE  MessageIInv'
<1>1. AtBoundary'
  BY DEF MessageIInv, AtBoundary
<1>2. HeadersHere' /\ HeadersEver'
  BY DEF MessageIInv, HeadersHere, HeadersEver
<1>3. BodyHere'
  BY DEF MessageIInv, BodyHere, BodyOf
<1> QED BY <1>1, <1>2, <1>3 DEF MessageIInv

LEMMA ParseStep == ASSUME MessageIInv, Parse PROVE MessageIInv'
<1>1. given' \in Nat /\ at' = at /\ stream' = stream /\ at' <= given' /\ given' <= Len(stream)
  BY StreamIs DEF Parse, MessageIInv, MessageTypeOK
<1>2. MessageTypeOK'
  BY <1>1 DEF Parse, MessageIInv, MessageTypeOK
<1>3. OfEnded'
  BY DEF Parse, MessageIInv, OfEnded
<1> QED BY <1>2, <1>3, StandStill DEF Parse

LEMMA OnMessageCompleteStep == ASSUME MessageIInv, OnMessageComplete PROVE MessageIInv'
<1>1. MessageTypeOK'
  BY DEF OnMessageComplete, MessageIInv, MessageTypeOK
<1>2. OfEnded'
  BY DEF OnMessageComplete, MessageIInv, OfEnded, Token
<1> QED BY <1>1, <1>2, StandStill DEF OnMessageComplete

LEMMA RefuseStep == ASSUME MessageIInv, Refuse PROVE MessageIInv'
<1>1. MessageTypeOK'
  BY DEF Refuse, MessageIInv, MessageTypeOK
<1>2. OfEnded'
  BY DEF Refuse, Sees, MessageIInv, OfEnded
<1> QED BY <1>1, <1>2, StandStill DEF Refuse

LEMMA ReturnStep == ASSUME MessageIInv, Return PROVE MessageIInv'
<1>1. MessageTypeOK'
  BY DEF Return, MessageIInv, MessageTypeOK
<1>2. OfEnded'
  BY DEF Return, MessageIInv, OfEnded
<1> QED BY <1>1, <1>2, StandStill DEF Return
-----------------------------------------------------------------------------
\* Where the parser goes on.
LEMMA GoesOnIs ==
    ASSUME MessageIInv, stage = "parse", NEW p \in at + 1 .. given, GoesOn(p),
           UNCHANGED <<stream, given, errno, message_parsed, of>>, header_parsed' \in BOOLEAN
    PROVE  MessageTypeOK' /\ OfEnded'
<1>1. at \in Nat /\ given \in Nat /\ at' = p
  BY DEF GoesOn, MessageIInv, MessageTypeOK
<1>2. at' \in Nat /\ at' > 0 /\ at' <= given
  BY <1>1
<1>3. stage' = IF stream[p].last THEN "complete" ELSE "parse"
  BY DEF GoesOn, Token
<1>4. MessageTypeOK'
  BY <1>2, <1>3 DEF MessageIInv, MessageTypeOK
<1>5. OfEnded'
  BY <1>1, <1>2, <1>3 DEF OfEnded
<1> QED BY <1>4, <1>5

\* At the end of the headers, or of a body in chunks.
LEMMA NoTextStep ==
    ASSUME MessageIInv, NEW kind \in {"head", "tail"}, Sees(kind), GoesOn(at + 1),
           UNCHANGED <<stream, given, errno, message_parsed, last_field, headers, body, of, cut>>,
           header_parsed' \in BOOLEAN
    PROVE  MessageIInv'
<1>1. at \in Nat /\ given \in Nat /\ at < given /\ given <= Len(stream) /\ at' = at + 1
      /\ stream[at'].kind = kind /\ stage = "parse" /\ Len(stream) \in Nat
  BY StreamIs DEF MessageIInv, MessageTypeOK, Sees, GoesOn, Token
<1>2. at + 1 \in at + 1 .. given
  BY <1>1
<1>3. MessageTypeOK' /\ OfEnded'
  BY <1>1, <1>2, GoesOnIs
<1>4. at' \in Nat /\ at <= at' /\ at' <= Len(stream) /\ \A q \in at + 1 .. at' : q = at'
  BY <1>1
<1>5. WholeValues(stream, at') = WholeValues(stream, at)
  BY <1>1, <1>4, ValuesStay
<1>6. HeadersHere' /\ HeadersEver'
  BY <1>4, <1>5, HeadersStay
<1>7. BodyHere'
  BY <1>1, <1>4, BodyStays DEF MessageIInv
<1>8. AtBoundary'
  BY <1>1 DEF AtBoundary, IsText
<1> QED BY <1>3, <1>6, <1>7, <1>8 DEF MessageIInv

LEMMA OnHeadersCompleteStep == ASSUME MessageIInv, OnHeadersComplete PROVE MessageIInv'
BY NoTextStep DEF OnHeadersComplete

LEMMA BodyTailStep == ASSUME MessageIInv, BodyTail PROVE MessageIInv'
<1>1. header_parsed' \in BOOLEAN
  BY DEF BodyTail, MessageIInv, MessageTypeOK
<1> QED BY <1>1, NoTextStep DEF BodyTail

\* What the three data callbacks have in common.
LEMMA CallStep ==
    ASSUME MessageIInv, NEW kind \in {"name", "value", "chunk"}, Calls(kind),
           UNCHANGED <<stream, given, errno, message_parsed, header_parsed, of>>,
           kind = "name" => last_field' = Reported
    PROVE  MessageTypeOK' /\ OfEnded' /\ AtBoundary'
<1>0. MessageTypeOK
  BY DEF MessageIInv
<1>1. /\ at \in Nat /\ at' \in Nat /\ at < at' /\ at' <= given
      /\ stream[at'].kind = kind
      /\ stream[at'].req \notin cut' =>
           /\ Reported = Whole(stream[at'].text)
           /\ stream[at'].piece = PieceCount
  BY <1>0, CallIs
<1>2. MessageTypeOK' /\ OfEnded'
  <2>1. at' \in at + 1 .. given
    BY <1>0, <1>1 DEF MessageTypeOK
  <2>2. GoesOn(at') /\ stage = "parse"
    BY DEF Calls, GoesOn, Sees
  <2>3. header_parsed' \in BOOLEAN
    BY <1>0 DEF MessageTypeOK
  <2> DEFINE p == at'
  <2>4. p \in at + 1 .. given /\ GoesOn(p)
    BY <2>1, <2>2
  <2> QED BY <2>2, <2>3, <2>4, GoesOnIs
<1>3. AtBoundary'
  BY <1>1 DEF AtBoundary
<1> QED BY <1>2, <1>3

LEMMA OnHeaderFieldStep == ASSUME MessageIInv, OnHeaderField PROVE MessageIInv'
<1>0. MessageTypeOK /\ Calls("name")
  BY DEF MessageIInv, OnHeaderField
<1>1. MessageTypeOK' /\ OfEnded' /\ AtBoundary'
  BY CallStep DEF OnHeaderField
<1>2. /\ at \in Nat /\ at' \in Nat /\ at <= at' /\ at' <= Len(stream)
      /\ cut \subseteq cut'
      /\ \A q \in at + 1 .. at' : stream[q].kind = "name"
  <2>1. /\ at \in Nat /\ at' \in Nat /\ at < at' /\ at' <= given /\ given <= Len(stream)
        /\ cut \subseteq cut'
        /\ \A q \in at + 1 .. at' : stream[q].kind = "name"
    BY <1>0, CallIs
  <2> QED BY <2>1, <1>0, StreamIs DEF MessageTypeOK
<1>3. WholeValues(stream, at') = WholeValues(stream, at)
  <2>1. at \in Nat /\ at' \in Nat /\ at <= at'
    BY <1>2
  <2>2. \A q \in at + 1 .. at' :
          stream[q].kind = "value" => stream[q].piece # PieceCount
    BY <1>2
  <2> QED BY <2>1, <2>2, ValuesStay
<1>4. HeadersHere' /\ HeadersEver'
  BY <1>2, <1>3, HeadersStay DEF OnHeaderField
<1>5. BodyHere'
  BY <1>2, BodyStays DEF OnHeaderField, MessageIInv
<1> QED BY <1>1, <1>4, <1>5 DEF MessageIInv

LEMMA OnBodyStep == ASSUME MessageIInv, OnBody PROVE MessageIInv'
<1>0. MessageTypeOK /\ Calls("chunk") /\ stream' = stream /\ body' = Reported
      /\ headers' = headers
  BY DEF MessageIInv, OnBody
<1>1. MessageTypeOK' /\ OfEnded' /\ AtBoundary'
  BY CallStep DEF OnBody
<1>2. /\ at \in Nat /\ at' \in Nat /\ at < at' /\ at' <= Len(stream)
      /\ cut \subseteq cut'
      /\ \A q \in at + 1 .. at' : stream[q].kind = "chunk"
      /\ Reported = Pieces(stream[at'].text, stream[at + 1].piece, stream[at'].piece)
      /\ stream[at + 1].piece = stream[at'].piece - (at' - (at + 1))
  <2>1. /\ at \in Nat /\ at' \in Nat /\ at < at' /\ at' <= given /\ given <= Len(stream)
        /\ cut \subseteq cut'
        /\ \A q \in at + 1 .. at' : /\ stream[q].kind = "chunk"
                                    /\ stream[q].piece = stream[at'].piece - (at' - q)
        /\ Reported = Pieces(stream[at'].text, stream[at + 1].piece, stream[at'].piece)
    BY <1>0, CallIs
  <2>2. Len(stream) \in Nat /\ given \in Nat
    BY <1>0, StreamIs DEF MessageTypeOK
  <2>3. at + 1 \in at + 1 .. at'
    BY <2>1
  <2> QED BY <2>1, <2>2, <2>3
<1>3. WholeValues(stream, at') = WholeValues(stream, at)
  <2>1. at \in Nat /\ at' \in Nat /\ at <= at'
    BY <1>2
  <2>2. \A q \in at + 1 .. at' :
          stream[q].kind = "value" => stream[q].piece # PieceCount
    BY <1>2
  <2> QED BY <2>1, <2>2, ValuesStay
<1>4. HeadersHere' /\ HeadersEver'
  BY <1>0, <1>2, <1>3, HeadersStay
<1>5. BodyHere'
  <2> DEFINE C == Chunks(stream, at')
  <2>1. at' \in C /\ at + 1 \in C /\ C \in SUBSET (0 .. at')
    BY <1>2 DEF Chunks
  <2>2. LastOf(C) = at'
    <3>1. LastOf(C) \in C /\ \A q \in C : q <= LastOf(C)
      <4> HIDE DEF C
      <4> QED BY <2>1, <1>2, LastOfIs
    <3>2. LastOf(C) \in 1 .. at' /\ at' <= LastOf(C)
      BY <3>1, <2>1 DEF Chunks
    <3> QED BY <3>2, <1>2
  <2> HIDE DEF C
  <2>3. ASSUME stream[at'].req \notin cut'
        PROVE  /\ stream[at + 1].piece = 1 /\ stream[at + 1].req = stream[at'].req
               /\ body' = Whole(stream[at + 1].text)
    <3>1. at + 1 \in at + 1 .. at'
      BY <1>2
    <3>2. /\ Reported = Whole(stream[at'].text) /\ stream[at + 1].piece = 1
          /\ stream[at + 1].req = stream[at'].req
      BY <1>0, <2>3, <3>1, CallIs
    <3>3. Reported.text = stream[at + 1].text
      BY DEF Reported, Pieces, Token
    <3> QED BY <1>0, <3>2, <3>3 DEF Whole, Pieces
  <2>4. stream[LastOf(C)].req \notin cut' =>
          \E p \in C : /\ stream[p].piece = 1 /\ stream[p].req = stream[LastOf(C)].req
                      /\ body' = Whole(stream[p].text)
    BY <2>1, <2>2, <2>3
  <2> QED BY <2>4, <1>0 DEF BodyHere, BodyOf, C
<1> QED BY <1>1, <1>4, <1>5 DEF MessageIInv

LEMMA OnHeaderValueStep == ASSUME MessageIInv, OnHeaderValue PROVE MessageIInv'
<1>0. /\ MessageTypeOK /\ Calls("value") /\ stream' = stream /\ body' = body
      /\ headers' = Put(headers, last_field, Reported)
  BY DEF MessageIInv, OnHeaderValue
<1>1. MessageTypeOK' /\ OfEnded' /\ AtBoundary'
  BY CallStep DEF OnHeaderValue
<1>2. /\ at \in Nat /\ at' \in Nat /\ at < at' /\ at' <= Len(stream)
      /\ cut \subseteq cut'
      /\ \A q \in at + 1 .. at' : /\ stream[q].kind = "value"
                                  /\ stream[q].req = stream[at'].req
                                  /\ stream[q].piece = stream[at'].piece - (at' - q)
      /\ stream[at'].req \notin cut' =>
           /\ Reported = Whole(stream[at'].text) /\ cut' = cut
           /\ stream[at + 1].piece = 1 /\ stream[at'].piece = PieceCount
  <2>1. Len(stream) \in Nat /\ given \in Nat
    BY <1>0, StreamIs DEF MessageTypeOK
  <2>2. at' <= given /\ given <= Len(stream) /\ at' \in Nat
    BY <1>0, CallIs
  <2>3. at' <= Len(stream)
    BY <2>1, <2>2
  <2> QED BY <2>3, <1>0, CallIs
<1>3. BodyHere'
  BY <1>0, <1>2, BodyStays DEF MessageIInv
<1>4. stream \in Streams
  BY <1>0 DEF MessageTypeOK
\* The value was reported whole, and so was the name before it.
<1>5. CASE stream[at'].req \notin cut'
  <2>1. /\ Reported = Whole(stream[at'].text) /\ cut' = cut
        /\ stream[at + 1].piece = 1 /\ stream[at'].piece = PieceCount
    BY <1>2, <1>5
  <2>2. /\ at + 1 \in at + 1 .. at' /\ at + 1 \in 1 .. Len(stream) /\ (at + 1) - 1 = at
        /\ at' \in at + 1 .. at'
    BY <1>2
  <2>3. at > 0 /\ stream[at].kind = "name" /\ stream[at].req = stream[at'].req
    BY <2>1, <2>2, <1>2, <1>4, TokenIs
  <2>4. last_field = Whole(stream[at].text)
    BY <2>1, <2>3, <1>5 DEF MessageIInv, AtBoundary
  <2>5. at' - PieceCount = at
    <3>1. stream[at + 1].piece = stream[at'].piece - (at' - (at + 1))
      BY <1>2, <2>2
    <3>2. 1 = PieceCount - (at' - (at + 1))
      BY <3>1, <2>1
    <3>3. \A n, a, b \in Int : 1 = n - (b - (a + 1)) => b - n = a
      OBVIOUS
    <3>4. PieceCount \in Int /\ at \in Int /\ at' \in Int
      BY <1>2, WordsAssumption
    <3> QED BY ONLY <3>2, <3>3, <3>4
  <2>6. WholeValues(stream, at') = WholeValues(stream, at) \cup {at'}
    <3>1. ASSUME NEW q \in at + 1 .. at' - 1 PROVE stream[q].piece # PieceCount
      <4>1. q \in at + 1 .. at' /\ q \in Int /\ at' - q > 0
        <5>1. \A a, b \in Int : \A i \in a + 1 .. b - 1 :
                i \in a + 1 .. b /\ i \in Int /\ b - i > 0
          OBVIOUS
        <5>2. at \in Int /\ at' \in Int
          BY <1>2
        <5> QED BY ONLY <5>1, <5>2, q \in at + 1 .. at' - 1
      <4>2. stream[q].piece = PieceCount - (at' - q)
        BY <4>1, <2>1, <1>2
      <4>3. \A n, d \in Int : d > 0 => n - d # n
        OBVIOUS
      <4>4. PieceCount \in Int /\ at' - q \in Int
        BY <4>1, <1>2, WordsAssumption
      <4> QED BY <4>1, <4>2, <4>3, <4>4
    <3> DEFINE m == at'
    <3>2. /\ m \in Nat /\ at < m /\ stream[m].kind = "value" /\ stream[m].piece = PieceCount
          /\ \A q \in at + 1 .. m - 1 : stream[q].kind = "value" => stream[q].piece # PieceCount
      BY <3>1, <2>1, <2>2, <1>2
    <3> HIDE DEF m
    <3>3. WholeValues(stream, m) = WholeValues(stream, at) \cup {m}
      BY <3>2, <1>2, OneMoreValue
    <3> QED BY <3>3 DEF m
  <2>7. headers' = Put(headers, Whole(NameOf(stream, at')), Whole(stream[at'].text))
    BY <2>1, <2>4, <2>5, <1>0 DEF NameOf
  <2>8. \A S \in SUBSET (0 .. at' - 1) : HeadersHave(stream, S, headers) =>
          /\ DOMAIN headers' = DOMAIN headers \cup {Whole(NameOf(stream, at'))}
          /\ HeadersHave(stream, S \cup {at'}, headers')
    <3> DEFINE m == at'
               g == headers'
    <3>1. m \in Nat /\ g = Put(headers, Whole(NameOf(stream, m)), Whole(stream[m].text))
      BY <2>7, <1>2
    <3> HIDE DEF m, g
    <3>2. \A S \in SUBSET (0 .. m - 1) : HeadersHave(stream, S, headers) =>
            /\ DOMAIN g = DOMAIN headers \cup {Whole(NameOf(stream, m))}
            /\ HeadersHave(stream, S \cup {m}, g)
      BY <3>1, PutHas
    <3> QED BY <3>2 DEF m, g
  <2>9. /\ WholeValues(stream, at) \in SUBSET (0 .. at' - 1)
        /\ ValuesHere(stream, at) \in SUBSET (0 .. at' - 1)
        /\ {} \in SUBSET (0 .. at' - 1)
    BY <1>2 DEF WholeValues, ValuesHere
  <2>10. HeadersEver'
    <3> SUFFICES ASSUME cut' = {}
                 PROVE  /\ HeadersHave(stream, WholeValues(stream, at'), headers')
                        /\ DOMAIN headers' = {Whole(NameOf(stream, p)) : p \in WholeValues(stream, at')}
      BY <1>0 DEF HeadersEver
    <3>1. /\ HeadersHave(stream, WholeValues(stream, at), headers)
          /\ DOMAIN headers = {Whole(NameOf(stream, p)) : p \in WholeValues(stream, at)}
      BY <2>1 DEF MessageIInv, HeadersEver
    <3>2. /\ DOMAIN headers' = DOMAIN headers \cup {Whole(NameOf(stream, at'))}
          /\ HeadersHave(stream, WholeValues(stream, at) \cup {at'}, headers')
      BY <3>1, <2>8, <2>9
    <3> QED BY <3>1, <3>2, <2>6
  <2>11. HeadersHere'
    <3> SUFFICES HeadersHave(stream, ValuesHere(stream, at'), headers')
      BY <1>0 DEF HeadersHere
    <3>1. HeadersHave(stream, ValuesHere(stream, at), headers)
      BY <2>1, <2>3, <1>5 DEF MessageIInv, HeadersHere
    <3>2. HeadersHave(stream, ValuesHere(stream, at) \cup {at'}, headers')
      BY <3>1, <2>8, <2>9
    <3>3. ValuesHere(stream, at') = ValuesHere(stream, at) \cup {at'}
      BY <2>3, <2>6 DEF ValuesHere
    <3> QED BY <3>2, <3>3
  <2> QED BY <2>10, <2>11, <1>1, <1>3 DEF MessageIInv
<1>6. CASE stream[at'].req \in cut'
  <2>1. HeadersHere' /\ HeadersEver'
    BY <1>0, <1>6 DEF HeadersHere, HeadersEver
  <2> QED BY <2>1, <1>1, <1>3 DEF MessageIInv
<1> QED BY <1>5, <1>6
-----------------------------------------------------------------------------
LEMMA MessageInitIInv == MessageInit => MessageIInv
<1> SUFFICES ASSUME MessageInit PROVE MessageIInv
  OBVIOUS
<1>1. Len(stream) \in Nat
  BY StreamIs DEF MessageInit
<1>2. MessageTypeOK
  <2>1. 0 \in Nat /\ 0 <= 0 /\ 0 <= Len(stream)
    BY <1>1
  <2> QED BY <2>1 DEF MessageInit, MessageTypeOK
<1>3. WholeValues(stream, at) = {}
  BY DEF MessageInit, WholeValues
<1>4. HeadersEver
  BY <1>3 DEF MessageInit, HeadersEver, HeadersHave
<1>5. BodyHere
  BY DEF MessageInit, BodyHere, BodyOf, Chunks
<1> QED BY <1>2, <1>4, <1>5
        DEF MessageInit, MessageIInv, AtBoundary, OfEnded, HeadersHere

LEMMA MessageStep == MessageIInv /\ [MessageNext]_message_vars => MessageIInv'
<1> SUFFICES ASSUME MessageIInv, [MessageNext]_message_vars PROVE MessageIInv'
  OBVIOUS
<1>1. CASE UNCHANGED message_vars
  <2>1. MessageTypeOK'
    BY <1>1 DEF message_vars, MessageIInv, MessageTypeOK
  <2>2. OfEnded'
    BY <1>1 DEF message_vars, MessageIInv, OfEnded
  <2> QED BY <1>1, <2>1, <2>2, StandStill DEF message_vars
<1>2. CASE MessageNext
  BY <1>2, ParseStep, OnHeaderFieldStep, OnHeaderValueStep, OnHeadersCompleteStep, OnBodyStep,
     BodyTailStep, OnMessageCompleteStep, RefuseStep, ReturnStep DEF MessageNext
<1> QED BY <1>1, <1>2

LEMMA MessageInvariance == MessageSpec => []MessageIInv
BY MessageInitIInv, MessageStep, PTL DEF MessageSpec

LEMMA ValuesAre ==
    ASSUME MessageTypeOK, NEW lo \in Nat \ {0}, NEW name
    PROVE  ValuesOf(name, lo) = {p \in WholeValues(stream, at) : p >= lo /\ NameOf(stream, p) = name}
<1>1. at \in Nat
  BY DEF MessageTypeOK
<1> QED BY <1>1 DEF ValuesOf, WholeValues, NameOf, Token

\* The last of all values of a name at places S.
LEMMA LastIsLast ==
    ASSUME NEW s, NEW n \in Nat, NEW S \in SUBSET (1 .. n), NEW V \in SUBSET S, V # {},
           \A p \in V : \A q \in S : NameOf(s, q) = NameOf(s, p) => q \in V
    PROVE  LastOf(V) \in V /\ LastOfName(s, LastOf(V), S)
<1>1. V \in SUBSET (0 .. n)
  <2>1. \A p \in V : p \in 1 .. n
    OBVIOUS
  <2> QED BY <2>1
<1>2. LastOf(V) \in V /\ \A q \in V : q <= LastOf(V)
  BY <1>1, LastOfIs
<1> QED BY <1>2 DEF LastOfName

\* OnHeaderValue: of the names of all requests of a connection, headers_ has
\* the last value, and nothing else, as long as no text came in pieces.
THEOREM HeadersOfAllRequests == MessageSpec => []HeadersAccumulate
<1>1. MessageIInv => HeadersAccumulate
  <2> SUFFICES ASSUME MessageIInv, cut = {} PROVE HeadersAccumulate
    BY DEF HeadersAccumulate
  <2>0. MessageTypeOK /\ at \in Nat /\ stream \in Streams /\ at \in 0 .. Len(stream)
    BY StreamIs DEF MessageIInv, MessageTypeOK
  <2> DEFINE W == WholeValues(stream, at)
  <2>1. W \in SUBSET (1 .. at)
    BY DEF WholeValues
  <2>2. HeadersHave(stream, W, headers) /\ DOMAIN headers = {Whole(NameOf(stream, p)) : p \in W}
    BY DEF MessageIInv, HeadersEver
  <2>3. \A p \in W : NameOf(stream, p) \in Names
    BY <2>0, NameBeforeValue DEF Names, NameOf, Token
  <2>4. \A name : ValuesOf(name, 1) = {p \in W : NameOf(stream, p) = name}
    <3> TAKE name
    <3>1. ValuesOf(name, 1) = {p \in W : p >= 1 /\ NameOf(stream, p) = name}
      BY <2>0, ValuesAre
    <3> QED BY <3>1, <2>1
  <2> HIDE DEF W
  <2>5. DOMAIN headers = {Whole(name) : name \in {n \in Names : ValuesOf(n, 1) # {}}}
    <3>1. \A p \in W : NameOf(stream, p) \in {n \in Names : ValuesOf(n, 1) # {}}
      BY <2>3, <2>4
    <3>2. \A n \in Names : ValuesOf(n, 1) # {} => \E p \in W : NameOf(stream, p) = n
      BY <2>4
    <3> QED BY <3>1, <3>2, <2>2
  <2>6. ASSUME NEW name \in Names, ValuesOf(name, 1) # {}
        PROVE  headers[Whole(name)] = Whole(Token(LastOf(ValuesOf(name, 1))).text)
    <3> DEFINE V == ValuesOf(name, 1)
    <3>1. V \in SUBSET W /\ V # {} /\ \A p \in W : p \in V <=> NameOf(stream, p) = name
      BY <2>4, <2>6
    <3> HIDE DEF V
    <3>2. LastOf(V) \in V /\ LastOfName(stream, LastOf(V), W)
      BY <3>1, <2>0, <2>1, LastIsLast
    <3>3. headers[Whole(name)] = Whole(stream[LastOf(V)].text)
      BY <3>1, <3>2, <2>2 DEF HeadersHave
    <3> QED BY <3>3 DEF V, Token
  <2> QED BY <2>5, <2>6 DEF HeadersAccumulate
<1> QED BY <1>1, MessageInvariance, PTL

\* The request that has just been parsed: all places from its first to `at`.
LEMMA RequestHere ==
    ASSUME MessageIInv, Ready
    PROVE  /\ MessageTypeOK /\ at \in Nat /\ stream \in Streams /\ at \in 1 .. Len(stream)
           /\ of = stream[at].req
           /\ Begin(of) \in 1 .. at
           /\ \A p \in 1 .. at : p >= Begin(of) <=> stream[p].req = of
<1> DEFINE r == stream[at].req
           b == Begin(r)
<1>0. /\ MessageTypeOK /\ at \in Nat /\ stream \in Streams /\ at \in 1 .. Len(stream)
      /\ stage = "idle" /\ stream[at].last
  BY StreamIs DEF MessageIInv, MessageTypeOK, Ready, Token
<1>1. of = stream[at].req
  BY <1>0 DEF MessageIInv, OfEnded
<1>3. /\ b \in 1 .. at /\ stream[b].req = r
      /\ \A q \in 1 .. at : stream[q].req = r => b <= q
  <2> DEFINE R == {p \in 1 .. at : stream[p].req = r}
  <2>1. R \in SUBSET Nat /\ R # {}
    BY <1>0
  <2>2. \E p \in R : \A q \in R : p <= q
    <3> HIDE DEF R
    <3> QED BY <2>1, LeastOf
  <2>3. \E p \in 1 .. at : Token(p).req = r /\ \A q \in 1 .. at : Token(q).req = r => p <= q
    BY <2>2 DEF Token
  <2> HIDE DEF r
  <2> QED BY <2>3 DEF Begin, Token
<1>4. \A p \in 1 .. at : p >= b <=> stream[p].req = r
  <2> TAKE p \in 1 .. at
  <2>1. p \in 1 .. Len(stream) /\ b \in 1 .. Len(stream) /\ Len(stream) \in Nat
    BY <1>0, <1>3, StreamIs
  <2>2. ASSUME p >= b PROVE stream[p].req = r
    <3>1. b <= p /\ p <= at
      BY <1>0, <1>3, <2>2
    <3>2. stream[b].req <= stream[p].req /\ stream[p].req <= stream[at].req
      BY <1>0, <2>1, <3>1, RequestsFollow
    <3>3. stream[p].req \in Nat /\ stream[at].req \in Nat
      BY <1>0, <2>1, TokenIs DEF Tokens
    <3> QED BY <1>3, <3>2, <3>3
  <2> QED BY <1>3, <2>2
<1> QED BY <1>0, <1>1, <1>3, <1>4

\* OnBody, OnMessageComplete: a body that comes in one chunk is in body_ when
\* Parse is done with its request, whatever earlier requests left there, if no
\* text of that request came in pieces.
THEOREM BodyOfOwnRequest == MessageSpec => []OwnBody
<1>1. MessageIInv => OwnBody
  <2> DEFINE own == {p \in Begin(of) .. at : Token(p).kind = "chunk" /\ Token(p).piece = 1}
  <2> SUFFICES ASSUME MessageIInv, Ready, of \notin cut, NEW p \in own, own = {p}
               PROVE  body = Whole(Token(p).text)
    BY DEF OwnBody
  <2>1. /\ at \in Nat /\ at \in 1 .. Len(stream) /\ of = stream[at].req /\ stream \in Streams
        /\ Begin(of) \in 1 .. at /\ \A q \in 1 .. at : q >= Begin(of) <=> stream[q].req = of
    BY RequestHere
  <2> DEFINE C == Chunks(stream, at)
  <2>2. p \in C /\ p >= Begin(of) /\ C \in SUBSET (0 .. at)
    BY <2>1 DEF Chunks, Token
  <2>3. BodyOf(stream, C)
    BY DEF MessageIInv, BodyHere
  <2>4. \A q \in C : q \in 1 .. at /\ stream[q].kind = "chunk"
    BY DEF Chunks
  <2> HIDE DEF C
  <2>5. LastOf(C) \in C /\ p <= LastOf(C)
    BY <2>1, <2>2, LastOfIs
  <2>6. stream[LastOf(C)].req = of
    <3> DEFINE m == LastOf(C)
    <3>1. m \in 1 .. at /\ p \in 1 .. at /\ p <= m
      BY <2>2, <2>4, <2>5
    <3> HIDE DEF m
    <3>2. m >= Begin(of)
      BY <2>1, <2>2, <3>1
    <3>3. stream[m].req = of
      BY <2>1, <3>1, <3>2
    <3> QED BY <3>3 DEF m
  <2>7. PICK q \in C : /\ stream[q].piece = 1 /\ stream[q].req = of
                       /\ body = Whole(stream[q].text)
    BY <2>2, <2>3, <2>6 DEF BodyOf
  <2>8. q \in own
    BY <2>1, <2>4, <2>7 DEF Token
  <2> QED BY <2>7, <2>8 DEF Token
<1> QED BY <1>1, MessageInvariance, PTL

\* OnHeaderValue, OnMessageComplete: each header of a request is in headers_
\* when Parse is done with it, the last of those with the same name, whatever
\* earlier requests left there, if none of its texts came in pieces.
THEOREM HeadersOfOwnRequest == MessageSpec => []OwnHeaders
<1>1. MessageIInv => OwnHeaders
  <2> SUFFICES ASSUME MessageIInv, Ready, of \notin cut, NEW name \in Names,
                      ValuesOf(name, Begin(of)) # {}
               PROVE  LET own == ValuesOf(name, Begin(of)) IN
                      /\ Whole(name) \in DOMAIN headers
                      /\ headers[Whole(name)] = Whole(Token(LastOf(own)).text)
    BY DEF OwnHeaders
  <2> DEFINE b == Begin(of)
  <2>0. /\ MessageTypeOK /\ at \in Nat /\ stream \in Streams /\ at \in 1 .. Len(stream)
        /\ of = stream[at].req /\ b \in 1 .. at
        /\ \A p \in 1 .. at : p >= b <=> stream[p].req = of
    BY RequestHere
  <2>2. HeadersHave(stream, ValuesHere(stream, at), headers)
    BY <2>0 DEF MessageIInv, HeadersHere
  <2>5. ValuesOf(name, b) = {p \in ValuesHere(stream, at) : NameOf(stream, p) = name}
    <3>1. b \in Nat \ {0}
      BY <2>0
    <3>2. ValuesOf(name, b) = {p \in WholeValues(stream, at) : p >= b /\ NameOf(stream, p) = name}
      BY <2>0, <3>1, ValuesAre
    <3>3. WholeValues(stream, at) \in SUBSET (1 .. at)
      BY DEF WholeValues
    <3> HIDE DEF b
    <3> QED BY <2>0, <3>2, <3>3 DEF ValuesHere
  <2>6. ValuesHere(stream, at) \in SUBSET (1 .. at)
    BY DEF ValuesHere, WholeValues
  <2> DEFINE V == ValuesOf(name, Begin(of))
             H == ValuesHere(stream, at)
  <2>8. /\ V \in SUBSET H /\ V # {} /\ \A p \in H : p \in V <=> NameOf(stream, p) = name
        /\ H \in SUBSET (1 .. at) /\ HeadersHave(stream, H, headers)
    BY <2>2, <2>5, <2>6
  <2> HIDE DEF V, H
  <2>9. LastOf(V) \in V /\ LastOfName(stream, LastOf(V), H)
    BY <2>0, <2>8, LastIsLast
  <2>10. Whole(name) \in DOMAIN headers /\ headers[Whole(name)] = Whole(stream[LastOf(V)].text)
    BY <2>8, <2>9 DEF HeadersHave
  <2> QED BY <2>10 DEF V, Token
<1> QED BY <1>1, MessageInvariance, PTL
=============================================================================
