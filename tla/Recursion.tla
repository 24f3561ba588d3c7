------------------------------ MODULE Recursion ------------------------------
(***************************************************************************)
(* Induction and recursion over the natural numbers, stated about sets and *)
(* functions.  The induction theorems of the library are about an operator *)
(* P(_), which no installed prover can instantiate; a set {n \in Nat : ..} *)
(* is a value like any other.  Both results rest on the library's theorems *)
(* that the natural numbers are well ordered and that a non-empty subset   *)
(* of a well-founded set has a minimal element.                            *)
(***************************************************************************)
EXTENDS Integers, WellFoundedInduction, TLAPS

\* A set of natural numbers that is not empty has a least element.
LEMMA LeastNumber ==
  ASSUME NEW T, T \subseteq Nat, T # {}
  PROVE  \E n \in T : \A m \in T : n <= m
<1>1. PICK R : R = OpToRel(<, Nat)
  OBVIOUS
<1>2. IsWellFoundedOn(R, Nat)
  BY <1>1, NatLessThanWellFounded
<1>3. PICK x \in T : \A y \in T : ~ (<<y, x>> \in R)
  BY <1>2, WFMin
<1>4. \A a, b \in Nat : a < b => <<a, b>> \in R
  <2>1. R = {ss \in Nat \X Nat : ss[1] < ss[2]}
    BY <1>1 DEF OpToRel
  <2> QED
    BY <2>1
<1>5. ASSUME NEW m \in T PROVE x <= m
  <2>1. x \in Nat /\ m \in Nat
    OBVIOUS
  <2>2. ~ (m < x)
    BY <1>3, <1>4, <2>1
  <2> QED
    BY <2>1, <2>2
<1> QED
  BY <1>5

\* Induction: what holds of zero and of every successor holds of all numbers.
LEMMA Induction ==
  ASSUME NEW T, 0 \in T, \A n \in Nat : n \in T => n + 1 \in T
  PROVE  Nat \subseteq T
<1> SUFFICES ASSUME Nat \ T # {} PROVE FALSE
  OBVIOUS
<1>1. PICK n \in Nat \ T : \A m \in Nat \ T : n <= m
  BY LeastNumber
<1>2. n - 1 \in Nat /\ n = (n - 1) + 1
  BY <1>1
<1> QED
  BY <1>1, <1>2

-----------------------------------------------------------------------------
(* Recursion                                                               *)

\* g is the beginning, up to n, of the function that starts at c and goes on as
\* G says.
Follows(g, n, c, G) ==
    g[0] = c /\ \A k \in 0 .. n - 1 : g[k + 1] = G[<<g[k], k>>]

\* There is at most one such function.
LEMMA SameValues ==
  ASSUME NEW G, NEW c, NEW n \in Nat, NEW m \in Nat, n <= m,
         NEW g, Follows(g, n, c, G), NEW h, Follows(h, m, c, G)
  PROVE  \A k \in 0 .. n : g[k] = h[k]
<1>1. PICK T : T = {k \in Nat : k <= n => g[k] = h[k]}
  OBVIOUS
<1>2. 0 \in T
  BY <1>1 DEF Follows
<1>3. \A k \in Nat : k \in T => k + 1 \in T
  <2> SUFFICES ASSUME NEW k \in Nat, k \in T, k + 1 <= n PROVE g[k + 1] = h[k + 1]
    BY <1>1
  <2>1. k \in 0 .. n - 1 /\ k \in 0 .. m - 1 /\ k <= n
    OBVIOUS
  <2>2. g[k] = h[k]
    BY <1>1, <2>1
  <2> QED
    BY <2>1, <2>2 DEF Follows
<1>4. Nat \subseteq T
  BY <1>2, <1>3, Induction
<1>5. ASSUME NEW k \in 0 .. n PROVE k \in Nat /\ k <= n
  OBVIOUS
<1> QED
  BY <1>1, <1>4, <1>5

\* A beginning can be continued by one value.
LEMMA Longer ==
  ASSUME NEW X, NEW c \in X, NEW G, \A x \in X, k \in Nat : G[<<x, k>>] \in X,
         NEW n \in Nat, NEW g \in [0 .. n -> X], Follows(g, n, c, G)
  PROVE  \E h \in [0 .. n + 1 -> X] : Follows(h, n + 1, c, G)
<1>1. PICK h : h = [k \in 0 .. n + 1 |-> IF k <= n THEN g[k] ELSE G[<<g[n], n>>]]
  OBVIOUS
<1>2. n \in 0 .. n /\ G[<<g[n], n>>] \in X
  OBVIOUS
<1>3. ASSUME NEW k \in 0 .. n + 1 PROVE h[k] \in X
  <2>1. k \in 0 .. n \/ ~ (k <= n)
    OBVIOUS
  <2> QED
    BY <1>1, <1>2, <2>1
<1>4. h \in [0 .. n + 1 -> X]
  BY <1>1, <1>3
<1>5. h[0] = c
  BY <1>1 DEF Follows
<1>6. ASSUME NEW k \in 0 .. (n + 1) - 1 PROVE h[k + 1] = G[<<h[k], k>>]
  <2>1. k \in 0 .. n /\ k \in 0 .. n + 1 /\ k + 1 \in 0 .. n + 1 /\ k \in Int
    OBVIOUS
  <2>2. h[k] = g[k]
    BY <1>1, <2>1
  <2>3. CASE k = n
    BY <1>1, <2>1, <2>2, <2>3
  <2>4. CASE k # n
    <3>1. k \in 0 .. n - 1 /\ k + 1 <= n
      BY <2>1, <2>4
    <3>2. h[k + 1] = g[k + 1]
      BY <1>1, <2>1, <3>1
    <3> QED
      BY <2>2, <3>1, <3>2 DEF Follows
  <2> QED
    BY <2>3, <2>4
<1> QED
  BY <1>4, <1>5, <1>6 DEF Follows

\* f is defined on the natural numbers, starts at c and goes on as G says, with
\* the last value and its place.
Recurs(f, X, c, G) ==
    /\ f \in [Nat -> X]
    /\ f[0] = c
    /\ \A n \in Nat : f[n + 1] = G[<<f[n], n>>]

\* Recursion: there is such a function.
LEMMA RecursiveFunction ==
  ASSUME NEW X, NEW c \in X, NEW G, \A x \in X, k \in Nat : G[<<x, k>>] \in X
  PROVE  \E f : Recurs(f, X, c, G)
<1>1. PICK T : T = {n \in Nat : \E g \in [0 .. n -> X] : Follows(g, n, c, G)}
  OBVIOUS
<1>2. 0 \in T
  <2>1. PICK g : g = [k \in 0 .. 0 |-> c]
    OBVIOUS
  <2>2. g \in [0 .. 0 -> X] /\ Follows(g, 0, c, G)
    BY <2>1 DEF Follows
  <2> QED
    BY <1>1, <2>2
<1>3. ASSUME NEW n \in Nat, n \in T PROVE n + 1 \in T
  <2>1. PICK g \in [0 .. n -> X] : Follows(g, n, c, G)
    BY <1>1, <1>3
  <2>2. \E h \in [0 .. n + 1 -> X] : Follows(h, n + 1, c, G)
    BY <2>1, Longer
  <2> QED
    BY <1>1, <2>2
<1>4. Nat \subseteq T
  BY <1>2, <1>3, Induction
<1>5. PICK F : F = [n \in Nat |-> CHOOSE g : g \in [0 .. n -> X] /\ Follows(g, n, c, G)]
  OBVIOUS
<1>6. ASSUME NEW n \in Nat PROVE F[n] \in [0 .. n -> X] /\ Follows(F[n], n, c, G)
  <2>1. \E g : g \in [0 .. n -> X] /\ Follows(g, n, c, G)
    BY <1>1, <1>4
  <2> QED
    BY <1>5, <2>1
<1>7. PICK f : f = [n \in Nat |-> F[n][n]]
  OBVIOUS
<1>8. f \in [Nat -> X]
  <2>1. ASSUME NEW n \in Nat PROVE F[n][n] \in X
    <3>1. n \in 0 .. n
      OBVIOUS
    <3> QED
      BY <1>6, <3>1
  <2> QED
    BY <1>7, <2>1
<1>9. f[0] = c
  BY <1>6, <1>7 DEF Follows
<1>10. ASSUME NEW n \in Nat PROVE f[n + 1] = G[<<f[n], n>>]
  <2>1. n + 1 \in Nat /\ n <= n + 1 /\ n \in 0 .. n /\ n \in 0 .. (n + 1) - 1
    OBVIOUS
  <2>2. Follows(F[n], n, c, G) /\ Follows(F[n + 1], n + 1, c, G)
    BY <1>6, <2>1
  <2>3. F[n][n] = F[n + 1][n]
    <3>1. PICK g, h : g = F[n] /\ h = F[n + 1]
      OBVIOUS
    <3>2. Follows(g, n, c, G) /\ Follows(h, n + 1, c, G)
      BY <2>2, <3>1
    <3>3. PICK m \in Nat : m = n + 1 /\ n <= m
      BY <2>1
    <3>4. \A k \in 0 .. n : g[k] = h[k]
      BY <3>2, <3>3, SameValues
    <3> QED
      BY <2>1, <3>1, <3>4
  <2>4. F[n + 1][n + 1] = G[<<F[n + 1][n], n>>]
    BY <2>1, <2>2 DEF Follows
  <2> QED
    BY <1>7, <2>1, <2>3, <2>4
<1> QED
  BY <1>8, <1>9, <1>10 DEF Recurs
=============================================================================
