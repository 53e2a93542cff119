-------------------------- MODULE Selection_proofs --------------------------
(***************************************************************************)
(* Induction over the natural numbers, and what it shows of Selection.     *)
(***************************************************************************)
EXTENDS Selection, SequenceTheorems, WellFoundedInduction, TLAPS

(* Every non-empty set of naturals has a least element ...                 *)
LEMMA LeastNatural ==
  ASSUME NEW T, T \subseteq Nat, T # {}
  PROVE  \E m \in T : \A k \in T : m <= k
  <1> DEFINE R == OpToRel(<, Nat)
  <1>1. IsWellFoundedOn(R, Nat)
    BY NatLessThanWellFounded
  <1>2. \A x, y \in Nat : y < x => <<y, x>> \in R
    BY DEF OpToRel
  <1> HIDE DEF R
  <1>3. PICK m \in T : \A y \in T : ~ (<<y, m>> \in R)
    BY <1>1, WFMin
  <1>4. \A k \in T : m <= k
    <2> TAKE k \in T
    <2>1. ~(k < m) /\ k \in Nat /\ m \in Nat
      BY <1>2, <1>3
    <2> QED
      BY <2>1
  <1> QED
    BY <1>4

(* ... which gives induction, for a set in place of a predicate.           *)
LEMMA SetInduction ==
  ASSUME NEW S, 0 \in S, \A n \in Nat : n \in S => n + 1 \in S
  PROVE  \A n \in Nat : n \in S
  <1> SUFFICES ASSUME Nat \ S # {} PROVE FALSE
    OBVIOUS
  <1>1. PICK m \in Nat \ S : \A k \in Nat \ S : m <= k
    BY LeastNatural
  <1>2. m # 0 /\ m - 1 \in Nat
    BY <1>1
  <1>3. m - 1 \in S
    BY <1>1, <1>2
  <1> QED
    BY <1>1, <1>2, <1>3

-----------------------------------------------------------------------------
(* The prefixes At goes through.                                           *)
Unfolds(f, s, I, n) ==
  f = [i \in 0..n |-> IF i = 0 THEN <<>>
                      ELSE IF i \in I THEN Append(f[i - 1], s[i]) ELSE f[i - 1]]

Chosen(s, I) == CHOOSE f : f = [i \in 0..Len(s) |->
                  IF i = 0 THEN <<>>
                  ELSE IF i \in I THEN Append(f[i - 1], s[i]) ELSE f[i - 1]]

LEMMA PrefixesExist ==
  ASSUME NEW s, NEW I, Len(s) \in Nat
  PROVE  Unfolds(Chosen(s, I), s, I, Len(s))
  <1> DEFINE S == {n \in Nat : \E f : Unfolds(f, s, I, n)}
  <1>1. 0 \in S
    <2> DEFINE f == [i \in 0..0 |-> <<>>]
    <2>1. Unfolds(f, s, I, 0)
      BY DEF Unfolds
    <2> QED
      BY <2>1
  <1>2. ASSUME NEW n \in Nat, n \in S PROVE n + 1 \in S
    <2>1. PICK f : Unfolds(f, s, I, n)
      BY <1>2
    <2> DEFINE next == IF n + 1 \in I THEN Append(f[n], s[n + 1]) ELSE f[n]
               g == [i \in 0..(n + 1) |-> IF i = n + 1 THEN next ELSE f[i]]
    <2>2. \A i \in 0..n : f[i] = IF i = 0 THEN <<>>
                                 ELSE IF i \in I THEN Append(f[i - 1], s[i]) ELSE f[i - 1]
      BY <2>1 DEF Unfolds
    <2> HIDE DEF next
    <2>3. (\A i \in 0..n : g[i] = f[i]) /\ g[n + 1] = next
      OBVIOUS
    <2>4. g = [i \in 0..(n + 1) |-> g[i]]
      OBVIOUS
    <2> HIDE DEF g
    <2>5. \A i \in 0..(n + 1) :
            g[i] = IF i = 0 THEN <<>>
                   ELSE IF i \in I THEN Append(g[i - 1], s[i]) ELSE g[i - 1]
      <3> TAKE i \in 0..(n + 1)
      <3>1. CASE i = n + 1
        BY <2>3, <3>1 DEF next
      <3>2. CASE i \in 0..n
        BY <2>2, <2>3, <3>2
      <3> QED
        BY <3>1, <3>2
    <2>6. Unfolds(g, s, I, n + 1)
      BY <2>4, <2>5 DEF Unfolds
    <2> QED
      BY <2>6
  <1> HIDE DEF S
  <1>3. Len(s) \in S
    BY <1>1, <1>2, SetInduction
  <1>4. \E f : Unfolds(f, s, I, Len(s))
    BY <1>3 DEF S
  <1> QED
    BY <1>4 DEF Unfolds, Chosen

(* h tells where the elements of t come from: from the positions in I      *)
(* among the first n of s, in order and without omission.                  *)
Picks(t, s, I, n, h) ==
  /\ h \in [1..Len(t) -> 1..n]
  /\ \A k \in 1..Len(t) : h[k] \in I /\ t[k] = s[h[k]] /\ k <= h[k]
  /\ \A j, k \in 1..Len(t) : j < k => h[j] < h[k]
  /\ \A i \in I : i \in 1..n => \E k \in 1..Len(t) : h[k] = i

LEMMA PicksMore ==
  ASSUME NEW T, NEW s \in Seq(T), NEW I, NEW n \in Nat, n + 1 \in 1..Len(s),
         NEW t \in Seq(T), NEW h, Picks(t, s, I, n, h)
  PROVE  /\ n + 1 \notin I => Picks(t, s, I, n + 1, h)
         /\ n + 1 \in I => LET u == Append(t, s[n + 1])
                           IN  u \in Seq(T) /\ \E g : Picks(u, s, I, n + 1, g)
  <1>0. Len(t) \in Nat
    OBVIOUS
  <1>1. ASSUME n + 1 \notin I PROVE Picks(t, s, I, n + 1, h)
    <2>1. \A i \in I : i \in 1..(n + 1) => i \in 1..n
      BY <1>1
    <2> QED
      BY <2>1 DEF Picks
  <1>2. ASSUME n + 1 \in I
        PROVE  LET u == Append(t, s[n + 1])
               IN  u \in Seq(T) /\ \E g : Picks(u, s, I, n + 1, g)
    <2> DEFINE u == Append(t, s[n + 1])
               m == Len(t)
               g == [k \in 1..(m + 1) |-> IF k = m + 1 THEN n + 1 ELSE h[k]]
    <2>1. /\ u \in Seq(T) /\ Len(u) = m + 1 /\ m \in Nat /\ u[m + 1] = s[n + 1]
          /\ \A k \in 1..m : u[k] = t[k]
      OBVIOUS
    <2> HIDE DEF u
    <2>2. /\ \A k \in 1..m : h[k] \in 1..n /\ h[k] \in I /\ t[k] = s[h[k]] /\ k <= h[k]
          /\ \A j, k \in 1..m : j < k => h[j] < h[k]
          /\ \A i \in I : i \in 1..n => \E k \in 1..m : h[k] = i
      BY DEF Picks
    <2> HIDE DEF m
    <2>3. /\ \A k \in 1..m : g[k] = h[k] /\ k \in 1..(m + 1)
          /\ g[m + 1] = n + 1 /\ m + 1 \in 1..(m + 1)
      BY <2>1
    <2>4. \A k \in 1..(m + 1) : k \in 1..m \/ k = m + 1
      BY <2>1
    <2>5. m + 1 <= n + 1
      <3>1. CASE m = 0
        BY <3>1
      <3>2. CASE m \in 1..m
        BY <2>1, <2>2, <3>2
      <3> QED
        BY <2>1, <3>1, <3>2
    <2>6. g \in [1..(m + 1) -> 1..(n + 1)]
      BY <2>1, <2>2, <2>4
    <2> HIDE DEF g
    <2>7. \A k \in 1..(m + 1) : g[k] \in I /\ u[k] = s[g[k]] /\ k <= g[k]
      BY <1>2, <2>1, <2>2, <2>3, <2>4, <2>5
    <2>8. \A j, k \in 1..(m + 1) : j < k => g[j] < g[k]
      <3> SUFFICES ASSUME NEW j \in 1..(m + 1), NEW k \in 1..(m + 1), j < k
                   PROVE  g[j] < g[k]
        OBVIOUS
      <3>1. j \in 1..m
        BY <2>1, <2>4
      <3> QED
        BY <2>2, <2>3, <2>4, <3>1
    <2>9. \A i \in I : i \in 1..(n + 1) => \E k \in 1..(m + 1) : g[k] = i
      <3> SUFFICES ASSUME NEW i \in I, i \in 1..(n + 1)
                   PROVE  \E k \in 1..(m + 1) : g[k] = i
        OBVIOUS
      <3>1. CASE i = n + 1
        BY <2>3, <3>1
      <3>2. CASE i \in 1..n
        BY <2>2, <2>3, <3>2
      <3> QED
        BY <3>1, <3>2
    <2>10. Picks(u, s, I, n + 1, g)
      BY <2>1, <2>6, <2>7, <2>8, <2>9 DEF Picks
    <2> QED
      BY <2>1, <2>10 DEF u
  <1> QED
    BY <1>1, <1>2

(* At(s, I) has the elements of s at the positions in I, in their order.   *)
LEMMA AtPicks ==
  ASSUME NEW T, NEW s \in Seq(T), NEW I
  PROVE  At(s, I) \in Seq(T) /\ \E h : Picks(At(s, I), s, I, Len(s), h)
  <1> DEFINE f == Chosen(s, I)
             S == {n \in Nat : n <= Len(s) =>
                     f[n] \in Seq(T) /\ \E h : Picks(f[n], s, I, n, h)}
  <1>0. Len(s) \in Nat
    OBVIOUS
  <1>1. At(s, I) = f[Len(s)]
    BY DEF At, Chosen
  <1>2. \A i \in 0..Len(s) : f[i] = IF i = 0 THEN <<>>
                                    ELSE IF i \in I THEN Append(f[i - 1], s[i]) ELSE f[i - 1]
    <2>1. Unfolds(f, s, I, Len(s))
      BY <1>0, PrefixesExist
    <2> HIDE DEF f
    <2> QED
      BY <2>1 DEF Unfolds
  <1> HIDE DEF f
  <1>3. 0 \in S
    <2>1. f[0] = <<>>
      BY <1>0, <1>2
    <2>2. <<>> \in Seq(T) /\ Len(<<>>) = 0
      OBVIOUS
    <2>3. Picks(<<>>, s, I, 0, [i \in 1..0 |-> 0])
      BY <2>2 DEF Picks
    <2> QED
      BY <2>1, <2>2, <2>3
  <1>4. ASSUME NEW n \in Nat, n \in S PROVE n + 1 \in S
    <2> SUFFICES ASSUME n + 1 <= Len(s)
                 PROVE  f[n + 1] \in Seq(T) /\ \E h : Picks(f[n + 1], s, I, n + 1, h)
      BY DEF S
    <2>1. f[n] \in Seq(T) /\ n + 1 \in 1..Len(s)
      BY <1>0, <1>4
    <2>2. PICK h : Picks(f[n], s, I, n, h)
      BY <1>0, <1>4
    <2>3. f[n + 1] = IF n + 1 \in I THEN Append(f[n], s[n + 1]) ELSE f[n]
      BY <1>0, <1>2, <2>1
    <2> QED
      BY <2>1, <2>2, <2>3, PicksMore
  <1>5. Len(s) \in S
    <2> HIDE DEF S
    <2> QED
      BY <1>0, <1>3, <1>4, SetInduction
  <1> QED
    BY <1>0, <1>1, <1>5

(* What most uses of At need to know.                                      *)
Indexing(t, s, I, h) ==
  /\ \A k \in DOMAIN t : h[k] \in DOMAIN s /\ h[k] \in I /\ t[k] = s[h[k]] /\ k <= h[k]
  /\ \A j, k \in DOMAIN t : j < k => h[j] < h[k]
  /\ \A i \in I : i \in DOMAIN s => \E k \in DOMAIN t : h[k] = i

LEMMA AtIndexed ==
  ASSUME NEW T, NEW s \in Seq(T), NEW I
  PROVE  At(s, I) \in Seq(T) /\ \E h : Indexing(At(s, I), s, I, h)
  <1> DEFINE t == At(s, I)
  <1>1. PICK h : t \in Seq(T) /\ Picks(t, s, I, Len(s), h)
    BY AtPicks
  <1> HIDE DEF t
  <1>2. /\ Len(t) \in Nat /\ DOMAIN t = 1..Len(t) /\ Len(s) \in Nat /\ DOMAIN s = 1..Len(s)
    BY <1>1
  <1>3. Indexing(t, s, I, h)
    BY <1>1, <1>2 DEF Picks, Indexing
  <1> QED
    BY <1>1, <1>3 DEF t

LEMMA AtElements ==
  ASSUME NEW T, NEW s \in Seq(T), NEW I
  PROVE  LET t == At(s, I)
         IN  /\ t \in Seq(T) /\ Len(t) <= Len(s)
             /\ \A k \in DOMAIN t : \E i \in DOMAIN s : i \in I /\ t[k] = s[i]
             /\ \A i \in DOMAIN s : i \in I => \E k \in DOMAIN t : t[k] = s[i]
             /\ (s # <<>> /\ 1 \in I) => (t # <<>> /\ t[1] = s[1])
             /\ \A j, k \in DOMAIN t : j # k =>
                  \E a, b \in DOMAIN s : a # b /\ t[j] = s[a] /\ t[k] = s[b]
  <1> DEFINE t == At(s, I)
  <1>1. PICK h : t \in Seq(T) /\ Indexing(t, s, I, h)
    BY AtIndexed
  <1>3. /\ \A k \in DOMAIN t : h[k] \in DOMAIN s /\ h[k] \in I /\ t[k] = s[h[k]] /\ k <= h[k]
        /\ \A j, k \in DOMAIN t : j < k => h[j] < h[k]
        /\ \A i \in I : i \in DOMAIN s => \E k \in DOMAIN t : h[k] = i
    BY <1>1 DEF Indexing
  <1> HIDE DEF t
  <1>2. /\ Len(t) \in Nat /\ DOMAIN t = 1..Len(t) /\ Len(s) \in Nat /\ DOMAIN s = 1..Len(s)
    BY <1>1
  <1>4. Len(t) <= Len(s)
    <2>1. CASE Len(t) = 0
      BY <1>2, <2>1
    <2>2. CASE Len(t) \in DOMAIN t
      BY <1>2, <1>3, <2>2
    <2> QED
      BY <1>2, <2>1, <2>2
  <1>5. \A i \in DOMAIN s : i \in I => \E k \in DOMAIN t : t[k] = s[i]
    BY <1>3
  <1>6. ASSUME s # <<>>, 1 \in I PROVE t # <<>> /\ t[1] = s[1]
    <2>1. 1 \in DOMAIN s
      BY <1>6
    <2>2. PICK k \in DOMAIN t : h[k] = 1
      BY <1>3, <1>6, <2>1
    <2>3. k = 1
      BY <1>2, <1>3, <2>2
    <2> QED
      BY <1>2, <1>3, <2>2, <2>3
  <1>7. ASSUME NEW j \in DOMAIN t, NEW k \in DOMAIN t, j # k
        PROVE  \E a, b \in DOMAIN s : a # b /\ t[j] = s[a] /\ t[k] = s[b]
    <2>1. h[j] # h[k]
      BY <1>2, <1>3, <1>7
    <2> QED
      BY <1>3, <2>1
  <1> QED
    BY <1>1, <1>3, <1>4, <1>5, <1>6, <1>7 DEF t
=============================================================================
