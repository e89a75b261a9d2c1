---------------------------- MODULE DataInduction ----------------------------
(***************************************************************************)
(* Induction and recursion over data, in a form that can be cited: the     *)
(* predicate proved by induction is given as the set S of the data it      *)
(* holds of, and the right-hand side of a recursive function as the        *)
(* function Rhs of an argument and of the function being defined.          *)
(* Then, from these, what FlattenSeq does, which DefCore and CSha256 put   *)
(* their texts together with.                                              *)
(***************************************************************************)
EXTENDS WellFoundedInduction, SequenceTheorems, TLAPS

\* a set of numbers that is not empty has a least element
LEMMA Least ==
  ASSUME NEW T \in SUBSET Nat, T # {}
  PROVE  \E n \in T : \A m \in T : n <= m
<1>1. IsWellFoundedOn(OpToRel(<, Nat), Nat)
  BY NatLessThanWellFounded
<1> DEFINE R == OpToRel(<, Nat)
<1>2. \A a, b \in Nat : a < b => <<a, b>> \in R
  BY DEF OpToRel
<1> HIDE DEF R
<1>3. IsWellFoundedOn(R, Nat)
  BY <1>1 DEF R
<1>4. \E x \in T : \A y \in T : ~ (<<y, x>> \in R)
  BY <1>3, WFMin
<1>5. PICK x \in T : \A y \in T : ~ (<<y, x>> \in R)
  BY <1>4
<1>6. \A y \in T : ~ (y < x)
  BY <1>5, <1>2
<1>7. \A y \in T : x <= y
  BY <1>6
<1> QED
  BY <1>7

\* Induction over any set of data with a measure: what holds of x whenever it
\* holds of everything smaller holds of all.
LEMMA MeasureInduction ==
  ASSUME NEW D, NEW mu \in [D -> Nat], NEW S,
         \A x \in D : (\A y \in D : mu[y] < mu[x] => y \in S) => x \in S
  PROVE  D \subseteq S
<1> DEFINE T == {mu[x] : x \in D \ S}
<1>1. SUFFICES ASSUME D \ S # {} PROVE FALSE
  OBVIOUS
<1>2. PICK n \in T : \A m \in T : n <= m
  <2>1. T \in SUBSET Nat /\ T # {}
    BY <1>1
  <2> HIDE DEF T
  <2> QED
    BY <2>1, Least
<1>3. PICK x \in D \ S : n = mu[x]
  BY <1>2
<1>4. \A y \in D : mu[y] < mu[x] => y \in S
  <2> SUFFICES ASSUME NEW y \in D, mu[y] < mu[x], y \notin S PROVE FALSE
    OBVIOUS
  <2>1. mu[y] \in T /\ mu[y] \in Nat /\ mu[x] \in Nat
    OBVIOUS
  <2>2. mu[x] <= mu[y]
    BY <2>1, <1>2, <1>3
  <2> QED
    BY <2>1, <2>2
<1> QED
  BY <1>3, <1>4

\* induction over the natural numbers
LEMMA Induction ==
  ASSUME NEW S, 0 \in S, \A n \in Nat : n \in S => n + 1 \in S
  PROVE  Nat \subseteq S
<1> DEFINE mu == [n \in Nat |-> n]
<1>1. \A n \in Nat : (\A m \in Nat : mu[m] < mu[n] => m \in S) => n \in S
  <2> TAKE n \in Nat
  <2> HAVE \A m \in Nat : mu[m] < mu[n] => m \in S
  <2>1. CASE n = 0
    BY <2>1
  <2>2. CASE n # 0
    <3>1. n - 1 \in Nat /\ mu[n - 1] < mu[n]
      BY <2>2
    <3>2. n - 1 \in S
      BY <3>1
    <3>3. (n - 1) + 1 \in S
      BY <3>1, <3>2
    <3> QED
      BY <3>3
  <2> QED
    BY <2>1, <2>2
<1>2. mu \in [Nat -> Nat]
  OBVIOUS
<1> HIDE DEF mu
<1> QED
  BY <1>1, <1>2, MeasureInduction

\* Induction over sequences, at their end and at their beginning.
LEMMA AppendInduction ==
  ASSUME NEW A, NEW S, <<>> \in S,
         \A s \in Seq(A) : \A e \in A : s \in S => Append(s, e) \in S
  PROVE  Seq(A) \subseteq S
<1> DEFINE D  == Seq(A)
           mu == [s \in D |-> Len(s)]
<1>1. mu \in [D -> Nat]
  OBVIOUS
<1>2. \A s \in D : (\A t \in D : mu[t] < mu[s] => t \in S) => s \in S
  <2> TAKE s \in D
  <2> HAVE \A t \in D : mu[t] < mu[s] => t \in S
  <2>1. CASE s = <<>>
    BY <2>1
  <2>2. CASE s # <<>>
    <3>1. PICK t \in Seq(A), e \in A : s = Append(t, e)
      BY <2>2, SequenceEmptyOrAppend
    <3>2. Len(s) = Len(t) + 1 /\ Len(t) \in Nat
      BY <3>1
    <3>3. t \in S
      BY <3>2
    <3> QED
      BY <3>1, <3>3
  <2> QED
    BY <2>1, <2>2
<1> HIDE DEF mu, D
<1>3. D \subseteq S
  BY <1>1, <1>2, MeasureInduction
<1> QED
  BY <1>3 DEF D

\* Induction over a sequence, from its end to its front.
LEMMA ConsInduction ==
  ASSUME NEW A, NEW S, <<>> \in S,
         \A s \in Seq(A) : \A e \in A : s \in S => <<e>> \o s \in S
  PROVE  Seq(A) \subseteq S
<1> DEFINE D  == Seq(A)
           mu == [s \in D |-> Len(s)]
<1>1. mu \in [D -> Nat]
  OBVIOUS
<1>2. \A s \in D : (\A t \in D : mu[t] < mu[s] => t \in S) => s \in S
  <2> TAKE s \in D
  <2> HAVE \A t \in D : mu[t] < mu[s] => t \in S
  <2>1. CASE s = <<>>
    BY <2>1
  <2>2. CASE s # <<>>
    <3>1. /\ Head(s) \in A /\ Tail(s) \in Seq(A)
          /\ Len(Tail(s)) = Len(s) - 1 /\ Len(s) \in Nat
      BY <2>2, HeadTailProperties
    <3>2. Tail(s) \in S
      <4>1. Tail(s) \in Seq(A) /\ mu[Tail(s)] < mu[s]
        BY <3>1
      <4> HIDE DEF mu
      <4> QED
        BY <4>1
    <3>3. s = <<Head(s)>> \o Tail(s)
      BY <2>2
    <3> QED
      BY <3>1, <3>2, <3>3
  <2> QED
    BY <2>1, <2>2
<1> HIDE DEF mu, D
<1>3. D \subseteq S
  BY <1>1, <1>2, MeasureInduction
<1> QED
  BY <1>3 DEF D
-----------------------------------------------------------------------------
\* the functions from D to V that a recursive definition may mean
Solutions(D, V, Rhs) == {g \in [D -> V] : \A x \in D : g[x] = Rhs[x][g]}

\* the right-hand side looks at g only where the measure is smaller
LooksBack(D, V, mu, Rhs) ==
  \A x \in D : \A g, h \in [D -> V] :
    (\A y \in D : mu[y] < mu[x] => g[y] = h[y]) => Rhs[x][g] = Rhs[x][h]

\* A recursive definition that looks back only means at least one function.
LEMMA Recursion ==
  ASSUME NEW D, NEW V, V # {}, NEW mu \in [D -> Nat],
         NEW Rhs \in [D -> [[D -> V] -> V]], LooksBack(D, V, mu, Rhs)
  PROVE  Solutions(D, V, Rhs) # {}
<1> DEFINE F == [D -> V]
           Solves(g, n) == \A x \in D : mu[x] < n => g[x] = Rhs[x][g]
           Good == {n \in Nat : \E g \in F : Solves(g, n)}
<1>1. \A x \in D : \A g, h \in F :
        (\A y \in D : mu[y] < mu[x] => g[y] = h[y]) => Rhs[x][g] = Rhs[x][h]
  BY DEF LooksBack
<1>2. \A x \in D : \A g \in F : Rhs[x][g] \in V
  OBVIOUS
<1>3. 0 \in Good
  <2>1. PICK v \in V : TRUE
    OBVIOUS
  <2>2. [x \in D |-> v] \in F
    BY <2>1
  <2>3. \A x \in D : ~ (mu[x] < 0)
    OBVIOUS
  <2> QED
    BY <2>2, <2>3
<1>4. \A n \in Nat : n \in Good => n + 1 \in Good
  <2> TAKE n \in Nat
  <2> HAVE n \in Good
  <2>1. PICK g \in F : Solves(g, n)
    OBVIOUS
  <2> DEFINE h == [x \in D |-> IF mu[x] < n THEN g[x] ELSE Rhs[x][g]]
  <2>2. h \in F
    BY <1>2, <2>1
  <2>3. \A x \in D : mu[x] < n + 1 => Rhs[x][g] = Rhs[x][h]
    <3> SUFFICES ASSUME NEW x \in D, mu[x] < n + 1
                 PROVE  Rhs[x][g] = Rhs[x][h]
      OBVIOUS
    <3>1. \A y \in D : mu[y] < mu[x] => g[y] = h[y]
      <4> SUFFICES ASSUME NEW y \in D, mu[y] < mu[x] PROVE g[y] = h[y]
        OBVIOUS
      <4>1. mu[y] \in Nat /\ mu[x] \in Nat
        OBVIOUS
      <4> QED
        BY <4>1
    <3> HIDE DEF h
    <3> QED
      BY <1>1, <2>2, <3>1
  <2>4. Solves(h, n + 1)
    <3> SUFFICES ASSUME NEW x \in D, mu[x] < n + 1 PROVE h[x] = Rhs[x][h]
      OBVIOUS
    <3>1. h[x] = Rhs[x][g]
      BY <2>1
    <3> QED
      BY <2>3, <3>1
  <2> HIDE DEF h, Solves
  <2>5. \E p \in F : Solves(p, n + 1)
    BY <2>2, <2>4
  <2> QED
    BY <2>5
<1>5. \A n \in Nat : \E g \in F : Solves(g, n)
  <2> HIDE DEF Good
  <2>1. Nat \subseteq Good
    BY <1>3, <1>4, Induction
  <2> QED
    BY <2>1 DEF Good
<1> DEFINE G(n) == CHOOSE g \in F : Solves(g, n)
<1>6. \A n \in Nat : G(n) \in F /\ Solves(G(n), n)
  BY <1>5 DEF Solutions
<1>7. \A m, n \in Nat : \A g, h \in F : Solves(g, m) /\ Solves(h, n) =>
        \A x \in D : mu[x] < m /\ mu[x] < n => g[x] = h[x]
  <2> TAKE m, n \in Nat
  <2> TAKE g, h \in F
  <2> HAVE Solves(g, m) /\ Solves(h, n)
  <2> DEFINE S == {x \in D : mu[x] < m /\ mu[x] < n => g[x] = h[x]}
  <2>1. \A x \in D : (\A y \in D : mu[y] < mu[x] => y \in S) => x \in S
    <3> SUFFICES ASSUME NEW x \in D, \A y \in D : mu[y] < mu[x] => y \in S,
                        mu[x] < m, mu[x] < n
                 PROVE  g[x] = h[x]
      OBVIOUS
    <3>1. \A y \in D : mu[y] < mu[x] => g[y] = h[y]
      <4> SUFFICES ASSUME NEW y \in D, mu[y] < mu[x] PROVE g[y] = h[y]
        OBVIOUS
      <4>1. mu[y] \in Nat /\ mu[x] \in Nat /\ y \in S
        OBVIOUS
      <4> QED
        BY <4>1
    <3>2. Rhs[x][g] = Rhs[x][h]
      BY <1>1, <3>1
    <3> QED
      BY <3>2
  <2>2. D \subseteq S
    <3> HIDE DEF S
    <3> QED
      BY <2>1, MeasureInduction
  <2> QED
    BY <2>2
<1> HIDE DEF G
<1> DEFINE f == [x \in D |-> G(mu[x] + 1)[x]]
<1>8. f \in F
  <2>1. \A x \in D : mu[x] + 1 \in Nat
    OBVIOUS
  <2> QED
    BY <1>6, <2>1
<1>9. \A x \in D : f[x] = Rhs[x][f]
  <2> SUFFICES ASSUME NEW x \in D PROVE f[x] = Rhs[x][f]
    OBVIOUS
  <2> DEFINE n == mu[x] + 1
  <2>1. n \in Nat /\ mu[x] \in Nat /\ mu[x] < n
    OBVIOUS
  <2>2. G(n) \in F /\ Solves(G(n), n)
    BY <1>6, <2>1
  <2>3. f[x] = Rhs[x][G(n)]
    BY <2>1, <2>2
  <2>4. \A y \in D : mu[y] < mu[x] => f[y] = G(n)[y]
    <3> SUFFICES ASSUME NEW y \in D, mu[y] < mu[x] PROVE f[y] = G(n)[y]
      OBVIOUS
    <3> DEFINE m == mu[y] + 1
    <3>1. m \in Nat /\ mu[y] < m /\ mu[y] < n
      BY <2>1
    <3>2. G(m) \in F /\ Solves(G(m), m)
      BY <1>6, <3>1
    <3>3. f[y] = G(m)[y]
      OBVIOUS
    <3> HIDE DEF m, n, f, Solves, F
    <3>4. \A z \in D : mu[z] < m /\ mu[z] < n => G(m)[z] = G(n)[z]
      BY <1>7, <2>1, <2>2, <3>1, <3>2
    <3> QED
      BY <2>1, <3>1, <3>3, <3>4
  <2> HIDE DEF n, f
  <2> QED
    BY <1>1, <1>8, <2>2, <2>3, <2>4
<1> QED
  BY <1>8, <1>9 DEF Solutions

-----------------------------------------------------------------------------
\* The same for a scan of n bytes from left to right: the function is defined
\* at the positions 1..(n + 1), each from later ones.
LEMMA ScanInduction ==
  ASSUME NEW n \in Nat, NEW S,
         \A i \in 1..(n + 1) : (\A j \in 1..(n + 1) : j > i => j \in S) => i \in S
  PROVE  1..(n + 1) \subseteq S
<1> DEFINE D == 1..(n + 1)
           mu == [i \in D |-> (n + 1) - i]
<1>1. mu \in [D -> Nat]
  OBVIOUS
<1>2. \A i \in D : (\A j \in D : mu[j] < mu[i] => j \in S) => i \in S
  <2> TAKE i \in D
  <2> HAVE \A j \in D : mu[j] < mu[i] => j \in S
  <2>1. \A j \in D : j > i => mu[j] < mu[i]
    OBVIOUS
  <2> QED
    BY <2>1
<1> HIDE DEF D, mu
<1>3. D \subseteq S
  BY <1>1, <1>2, MeasureInduction
<1> QED
  BY <1>3 DEF D

LooksAhead(n, V, Rhs) ==
  \A i \in 1..(n + 1) : \A g, h \in [1..(n + 1) -> V] :
    (\A j \in 1..(n + 1) : j > i => g[j] = h[j]) => Rhs[i][g] = Rhs[i][h]

\* A scan that uses later positions only is a function.
LEMMA ScanRecursion ==
  ASSUME NEW n \in Nat, NEW V, V # {},
         NEW Rhs \in [1..(n + 1) -> [[1..(n + 1) -> V] -> V]], LooksAhead(n, V, Rhs)
  PROVE  Solutions(1..(n + 1), V, Rhs) # {}
<1> DEFINE D == 1..(n + 1)
           mu == [i \in D |-> (n + 1) - i]
<1>1. mu \in [D -> Nat]
  OBVIOUS
<1>2. \A i, j \in D : j > i => mu[j] < mu[i]
  OBVIOUS
<1>3. LooksBack(D, V, mu, Rhs)
  <2> SUFFICES ASSUME NEW i \in D, NEW g \in [D -> V], NEW h \in [D -> V],
                      \A j \in D : mu[j] < mu[i] => g[j] = h[j]
               PROVE  Rhs[i][g] = Rhs[i][h]
    BY DEF LooksBack
  <2>1. \A j \in D : j > i => g[j] = h[j]
    BY <1>2
  <2> QED
    BY <2>1 DEF LooksAhead
<1> HIDE DEF D, mu
<1>4. Rhs \in [D -> [[D -> V] -> V]]
  BY DEF D
<1>5. Solutions(D, V, Rhs) # {}
  BY <1>1, <1>3, <1>4, Recursion
<1> QED
  BY <1>5 DEF D

-----------------------------------------------------------------------------
LOCAL INSTANCE SequencesExt

\* nothing put together
LEMMA FlattenEmpty == FlattenSeq(<<>>) = <<>>
  BY DEF FlattenSeq

\* the texts of the first n elements of s, put together
Flattening(s) ==
  CHOOSE g : g = [i \in 1..Len(s) |-> IF i = 1 THEN s[i] ELSE g[i - 1] \o s[i]]

\* FlattenSeq in terms of the recursive function
LEMMA FlattenDef ==
  ASSUME NEW s, Len(s) # 0
  PROVE  FlattenSeq(s) = Flattening(s)[Len(s)]
  BY DEF FlattenSeq, Flattening

\* The recursive function exists.
LEMMA FlatteningDef ==
  ASSUME NEW A, NEW s \in Seq(Seq(A))
  PROVE  /\ Flattening(s) \in [1..Len(s) -> Seq(A)]
         /\ \A i \in 1..Len(s) : Flattening(s)[i] =
              IF i = 1 THEN s[i] ELSE Flattening(s)[i - 1] \o s[i]
<1> DEFINE D == 1..Len(s)
           V == Seq(A)
           mu == [i \in D |-> i]
           Rhs == [i \in D |-> [g \in [D -> V] |->
                     IF i = 1 THEN s[i] ELSE g[i - 1] \o s[i]]]
<1>0. Len(s) \in Nat
  OBVIOUS
<1>1. mu \in [D -> Nat]
  BY <1>0
<1>2. Rhs \in [D -> [[D -> V] -> V]]
  <2> SUFFICES ASSUME NEW i \in D, NEW g \in [D -> V]
               PROVE  (IF i = 1 THEN s[i] ELSE g[i - 1] \o s[i]) \in V
    BY Zenon
  <2>1. s[i] \in Seq(A)
    OBVIOUS
  <2>2. i # 1 => g[i - 1] \in Seq(A)
    <3>1. i # 1 => i - 1 \in D
      BY <1>0
    <3> QED
      BY <3>1
  <2> QED
    BY <2>1, <2>2
<1>3. LooksBack(D, V, mu, Rhs)
  <2> USE DEF LooksBack
  <2> TAKE i \in D
  <2> TAKE g, h \in [D -> V]
  <2> HAVE \A y \in D : mu[y] < mu[i] => g[y] = h[y]
  <2>1. i # 1 => i - 1 \in D /\ mu[i - 1] < mu[i]
    BY <1>0
  <2> QED
    BY <2>1
<1>4. V # {}
  OBVIOUS
<1>5. Solutions(D, V, Rhs) # {}
  <2> HIDE DEF D, V, mu, Rhs
  <2> QED
    BY <1>1, <1>2, <1>3, <1>4, Recursion
<1>6. PICK g \in [D -> V] : \A i \in D : g[i] = Rhs[i][g]
  BY <1>5 DEF Solutions
<1>7. \A i \in D : g[i] = IF i = 1 THEN s[i] ELSE g[i - 1] \o s[i]
  BY <1>6
<1>8. g = [i \in D |-> IF i = 1 THEN s[i] ELSE g[i - 1] \o s[i]]
  BY <1>7
<1> DEFINE f == Flattening(s)
<1>9. f = [i \in D |-> IF i = 1 THEN s[i] ELSE f[i - 1] \o s[i]]
  BY <1>8 DEF Flattening
<1> HIDE DEF f
<1>10. \A i \in D : f[i] = IF i = 1 THEN s[i] ELSE f[i - 1] \o s[i]
  BY <1>9
<1>11. f \in [D -> V]
  <2> DEFINE S == {i \in D : f[i] \in V}
  <2>1. \A i \in D : (\A y \in D : mu[y] < mu[i] => y \in S) => i \in S
    <3> TAKE i \in D
    <3> HAVE \A y \in D : mu[y] < mu[i] => y \in S
    <3>1. i # 1 => f[i - 1] \in Seq(A)
      <4>1. i # 1 => i - 1 \in D /\ mu[i - 1] < mu[i]
        BY <1>0
      <4> QED
        BY <4>1
    <3>2. s[i] \in Seq(A)
      OBVIOUS
    <3>3. f[i] = IF i = 1 THEN s[i] ELSE f[i - 1] \o s[i]
      BY <1>10
    <3>4. f[i] \in Seq(A)
      <4> HIDE DEF f
      <4> QED
        BY <3>1, <3>2, <3>3
    <3> QED
      BY <3>4
  <2>2. D \subseteq S
    <3> HIDE DEF D, V, mu, S
    <3> QED
      BY <1>1, <2>1, MeasureInduction
  <2> QED
    BY <1>9, <2>2
<1> QED
  BY <1>10, <1>11 DEF f

\* FlattenSeq puts texts over A together to a text over A.
LEMMA FlattenType ==
  ASSUME NEW A, NEW s \in Seq(Seq(A))
  PROVE  FlattenSeq(s) \in Seq(A)
<1>1. CASE Len(s) = 0
  BY <1>1 DEF FlattenSeq
<1>2. CASE Len(s) # 0
  BY <1>2, FlattenDef, FlatteningDef, SMTT(30)
<1> QED
  BY <1>1, <1>2

\* One more text is put behind the others.
LEMMA FlattenAppend ==
  ASSUME NEW A, NEW s \in Seq(Seq(A)), NEW e \in Seq(A)
  PROVE  FlattenSeq(Append(s, e)) = FlattenSeq(s) \o e
<1> DEFINE t == Append(s, e)
           f == Flattening(s)
           g == Flattening(t)
           n == Len(s)
           D == 1..n
           mu == [i \in D |-> i]
           S == {i \in D : f[i] = g[i]}
<1>1. n \in Nat /\ t \in Seq(Seq(A)) /\ Len(t) = n + 1 /\ t[n + 1] = e
  OBVIOUS
<1>2. \A i \in D : t[i] = s[i]
  OBVIOUS
<1>3. \A i \in D : f[i] = IF i = 1 THEN s[i] ELSE f[i - 1] \o s[i]
  BY FlatteningDef
<1>4. \A i \in 1..(n + 1) : g[i] = IF i = 1 THEN t[i] ELSE g[i - 1] \o t[i]
  <2> HIDE DEF t
  <2> QED
    BY <1>1, FlatteningDef
<1> HIDE DEF f, g, t, n
<1>5. \A i \in D : (\A y \in D : mu[y] < mu[i] => y \in S) => i \in S
  <2> TAKE i \in D
  <2> HAVE \A y \in D : mu[y] < mu[i] => y \in S
  <2>1. i # 1 => f[i - 1] = g[i - 1]
    <3>1. i # 1 => i - 1 \in D /\ mu[i - 1] < mu[i]
      BY <1>1
    <3> QED
      BY <3>1
  <2>2. i \in 1..(n + 1) /\ t[i] = s[i]
    BY <1>1, <1>2
  <2> QED
    BY <1>3, <1>4, <2>1, <2>2
<1>6. D \subseteq S
  <2>1. mu \in [D -> Nat]
    BY <1>1
  <2> HIDE DEF D, mu, S
  <2> QED
    BY <1>5, <2>1, MeasureInduction
<1>7. FlattenSeq(t) = g[n + 1]
  BY <1>1, FlattenDef DEF g
<1>8. CASE n = 0
  <2>1. s = <<>> /\ g[n + 1] = e
    BY <1>1, <1>4, <1>8 DEF n
  <2> QED
    BY <1>7, <2>1, FlattenEmpty DEF t
<1>9. CASE n # 0
  <2>1. FlattenSeq(s) = f[n]
    BY <1>9, FlattenDef DEF f, n
  <2>2. n \in D /\ n + 1 \in 1..(n + 1) /\ n + 1 # 1 /\ (n + 1) - 1 = n
    BY <1>1, <1>9
  <2>3. g[n + 1] = g[n] \o e
    BY <1>1, <1>4, <2>2
  <2> QED
    BY <1>6, <1>7, <2>1, <2>2, <2>3 DEF t
<1> QED
  BY <1>8, <1>9

\* concatenation is associative
LEMMA Associative ==
  ASSUME NEW A
  PROVE  \A p, q, r \in Seq(A) : (p \o q) \o r = p \o (q \o r)
<1> TAKE p, q, r \in Seq(A)
<1> QED
  BY ConcatAssociative

\* The texts of two sequences after one another are put together one after
\* the other.
LEMMA FlattenConcat ==
  ASSUME NEW A, NEW s \in Seq(Seq(A)), NEW t \in Seq(Seq(A))
  PROVE  FlattenSeq(s \o t) = FlattenSeq(s) \o FlattenSeq(t)
<1> DEFINE B == Seq(A)
           S == {u \in Seq(B) : FlattenSeq(s \o u) = FlattenSeq(s) \o FlattenSeq(u)}
<1>1. <<>> \in S
  <2>1. s \o <<>> = s /\ FlattenSeq(s) \in Seq(A) /\ FlattenSeq(<<>>) = <<>>
    BY ConcatEmptySeq, FlattenType, FlattenEmpty
  <2>2. FlattenSeq(s) \o <<>> = FlattenSeq(s)
    BY <2>1, ConcatEmptySeq
  <2> QED
    BY <2>1, <2>2
<1>2. \A u \in Seq(B) : \A e \in B : u \in S => Append(u, e) \in S
  <2> TAKE u \in Seq(B)
  <2> TAKE e \in B
  <2> HAVE u \in S
  <2>1. Append(u, e) \in Seq(B) /\ s \o Append(u, e) = Append(s \o u, e) /\ s \o u \in Seq(B)
    BY SMTT(30)
  <2>2. FlattenSeq(Append(s \o u, e)) = FlattenSeq(s \o u) \o e
    BY <2>1, FlattenAppend
  <2>3. FlattenSeq(Append(u, e)) = FlattenSeq(u) \o e
    BY FlattenAppend
  <2>4. FlattenSeq(s) \in Seq(A) /\ FlattenSeq(u) \in Seq(A) /\ e \in Seq(A)
    BY FlattenType
  <2>5. (FlattenSeq(s) \o FlattenSeq(u)) \o e = FlattenSeq(s) \o (FlattenSeq(u) \o e)
    <3> HIDE DEF S, B
    <3> DEFINE x == FlattenSeq(s)
               y == FlattenSeq(u)
    <3>1. x \in Seq(A) /\ y \in Seq(A) /\ e \in Seq(A)
      BY <2>4
    <3> HIDE DEF x, y
    <3>2. (x \o y) \o e = x \o (y \o e)
      BY <3>1, Associative, SMTT(30)
    <3> QED
      BY <3>2 DEF x, y
  <2> QED
    BY <2>1, <2>2, <2>3, <2>5
<1> HIDE DEF B, S
<1>3. Seq(B) \subseteq S
  BY <1>1, <1>2, AppendInduction
<1> QED
  BY <1>3 DEF B, S

\* one text put together
LEMMA FlattenSingle ==
  ASSUME NEW A, NEW e \in Seq(A)
  PROVE  FlattenSeq(<<e>>) = e
<1>1. <<e>> = Append(<<>>, e) /\ <<>> \in Seq(Seq(A)) /\ <<>> \o e = e
  BY ConcatEmptySeq
<1> QED
  BY <1>1, FlattenAppend, FlattenEmpty

\* the n places of an array from one on
Places(f, from, n) == [o \in 1..n |-> f[from + o - 1]]

\* the places of an array are a sequence
LEMMA PlacesSeq ==
  ASSUME NEW f, NEW from, NEW n \in Nat
  PROVE  \E B : /\ Places(f, from, n) \in Seq(B) /\ Len(Places(f, from, n)) = n
                /\ \A o \in 1..n : Places(f, from, n)[o] = f[from + o - 1]
<1> DEFINE g == Places(f, from, n)
           B == {g[o] : o \in 1..n}
<1>1. g = [o \in 1..n |-> g[o]] /\ \A o \in 1..n : g[o] = f[from + o - 1]
  BY DEF Places
<1> HIDE DEF g
<1>2. g \in [1..n -> B]
  BY <1>1
<1> HIDE DEF B
<1>3. g \in Seq(B) /\ Len(g) = n
  BY <1>2
<1> QED
  BY <1>1, <1>3 DEF g

\* A text and the n places behind it in the array it is stored in, read back
\* from there.
LEMMA ReadBack ==
  ASSUME NEW A, NEW m \in Seq(A), NEW n \in Nat, NEW f,
         \A o \in 0..(Len(m) - 1) : f[o] = m[o + 1]
  PROVE  Places(f, 0, Len(m) + n) = m \o Places(f, Len(m), n)
<1> DEFINE g == Places(f, Len(m), n)
           both == m \o g
<1>1. PICK B : g \in Seq(B) /\ Len(g) = n /\ \A o \in 1..n : g[o] = f[Len(m) + o - 1]
  BY PlacesSeq
<1> HIDE DEF g
<1> DEFINE C == A \cup B
<1>3. m \in Seq(C) /\ g \in Seq(C) /\ Len(m) \in Nat
  <2>1. \A o \in 1..Len(m) : m[o] \in C
    OBVIOUS
  <2>2. \A o \in 1..Len(g) : g[o] \in C
    BY <1>1
  <2> HIDE DEF C
  <2> QED
    BY <1>1, <2>1, <2>2, SeqDef, ElementOfSeq, LenProperties
<1> HIDE DEF C
<1>4. both \in Seq(C) /\ Len(both) = Len(m) + n
  BY <1>1, <1>3, ConcatProperties
<1>5. ASSUME NEW b \in 1..(Len(m) + n) PROVE both[b] = f[0 + b - 1]
  <2>1. CASE b <= Len(m)
    <3>1. both[b] = m[b]
      BY <1>3, <2>1, ConcatProperties
    <3>2. b - 1 \in 0..(Len(m) - 1) /\ (b - 1) + 1 = b /\ 0 + b - 1 = b - 1
      BY <1>3, <2>1
    <3> QED
      BY <3>1, <3>2
  <2>2. CASE b > Len(m)
    <3>1. both[b] = g[b - Len(m)] /\ b - Len(m) \in 1..n
      BY <1>1, <1>3, <2>2
    <3>2. Len(m) + (b - Len(m)) - 1 = 0 + b - 1
      BY <1>3
    <3> QED
      BY <1>1, <3>1, <3>2
  <2>3. b \in Int /\ Len(m) \in Int
    BY <1>3
  <2>4. b <= Len(m) \/ b > Len(m)
    BY <2>3
  <2> QED
    BY <2>1, <2>2, <2>4
<1> HIDE DEF both
<1>6. both = [b \in 1..Len(both) |-> both[b]]
  BY <1>4
<1>7. both = [b \in 1..(Len(m) + n) |-> f[0 + b - 1]]
  BY <1>4, <1>5, <1>6
<1> QED
  BY <1>7 DEF both, g, Places

=============================================================================
