----------------------------- MODULE FoldProofs -----------------------------
(***************************************************************************)
(* Facts about folds.  The library's induction theorems take a predicate;  *)
(* here induction is over sets: every non-empty set of finite sets has a   *)
(* minimal member, so a minimal counterexample is enough.  From it follow  *)
(* the defining equation of a recursive function on the subsets of a       *)
(* finite set, and what the folds of the community modules compute.        *)
(***************************************************************************)
EXTENDS Integers, Sequences, FiniteSets, FiniteSetsExt, Functions, TLAPS, FiniteSetTheorems, WellFoundedInduction

\* Of the finite sets in a non-empty collection, one has no other below it.
LEMMA MinimalSet ==
    ASSUME NEW D, IsFiniteSet(D), NEW T \in SUBSET SUBSET D, T # {}
    PROVE  \E x \in T : \A y \in T : y \subseteq x => y = x
<1>1. T \subseteq FiniteSubsetsOf(D)
  BY FS_Subset DEF FiniteSubsetsOf
<1>2. \E x \in T : \A y \in T : ~ (<<y, x>> \in StrictSubsetOrdering(D))
  BY <1>1, FS_StrictSubsetOrderingWellFounded, WFMin
<1> QED
  BY <1>2 DEF StrictSubsetOrdering

\* A recursion over the subsets of D that takes the element c[s] off the set s
\* at each call, and makes of what is left a value of V.
Peels(D, V, base, c, st) ==
    /\ IsFiniteSet(D) /\ base \in V
    /\ \A s \in SUBSET D : s # {} => c[s] \in s
    /\ \A s \in SUBSET D, v \in V : s # {} => st[<<s, v>>] \in V

\* What solves it.
Solves(g, D, V, base, c, st) ==
    /\ g \in [SUBSET D -> V]
    /\ \A s \in SUBSET D : g[s] = IF s = {} THEN base ELSE st[<<s, g[s \ {c[s]}]>>]

\* Such a recursion has a solution.
LEMMA Unwind ==
    ASSUME NEW D, NEW V, NEW base, NEW c, NEW st, Peels(D, V, base, c, st)
    PROVE  \E g : Solves(g, D, V, base, c, st)
<1> USE DEF Peels, Solves
<1> DEFINE Good(g, C) ==
      /\ g \in [SUBSET C -> V]
      /\ \A s \in SUBSET C : g[s] = IF s = {} THEN base ELSE st[<<s, g[s \ {c[s]}]>>]
<1>1. ASSUME NEW C \in SUBSET D, NEW B \in SUBSET D, NEW g, NEW h, Good(g, C), Good(h, B),
             NEW s0 \in SUBSET C, s0 \in SUBSET B
      PROVE  g[s0] = h[s0]
  <2> DEFINE T == {s \in SUBSET D : s \subseteq C /\ s \subseteq B /\ g[s] # h[s]}
  <2>0. T \in SUBSET SUBSET D /\ s0 \in SUBSET D
    BY <1>1
  <2>1. SUFFICES ASSUME T # {} PROVE FALSE
    <3>1. g[s0] # h[s0] => s0 \in T
      BY <1>1, <2>0
    <3> HIDE DEF T, Good
    <3> QED
      BY <3>1
  <2> HIDE DEF Good
  <2>2. PICK s \in T : \A y \in T : y \subseteq s => y = s
    <3> HIDE DEF T
    <3> QED
      BY <2>0, <2>1, MinimalSet
  <2> USE DEF Good
  <2>3. s # {}
    BY <1>1, <2>2
  <2>4. c[s] \in s /\ s \ {c[s]} \in SUBSET D
    BY <2>3
  <2>5. s \ {c[s]} \notin T
    BY <2>2, <2>4
  <2>6. g[s \ {c[s]}] = h[s \ {c[s]}]
    BY <2>5, <2>4
  <2>7. g[s] = st[<<s, g[s \ {c[s]}]>>] /\ h[s] = st[<<s, h[s \ {c[s]}]>>]
    BY <1>1, <2>3
  <2> QED
    BY <2>6, <2>7
<1> DEFINE Bad == {C \in SUBSET D : ~ \E g : Good(g, C)}
<1>2. SUFFICES ASSUME Bad # {} PROVE FALSE
  <2>1. Bad = {} => \E g : Good(g, D)
    BY D \in SUBSET D, Zenon
  <2> QED
    BY <2>1
<1>3. PICK C \in Bad : \A y \in Bad : y \subseteq C => y = C
  <2>1. Bad \in SUBSET SUBSET D
    OBVIOUS
  <2> HIDE DEF Bad
  <2> QED
    BY <2>1, <1>2, MinimalSet
<1>4. \A t \in SUBSET C : t # C => \E g : Good(g, t)
  BY <1>3
<1> DEFINE W(t) == CHOOSE g : Good(g, t)
<1>5. \A t \in SUBSET C : t # C => Good(W(t), t)
  <2> TAKE t \in SUBSET C
  <2> HAVE t # C
  <2>1. PICK g : Good(g, t)
    BY <1>4
  <2> QED
    BY <2>1, Zenon
<1> HIDE DEF W
<1> DEFINE h == [s \in SUBSET C |-> IF s = {} THEN base ELSE st[<<s, W(s \ {c[s]})[s \ {c[s]}]>>]]
<1>6. ASSUME NEW s \in SUBSET C, s # {}
      PROVE  c[s] \in s /\ s \ {c[s]} \in SUBSET C /\ s \ {c[s]} # C /\ s \ {c[s]} \in SUBSET (s \ {c[s]})
  BY <1>6
<1>7. h \in [SUBSET C -> V]
  <2> SUFFICES ASSUME NEW s \in SUBSET C PROVE h[s] \in V
    OBVIOUS
  <2>1. CASE s = {}
    BY <2>1
  <2>2. CASE s # {}
    <3> DEFINE t == s \ {c[s]}
    <3>1. Good(W(t), t) /\ t \in SUBSET t
      BY <2>2, <1>6, <1>5
    <3>2. W(t)[t] \in V
      BY <3>1
    <3> QED
      BY <2>2, <3>2
  <2> QED
    BY <2>1, <2>2
<1>8. ASSUME NEW s \in SUBSET C, s # {}
      PROVE  h[s] = st[<<s, h[s \ {c[s]}]>>]
  <2> DEFINE t == s \ {c[s]}
  <2>1. Good(W(t), t) /\ t \in SUBSET t /\ t \in SUBSET C
    BY <1>8, <1>6, <1>5
  <2>2. h[t] = W(t)[t]
    <3>1. CASE t = {}
      BY <3>1, <2>1
    <3>2. CASE t # {}
      <4> DEFINE u == t \ {c[t]}
      <4>1. Good(W(u), u) /\ u \in SUBSET u /\ u \in SUBSET t
        <5>1. c[t] \in t /\ u \in SUBSET C /\ u # C /\ u \in SUBSET u
          BY <3>2, <2>1, <1>6
        <5> HIDE DEF Good, u
        <5>2. Good(W(u), u)
          BY <5>1, <1>5
        <5> QED
          BY <5>1, <5>2 DEF u
      <4>2. W(u)[u] = W(t)[u]
        <5>1. u \in SUBSET D /\ t \in SUBSET D
          BY <2>1
        <5> HIDE DEF Good
        <5> QED
          BY <4>1, <2>1, <5>1, <1>1
      <4>3. W(t)[t] = st[<<t, W(t)[u]>>]
        BY <2>1, <3>2
      <4>4. h[t] = st[<<t, W(u)[u]>>]
        BY <2>1, <3>2
      <4> QED
        BY <4>2, <4>3, <4>4
    <3> QED
      BY <3>1, <3>2
  <2> QED
    BY <2>2, <1>8
<1>9. Good(h, C)
  BY <1>7, <1>8
<1> QED
  BY <1>9, <1>3

\* A sum takes its terms in any order.
LEMMA SumSplits ==
    ASSUME NEW F, IsFiniteSet(DOMAIN F), \A x \in DOMAIN F : F[x] \in Nat
    PROVE  \E g \in [SUBSET DOMAIN F -> Nat] :
              /\ g[{}] = 0
              /\ \A s \in SUBSET DOMAIN F : \A x \in s : g[s] = F[x] + g[s \ {x}]
              /\ SumFunction(F) = g[DOMAIN F]
<1> DEFINE D == DOMAIN F
           Ch(s) == CHOOSE x \in s : TRUE
           Eq(g) == g = [s \in SUBSET D |-> IF s = {} THEN 0 ELSE F[Ch(s)] + g[s \ {Ch(s)}]]
           c == [s \in SUBSET D |-> Ch(s)]
           st == [p \in (SUBSET D) \X Nat |-> IF p[1] = {} THEN 0 ELSE F[Ch(p[1])] + p[2]]
<1>1. \A s \in SUBSET D : s # {} => Ch(s) \in s
  OBVIOUS
<1>2. \A s \in SUBSET D : s # {} => c[s] \in s
  BY <1>1
<1>3. \A s \in SUBSET D, v \in Nat : s # {} => st[<<s, v>>] = F[Ch(s)] + v /\ st[<<s, v>>] \in Nat
  BY <1>1
<1>4. PICK h \in [SUBSET D -> Nat] :
        \A s \in SUBSET D : h[s] = IF s = {} THEN 0 ELSE st[<<s, h[s \ {c[s]}]>>]
  <2>1. IsFiniteSet(D) /\ 0 \in Nat
    OBVIOUS
  <2>2. \A s \in SUBSET D, v \in Nat : s # {} => st[<<s, v>>] \in Nat
    BY <1>3
  <2> HIDE DEF D, c, st
  <2> DEFINE V == Nat
             base == 0
  <2>3. Peels(D, V, base, c, st)
    BY <1>2, <2>1, <2>2 DEF Peels
  <2> HIDE DEF V, base
  <2>4. PICK h : Solves(h, D, V, base, c, st)
    BY <2>3, Unwind
  <2> QED
    BY <2>4 DEF Solves, V, base
<1>5. Eq(h)
  <2> SUFFICES ASSUME NEW s \in SUBSET D, s # {}
               PROVE  h[s] = F[Ch(s)] + h[s \ {Ch(s)}]
    <3>1. h[{}] = 0
      BY <1>4
    <3>2. h = [s \in SUBSET D |-> h[s]]
      OBVIOUS
    <3> HIDE DEF Ch, st, c, D
    <3> QED
      BY <3>1, <3>2
  <2>1. h[s \ {Ch(s)}] \in Nat
    OBVIOUS
  <2>2. h[s] = st[<<s, h[s \ {Ch(s)}]>>]
    BY <1>4
  <2> HIDE DEF st, Ch
  <2> QED
    BY <2>1, <2>2, <1>3
<1> DEFINE g == CHOOSE k : Eq(k)
<1>6. Eq(g)
  BY <1>5, Zenon
<1>7. SumFunction(F) = g[D]
  BY DEF SumFunction, SumFunctionOnSet, FoldFunctionOnSet, MapThenFoldSet
<1> HIDE DEF g
<1>8. \A s \in SUBSET D : g[s] = IF s = {} THEN 0 ELSE F[Ch(s)] + g[s \ {Ch(s)}]
  <2> HIDE DEF D, Ch
  <2> QED
    BY <1>6
<1> HIDE DEF Ch, c, st
<1>9. g \in [SUBSET D -> Nat]
  <2>1. \A s \in SUBSET D : g[s] \in Nat
    <3> DEFINE T == {s \in SUBSET D : g[s] \notin Nat}
    <3>1. T \in SUBSET SUBSET D
      OBVIOUS
    <3>2. SUFFICES ASSUME T # {} PROVE FALSE
      OBVIOUS
    <3>3. PICK s \in T : \A y \in T : y \subseteq s => y = s
      <4> HIDE DEF T
      <4> QED
        BY <3>1, <3>2, MinimalSet
    <3>4. s # {} /\ Ch(s) \in s
      <4>1. g[{}] = 0
        BY <1>8
      <4>2. s \in SUBSET D /\ g[s] \notin Nat
        BY <3>3
      <4>3. s # {}
        BY <4>1, <4>2, 0 \in Nat, Zenon
      <4> QED
        BY <4>2, <4>3, <1>1
    <3>5. s \ {Ch(s)} \notin T
      BY <3>3, <3>4
    <3>6. s \in SUBSET D /\ s \ {Ch(s)} \in SUBSET D /\ g[s] \notin Nat /\ F[Ch(s)] \in Nat
      BY <3>3, <3>4
    <3>7. g[s \ {Ch(s)}] \in Nat
      BY <3>5, <3>6
    <3>8. g[s] = F[Ch(s)] + g[s \ {Ch(s)}]
      BY <3>4, <3>6, <1>8
    <3> QED
      BY <3>6, <3>7, <3>8
  <2> QED
    BY <2>1, <1>6
<1>10. \A s \in SUBSET D : \A x \in s : g[s] = F[x] + g[s \ {x}]
  <2> DEFINE T == {s \in SUBSET D : ~ \A x \in s : g[s] = F[x] + g[s \ {x}]}
  <2>1. T \in SUBSET SUBSET D
    OBVIOUS
  <2>2. SUFFICES ASSUME T # {} PROVE FALSE
    OBVIOUS
  <2>3. PICK s \in T : \A y \in T : y \subseteq s => y = s
    <3> HIDE DEF T
    <3> QED
      BY <2>1, <2>2, MinimalSet
  <2>4. PICK x \in s : g[s] # F[x] + g[s \ {x}]
    BY <2>3
  <2> DEFINE y == Ch(s)
  <2>5. y \in s /\ g[s] = F[y] + g[s \ {y}]
    BY <2>4, <1>8, <1>1
  <2> HIDE DEF y
  <2>6. x # y
    BY <2>4, <2>5
  <2>7. s \ {x} \in SUBSET D /\ s \ {x} \notin T /\ s \ {y} \in SUBSET D /\ s \ {y} \notin T
    BY <2>3, <2>5
  <2>8. g[s \ {x}] = F[y] + g[(s \ {x}) \ {y}] /\ g[s \ {y}] = F[x] + g[(s \ {y}) \ {x}]
    BY <2>5, <2>6, <2>7
  <2>9. (s \ {x}) \ {y} = (s \ {y}) \ {x} /\ (s \ {x}) \ {y} \in SUBSET D
    OBVIOUS
  <2>10. F[x] \in Nat /\ F[y] \in Nat /\ g[(s \ {x}) \ {y}] \in Nat
    BY <2>5, <2>9, <1>9
  <2> DEFINE n == g[(s \ {x}) \ {y}]
  <2>11. g[s \ {x}] = F[y] + n /\ g[s \ {y}] = F[x] + n
    BY <2>8, <2>9, Zenon
  <2>12. F[y] + (F[x] + n) = F[x] + (F[y] + n)
    BY <2>10
  <2> HIDE DEF n
  <2> QED
    BY <2>4, <2>5, <2>11, <2>12
<1> QED
  BY <1>7, <1>8, <1>9, <1>10

\* No term larger, no sum larger.
LEMMA SumMonotone ==
    ASSUME NEW F, NEW G, IsFiniteSet(DOMAIN F), DOMAIN F = DOMAIN G,
           \A x \in DOMAIN F : F[x] \in Nat /\ G[x] \in Nat /\ F[x] <= G[x]
    PROVE  SumFunction(F) <= SumFunction(G)
<1> DEFINE D == DOMAIN F
<1>1. PICK f \in [SUBSET D -> Nat] :
          f[{}] = 0 /\ (\A s \in SUBSET D : \A x \in s : f[s] = F[x] + f[s \ {x}]) /\ SumFunction(F) = f[D]
  BY SumSplits
<1>2. PICK g \in [SUBSET D -> Nat] :
          g[{}] = 0 /\ (\A s \in SUBSET D : \A x \in s : g[s] = G[x] + g[s \ {x}]) /\ SumFunction(G) = g[D]
  <2>1. IsFiniteSet(DOMAIN G) /\ \A x \in DOMAIN G : G[x] \in Nat
    OBVIOUS
  <2>2. D = DOMAIN G
    OBVIOUS
  <2> HIDE DEF D
  <2> QED
    BY <2>1, <2>2, SumSplits
<1> DEFINE T == {s \in SUBSET D : f[s] > g[s]}
<1>3. T \in SUBSET SUBSET D
  OBVIOUS
<1>4. SUFFICES ASSUME T # {} PROVE FALSE
  BY <1>1, <1>2
<1>5. PICK s \in T : \A y \in T : y \subseteq s => y = s
  <2> HIDE DEF T
  <2> QED
    BY <1>3, <1>4, MinimalSet
<1>6. s # {}
  <2>1. s \in SUBSET D /\ f[s] > g[s]
    BY <1>5
  <2>2. f[{}] = 0 /\ g[{}] = 0
    BY <1>1, <1>2
  <2>3. ~ (0 > 0)
    OBVIOUS
  <2> QED
    BY <2>1, <2>2, <2>3, Zenon
<1>7. PICK x \in s : TRUE
  BY <1>6
<1>8. s \ {x} \in SUBSET D /\ s \ {x} \notin T
  BY <1>5
<1>9. f[s] = F[x] + f[s \ {x}] /\ g[s] = G[x] + g[s \ {x}]
  BY <1>1, <1>2
<1> QED
  BY <1>5, <1>8, <1>9

\* Induction, for a set of naturals.
LEMMA NaturalsFrom ==
    ASSUME NEW P, 0 \in P, \A n \in Nat : n \in P => n + 1 \in P
    PROVE  Nat \subseteq P
<1> SUFFICES ASSUME NEW m \in Nat, m \notin P
             PROVE  FALSE
  OBVIOUS
<1> DEFINE D == 0 .. m
           T == {0 .. n : n \in {k \in 0 .. m : k \notin P}}
<1>1. IsFiniteSet(D) /\ T \in SUBSET SUBSET D /\ T # {}
  <2>1. IsFiniteSet(0 .. m)
    BY FS_Interval
  <2>2. 0 .. m \in T
    OBVIOUS
  <2>3. \A n \in 0 .. m : 0 .. n \subseteq 0 .. m
    OBVIOUS
  <2>4. T \in SUBSET SUBSET (0 .. m)
    BY <2>3
  <2> HIDE DEF T
  <2> QED
    BY <2>1, <2>2, <2>4
<1>2. PICK x \in T : \A y \in T : y \subseteq x => y = x
  <2> HIDE DEF T, D
  <2> QED
    BY <1>1, MinimalSet
<1>3. PICK n \in 0 .. m : n \notin P /\ x = 0 .. n
  OBVIOUS
<1>4. n # 0 /\ n - 1 \in 0 .. m
  BY <1>3
<1>5. n - 1 \notin P
  <2>1. n - 1 \in Nat /\ (n - 1) + 1 = n
    BY <1>4
  <2> QED
    BY <1>3, <2>1
<1>6. 0 .. (n - 1) \in T
  BY <1>4, <1>5
<1>7. 0 .. (n - 1) \subseteq x /\ n \in x /\ n \notin 0 .. (n - 1)
  BY <1>3, <1>4
<1> QED
  BY <1>2, <1>6, <1>7

\* A non-empty finite set of integers has a greatest member, and Max is that.
LEMMA MaxIsGreatest ==
    ASSUME NEW S, IsFiniteSet(S), S # {}, S \subseteq Int
    PROVE  Max(S) \in S /\ \A y \in S : Max(S) >= y
<1> DEFINE Above(x) == {y \in S : y > x}
           T == {Above(x) : x \in S}
<1>1. T \in SUBSET SUBSET S /\ T # {}
  OBVIOUS
<1>2. PICK a \in T : \A b \in T : b \subseteq a => b = a
  <2> HIDE DEF T
  <2> QED
    BY ONLY IsFiniteSet(S), <1>1, MinimalSet
<1>3. PICK x \in S : a = Above(x)
  OBVIOUS
<1>4. \A y \in S : x >= y
  <2> SUFFICES ASSUME NEW y \in S, y > x PROVE FALSE
    OBVIOUS
  <2>0. y \in Int /\ x \in Int /\ ~ (y > y) /\ \A z \in S : z \in Int /\ (z > y => z > x)
    OBVIOUS
  <2>1. Above(y) \in T /\ Above(y) \subseteq a /\ y \in a /\ y \notin Above(y)
    BY <1>3, <2>0, Zenon
  <2> QED
    BY <2>1, <1>2
<1>5. \E z \in S : \A y \in S : z >= y
  BY <1>4
<1> QED
  BY <1>5 DEF Max

\* Induction, for a set of sequences.
LEMMA SequencesFrom ==
    ASSUME NEW R, NEW P, <<>> \in P, \A s \in Seq(R), x \in R : s \in P => Append(s, x) \in P
    PROVE  Seq(R) \subseteq P
<1> DEFINE N == {n \in Nat : \A s \in Seq(R) : Len(s) = n => s \in P}
<1>1. 0 \in N
  <2>1. \A s \in Seq(R) : Len(s) = 0 => s = <<>>
    OBVIOUS
  <2> QED
    BY <2>1
<1>2. \A n \in Nat : n \in N => n + 1 \in N
  <2> SUFFICES ASSUME NEW n \in Nat, n \in N, NEW s \in Seq(R), Len(s) = n + 1
               PROVE  s \in P
    OBVIOUS
  <2> DEFINE f == [i \in 1 .. n |-> s[i]]
             x == s[n + 1]
  <2>1. x \in R /\ f \in Seq(R) /\ Len(f) = n
    OBVIOUS
  <2>2. s = Append(f, x)
    <3>1. Append(f, x) \in Seq(R) /\ Len(Append(f, x)) = Len(s)
      BY <2>1
    <3>2. \A i \in 1 .. Len(s) : Append(f, x)[i] = s[i]
      BY <2>1
    <3> HIDE DEF f, x
    <3> QED
      BY <3>1, <3>2
  <2> HIDE DEF f, x
  <2> QED
    BY <2>1, <2>2
<1> HIDE DEF N
<1>3. Nat \subseteq N
  BY <1>1, <1>2, NaturalsFrom
<1> QED
  BY <1>3 DEF N

(***************************************************************************)
(* A fold of a sequence from the left, st[<<x, v>>] being what the value v *)
(* becomes at the element x: h[t] is what the elements at the places t     *)
(* make of base.                                                           *)
(***************************************************************************)
Iterates(h, s, V, base, st) ==
    /\ h \in [SUBSET (1 .. Len(s)) -> V]
    /\ \A t \in SUBSET (1 .. Len(s)) :
          h[t] = IF t = {} THEN base ELSE st[<<s[Max(t)], h[t \ {Max(t)}]>>]

LEMMA PlacesMax ==
    ASSUME NEW n \in Nat, NEW t \in SUBSET (1 .. n), t # {}
    PROVE  Max(t) \in t
<1>1. IsFiniteSet(1 .. n)
  BY FS_Interval
<1>2. IsFiniteSet(t)
  BY <1>1, FS_Subset
<1>3. t \subseteq Int
  OBVIOUS
<1> QED
  BY <1>2, <1>3, MaxIsGreatest

LEMMA FirstMax ==
    ASSUME NEW m \in Nat, m > 0
    PROVE  Max(1 .. m) = m /\ (1 .. m) \ {m} = 1 .. (m - 1) /\ 1 .. m # {}
<1>0. IsFiniteSet(1 .. m)
  BY FS_Interval
<1>1. IsFiniteSet(1 .. m) /\ 1 .. m # {} /\ 1 .. m \subseteq Int
  BY <1>0
<1>2. Max(1 .. m) \in 1 .. m /\ \A y \in 1 .. m : Max(1 .. m) >= y
  BY <1>1, MaxIsGreatest
<1>3. PICK x \in 1 .. m : x = Max(1 .. m)
  BY <1>2
<1>4. x >= m
  BY <1>2, <1>3
<1>5. x = m
  BY <1>4
<1> QED
  BY <1>1, <1>3, <1>5

LEMMA IterateExists ==
    ASSUME NEW L, NEW V, NEW s \in Seq(L), NEW base \in V, NEW st \in [L \X V -> V]
    PROVE  \E h : Iterates(h, s, V, base, st)
<1> DEFINE D == 1 .. Len(s)
           c == [t \in SUBSET D |-> Max(t)]
           sp == [p \in (SUBSET D) \X V |-> st[<<s[Max(p[1])], p[2]>>]]
<1>1. Len(s) \in Nat /\ \A i \in D : s[i] \in L
  OBVIOUS
<1>2. IsFiniteSet(D)
  BY <1>1, FS_Interval
<1>3. \A t \in SUBSET D : t # {} => c[t] \in t
  BY <1>1, PlacesMax
<1>4. \A t \in SUBSET D, v \in V : t # {} => sp[<<t, v>>] = st[<<s[c[t]], v>>] /\ sp[<<t, v>>] \in V
  <2> SUFFICES ASSUME NEW t \in SUBSET D, NEW v \in V, t # {}
               PROVE  sp[<<t, v>>] = st[<<s[c[t]], v>>] /\ sp[<<t, v>>] \in V
    OBVIOUS
  <2>1. c[t] = Max(t) /\ s[Max(t)] \in L
    BY <1>1, <1>3
  <2> QED
    BY <2>1
<1>5. \A t \in SUBSET D : c[t] = Max(t)
  OBVIOUS
<1> HIDE DEF D, c, sp
<1>6. Peels(D, V, base, c, sp)
  BY <1>2, <1>3, <1>4 DEF Peels
<1>7. PICK h : Solves(h, D, V, base, c, sp)
  BY <1>6, Unwind
<1>8. ASSUME NEW t \in SUBSET D, t # {}
      PROVE  h[t] = st[<<s[Max(t)], h[t \ {Max(t)}]>>]
  <2>1. t \ {c[t]} \in SUBSET D /\ h[t \ {c[t]}] \in V /\ c[t] = Max(t)
    BY <1>5, <1>7 DEF Solves
  <2>2. h[t] = sp[<<t, h[t \ {c[t]}]>>]
    BY <1>7, <1>8 DEF Solves
  <2> QED
    BY <1>4, <1>8, <2>1, <2>2
<1>9. h \in [SUBSET D -> V] /\ h[{}] = base
  BY <1>7 DEF Solves
<1>10. Iterates(h, s, V, base, st)
  BY <1>8, <1>9 DEF Iterates, D
<1> QED
  BY <1>10

LEMMA IterateStep ==
    ASSUME NEW s, Len(s) \in Nat, NEW V, NEW base, NEW st, NEW h, Iterates(h, s, V, base, st)
    PROVE  /\ h[1 .. 0] = base
           /\ \A m \in 1 .. Len(s) : h[1 .. m] = st[<<s[m], h[1 .. (m - 1)]>>]
           /\ \A m \in 0 .. Len(s) : h[1 .. m] \in V
<1>1. 1 .. 0 = {} /\ {} \in SUBSET (1 .. Len(s)) /\ Len(s) \in Nat
  OBVIOUS
<1>2. h[1 .. 0] = base
  BY <1>1 DEF Iterates
<1>3. ASSUME NEW m \in 1 .. Len(s)
      PROVE  h[1 .. m] = st[<<s[m], h[1 .. (m - 1)]>>]
  <2>1. m \in Nat /\ m > 0 /\ 1 .. m \in SUBSET (1 .. Len(s))
    BY <1>1
  <2>2. Max(1 .. m) = m /\ (1 .. m) \ {m} = 1 .. (m - 1) /\ 1 .. m # {}
    BY <2>1, FirstMax
  <2>3. h[1 .. m] = st[<<s[Max(1 .. m)], h[(1 .. m) \ {Max(1 .. m)}]>>]
    BY <2>1, <2>2 DEF Iterates
  <2> QED
    BY <2>2, <2>3
<1>4. \A m \in 0 .. Len(s) : 1 .. m \in SUBSET (1 .. Len(s))
  BY <1>1
<1>5. \A m \in 0 .. Len(s) : h[1 .. m] \in V
  BY <1>4 DEF Iterates
<1> QED
  BY <1>2, <1>3, <1>5

\* One more element is one more step.
LEMMA IterateAppend ==
    ASSUME NEW L, NEW V, NEW s \in Seq(L), NEW x \in L, NEW base, NEW st, NEW h, NEW g,
           Iterates(h, s, V, base, st), Iterates(g, Append(s, x), V, base, st)
    PROVE  g[1 .. Len(Append(s, x))] = st[<<x, h[1 .. Len(s)]>>]
<1> DEFINE r == Append(s, x)
           n == Len(s)
           P == {m \in Nat : m <= n => g[1 .. m] = h[1 .. m]}
<1>1. r \in Seq(L) /\ n \in Nat /\ Len(r) = n + 1 /\ r[n + 1] = x /\ \A i \in 1 .. n : r[i] = s[i]
  OBVIOUS
<1>2. /\ h[1 .. 0] = base /\ g[1 .. 0] = base
      /\ \A m \in 1 .. n : h[1 .. m] = st[<<s[m], h[1 .. (m - 1)]>>]
      /\ \A m \in 1 .. (n + 1) : g[1 .. m] = st[<<r[m], g[1 .. (m - 1)]>>]
  <2> HIDE DEF r
  <2>1. Iterates(g, r, V, base, st)
    BY DEF r
  <2>2. h[1 .. 0] = base /\ \A m \in 1 .. n : h[1 .. m] = st[<<s[m], h[1 .. (m - 1)]>>]
    BY ONLY <1>1, Iterates(h, s, V, base, st), IterateStep
  <2>3. g[1 .. 0] = base /\ \A m \in 1 .. Len(r) : g[1 .. m] = st[<<r[m], g[1 .. (m - 1)]>>]
    BY ONLY <1>1, <2>1, IterateStep
  <2> HIDE DEF n
  <2> QED
    BY <1>1, <2>2, <2>3
<1> HIDE DEF r, n
<1>3. 0 \in P
  BY <1>2
<1>4. \A m \in Nat : m \in P => m + 1 \in P
  <2> SUFFICES ASSUME NEW m \in Nat, m \in P, m + 1 <= n PROVE g[1 .. (m + 1)] = h[1 .. (m + 1)]
    OBVIOUS
  <2>1. PICK k \in Nat : k = m + 1
    OBVIOUS
  <2>2. k \in 1 .. n /\ k \in 1 .. (n + 1) /\ k - 1 = m
    BY <1>1, <2>1
  <2>3. g[1 .. m] = h[1 .. m]
    BY <1>1
  <2> QED
    BY <1>1, <1>2, <2>1, <2>2, <2>3, ZenonT(30)
<1>5. n \in P
  <2> HIDE DEF P
  <2> QED
    BY <1>1, <1>3, <1>4, NaturalsFrom
<1>6. g[1 .. n] = h[1 .. n]
  BY <1>1, <1>5
<1>7. n + 1 \in 1 .. (n + 1) /\ (n + 1) - 1 = n
  BY <1>1
<1> QED
  BY <1>1, <1>2, <1>6, <1>7 DEF r, n
=============================================================================
