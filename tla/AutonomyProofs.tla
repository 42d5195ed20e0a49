--------------------------- MODULE AutonomyProofs ---------------------------
(***************************************************************************)
(* Theorems about the autonomous loop, for any settings on offer, any      *)
(* number of namespaces, requests and turns, and any faults: a turn and    *)
(* the trail it leaves (Turns, Trail), the loop (Autonomy), and the admin  *)
(* requests on top of it (AutonomyAdmin).                                  *)
(***************************************************************************)
EXTENDS AutonomyAdmin, Turns, FoldProofs, SequenceTheorems, TLAPS

(***************************************************************************)
(* The rows.                                                               *)
(***************************************************************************)
PlanIds == Nat \cup {Unset} \cup {d.id : d \in Drafts}
RowSet == [ns : Arenas, outcome : {"open", "unfinished", "skipped", "completed"},
           why : {"none"} \cup Skips, id : PlanIds]
LineSet == [ns : Arenas, ev : {"started", "unhealthy", "planned", "llm", "stepSkipped", "completed"} \cup Skips,
            id : PlanIds]

\* The row in progress of a namespace, turned into r.
Settled(rows, ns, r) ==
    [i \in DOMAIN rows |-> IF rows[i].ns = ns /\ rows[i].outcome = "open" THEN r ELSE rows[i]]

OneOpen(rows) ==
    \A i, j \in DOMAIN rows :
        rows[i].ns = rows[j].ns /\ rows[i].outcome = "open" /\ rows[j].outcome = "open" => i = j

\* What a line makes of the row in progress.
Told(r, l) ==
    CASE l.ev = "planned"   -> [r EXCEPT !.id = l.id]
      [] l.ev = "completed" -> [r EXCEPT !.outcome = "completed", !.id = IF @ = Unset THEN l.id ELSE @]
      [] l.ev \in Skips     -> [r EXCEPT !.outcome = "skipped", !.why = l.ev]
      [] OTHER              -> r

Cut(rows, ns) == [Current(rows, ns) EXCEPT !.outcome = "unfinished"]

LEMMA RowIs == \A ns \in Arenas : Row(ns, Unset) \in RowSet /\ Row(ns, Unset).ns = ns /\ Row(ns, Unset).outcome = "open"
                                 /\ Row(ns, Unset).why = "none" /\ Row(ns, Unset).id = Unset
BY DEF Row, RowSet, PlanIds

LEMMA ToldIs ==
    ASSUME NEW r \in RowSet, NEW l \in LineSet
    PROVE  Told(r, l) \in RowSet /\ Told(r, l).ns = r.ns
<1>1. CASE l.ev = "planned"
  BY <1>1 DEF Told, RowSet, LineSet
<1>2. CASE l.ev = "completed"
  BY <1>2 DEF Told, RowSet, LineSet
<1>3. CASE l.ev \in Skips
  BY <1>3 DEF Told, RowSet, LineSet, Skips
<1>4. CASE l.ev \notin Skips /\ l.ev \notin {"planned", "completed"}
  BY <1>4 DEF Told
<1> QED
  BY <1>1, <1>2, <1>3, <1>4

LEMMA SettledIs ==
    ASSUME NEW rows \in Seq(RowSet), NEW ns, NEW r \in RowSet
    PROVE  /\ Settled(rows, ns, r) \in Seq(RowSet) /\ Len(Settled(rows, ns, r)) = Len(rows)
           /\ \A i \in DOMAIN rows :
                Settled(rows, ns, r)[i] = IF rows[i].ns = ns /\ rows[i].outcome = "open" THEN r ELSE rows[i]
<1> DEFINE n == Len(rows)
           S == Settled(rows, ns, r)
<1>1. n \in Nat /\ DOMAIN rows = 1 .. n /\ \A i \in 1 .. n : rows[i] \in RowSet
  OBVIOUS
<1>2. S = [i \in 1 .. n |-> IF rows[i].ns = ns /\ rows[i].outcome = "open" THEN r ELSE rows[i]]
  BY <1>1 DEF Settled
<1>3. S \in [1 .. n -> RowSet]
  BY <1>1, <1>2
<1> HIDE DEF S, n
<1>4. S \in Seq(RowSet) /\ Len(S) = n
  BY <1>1, <1>3
<1> QED
  BY <1>1, <1>2, <1>4 DEF S, n

LEMMA CurrentIs ==
    ASSUME NEW rows \in Seq(RowSet), NEW ns \in Arenas
    PROVE  /\ Current(rows, ns) \in RowSet /\ Current(rows, ns).ns = ns /\ Current(rows, ns).outcome = "open"
           /\ InProgress(rows, ns) = {} => Current(rows, ns) = Row(ns, Unset)
           /\ InProgress(rows, ns) # {} => \E k \in InProgress(rows, ns) : Current(rows, ns) = rows[k]
<1>1. \A k \in InProgress(rows, ns) : rows[k] \in RowSet /\ rows[k].ns = ns /\ rows[k].outcome = "open"
  BY DEF InProgress
<1>2. CASE InProgress(rows, ns) = {}
  BY <1>2, RowIs DEF Current
<1>3. CASE InProgress(rows, ns) # {}
  <2> DEFINE k == CHOOSE i \in InProgress(rows, ns) : TRUE
  <2>1. k \in InProgress(rows, ns)
    BY <1>3
  <2>2. Current(rows, ns) = rows[k]
    BY <1>3 DEF Current
  <2> HIDE DEF k
  <2> QED
    BY <1>1, <1>3, <2>1, <2>2
<1> QED
  BY <1>2, <1>3

LEMMA CutIs ==
    ASSUME NEW rows \in Seq(RowSet), NEW ns \in Arenas
    PROVE  /\ Cut(rows, ns) \in RowSet /\ Cut(rows, ns).ns = ns /\ Cut(rows, ns).outcome = "unfinished"
           /\ Cut(rows, ns).why = Current(rows, ns).why /\ Cut(rows, ns).id = Current(rows, ns).id
<1> DEFINE c == Current(rows, ns)
<1>1. c \in RowSet /\ c.ns = ns
  BY CurrentIs
<1>2. Cut(rows, ns) = [c EXCEPT !.outcome = "unfinished"]
  BY DEF Cut
<1> HIDE DEF c
<1>3. [c EXCEPT !.outcome = "unfinished"] \in RowSet
  BY <1>1 DEF RowSet
<1> QED
  BY <1>1, <1>2, <1>3 DEF c, RowSet

\* One row of each namespace at most is in progress, so each call on a row writes that row.
LEMMA OnlyOne ==
    ASSUME NEW rows \in Seq(RowSet), NEW ns, OneOpen(rows), NEW k \in InProgress(rows, ns)
    PROVE  k \in DOMAIN rows /\ \A i \in DOMAIN rows : (rows[i].ns = ns /\ rows[i].outcome = "open") <=> i = k
BY DEF InProgress, OneOpen

LEMMA PutIs ==
    ASSUME NEW rows \in Seq(RowSet), OneOpen(rows), NEW ns, NEW r \in RowSet, r.ns = ns
    PROVE  Put(rows, r) = IF InProgress(rows, ns) = {} THEN Append(rows, r) ELSE Settled(rows, ns, r)
<1>1. CASE InProgress(rows, ns) = {}
  BY <1>1 DEF Put
<1>2. CASE InProgress(rows, ns) # {}
  <2> DEFINE k == CHOOSE i \in InProgress(rows, ns) : TRUE
  <2>1. k \in InProgress(rows, ns)
    BY <1>2
  <2>2. Put(rows, r) = [rows EXCEPT ![k] = r]
    BY <1>2 DEF Put
  <2> HIDE DEF k
  <2>3. k \in DOMAIN rows /\ \A i \in DOMAIN rows : (rows[i].ns = ns /\ rows[i].outcome = "open") <=> i = k
    BY <2>1, OnlyOne
  <2>4. [rows EXCEPT ![k] = r] = Settled(rows, ns, r)
    BY <2>3 DEF Settled
  <2> QED
    BY <1>2, <2>2, <2>4
<1> QED
  BY <1>1, <1>2

LEMMA StartIs ==
    ASSUME NEW rows \in Seq(RowSet), OneOpen(rows), NEW ns \in Arenas
    PROVE  StartRow(rows, ns) = Append(Settled(rows, ns, Cut(rows, ns)), Row(ns, Unset))
<1> DEFINE A == [i \in DOMAIN rows |->
                    IF i \in InProgress(rows, ns) THEN [rows[i] EXCEPT !.outcome = "unfinished"] ELSE rows[i]]
<1>1. A = Settled(rows, ns, Cut(rows, ns))
  <2> SUFFICES ASSUME NEW i \in DOMAIN rows, rows[i].ns = ns, rows[i].outcome = "open"
               PROVE  [rows[i] EXCEPT !.outcome = "unfinished"] = Cut(rows, ns)
    BY DEF Settled, InProgress
  <2>1. i \in InProgress(rows, ns)
    BY DEF InProgress
  <2>2. PICK k \in InProgress(rows, ns) : Current(rows, ns) = rows[k]
    BY <2>1, CurrentIs
  <2>3. k = i
    BY <2>1, OnlyOne
  <2> QED
    BY <2>2, <2>3 DEF Cut
<1> QED
  BY <1>1 DEF StartRow

\* So a line is told of the row in progress, or of a new one.
LEMMA FoldIs ==
    ASSUME NEW rows \in Seq(RowSet), OneOpen(rows), NEW l \in LineSet
    PROVE  Fold(rows, l) =
              IF l.ev = "started" THEN Append(Settled(rows, l.ns, Cut(rows, l.ns)), Row(l.ns, Unset))
              ELSE IF InProgress(rows, l.ns) = {} THEN Append(rows, Told(Row(l.ns, Unset), l))
              ELSE Settled(rows, l.ns, Told(Current(rows, l.ns), l))
<1> DEFINE r == Current(rows, l.ns)
<1>1. l.ns \in Arenas /\ r \in RowSet /\ r.ns = l.ns /\ (InProgress(rows, l.ns) = {} => r = Row(l.ns, Unset))
  BY CurrentIs DEF LineSet
<1>2. Told(r, l) \in RowSet /\ Told(r, l).ns = l.ns
  BY <1>1, ToldIs
<1>3. l.ev = "started" => Fold(rows, l) = StartRow(rows, l.ns)
  BY DEF Fold, Skips
<1>4. l.ev # "started" => Fold(rows, l) = Put(rows, Told(r, l))
  <2> DEFINE s == r
  <2>1. Fold(rows, l) =
          CASE l.ev = "started"   -> StartRow(rows, l.ns)
            [] l.ev = "planned"   -> Put(rows, [s EXCEPT !.id = l.id])
            [] l.ev = "completed" -> Put(rows, [s EXCEPT !.outcome = "completed", !.id = IF @ = Unset THEN l.id ELSE @])
            [] l.ev \in Skips     -> Put(rows, [s EXCEPT !.outcome = "skipped", !.why = l.ev])
            [] OTHER              -> Put(rows, s)
    BY DEF Fold
  <2> HIDE DEF r
  <2> SUFFICES ASSUME l.ev # "started" PROVE Fold(rows, l) = Put(rows, Told(s, l))
    OBVIOUS
  <2>2. CASE l.ev = "planned"
    BY <2>1, <2>2 DEF Told, Skips
  <2>3. CASE l.ev = "completed"
    BY <2>1, <2>3 DEF Told, Skips
  <2>4. CASE l.ev \in Skips
    BY <2>1, <2>4 DEF Told, Skips
  <2>5. CASE l.ev \notin Skips /\ l.ev \notin {"started", "planned", "completed"}
    BY <2>1, <2>5 DEF Told
  <2> QED
    BY <2>2, <2>3, <2>4, <2>5
<1> HIDE DEF r
<1>5. Put(rows, Told(r, l)) = IF InProgress(rows, l.ns) = {} THEN Append(rows, Told(r, l)) ELSE Settled(rows, l.ns, Told(r, l))
  BY <1>2, PutIs
<1>6. StartRow(rows, l.ns) = Append(Settled(rows, l.ns, Cut(rows, l.ns)), Row(l.ns, Unset))
  BY <1>1, StartIs
<1>7. CASE l.ev = "started"
  BY <1>3, <1>6, <1>7
<1>8. CASE l.ev # "started" /\ InProgress(rows, l.ns) = {}
  BY <1>1, <1>4, <1>5, <1>8
<1>9. CASE l.ev # "started" /\ InProgress(rows, l.ns) # {}
  BY <1>4, <1>5, <1>9 DEF r
<1> QED
  BY <1>7, <1>8, <1>9

\* Neither kind of change leaves two rows in progress.
LEMMA SettledOne ==
    ASSUME NEW rows \in Seq(RowSet), OneOpen(rows), NEW ns, NEW r \in RowSet, r.ns = ns
    PROVE  OneOpen(Settled(rows, ns, r))
<1> DEFINE S == Settled(rows, ns, r)
<1>1. /\ S \in Seq(RowSet) /\ DOMAIN S = DOMAIN rows
      /\ \A i \in DOMAIN rows : S[i] = IF rows[i].ns = ns /\ rows[i].outcome = "open" THEN r ELSE rows[i]
  <2> HIDE DEF S
  <2>1. S \in Seq(RowSet) /\ Len(S) = Len(rows)
    BY SettledIs DEF S
  <2> QED
    BY <2>1, SettledIs DEF S
<1> HIDE DEF S
<1>2. \A i \in DOMAIN S : S[i].outcome = "open" => rows[i].outcome = "open" /\ rows[i].ns = S[i].ns
  BY <1>1
<1>3. OneOpen(S)
  BY <1>1, <1>2 DEF OneOpen
<1> QED
  BY <1>3 DEF S

LEMMA AppendOne ==
    ASSUME NEW rows \in Seq(RowSet), OneOpen(rows), NEW r \in RowSet,
           \A i \in DOMAIN rows : rows[i].ns = r.ns => rows[i].outcome # "open"
    PROVE  OneOpen(Append(rows, r))
<1> DEFINE A == Append(rows, r)
           n == Len(rows)
<1>1. /\ n \in Nat /\ DOMAIN A = 1 .. (n + 1) /\ DOMAIN rows = 1 .. n /\ A[n + 1] = r
      /\ \A i \in 1 .. n : A[i] = rows[i]
  OBVIOUS
<1> HIDE DEF A, n
<1>2. ASSUME NEW i \in DOMAIN A, NEW j \in DOMAIN A,
             A[i].ns = A[j].ns, A[i].outcome = "open", A[j].outcome = "open"
      PROVE  i = j
  <2>1. CASE i \in 1 .. n /\ j \in 1 .. n
    BY <1>1, <1>2, <2>1 DEF OneOpen
  <2>2. CASE i = n + 1
    BY <1>1, <1>2, <2>2
  <2>3. CASE j = n + 1
    BY <1>1, <1>2, <2>3
  <2> QED
    BY <1>1, <2>1, <2>2, <2>3
<1>3. OneOpen(A)
  BY <1>2 DEF OneOpen
<1> QED
  BY <1>3 DEF A

(***************************************************************************)
(* The rows of one namespace.                                              *)
(***************************************************************************)
LEMMA RowsBy ==
    ASSUME NEW ns, NEW R, NEW s \in Seq(R)
    PROVE  \E h : /\ Iterates(h, s, Seq(R), <<>>,
                              [p \in R \X Seq(R) |-> IF p[1].ns = ns THEN Append(p[2], p[1]) ELSE p[2]])
                  /\ RowsOf(s, ns) = h[1 .. Len(s)]
<1> DEFINE V == Seq(R)
           D == 1 .. Len(s)
           st == [p \in R \X V |-> IF p[1].ns = ns THEN Append(p[2], p[1]) ELSE p[2]]
           Eq(g) == g = [t \in SUBSET D |->
                          IF t = {} THEN <<>>
                          ELSE IF s[Max(t)].ns = ns THEN Append(g[t \ {Max(t)}], s[Max(t)]) ELSE g[t \ {Max(t)}]]
<1>1. DOMAIN s = D /\ Len(s) \in Nat /\ <<>> \in V /\ \A i \in D : s[i] \in R
  OBVIOUS
<1>2. st \in [R \X V -> V] /\ \A x \in R, v \in V : st[<<x, v>>] = IF x.ns = ns THEN Append(v, x) ELSE v
  <2>1. \A x \in R, v \in V : (IF x.ns = ns THEN Append(v, x) ELSE v) \in V
    OBVIOUS
  <2> HIDE DEF V
  <2> QED
    BY <2>1
<1>3. PICK h : Iterates(h, s, V, <<>>, st)
  <2> DEFINE z == <<>>
  <2>1. z \in V /\ s \in Seq(R) /\ st \in [R \X V -> V]
    BY <1>1, <1>2
  <2> HIDE DEF st, V, z
  <2>2. \E h : Iterates(h, s, V, z, st)
    BY ONLY <2>1, IterateExists
  <2> QED
    BY <2>2 DEF z
<1> HIDE DEF st, V
<1>4. Eq(h)
  <2> SUFFICES ASSUME NEW t \in SUBSET D, t # {}
               PROVE  h[t] = IF s[Max(t)].ns = ns THEN Append(h[t \ {Max(t)}], s[Max(t)]) ELSE h[t \ {Max(t)}]
    BY <1>3 DEF Iterates
  <2>1. Max(t) \in D
    BY <1>1, PlacesMax
  <2>2. h[t \ {Max(t)}] \in V /\ s[Max(t)] \in R
    BY <1>1, <1>3, <2>1 DEF Iterates
  <2>3. h[t] = st[<<s[Max(t)], h[t \ {Max(t)}]>>]
    BY <1>3 DEF Iterates
  <2> QED
    BY <1>2, <2>2, <2>3
<1> DEFINE k == CHOOSE g : Eq(g)
<1>5. Eq(k)
  BY <1>4, Zenon
<1>6. RowsOf(s, ns) = k[D]
  BY <1>1 DEF RowsOf, FoldLeft, MapThenFoldSet
<1> HIDE DEF k
<1>7. /\ k[1 .. 0] = <<>>
      /\ \A m \in 1 .. Len(s) : k[1 .. m] = IF s[m].ns = ns THEN Append(k[1 .. (m - 1)], s[m]) ELSE k[1 .. (m - 1)]
  <2>1. \A m \in 1 .. Len(s) : 1 .. m \in SUBSET D /\ Max(1 .. m) = m /\ (1 .. m) \ {m} = 1 .. (m - 1) /\ 1 .. m # {}
    BY <1>1, FirstMax, SMTT(30)
  <2>2. 1 .. 0 = {} /\ {} \in SUBSET D
    OBVIOUS
  <2>3. \A t \in SUBSET D :
          k[t] = IF t = {} THEN <<>>
                 ELSE IF s[Max(t)].ns = ns THEN Append(k[t \ {Max(t)}], s[Max(t)]) ELSE k[t \ {Max(t)}]
    <3> HIDE DEF D
    <3> QED
      BY <1>5
  <2>4. k[1 .. 0] = <<>>
    BY <2>2, <2>3
  <2> SUFFICES ASSUME NEW m \in 1 .. Len(s)
               PROVE  k[1 .. m] = IF s[m].ns = ns THEN Append(k[1 .. (m - 1)], s[m]) ELSE k[1 .. (m - 1)]
    BY <2>4
  <2> DEFINE t == 1 .. m
             u == 1 .. (m - 1)
  <2>5. t \in SUBSET D /\ Max(t) = m /\ t \ {m} = u /\ t # {}
    BY <2>1
  <2> HIDE DEF t, u, D
  <2>6. k[t] = IF s[m].ns = ns THEN Append(k[u], s[m]) ELSE k[u]
    BY <2>3, <2>5
  <2> QED
    BY <2>6 DEF t, u
<1>8. /\ h[1 .. 0] = <<>>
      /\ \A m \in 1 .. Len(s) : h[1 .. m] = st[<<s[m], h[1 .. (m - 1)]>>]
      /\ \A m \in 0 .. Len(s) : h[1 .. m] \in V
  BY <1>1, <1>3, IterateStep
<1> DEFINE P == {m \in Nat : m <= Len(s) => k[1 .. m] = h[1 .. m]}
<1>9. 0 \in P
  BY <1>7, <1>8
<1>10. \A m \in Nat : m \in P => m + 1 \in P
  <2> SUFFICES ASSUME NEW m \in Nat, m \in P, m + 1 <= Len(s) PROVE k[1 .. (m + 1)] = h[1 .. (m + 1)]
    OBVIOUS
  <2>1. PICK q \in Nat : q = m + 1
    OBVIOUS
  <2>2. q \in 1 .. Len(s) /\ q - 1 = m /\ m \in 0 .. Len(s) /\ k[1 .. m] = h[1 .. m]
    BY <1>1, <2>1
  <2>3. h[1 .. q] = (IF s[q].ns = ns THEN Append(h[1 .. m], s[q]) ELSE h[1 .. m])
    BY <1>1, <1>2, <1>8, <2>2
  <2>4. k[1 .. q] = (IF s[q].ns = ns THEN Append(k[1 .. m], s[q]) ELSE k[1 .. m])
    BY <1>7, <2>2
  <2> QED
    BY <2>1, <2>2, <2>3, <2>4
<1>11. Len(s) \in P
  <2> HIDE DEF P
  <2> QED
    BY <1>1, <1>9, <1>10, NaturalsFrom
<1>12. RowsOf(s, ns) = h[1 .. Len(s)]
  BY <1>1, <1>6, <1>11
<1> QED
  BY <1>3, <1>12 DEF st, V

LEMMA RowsAppend ==
    ASSUME NEW ns, NEW R, NEW s \in Seq(R), NEW x \in R
    PROVE  /\ RowsOf(s, ns) \in Seq(R)
           /\ RowsOf(Append(s, x), ns) = IF x.ns = ns THEN Append(RowsOf(s, ns), x) ELSE RowsOf(s, ns)
           /\ RowsOf(<<>>, ns) = <<>>
<1> DEFINE st == [p \in R \X Seq(R) |-> IF p[1].ns = ns THEN Append(p[2], p[1]) ELSE p[2]]
           r == Append(s, x)
           z == <<>>
<1>1. r \in Seq(R) /\ z \in Seq(R) /\ Len(z) = 0 /\ Len(r) \in Nat /\ Len(s) \in Nat
  OBVIOUS
<1>2. \A v \in Seq(R) : st[<<x, v>>] = IF x.ns = ns THEN Append(v, x) ELSE v
  OBVIOUS
<1>3. ASSUME NEW q \in Seq(R)
      PROVE  \E h : Iterates(h, q, Seq(R), <<>>, st) /\ RowsOf(q, ns) = h[1 .. Len(q)]
  BY RowsBy
<1> HIDE DEF st, r, z
<1>4. PICK h : Iterates(h, s, Seq(R), <<>>, st) /\ RowsOf(s, ns) = h[1 .. Len(s)]
  BY <1>3
<1>5. PICK g : Iterates(g, r, Seq(R), <<>>, st) /\ RowsOf(r, ns) = g[1 .. Len(r)]
  BY <1>1, <1>3
<1>6. PICK e : Iterates(e, z, Seq(R), <<>>, st) /\ RowsOf(z, ns) = e[1 .. Len(z)]
  BY <1>1, <1>3
<1>7. h[1 .. Len(s)] \in Seq(R)
  <2>1. Len(s) \in 0 .. Len(s)
    BY <1>1
  <2> QED
    BY <1>1, <1>4, <2>1, IterateStep
<1>8. e[1 .. 0] = <<>>
  BY <1>1, <1>6, IterateStep
<1>9. g[1 .. Len(r)] = st[<<x, h[1 .. Len(s)]>>]
  BY <1>4, <1>5, IterateAppend DEF r
<1>10. RowsOf(s, ns) \in Seq(R) /\ RowsOf(z, ns) = <<>>
  BY <1>1, <1>4, <1>6, <1>7, <1>8
<1>11. RowsOf(r, ns) = st[<<x, RowsOf(s, ns)>>]
  BY <1>4, <1>5, <1>9
<1>12. RowsOf(r, ns) = IF x.ns = ns THEN Append(RowsOf(s, ns), x) ELSE RowsOf(s, ns)
  BY <1>2, <1>10, <1>11
<1> QED
  BY <1>10, <1>12 DEF r, z

(***************************************************************************)
(* The fold of the lines.                                                  *)
(***************************************************************************)
RowLists == {rows \in Seq(RowSet) : OneOpen(rows)}

LEMMA FoldCloses ==
    ASSUME NEW rows \in RowLists, NEW l \in LineSet
    PROVE  Fold(rows, l) \in RowLists
<1> DEFINE ns == l.ns
           c == Cut(rows, ns)
           S == Settled(rows, ns, c)
           new == Row(ns, Unset)
           told == Told(Current(rows, ns), l)
<1>1. rows \in Seq(RowSet) /\ OneOpen(rows) /\ ns \in Arenas
  BY DEF RowLists, LineSet
<1>2. c \in RowSet /\ c.ns = ns /\ c.outcome = "unfinished"
  BY <1>1, CutIs
<1>3. new \in RowSet /\ new.ns = ns
  BY <1>1, RowIs
<1>4. told \in RowSet /\ told.ns = ns
  BY <1>1, CurrentIs, ToldIs
<1>5. Told(new, l) \in RowSet /\ Told(new, l).ns = ns
  BY <1>3, ToldIs
<1>6. CASE l.ev = "started"
  <2>1. Fold(rows, l) = Append(S, new)
    BY <1>1, <1>6, FoldIs
  <2>2. S \in Seq(RowSet) /\ OneOpen(S)
    BY <1>1, <1>2, SettledIs, SettledOne
  <2>3. \A i \in DOMAIN S : S[i].ns = new.ns => S[i].outcome # "open"
    BY <1>1, <1>2, <1>3, SettledIs
  <2> HIDE DEF S, new
  <2>4. Append(S, new) \in Seq(RowSet) /\ OneOpen(Append(S, new))
    BY <1>3, <2>2, <2>3, AppendOne
  <2> QED
    BY <2>1, <2>4 DEF RowLists
<1>7. CASE l.ev # "started" /\ InProgress(rows, ns) = {}
  <2> DEFINE r == Told(new, l)
  <2>1. Fold(rows, l) = Append(rows, r)
    BY <1>1, <1>7, FoldIs
  <2>2. \A i \in DOMAIN rows : rows[i].ns = r.ns => rows[i].outcome # "open"
    BY <1>5, <1>7 DEF InProgress
  <2> HIDE DEF r
  <2>3. r \in RowSet
    BY <1>5 DEF r
  <2>4. Append(rows, r) \in Seq(RowSet) /\ OneOpen(Append(rows, r))
    BY <1>1, <2>2, <2>3, AppendOne
  <2> QED
    BY <2>1, <2>4 DEF RowLists
<1>8. CASE l.ev # "started" /\ InProgress(rows, ns) # {}
  <2>1. Fold(rows, l) = Settled(rows, ns, told)
    BY <1>1, <1>8, FoldIs
  <2> HIDE DEF told
  <2>2. Settled(rows, ns, told) \in Seq(RowSet) /\ OneOpen(Settled(rows, ns, told))
    BY <1>1, <1>4, SettledIs, SettledOne
  <2> QED
    BY <2>1, <2>2 DEF RowLists
<1> QED
  BY <1>6, <1>7, <1>8

LEMMA CyclesBy ==
    ASSUME NEW s \in Seq(LineSet)
    PROVE  \E h : /\ Iterates(h, s, RowLists, <<>>, [p \in LineSet \X RowLists |-> Fold(p[2], p[1])])
                  /\ Cycles(s) = h[1 .. Len(s)]
<1> DEFINE V == RowLists
           R == LineSet
           D == 1 .. Len(s)
           st == [p \in R \X V |-> Fold(p[2], p[1])]
           Eq(g) == g = [t \in SUBSET D |->
                          IF t = {} THEN <<>> ELSE Fold(g[t \ {Max(t)}], s[Max(t)])]
<1>1. DOMAIN s = D /\ Len(s) \in Nat /\ <<>> \in V /\ \A i \in D : s[i] \in R
  BY DEF RowLists, OneOpen
<1>2. st \in [R \X V -> V] /\ \A x \in R, v \in V : st[<<x, v>>] = Fold(v, x)
  <2>1. \A x \in R, v \in V : Fold(v, x) \in V
    BY FoldCloses
  <2> HIDE DEF V, R
  <2> QED
    BY <2>1
<1>3. PICK h : Iterates(h, s, V, <<>>, st)
  <2> DEFINE z == <<>>
  <2>1. z \in V /\ s \in Seq(R) /\ st \in [R \X V -> V]
    BY <1>1, <1>2
  <2> HIDE DEF st, V, R, z
  <2>2. \E h : Iterates(h, s, V, z, st)
    BY ONLY <2>1, IterateExists
  <2> QED
    BY <2>2 DEF z
<1> HIDE DEF st, V, R
<1>4. Eq(h)
  <2> SUFFICES ASSUME NEW t \in SUBSET D, t # {}
               PROVE  h[t] = Fold(h[t \ {Max(t)}], s[Max(t)])
    BY <1>3 DEF Iterates
  <2>1. Max(t) \in D
    BY <1>1, PlacesMax
  <2>2. h[t \ {Max(t)}] \in V /\ s[Max(t)] \in R
    BY <1>1, <1>3, <2>1 DEF Iterates
  <2>3. h[t] = st[<<s[Max(t)], h[t \ {Max(t)}]>>]
    BY <1>3 DEF Iterates
  <2> QED
    BY <1>2, <2>2, <2>3
<1> DEFINE k == CHOOSE g : Eq(g)
<1>5. Eq(k)
  BY <1>4, Zenon
<1>6. Cycles(s) = k[D]
  BY <1>1 DEF Cycles, FoldLeft, MapThenFoldSet
<1> HIDE DEF k
<1>7. /\ k[1 .. 0] = <<>>
      /\ \A m \in 1 .. Len(s) : k[1 .. m] = Fold(k[1 .. (m - 1)], s[m])
  <2>1. \A m \in 1 .. Len(s) : 1 .. m \in SUBSET D /\ Max(1 .. m) = m /\ (1 .. m) \ {m} = 1 .. (m - 1) /\ 1 .. m # {}
    BY <1>1, FirstMax, SMTT(30)
  <2>2. 1 .. 0 = {} /\ {} \in SUBSET D
    OBVIOUS
  <2>3. \A t \in SUBSET D : k[t] = IF t = {} THEN <<>> ELSE Fold(k[t \ {Max(t)}], s[Max(t)])
    <3> HIDE DEF D
    <3> QED
      BY <1>5
  <2>4. k[1 .. 0] = <<>>
    BY <2>2, <2>3
  <2> SUFFICES ASSUME NEW m \in 1 .. Len(s)
               PROVE  k[1 .. m] = Fold(k[1 .. (m - 1)], s[m])
    BY <2>4
  <2> DEFINE t == 1 .. m
             u == 1 .. (m - 1)
  <2>5. t \in SUBSET D /\ Max(t) = m /\ t \ {m} = u /\ t # {}
    BY <2>1
  <2> HIDE DEF t, u, D
  <2>6. k[t] = Fold(k[u], s[m])
    BY <2>3, <2>5
  <2> QED
    BY <2>6 DEF t, u
<1>8. /\ h[1 .. 0] = <<>>
      /\ \A m \in 1 .. Len(s) : h[1 .. m] = st[<<s[m], h[1 .. (m - 1)]>>]
      /\ \A m \in 0 .. Len(s) : h[1 .. m] \in V
  BY <1>1, <1>3, IterateStep
<1> DEFINE P == {m \in Nat : m <= Len(s) => k[1 .. m] = h[1 .. m]}
<1>9. 0 \in P
  BY <1>7, <1>8
<1>10. \A m \in Nat : m \in P => m + 1 \in P
  <2> SUFFICES ASSUME NEW m \in Nat, m \in P, m + 1 <= Len(s) PROVE k[1 .. (m + 1)] = h[1 .. (m + 1)]
    OBVIOUS
  <2>1. PICK q \in Nat : q = m + 1
    OBVIOUS
  <2>2. q \in 1 .. Len(s) /\ q - 1 = m /\ m \in 0 .. Len(s) /\ k[1 .. m] = h[1 .. m]
    BY <1>1, <2>1
  <2>3. h[1 .. q] = Fold(h[1 .. m], s[q])
    BY <1>1, <1>2, <1>8, <2>2
  <2>4. k[1 .. q] = Fold(k[1 .. m], s[q])
    BY <1>7, <2>2
  <2> QED
    BY <2>1, <2>2, <2>3, <2>4
<1>11. Len(s) \in P
  <2> HIDE DEF P
  <2> QED
    BY <1>1, <1>9, <1>10, NaturalsFrom
<1>12. Cycles(s) = h[1 .. Len(s)]
  BY <1>1, <1>6, <1>11
<1> QED
  BY <1>3, <1>12 DEF st, V, R

\* One more line is one more step of the fold.
LEMMA CyclesAppend ==
    ASSUME NEW s \in Seq(LineSet), NEW x \in LineSet
    PROVE  /\ Cycles(s) \in RowLists
           /\ Cycles(Append(s, x)) = Fold(Cycles(s), x)
<1> DEFINE st == [p \in LineSet \X RowLists |-> Fold(p[2], p[1])]
           r == Append(s, x)
<1>1. r \in Seq(LineSet) /\ Len(r) \in Nat /\ Len(s) \in Nat
  OBVIOUS
<1>2. \A v \in RowLists : st[<<x, v>>] = Fold(v, x)
  OBVIOUS
<1>3. ASSUME NEW q \in Seq(LineSet)
      PROVE  \E h : Iterates(h, q, RowLists, <<>>, st) /\ Cycles(q) = h[1 .. Len(q)]
  BY CyclesBy
<1> HIDE DEF st, r
<1>4. PICK h : Iterates(h, s, RowLists, <<>>, st) /\ Cycles(s) = h[1 .. Len(s)]
  BY <1>3
<1>5. PICK g : Iterates(g, r, RowLists, <<>>, st) /\ Cycles(r) = g[1 .. Len(r)]
  BY <1>1, <1>3
<1>7. h[1 .. Len(s)] \in RowLists
  <2>1. Len(s) \in 0 .. Len(s)
    BY <1>1
  <2> QED
    BY <1>1, <1>4, <2>1, IterateStep
<1>9. g[1 .. Len(r)] = st[<<x, h[1 .. Len(s)]>>]
  BY <1>4, <1>5, IterateAppend DEF r
<1> QED
  BY <1>2, <1>4, <1>5, <1>7, <1>9 DEF r

LEMMA CyclesNone == Cycles(<<>>) = <<>>
<1> DEFINE st == [p \in LineSet \X RowLists |-> Fold(p[2], p[1])]
           z == <<>>
<1>1. z \in Seq(LineSet) /\ Len(z) = 0
  OBVIOUS
<1>2. \E h : Iterates(h, z, RowLists, <<>>, st) /\ Cycles(z) = h[1 .. Len(z)]
  <2> HIDE DEF z
  <2> QED
    BY <1>1, CyclesBy
<1> HIDE DEF st, z
<1>3. PICK h : Iterates(h, z, RowLists, <<>>, st) /\ Cycles(z) = h[1 .. Len(z)]
  BY <1>2
<1>4. h[1 .. 0] = <<>>
  BY <1>1, <1>3, IterateStep
<1> QED
  BY <1>1, <1>3, <1>4 DEF z

\* The rows of a namespace are those that are its own, all of them.
Own(rows, own, ns) ==
    /\ \A i \in DOMAIN own : own[i].ns = ns /\ \E k \in DOMAIN rows : rows[k] = own[i]
    /\ \A k \in DOMAIN rows : rows[k].ns = ns => \E i \in DOMAIN own : own[i] = rows[k]

LEMMA OwnAppend ==
    ASSUME NEW R, NEW rows \in Seq(R), NEW own \in Seq(R), NEW ns, NEW x \in R, Own(rows, own, ns)
    PROVE  Own(Append(rows, x), IF x.ns = ns THEN Append(own, x) ELSE own, ns)
<1> DEFINE A == Append(rows, x)
           B == Append(own, x)
           n == Len(rows)
           m == Len(own)
<1>1. n \in Nat /\ DOMAIN rows = 1 .. n /\ DOMAIN A = 1 .. (n + 1) /\ A[n + 1] = x /\ \A i \in 1 .. n : A[i] = rows[i]
  OBVIOUS
<1>2. m \in Nat /\ DOMAIN own = 1 .. m /\ DOMAIN B = 1 .. (m + 1) /\ B[m + 1] = x /\ \A i \in 1 .. m : B[i] = own[i]
  OBVIOUS
<1> HIDE DEF A, B, n, m
<1>3. DOMAIN A = DOMAIN rows \cup {n + 1} /\ n + 1 \in DOMAIN A /\ \A k \in DOMAIN rows : k \in DOMAIN A /\ A[k] = rows[k]
  BY <1>1
<1>4. DOMAIN B = DOMAIN own \cup {m + 1} /\ m + 1 \in DOMAIN B /\ \A k \in DOMAIN own : k \in DOMAIN B /\ B[k] = own[k]
  BY <1>2
<1>5. CASE x.ns = ns
  <2>1. \A i \in DOMAIN B : B[i].ns = ns /\ \E k \in DOMAIN A : A[k] = B[i]
    BY <1>1, <1>2, <1>3, <1>4, <1>5 DEF Own
  <2>2. \A k \in DOMAIN A : A[k].ns = ns => \E i \in DOMAIN B : B[i] = A[k]
    BY <1>1, <1>2, <1>3, <1>4, <1>5 DEF Own
  <2> QED
    BY <1>5, <2>1, <2>2 DEF Own, A, B
<1>6. CASE x.ns # ns
  <2>1. \A i \in DOMAIN own : own[i].ns = ns /\ \E k \in DOMAIN A : A[k] = own[i]
    BY <1>3 DEF Own
  <2>2. \A k \in DOMAIN A : A[k].ns = ns => \E i \in DOMAIN own : own[i] = A[k]
    BY <1>1, <1>3, <1>6 DEF Own
  <2> QED
    BY <1>6, <2>1, <2>2 DEF Own, A
<1> QED
  BY <1>5, <1>6

LEMMA RowsOwn ==
    ASSUME NEW R, NEW ns
    PROVE  \A s \in Seq(R) : RowsOf(s, ns) \in Seq(R) /\ Own(s, RowsOf(s, ns), ns)
<1> DEFINE P == {s \in Seq(R) : RowsOf(s, ns) \in Seq(R) /\ Own(s, RowsOf(s, ns), ns)}
<1>2. <<>> \in P
  <2>1. RowsOf(<<>>, ns) = <<>>
    <3> DEFINE z == <<>>
               st == [p \in R \X Seq(R) |-> IF p[1].ns = ns THEN Append(p[2], p[1]) ELSE p[2]]
    <3>1. z \in Seq(R) /\ Len(z) = 0
      OBVIOUS
    <3>2. \A q \in Seq(R) : \E h : Iterates(h, q, Seq(R), <<>>, st) /\ RowsOf(q, ns) = h[1 .. Len(q)]
      BY RowsBy
    <3> HIDE DEF st, z
    <3>3. PICK h : Iterates(h, z, Seq(R), <<>>, st) /\ RowsOf(z, ns) = h[1 .. Len(z)]
      BY <3>1, <3>2
    <3>4. h[1 .. 0] = <<>>
      BY <3>1, <3>3, IterateStep
    <3> QED
      BY <3>1, <3>3, <3>4 DEF z
  <2>2. <<>> \in Seq(R) /\ Own(<<>>, <<>>, ns)
    BY DEF Own
  <2> QED
    BY <2>1, <2>2
<1>3. \A s \in Seq(R), x \in R : s \in P => Append(s, x) \in P
  <2> SUFFICES ASSUME NEW s \in Seq(R), NEW x \in R, s \in P PROVE Append(s, x) \in P
    OBVIOUS
  <2> DEFINE o == RowsOf(s, ns)
             q == IF x.ns = ns THEN Append(o, x) ELSE o
  <2>1. o \in Seq(R) /\ Own(s, o, ns)
    OBVIOUS
  <2>2. RowsOf(Append(s, x), ns) = q
    BY RowsAppend
  <2> HIDE DEF o
  <2>3. Own(Append(s, x), q, ns)
    BY <2>1, OwnAppend
  <2>4. q \in Seq(R)
    BY <2>1
  <2>5. Append(s, x) \in Seq(R)
    OBVIOUS
  <2> QED
    BY <2>2, <2>3, <2>4, <2>5
<1>4. Seq(R) \subseteq P
  <2> HIDE DEF P
  <2> QED
    BY <1>2, <1>3, SequencesFrom
<1> QED
  BY <1>4

\* To close a row and to pick the rows of a namespace commute.
LEMMA SettledAppend ==
    ASSUME NEW rows \in Seq(RowSet), NEW x \in RowSet, NEW ns, NEW r \in RowSet
    PROVE  Settled(Append(rows, x), ns, r) =
              Append(Settled(rows, ns, r), IF x.ns = ns /\ x.outcome = "open" THEN r ELSE x)
<1> DEFINE y == IF x.ns = ns /\ x.outcome = "open" THEN r ELSE x
           A == Append(rows, x)
           S == Settled(rows, ns, r)
           n == Len(rows)
           L == Settled(A, ns, r)
           M == Append(S, y)
<1>1. n \in Nat /\ DOMAIN rows = 1 .. n /\ A \in Seq(RowSet) /\ Len(A) = n + 1 /\ A[n + 1] = x /\ \A i \in 1 .. n : A[i] = rows[i]
  OBVIOUS
<1>2. /\ S \in Seq(RowSet) /\ Len(S) = n
      /\ \A i \in 1 .. n : S[i] = IF rows[i].ns = ns /\ rows[i].outcome = "open" THEN r ELSE rows[i]
  BY <1>1, SettledIs
<1> HIDE DEF A, S
<1>3. /\ L \in Seq(RowSet) /\ Len(L) = n + 1
      /\ \A i \in 1 .. (n + 1) : L[i] = IF A[i].ns = ns /\ A[i].outcome = "open" THEN r ELSE A[i]
  <2>1. DOMAIN A = 1 .. (n + 1)
    BY <1>1
  <2> QED
    BY <1>1, <2>1, SettledIs
<1>4. M \in Seq(RowSet) /\ Len(M) = n + 1 /\ M[n + 1] = y /\ \A i \in 1 .. n : M[i] = S[i]
  BY <1>1, <1>2
<1> HIDE DEF L, M, n
<1>5. \A i \in 1 .. (n + 1) : L[i] = M[i]
  <2> SUFFICES ASSUME NEW i \in 1 .. (n + 1) PROVE L[i] = M[i]
    OBVIOUS
  <2>1. CASE i = n + 1
    BY <1>1, <1>3, <1>4, <2>1
  <2>2. CASE i \in 1 .. n
    BY <1>1, <1>2, <1>3, <1>4, <2>2, SMTT(30)
  <2> QED
    BY <1>1, <2>1, <2>2
<1>6. L = M
  BY <1>1, <1>3, <1>4, <1>5
<1> QED
  BY <1>6 DEF L, M, A, S

LEMMA RowsSettled ==
    ASSUME NEW ns, NEW ms, NEW r \in RowSet, r.ns = ns
    PROVE  \A s \in Seq(RowSet) : RowsOf(Settled(s, ns, r), ms) = Settled(RowsOf(s, ms), ns, r)
<1> DEFINE P == {s \in Seq(RowSet) : RowsOf(Settled(s, ns, r), ms) = Settled(RowsOf(s, ms), ns, r)}
<1>1. <<>> \in P
  <2>1. Settled(<<>>, ns, r) = <<>>
    BY DEF Settled
  <2>2. RowsOf(<<>>, ms) = <<>>
    <3>1. <<>> \in Seq(RowSet)
      OBVIOUS
    <3> QED
      BY <3>1, RowsAppend
  <2> QED
    BY <2>1, <2>2
<1>2. \A s \in Seq(RowSet), x \in RowSet : s \in P => Append(s, x) \in P
  <2> SUFFICES ASSUME NEW s \in Seq(RowSet), NEW x \in RowSet, s \in P PROVE Append(s, x) \in P
    OBVIOUS
  <2> DEFINE S == Settled(s, ns, r)
             y == IF x.ns = ns /\ x.outcome = "open" THEN r ELSE x
             o == RowsOf(s, ms)
  <2>1. S \in Seq(RowSet) /\ y \in RowSet /\ y.ns = x.ns
    BY SettledIs
  <2>2. Settled(Append(s, x), ns, r) = Append(S, y)
    BY SettledAppend
  <2>3. RowsOf(S, ms) = Settled(o, ns, r)
    OBVIOUS
  <2> HIDE DEF S, y
  <2>4. RowsOf(Append(S, y), ms) = IF x.ns = ms THEN Append(RowsOf(S, ms), y) ELSE RowsOf(S, ms)
    BY <2>1, RowsAppend
  <2>5. o \in Seq(RowSet) /\ RowsOf(Append(s, x), ms) = IF x.ns = ms THEN Append(o, x) ELSE o
    BY RowsAppend
  <2> HIDE DEF o
  <2>6. Settled(Append(o, x), ns, r) = Append(Settled(o, ns, r), y)
    BY <2>5, SettledAppend DEF y
  <2>7. RowsOf(Settled(Append(s, x), ns, r), ms) = Settled(RowsOf(Append(s, x), ms), ns, r)
    BY <2>2, <2>3, <2>4, <2>5, <2>6
  <2>8. Append(s, x) \in Seq(RowSet)
    OBVIOUS
  <2> QED
    BY <2>7, <2>8
<1>3. Seq(RowSet) \subseteq P
  <2> HIDE DEF P
  <2> QED
    BY <1>1, <1>2, SequencesFrom
<1> QED
  BY <1>3

(***************************************************************************)
(* The rows folded from the trail, beside the turns taken.                 *)
(***************************************************************************)
Like(r, t) == r.outcome = t.outcome /\ r.why = t.why /\ r.id \in {t.id, Unset}

Aligned(rows, took) ==
    /\ Len(rows) <= Len(took)
    /\ \A i \in DOMAIN rows : Like(rows[i], took[i + (Len(took) - Len(rows))])

OnlyLast(rows) == \A i \in DOMAIN rows : rows[i].outcome = "open" => i = Len(rows)

TruthOK(T) ==
    /\ T \in RowLists
    /\ \A ms \in Arenas : OnlyLast(RowsOf(T, ms))
    /\ \A i \in DOMAIN T : T[i].outcome = "open" => T[i].why = "none"

Good(C, T) == C \in RowLists /\ \A ms \in Arenas : Aligned(RowsOf(C, ms), RowsOf(T, ms))

LEMMA OpenRow ==
    ASSUME NEW C \in RowLists, NEW ms \in Arenas, NEW i \in DOMAIN RowsOf(C, ms), RowsOf(C, ms)[i].outcome = "open"
    PROVE  RowsOf(C, ms)[i] = Current(C, ms)
<1>1. C \in Seq(RowSet) /\ OneOpen(C)
  BY DEF RowLists
<1>2. Own(C, RowsOf(C, ms), ms)
  BY <1>1, RowsOwn
<1>3. PICK k \in DOMAIN C : C[k] = RowsOf(C, ms)[i]
  BY <1>2 DEF Own
<1>4. k \in InProgress(C, ms)
  BY <1>2, <1>3 DEF Own, InProgress
<1>5. PICK j \in InProgress(C, ms) : Current(C, ms) = C[j]
  BY <1>1, <1>4, CurrentIs
<1>6. j = k
  BY <1>1, <1>4, <1>5, OnlyOne DEF InProgress
<1> QED
  BY <1>3, <1>5, <1>6

LEMMA SettleAligned ==
    ASSUME NEW rows \in Seq(RowSet), NEW took \in Seq(RowSet), Aligned(rows, took), NEW ns, NEW ms,
           \A i \in DOMAIN rows : rows[i].ns = ms, \A j \in DOMAIN took : took[j].ns = ms,
           NEW u \in RowSet, NEW w \in RowSet,
           \A i \in DOMAIN rows, j \in DOMAIN took :
              ms = ns /\ rows[i].outcome = "open" /\ took[j].outcome = "open" /\ Like(rows[i], took[j]) => Like(u, w)
    PROVE  Aligned(Settled(rows, ns, u), Settled(took, ns, w))
<1> DEFINE n == Len(rows)
           m == Len(took)
           S == Settled(rows, ns, u)
           Z == Settled(took, ns, w)
<1>1. n \in Nat /\ m \in Nat /\ DOMAIN rows = 1 .. n /\ DOMAIN took = 1 .. m
  OBVIOUS
<1>2. /\ S \in Seq(RowSet) /\ Len(S) = n
      /\ \A i \in 1 .. n : S[i] = IF rows[i].ns = ns /\ rows[i].outcome = "open" THEN u ELSE rows[i]
  BY <1>1, SettledIs
<1>3. /\ Z \in Seq(RowSet) /\ Len(Z) = m
      /\ \A i \in 1 .. m : Z[i] = IF took[i].ns = ns /\ took[i].outcome = "open" THEN w ELSE took[i]
  BY <1>1, SettledIs
<1>4. DOMAIN S = 1 .. n
  BY <1>2
<1> HIDE DEF S, Z
<1>5. n <= m /\ \A i \in 1 .. n : Like(rows[i], took[i + (m - n)])
  BY <1>1 DEF Aligned
<1> HIDE DEF n, m
<1>6. ASSUME NEW i \in 1 .. n
      PROVE  Like(S[i], Z[i + (m - n)])
  <2>1. PICK j \in 1 .. m : j = i + (m - n)
    BY <1>1, <1>5
  <2>2. Like(rows[i], took[j]) /\ rows[i].ns = ms /\ took[j].ns = ms
    BY <1>1, <1>5, <2>1
  <2>3. rows[i].outcome = "open" <=> took[j].outcome = "open"
    BY <2>2 DEF Like
  <2>4. Like(S[i], Z[j])
    BY <1>1, <1>2, <1>3, <2>2, <2>3
  <2> QED
    BY <2>1, <2>4
<1>7. Aligned(S, Z)
  BY <1>2, <1>3, <1>4, <1>5, <1>6 DEF Aligned
<1> QED
  BY <1>7 DEF S, Z

LEMMA AppendAligned ==
    ASSUME NEW rows \in Seq(RowSet), NEW took \in Seq(RowSet), Aligned(rows, took),
           NEW r \in RowSet, NEW t \in RowSet, Like(r, t)
    PROVE  Aligned(Append(rows, r), Append(took, t))
<1> DEFINE n == Len(rows)
           m == Len(took)
           S == Append(rows, r)
           Z == Append(took, t)
<1>1. n \in Nat /\ m \in Nat /\ DOMAIN rows = 1 .. n /\ DOMAIN took = 1 .. m
  OBVIOUS
<1>2. Len(S) = n + 1 /\ DOMAIN S = 1 .. (n + 1) /\ S[n + 1] = r /\ \A i \in 1 .. n : S[i] = rows[i]
  OBVIOUS
<1>3. Len(Z) = m + 1 /\ Z[m + 1] = t /\ \A i \in 1 .. m : Z[i] = took[i]
  OBVIOUS
<1>4. n <= m /\ \A i \in 1 .. n : Like(rows[i], took[i + (m - n)])
  BY <1>1 DEF Aligned
<1> HIDE DEF S, Z, n, m
<1>5. ASSUME NEW i \in 1 .. (n + 1)
      PROVE  Like(S[i], Z[i + ((m + 1) - (n + 1))])
  <2>1. PICK j \in 1 .. (m + 1) : j = i + (m - n) /\ j = i + ((m + 1) - (n + 1))
    <3>1. n \in Nat /\ m \in Nat /\ n <= m /\ i \in Int /\ 1 <= i /\ i <= n + 1
      BY <1>1, <1>4
    <3>2. i + (m - n) \in 1 .. (m + 1) /\ i + (m - n) = i + ((m + 1) - (n + 1))
      BY ONLY <3>1
    <3> QED
      BY <3>2
  <2>2. CASE i = n + 1
    <3>1. j = m + 1
      BY <1>1, <2>1, <2>2
    <3> QED
      BY <1>2, <1>3, <2>1, <2>2, <3>1
  <2>3. CASE i \in 1 .. n
    <3>1. j \in 1 .. m /\ Like(rows[i], took[j])
      BY <1>1, <1>4, <2>1, <2>3
    <3> QED
      BY <1>2, <1>3, <2>1, <2>3, <3>1
  <2> QED
    BY <1>1, <2>2, <2>3
<1>6. n + 1 <= m + 1
  BY <1>1, <1>4
<1>7. Aligned(S, Z)
  BY <1>2, <1>3, <1>5, <1>6 DEF Aligned
<1> QED
  BY <1>7 DEF S, Z

LEMMA CutLike ==
    ASSUME NEW C \in RowLists, NEW T \in RowLists, NEW ns \in Arenas, Like(Current(C, ns), Current(T, ns))
    PROVE  Like(Cut(C, ns), Cut(T, ns))
BY CutIs DEF Like, RowLists

\* A turn that begins ends what was in progress, in the log as in fact.
LEMMA BeginGood ==
    ASSUME NEW C, NEW T, TruthOK(T), Good(C, T), NEW l \in LineSet, l.ev = "started"
    PROVE  Good(Fold(C, l), StartRow(T, l.ns))
<1> DEFINE ns == l.ns
           u == Cut(C, ns)
           w == Cut(T, ns)
           new == Row(ns, Unset)
           S == Settled(C, ns, u)
           Z == Settled(T, ns, w)
<1>1. /\ C \in Seq(RowSet) /\ OneOpen(C) /\ T \in Seq(RowSet) /\ OneOpen(T) /\ ns \in Arenas
      /\ C \in RowLists /\ T \in RowLists
  BY DEF TruthOK, Good, RowLists, LineSet
<1>2. u \in RowSet /\ w \in RowSet /\ u.ns = ns /\ w.ns = ns /\ new \in RowSet /\ new.ns = ns
  BY <1>1, CutIs, RowIs
<1>3. Fold(C, l) = Append(S, new) /\ StartRow(T, ns) = Append(Z, new)
  BY <1>1, FoldIs, StartIs
<1>4. S \in Seq(RowSet) /\ Z \in Seq(RowSet)
  BY <1>1, <1>2, SettledIs
<1>5. Fold(C, l) \in RowLists
  BY <1>1, FoldCloses
<1>6. ASSUME NEW ms \in Arenas
      PROVE  Aligned(RowsOf(Append(S, new), ms), RowsOf(Append(Z, new), ms))
  <2> DEFINE rows == RowsOf(C, ms)
             took == RowsOf(T, ms)
             rows2 == Settled(rows, ns, u)
             took2 == Settled(took, ns, w)
  <2>1. rows \in Seq(RowSet) /\ took \in Seq(RowSet) /\ Own(C, rows, ms) /\ Own(T, took, ms)
    BY <1>1, RowsOwn
  <2>2. Aligned(rows, took)
    BY DEF Good
  <2>3. \A i \in DOMAIN rows : rows[i].ns = ms
    BY <2>1 DEF Own
  <2>4. \A j \in DOMAIN took : took[j].ns = ms
    BY <2>1 DEF Own
  <2>5. ASSUME NEW i \in DOMAIN rows, NEW j \in DOMAIN took,
               ms = ns, rows[i].outcome = "open", took[j].outcome = "open", Like(rows[i], took[j])
        PROVE  Like(u, w)
    <3>1. rows[i] = Current(C, ns) /\ took[j] = Current(T, ns)
      BY <1>1, <2>5, OpenRow
    <3> QED
      BY <1>1, <2>5, <3>1, CutLike
  <2>6. RowsOf(S, ms) = rows2 /\ RowsOf(Z, ms) = took2
    BY <1>1, <1>2, RowsSettled
  <2>7. /\ RowsOf(Append(S, new), ms) = IF ns = ms THEN Append(rows2, new) ELSE rows2
        /\ RowsOf(Append(Z, new), ms) = IF ns = ms THEN Append(took2, new) ELSE took2
    <3> HIDE DEF S, Z, new, rows, took, ns
    <3> QED
      BY <1>2, <1>4, <2>6, RowsAppend
  <2> HIDE DEF rows, took, u, w, S, Z, new
  <2>8. Aligned(rows2, took2)
    BY <1>2, <2>1, <2>2, <2>3, <2>4, <2>5, SettleAligned
  <2>9. rows2 \in Seq(RowSet) /\ took2 \in Seq(RowSet)
    BY <1>2, <2>1, SettledIs
  <2>10. Like(new, new)
    BY DEF Like
  <2> HIDE DEF rows2, took2
  <2>11. Aligned(Append(rows2, new), Append(took2, new))
    BY <1>2, <2>8, <2>9, <2>10, AppendAligned
  <2> QED
    BY <2>7, <2>8, <2>11
<1> QED
  BY <1>3, <1>5, <1>6 DEF Good

\* The row of the turn under way, the last one.
UnderWay(T, a) == T # <<>> /\ T[Len(T)].ns = a /\ T[Len(T)].outcome = "open"

LEMMA Closing ==
    ASSUME NEW T, TruthOK(T), NEW a \in Arenas, UnderWay(T, a), NEW t \in RowSet, t.ns = a
    PROVE  /\ [T EXCEPT ![Len(T)] = t] = Settled(T, a, t)
           /\ Current(T, a) = T[Len(T)] /\ Len(T) \in DOMAIN T
<1>1. T \in Seq(RowSet) /\ OneOpen(T)
  BY DEF TruthOK, RowLists
<1>2. Len(T) \in DOMAIN T
  BY <1>1 DEF UnderWay
<1>3. Len(T) \in InProgress(T, a)
  BY <1>2 DEF UnderWay, InProgress
<1>4. \A i \in DOMAIN T : (T[i].ns = a /\ T[i].outcome = "open") <=> i = Len(T)
  BY <1>1, <1>3, OnlyOne
<1>5. [T EXCEPT ![Len(T)] = t] = Settled(T, a, t)
  BY <1>4 DEF Settled
<1>6. PICK j \in InProgress(T, a) : Current(T, a) = T[j]
  BY <1>1, <1>3, CurrentIs
<1>7. j = Len(T)
  BY <1>4, <1>6 DEF InProgress
<1> QED
  BY <1>2, <1>5, <1>6, <1>7

\* The row of the turn under way is the last of its namespace.
LEMMA LastTook ==
    ASSUME NEW T, TruthOK(T), NEW a \in Arenas, UnderWay(T, a)
    PROVE  LET took == RowsOf(T, a) IN Len(took) \in DOMAIN took /\ took[Len(took)] = T[Len(T)]
<1> DEFINE took == RowsOf(T, a)
<1>1. T \in Seq(RowSet) /\ Own(T, took, a) /\ took \in Seq(RowSet)
  BY RowsOwn DEF TruthOK, RowLists
<1>2. Len(T) \in DOMAIN T
  BY <1>1 DEF UnderWay
<1>3. PICK j \in DOMAIN took : took[j] = T[Len(T)]
  BY <1>1, <1>2 DEF UnderWay, Own
<1>4. j = Len(took)
  BY <1>3 DEF TruthOK, OnlyLast, UnderWay
<1> QED
  BY <1>3, <1>4

\* What is told of a turn under way is what became of it.
LEMMA TellGood ==
    ASSUME NEW C, NEW T, TruthOK(T), Good(C, T), NEW l \in LineSet, l.ev # "started", UnderWay(T, l.ns),
           NEW t \in RowSet, t.ns = l.ns,
           \A r \in RowSet : r.outcome = "open" /\ Like(r, T[Len(T)]) => Like(Told(r, l), t)
    PROVE  Good(Fold(C, l), [T EXCEPT ![Len(T)] = t])
<1> DEFINE a == l.ns
           Z == Settled(T, a, t)
           c == Current(C, a)
           u == Told(c, l)
           new == Row(a, Unset)
           v == Told(new, l)
<1>1. /\ C \in Seq(RowSet) /\ OneOpen(C) /\ T \in Seq(RowSet) /\ OneOpen(T) /\ a \in Arenas
      /\ C \in RowLists /\ T \in RowLists
  BY DEF TruthOK, Good, RowLists, LineSet
<1>2. [T EXCEPT ![Len(T)] = t] = Z /\ Current(T, a) = T[Len(T)] /\ Len(T) \in DOMAIN T
  BY <1>1, Closing
<1>3. Fold(C, l) \in RowLists
  BY <1>1, FoldCloses
<1>4. c \in RowSet /\ c.ns = a /\ c.outcome = "open" /\ u \in RowSet /\ u.ns = a
  BY <1>1, CurrentIs, ToldIs
<1>5. new \in RowSet /\ new.ns = a /\ v \in RowSet /\ v.ns = a
  BY <1>1, RowIs, ToldIs
<1>6. \A ms \in Arenas :
        /\ RowsOf(C, ms) \in Seq(RowSet) /\ RowsOf(T, ms) \in Seq(RowSet)
        /\ Own(C, RowsOf(C, ms), ms) /\ Own(T, RowsOf(T, ms), ms)
        /\ Aligned(RowsOf(C, ms), RowsOf(T, ms))
        /\ RowsOf(Z, ms) = Settled(RowsOf(T, ms), a, t)
  BY <1>1, RowsOwn, RowsSettled DEF Good
<1>7. CASE InProgress(C, a) # {}
  <2>1. Fold(C, l) = Settled(C, a, u)
    BY <1>1, <1>7, FoldIs
  <2>2. ASSUME NEW ms \in Arenas
        PROVE  Aligned(RowsOf(Settled(C, a, u), ms), RowsOf(Z, ms))
    <3> DEFINE rows == RowsOf(C, ms)
               took == RowsOf(T, ms)
    <3>1. RowsOf(Settled(C, a, u), ms) = Settled(rows, a, u)
      BY <1>1, <1>4, RowsSettled
    <3>2. ASSUME NEW i \in DOMAIN rows, NEW j \in DOMAIN took,
                 ms = a, rows[i].outcome = "open", took[j].outcome = "open", Like(rows[i], took[j])
          PROVE  Like(u, t)
      <4>1. rows[i] = c /\ took[j] = T[Len(T)]
        BY <1>1, <1>2, <3>2, OpenRow
      <4> QED
        BY <1>4, <3>2, <4>1
    <3>3. (\A i \in DOMAIN rows : rows[i].ns = ms) /\ (\A j \in DOMAIN took : took[j].ns = ms)
      BY <1>6 DEF Own
    <3>4. rows \in Seq(RowSet) /\ took \in Seq(RowSet) /\ Aligned(rows, took)
      BY <1>6
    <3> HIDE DEF rows, took, u
    <3>5. Aligned(Settled(rows, a, u), Settled(took, a, t))
      BY <1>4, <3>2, <3>3, <3>4, SettleAligned
    <3> QED
      BY <1>6, <3>1, <3>5 DEF took
  <2> QED
    BY <1>2, <1>3, <2>1, <2>2 DEF Good
<1>8. CASE InProgress(C, a) = {}
  <2>1. Fold(C, l) = Append(C, v)
    BY <1>1, <1>8, FoldIs
  <2>2. ASSUME NEW ms \in Arenas
        PROVE  Aligned(RowsOf(Append(C, v), ms), RowsOf(Z, ms))
    <3> DEFINE rows == RowsOf(C, ms)
               took == RowsOf(T, ms)
               Y == Settled(took, a, t)
    <3>1. RowsOf(Append(C, v), ms) = IF a = ms THEN Append(rows, v) ELSE rows
      <4>1. C \in Seq(RowSet) /\ v \in RowSet /\ v.ns = a
        BY <1>1, <1>5
      <4> HIDE DEF v, a
      <4> QED
        BY ONLY <4>1, RowsAppend
    <3>2. rows \in Seq(RowSet) /\ took \in Seq(RowSet) /\ Aligned(rows, took) /\ RowsOf(Z, ms) = Y
      BY <1>6
    <3>3. (\A i \in DOMAIN rows : rows[i].ns = ms) /\ (\A j \in DOMAIN took : took[j].ns = ms)
      BY <1>6 DEF Own
    <3>4. CASE a # ms
      <4>1. Y = took
        <5> HIDE DEF took
        <5>1. Y = [i \in DOMAIN took |-> took[i]]
          BY <3>3, <3>4 DEF Settled
        <5>2. took = [i \in DOMAIN took |-> took[i]]
          BY <3>2
        <5> QED
          BY <5>1, <5>2
      <4> QED
        BY <3>1, <3>2, <3>4, <4>1
    <3>5. CASE a = ms
      <4>1. Len(took) \in DOMAIN took /\ took[Len(took)] = T[Len(T)]
        BY <1>1, <3>5, LastTook
      <4>2. \A i \in DOMAIN rows : rows[i].outcome # "open"
        BY <1>6, <1>8, <3>5 DEF Own, InProgress
      <4> HIDE DEF rows, took
      <4>3. rows = <<>>
        <5> SUFFICES ASSUME rows # <<>> PROVE FALSE
          OBVIOUS
        <5>1. Len(rows) \in DOMAIN rows /\ Len(rows) + (Len(took) - Len(rows)) = Len(took)
          BY <3>2
        <5>2. Like(rows[Len(rows)], took[Len(took)])
          BY <3>2, <5>1 DEF Aligned
        <5> QED
          BY <4>1, <4>2, <5>1, <5>2 DEF Like, UnderWay
      <4>4. Len(Y) = Len(took) /\ Y[Len(took)] = t
        BY <3>2, <4>1, SettledIs DEF UnderWay
      <4>5. Like(new, T[Len(T)]) /\ new.outcome = "open"
        <5>1. T[Len(T)] \in RowSet /\ T[Len(T)].why = "none" /\ T[Len(T)].outcome = "open"
          BY <1>1, <1>2 DEF TruthOK, UnderWay
        <5> QED
          BY <1>1, <5>1, RowIs DEF Like
      <4>6. Like(v, t)
        BY <1>5, <4>5
      <4> HIDE DEF Y, v
      <4>7. RowsOf(Append(C, v), ms) = <<v>>
        BY <3>1, <3>5, <4>3
      <4>8. Len(took) \in Nat /\ Len(took) >= 1
        BY <3>2, <4>1
      <4>9. Len(<<v>>) = 1 /\ DOMAIN <<v>> = {1} /\ <<v>>[1] = v /\ 1 + (Len(took) - 1) = Len(took)
        BY <4>8
      <4> DEFINE one == <<v>>
      <4>10. \A i \in DOMAIN one : Like(one[i], Y[i + (Len(Y) - Len(one))])
        BY <4>4, <4>6, <4>9
      <4>11. Len(one) <= Len(Y)
        BY <4>4, <4>8, <4>9
      <4> HIDE DEF one
      <4>12. Aligned(one, Y)
        BY <4>10, <4>11 DEF Aligned
      <4> QED
        BY <3>2, <4>7, <4>12 DEF one
    <3> QED
      BY <3>4, <3>5
  <2> QED
    BY <1>2, <1>3, <2>1, <2>2 DEF Good
<1> QED
  BY <1>7, <1>8

LEMMA BeginTruth ==
    ASSUME NEW T, TruthOK(T), NEW ns \in Arenas
    PROVE  TruthOK(StartRow(T, ns)) /\ UnderWay(StartRow(T, ns), ns)
<1> DEFINE w == Cut(T, ns)
           new == Row(ns, Unset)
           Z == Settled(T, ns, w)
           A == Append(Z, new)
<1>1. T \in Seq(RowSet) /\ OneOpen(T) /\ T \in RowLists
  BY DEF TruthOK, RowLists
<1>2. w \in RowSet /\ w.ns = ns /\ w.outcome = "unfinished"
  BY <1>1, CutIs
<1>3. new \in RowSet /\ new.ns = ns /\ new.outcome = "open" /\ new.why = "none"
  BY RowIs
<1>4. StartRow(T, ns) = A
  BY <1>1, StartIs
<1>5. /\ Z \in Seq(RowSet) /\ Len(Z) = Len(T) /\ OneOpen(Z)
      /\ \A i \in DOMAIN T : Z[i] = IF T[i].ns = ns /\ T[i].outcome = "open" THEN w ELSE T[i]
  BY <1>1, <1>2, SettledIs, SettledOne
<1>6. DOMAIN Z = DOMAIN T
  BY <1>1, <1>5
<1> HIDE DEF w, new, Z
<1>7. \A i \in DOMAIN Z : Z[i].ns = ns => Z[i].outcome # "open"
  BY <1>2, <1>5, <1>6
<1>8. A \in RowLists
  BY <1>3, <1>5, <1>7, AppendOne DEF RowLists
<1>9. \A i \in DOMAIN Z : Z[i].outcome = "open" => Z[i].why = "none"
  BY <1>2, <1>5, <1>6 DEF TruthOK
<1>10. /\ A # <<>> /\ A[Len(A)] = new
       /\ \A i \in DOMAIN A : A[i] = new \/ (i \in DOMAIN Z /\ A[i] = Z[i])
  <2> DEFINE m == Len(Z)
  <2>1. /\ m \in Nat /\ DOMAIN Z = 1 .. m /\ DOMAIN A = 1 .. (m + 1) /\ Len(A) = m + 1 /\ A[m + 1] = new
        /\ \A i \in 1 .. m : A[i] = Z[i]
    BY <1>3, <1>5
  <2>2. A # <<>>
    BY <1>3, <1>5
  <2> HIDE DEF A, m
  <2> QED
    BY <2>1, <2>2
<1>11. ASSUME NEW ms \in Arenas
       PROVE  OnlyLast(RowsOf(A, ms))
  <2> DEFINE took == RowsOf(T, ms)
             Y == Settled(took, ns, w)
  <2>1. took \in Seq(RowSet) /\ Own(T, took, ms) /\ OnlyLast(took)
    BY <1>1, RowsOwn DEF TruthOK
  <2>2. RowsOf(Z, ms) = Y
    BY <1>1, <1>2, RowsSettled DEF Z
  <2>3. RowsOf(A, ms) = IF ns = ms THEN Append(Y, new) ELSE Y
    BY <1>3, <1>5, <2>2, RowsAppend
  <2> HIDE DEF took
  <2>4. /\ Y \in Seq(RowSet) /\ Len(Y) = Len(took) /\ DOMAIN Y = DOMAIN took
        /\ \A i \in DOMAIN took : Y[i] = IF took[i].ns = ns /\ took[i].outcome = "open" THEN w ELSE took[i]
    <3>1. Y \in Seq(RowSet) /\ Len(Y) = Len(took)
      BY <1>2, <2>1, SettledIs
    <3> HIDE DEF Y
    <3>2. DOMAIN Y = DOMAIN took
      BY <2>1, <3>1
    <3> QED
      BY <1>2, <2>1, <3>1, <3>2, SettledIs DEF Y
  <2> HIDE DEF Y
  <2>5. OnlyLast(Y)
    BY <1>2, <2>1, <2>4 DEF OnlyLast
  <2>6. CASE ns = ms
    <3>1. \A i \in DOMAIN Y : Y[i].outcome # "open"
      BY <1>2, <2>1, <2>4, <2>6 DEF Own
    <3> DEFINE B == Append(Y, new)
               m == Len(Y)
    <3>2. m \in Nat /\ DOMAIN Y = 1 .. m /\ DOMAIN B = 1 .. (m + 1) /\ Len(B) = m + 1 /\ \A i \in 1 .. m : B[i] = Y[i]
      BY <2>4
    <3> HIDE DEF B, m
    <3>3. OnlyLast(B)
      BY <3>1, <3>2 DEF OnlyLast
    <3> QED
      BY <2>3, <2>6, <3>3 DEF B
  <2> QED
    BY <2>3, <2>5, <2>6
<1>12. \A i \in DOMAIN A : A[i].outcome = "open" => A[i].why = "none"
  BY <1>3, <1>9, <1>10
<1> HIDE DEF A
<1> QED
  BY <1>3, <1>4, <1>8, <1>10, <1>11, <1>12 DEF TruthOK, UnderWay

LEMMA TellTruth ==
    ASSUME NEW T, TruthOK(T), NEW a \in Arenas, UnderWay(T, a), NEW t \in RowSet, t.ns = a,
           t.outcome = "open" => t.why = "none"
    PROVE  /\ TruthOK([T EXCEPT ![Len(T)] = t])
           /\ t.outcome = "open" => UnderWay([T EXCEPT ![Len(T)] = t], a)
           /\ Len([T EXCEPT ![Len(T)] = t]) = Len(T) /\ [T EXCEPT ![Len(T)] = t][Len(T)] = t
<1> DEFINE Z == Settled(T, a, t)
           E == [T EXCEPT ![Len(T)] = t]
<1>1. T \in Seq(RowSet) /\ OneOpen(T) /\ T \in RowLists
  BY DEF TruthOK, RowLists
<1>2. E = Z /\ Len(T) \in DOMAIN T
  BY Closing
<1>3. /\ Z \in Seq(RowSet) /\ Len(Z) = Len(T) /\ OneOpen(Z)
      /\ \A i \in DOMAIN T : Z[i] = IF T[i].ns = a /\ T[i].outcome = "open" THEN t ELSE T[i]
  BY <1>1, SettledIs, SettledOne
<1>4. DOMAIN Z = DOMAIN T
  BY <1>1, <1>3
<1>5. ASSUME NEW ms \in Arenas
      PROVE  OnlyLast(RowsOf(Z, ms))
  <2> DEFINE took == RowsOf(T, ms)
             Y == Settled(took, a, t)
  <2>1. took \in Seq(RowSet) /\ OnlyLast(took)
    BY <1>1, RowsOwn DEF TruthOK
  <2>2. RowsOf(Z, ms) = Y
    BY <1>1, RowsSettled
  <2> HIDE DEF took
  <2>4. /\ Y \in Seq(RowSet) /\ Len(Y) = Len(took) /\ DOMAIN Y = DOMAIN took
        /\ \A i \in DOMAIN took : Y[i] = IF took[i].ns = a /\ took[i].outcome = "open" THEN t ELSE took[i]
    <3>1. Y \in Seq(RowSet) /\ Len(Y) = Len(took)
      BY <2>1, SettledIs
    <3> HIDE DEF Y
    <3>2. DOMAIN Y = DOMAIN took
      BY <2>1, <3>1
    <3> QED
      BY <2>1, <3>1, <3>2, SettledIs DEF Y
  <2> HIDE DEF Y
  <2> QED
    BY <2>1, <2>2, <2>4 DEF OnlyLast
<1> HIDE DEF Z
<1>6. \A i \in DOMAIN Z : Z[i].outcome = "open" => Z[i].why = "none"
  BY <1>3, <1>4 DEF TruthOK
<1>7. TruthOK(Z)
  BY <1>3, <1>5, <1>6 DEF TruthOK, RowLists
<1>8. Z[Len(T)] = t /\ Len(Z) = Len(T)
  BY <1>2, <1>3 DEF UnderWay
<1>9. Z # <<>>
  BY <1>2, <1>3, <1>4
<1>10. t.outcome = "open" => UnderWay(Z, a)
  BY <1>8, <1>9 DEF UnderWay
<1> HIDE DEF E
<1> QED
  BY <1>2, <1>7, <1>8, <1>10 DEF E

(***************************************************************************)
(* The plans.                                                              *)
(***************************************************************************)
\* A plan as the generator leaves it.
CanRun(steps) ==
    /\ DOMAIN steps = 1 .. Len(steps) /\ Len(steps) \in Nat
    /\ \A i, j \in DOMAIN steps : steps[i].order = steps[j].order => i = j
    /\ \A i \in DOMAIN steps : steps[i].dur > 0 /\ (MaxFaultDuration > 0 => steps[i].dur <= MaxFaultDuration)
    /\ Layered(steps)

\* Distinct, in the cardinality of a set, is distinct in each pair.
LEMMA Distinct ==
    ASSUME NEW n \in Nat, NEW f, DOMAIN f = 1 .. n, Cardinality({f[i] : i \in 1 .. n}) = n
    PROVE  \A i, j \in 1 .. n : f[i] = f[j] => i = j
<1> SUFFICES ASSUME NEW i \in 1 .. n, NEW j \in 1 .. n, f[i] = f[j], i # j
             PROVE  FALSE
  OBVIOUS
<1> DEFINE D == (1 .. n) \ {i}
           R == {f[x] : x \in D}
           g == [x \in D |-> f[x]]
<1>1. Cardinality(R) = n
  <2>1. {f[x] : x \in 1 .. n} = R
    OBVIOUS
  <2> HIDE DEF R
  <2> QED
    BY <2>1
<1>2. IsFiniteSet(1 .. n) /\ Cardinality(1 .. n) = n
  BY FS_Interval
<1>3. IsFiniteSet(D) /\ Cardinality(D) = n - 1
  BY <1>2, FS_RemoveElement
<1>4. g \in Surjection(D, R)
  BY DEF Surjection
<1> HIDE DEF D, R, g
<1>5. Cardinality(R) <= Cardinality(D) /\ Cardinality(R) \in Nat
  BY <1>3, <1>4, FS_Surjection, FS_CardinalityType
<1> QED
  BY <1>1, <1>3, <1>5

\* A finite set none of whose parts has a dependency of each of its members inside it
\* can be ranked, every member above those it depends on.
LEMMA Ranked ==
    ASSUME NEW O, IsFiniteSet(O), NEW dep,
           ~ \E S \in SUBSET O \ {{}} : \A o \in S : dep[o] \cap S # {}
    PROVE  \E rank \in [O -> 1 .. Cardinality(O)] :
              \A o \in O : \A d \in dep[o] \cap O : rank[d] < rank[o]
<1> DEFINE Ok(r, P) == /\ r \in [P -> 1 .. Cardinality(P)]
                       /\ \A o \in P : dep[o] \cap O \subseteq P /\ \A d \in dep[o] \cap O : r[d] < r[o]
           Done == {P \in SUBSET O : \E r : Ok(r, P)}
           Left == {O \ P : P \in Done}
<1>1. {} \in Done
  <2>1. Ok([x \in {} |-> 0], {})
    OBVIOUS
  <2> QED
    BY <2>1
<1>2. Left \in SUBSET SUBSET O /\ Left # {}
  BY <1>1
<1> HIDE DEF Ok
<1>3. PICK L \in Left : \A y \in Left : y \subseteq L => y = L
  <2> HIDE DEF Left
  <2> QED
    BY <1>2, MinimalSet
<1>4. PICK P \in Done : L = O \ P
  BY <1>3
<1>5. PICK r : Ok(r, P) /\ P \in SUBSET O
  BY <1>4
<1>6. L = {}
  <2> SUFFICES ASSUME L # {} PROVE FALSE
    OBVIOUS
  <2>1. L \in SUBSET O \ {{}}
    BY <1>4
  <2>2. PICK o \in L : dep[o] \cap L = {}
    BY <2>1
  <2> DEFINE Q == P \cup {o}
             q == [x \in Q |-> IF x = o THEN Cardinality(P) + 1 ELSE r[x]]
  <2>3. o \in O /\ o \notin P /\ dep[o] \cap O \subseteq P /\ Q \in SUBSET O
    BY <1>4, <1>5, <2>2
  <2>4. IsFiniteSet(P)
    BY <1>5, FS_Subset
  <2>5. Cardinality(Q) = Cardinality(P) + 1 /\ Cardinality(P) \in Nat
    BY <2>3, <2>4, FS_AddElement, FS_CardinalityType
  <2>6. \A x \in P : q[x] = r[x] /\ r[x] \in 1 .. Cardinality(P)
    BY <1>5, <2>3 DEF Ok
  <2>7. q[o] = Cardinality(P) + 1
    OBVIOUS
  <2>8. q \in [Q -> 1 .. Cardinality(Q)]
    <3>1. \A x \in Q : q[x] \in 1 .. Cardinality(Q)
      BY <2>5, <2>6, <2>7
    <3> QED
      BY <3>1
  <2>9. ASSUME NEW x \in Q, NEW d \in dep[x] \cap O
        PROVE  d \in Q /\ q[d] < q[x]
    <3>1. CASE x = o
      BY <3>1, <2>3, <2>5, <2>6, <2>7
    <3>2. CASE x # o
      <4>1. x \in P /\ d \in P /\ r[d] < r[x]
        BY <3>2, <1>5 DEF Ok
      <4> QED
        BY <4>1, <2>6
    <3> QED
      BY <3>1, <3>2
  <2> HIDE DEF q
  <2>10. Ok(q, Q)
    BY <2>8, <2>9 DEF Ok
  <2>11. Q \in Done
    BY <2>3, <2>10
  <2>12. O \ Q \in Left /\ O \ Q \subseteq L /\ O \ Q # L
    BY <2>11, <1>4, <2>2
  <2> QED
    BY <2>12, <1>3
<1>7. P = O
  BY <1>4, <1>5, <1>6
<1> QED
  BY <1>5, <1>7 DEF Ok

\* So a plan the generator leaves can be run.
LEMMA RunsInOrder ==
    ASSUME NEW steps, CanRun(steps)
    PROVE  \E rank \in [OrdersOf(steps) -> 1 .. Len(steps)] :
              \A i \in DOMAIN steps : \A d \in steps[i].deps \cap DOMAIN rank :
                  rank[d] < rank[steps[i].order]
<1> DEFINE n == Len(steps)
           O == OrdersOf(steps)
           dep == [o \in O |-> DepsOf(steps, o)]
           g == [i \in 1 .. n |-> steps[i].order]
<1>1. n \in Nat /\ DOMAIN steps = 1 .. n
  BY DEF CanRun
<1>2. IsFiniteSet(1 .. n) /\ Cardinality(1 .. n) = n
  <2> HIDE DEF n
  <2> QED
    BY <1>1, FS_Interval
<1>3. g \in Surjection(1 .. n, O)
  BY <1>1 DEF Surjection, OrdersOf
<1>4. IsFiniteSet(O) /\ Cardinality(O) <= n /\ Cardinality(O) \in Nat
  <2> HIDE DEF O, g, n
  <2>1. IsFiniteSet(O) /\ Cardinality(O) <= Cardinality(1 .. n)
    BY <1>2, <1>3, FS_Surjection
  <2> QED
    BY <1>2, <2>1, FS_CardinalityType
<1>5. ~ \E S \in SUBSET O \ {{}} : \A o \in S : dep[o] \cap S # {}
  BY DEF CanRun, Layered
<1>6. \A i \in DOMAIN steps : steps[i].order \in O /\ steps[i].deps \subseteq dep[steps[i].order]
  BY DEF OrdersOf, DepsOf
<1> HIDE DEF O, dep, n
<1>7. PICK rank \in [O -> 1 .. Cardinality(O)] : \A o \in O : \A d \in dep[o] \cap O : rank[d] < rank[o]
  BY <1>4, <1>5, Ranked, Zenon
<1>8. rank \in [O -> 1 .. n] /\ DOMAIN rank = O
  BY <1>1, <1>4, <1>7
<1>9. \A i \in DOMAIN steps : \A d \in steps[i].deps \cap O : rank[d] < rank[steps[i].order]
  BY <1>6, <1>7, ZenonT(30)
<1> QED
  BY <1>8, <1>9, Zenon DEF O, n

LEMMA TailRuns ==
    ASSUME NEW S, NEW steps \in Seq(S), steps # <<>>, CanRun(steps)
    PROVE  CanRun(Tail(steps)) /\ Tail(steps) \in Seq(S)
<1> DEFINE n == Len(steps)
           t == Tail(steps)
<1>1. n \in Nat /\ n > 0 /\ t \in Seq(S) /\ Len(t) = n - 1 /\ DOMAIN t = 1 .. (n - 1)
      /\ \A i \in 1 .. (n - 1) : t[i] = steps[i + 1] /\ i + 1 \in DOMAIN steps
  OBVIOUS
<1> HIDE DEF t, n
<1>2. \A i, j \in DOMAIN t : t[i].order = t[j].order => i = j
  <2> TAKE i, j \in DOMAIN t
  <2> HAVE t[i].order = t[j].order
  <2>1. i + 1 \in DOMAIN steps /\ j + 1 \in DOMAIN steps /\ steps[i + 1].order = steps[j + 1].order /\ i \in Int /\ j \in Int
    BY <1>1
  <2>2. i + 1 = j + 1
    BY <2>1 DEF CanRun
  <2> QED
    BY <2>1, <2>2
<1>3. \A i \in DOMAIN t : t[i].dur > 0 /\ (MaxFaultDuration > 0 => t[i].dur <= MaxFaultDuration)
  BY <1>1 DEF CanRun
<1>4. OrdersOf(t) \subseteq OrdersOf(steps)
  BY <1>1 DEF OrdersOf
<1>5. \A o : DepsOf(t, o) \subseteq DepsOf(steps, o)
  BY <1>1 DEF DepsOf
<1>6. Layered(t)
  <2> SUFFICES ASSUME NEW X \in SUBSET OrdersOf(t) \ {{}}, \A o \in X : DepsOf(t, o) \cap X # {}
               PROVE  FALSE
    BY DEF Layered
  <2>1. X \in SUBSET OrdersOf(steps) \ {{}} /\ \A o \in X : DepsOf(steps, o) \cap X # {}
    BY <1>4, <1>5
  <2> QED
    BY <2>1 DEF CanRun, Layered
<1>7. Len(t) \in Nat
  BY <1>1
<1> QED
  BY <1>1, <1>2, <1>3, <1>6, <1>7, Zenon DEF CanRun, t

\* What parses accepts is such a plan.
LEMMA ParsedRuns ==
    ASSUME NEW d \in Drafts, parses(d)
    PROVE  \E S : Normal(d.steps) \in Seq(S) /\ CanRun(Normal(d.steps)) /\ Normal(d.steps) # <<>>
<1> DEFINE raw == d.steps
           s == Normal(raw)
           R == {raw[i] : i \in DOMAIN raw}
           n == Len(raw)
           S == {s[i] : i \in DOMAIN s}
<1>1. /\ raw \in Seq(R)
      /\ \A x \in R : x \in [order : Int, deps : SUBSET Int, dur : Int, ns : {x.ns}, whole : BOOLEAN, fits : BOOLEAN]
  BY DraftsAssumption
<1>2. raw # <<>> /\ (\A i \in DOMAIN s : SoundStep(s[i])) /\ validateStepDAG(s)
  BY DEF parses
<1>3. n \in Nat /\ n > 0 /\ DOMAIN raw = 1 .. n
  BY <1>1, <1>2
<1>4. DOMAIN s = 1 .. n /\ s = [i \in 1 .. n |-> s[i]]
  BY <1>3 DEF Normal
<1>5. ASSUME NEW i \in 1 .. n
      PROVE  s[i].dur = (IF raw[i].dur <= 0 THEN Capped(DefaultDuration) ELSE raw[i].dur) /\ raw[i].dur \in Int
  <2>1. raw[i] \in [order : Int, deps : SUBSET Int, dur : Int, ns : {raw[i].ns}, whole : BOOLEAN, fits : BOOLEAN]
    BY <1>1, <1>3
  <2>2. s[i] = [raw[i] EXCEPT !.order = IF @ = 0 THEN i ELSE @,
                              !.dur = IF @ <= 0 THEN Capped(DefaultDuration) ELSE @,
                              !.ns = IF @ = Unset THEN arena ELSE @]
    BY <1>3 DEF Normal
  <2> HIDE DEF s, raw
  <2> QED
    BY <2>1, <2>2
<1>6. Capped(DefaultDuration) > 0
  BY TurnsAssumption DEF Capped
<1> HIDE DEF raw, s, n
<1>7. s \in Seq(S) /\ Len(s) = n
  BY <1>3, <1>4
<1>8. s # <<>>
  BY <1>3, <1>7
<1>9. \A i, j \in 1 .. n : s[i].order = s[j].order => i = j
  <2> DEFINE g == [i \in 1 .. n |-> s[i].order]
  <2>1. OrdersOf(s) = {g[i] : i \in 1 .. n}
    BY <1>4 DEF OrdersOf
  <2>2. Cardinality({g[i] : i \in 1 .. n}) = n /\ DOMAIN g = 1 .. n
    BY <1>2, <1>7, <2>1 DEF validateStepDAG
  <2> HIDE DEF g
  <2>3. \A i, j \in 1 .. n : g[i] = g[j] => i = j
    BY <2>2, <1>3, Distinct
  <2> QED
    BY <2>3 DEF g
<1>10. \A i \in 1 .. n : s[i].dur > 0 /\ (MaxFaultDuration > 0 => s[i].dur <= MaxFaultDuration)
  BY <1>2, <1>4, <1>5, <1>6 DEF SoundStep
<1>11. Layered(s)
  BY <1>2 DEF validateStepDAG
<1>12. CanRun(s)
  BY <1>3, <1>4, <1>7, <1>9, <1>10, <1>11 DEF CanRun
<1> QED
  BY <1>7, <1>8, <1>12 DEF s, raw

(***************************************************************************)
(* The trail.                                                              *)
(***************************************************************************)
IsTail(s, w) == Len(s) <= Len(w) /\ \A i \in 1 .. Len(s) : s[i] = w[i + (Len(w) - Len(s))]

LEMMA TailIs ==
    ASSUME NEW R, NEW s \in Seq(R), NEW w \in Seq(R), IsTail(s, w)
    PROVE  IsSuffix(s, w)
<1> DEFINE n == Len(s)
           m == Len(w)
           rs == Reverse(s)
           rw == Reverse(w)
<1>1. n \in Nat /\ m \in Nat /\ n <= m /\ \A i \in 1 .. n : s[i] = w[i + (m - n)]
  BY DEF IsTail
<1>2. rs = [i \in 1 .. n |-> s[(n - i) + 1]] /\ rw = [i \in 1 .. m |-> w[(m - i) + 1]]
  BY DEF Reverse
<1>3. \A i \in 1 .. n : (n - i) + 1 \in 1 .. n /\ s[(n - i) + 1] \in R
  BY <1>1
<1>4. \A i \in 1 .. m : (m - i) + 1 \in 1 .. m /\ w[(m - i) + 1] \in R
  BY <1>1
<1> HIDE DEF n, m, rs, rw
<1>5. rs \in Seq(R) /\ Len(rs) = n /\ rw \in Seq(R) /\ Len(rw) = m
  <2>1. rs \in [1 .. n -> R]
    BY <1>2, <1>3
  <2>2. rw \in [1 .. m -> R]
    BY <1>2, <1>4
  <2> QED
    BY <1>1, <2>1, <2>2
<1>6. \A i \in 1 .. n : rs[i] = rw[i]
  <2> SUFFICES ASSUME NEW i \in 1 .. n PROVE rs[i] = rw[i]
    OBVIOUS
  <2>1. PICK j \in 1 .. n : j = (n - i) + 1
    BY <1>3
  <2>2. j + (m - n) = (m - i) + 1
    BY <1>1, <2>1
  <2>3. s[j] = w[(m - i) + 1]
    BY <1>1, <2>1, <2>2
  <2>4. i \in 1 .. m
    BY <1>1
  <2> QED
    BY <1>2, <2>1, <2>3, <2>4
<1>7. SubSeq(rs, 1, n) = SubSeq(rw, 1, n)
  <2> DEFINE A == SubSeq(rs, 1, n)
             B == SubSeq(rw, 1, n)
  <2>1. A \in Seq(R) /\ Len(A) = n /\ \A i \in 1 .. n : A[i] = rs[i]
    BY <1>1, <1>5
  <2>2. B \in Seq(R) /\ Len(B) = n /\ \A i \in 1 .. n : B[i] = rw[i]
    BY <1>1, <1>5
  <2> HIDE DEF A, B
  <2>3. \A i \in 1 .. Len(A) : A[i] = B[i]
    BY <1>6, <2>1, <2>2
  <2>4. A = B
    BY <2>1, <2>2, <2>3, SeqEqual
  <2> QED
    BY <2>4 DEF A, B
<1> QED
  BY <1>1, <1>5, <1>7 DEF IsSuffix, IsPrefix, rs, rw

LEMMA TailAppend ==
    ASSUME NEW R, NEW s \in Seq(R), NEW w \in Seq(R), IsTail(s, w), NEW x \in R
    PROVE  IsTail(Append(s, x), Append(w, x))
<1> DEFINE n == Len(s)
           m == Len(w)
           S == Append(s, x)
           W == Append(w, x)
<1>1. n \in Nat /\ m \in Nat /\ n <= m /\ \A i \in 1 .. n : s[i] = w[i + (m - n)]
  BY DEF IsTail
<1>2. Len(S) = n + 1 /\ S[n + 1] = x /\ \A i \in 1 .. n : S[i] = s[i]
  OBVIOUS
<1>3. Len(W) = m + 1 /\ W[m + 1] = x /\ \A i \in 1 .. m : W[i] = w[i]
  OBVIOUS
<1> HIDE DEF n, m, S, W
<1>4. \A i \in 1 .. (n + 1) : S[i] = W[i + ((m + 1) - (n + 1))]
  <2> SUFFICES ASSUME NEW i \in 1 .. (n + 1) PROVE S[i] = W[i + ((m + 1) - (n + 1))]
    OBVIOUS
  <2>1. PICK j \in 1 .. (m + 1) : j = i + (m - n) /\ j = i + ((m + 1) - (n + 1))
    BY <1>1
  <2>2. CASE i = n + 1
    <3>1. j = m + 1
      BY <1>1, <2>1, <2>2
    <3> QED
      BY <1>2, <1>3, <2>1, <2>2, <3>1
  <2>3. CASE i \in 1 .. n
    <3>1. j \in 1 .. m
      BY <1>1, <2>1, <2>3
    <3> QED
      BY <1>1, <1>2, <1>3, <2>1, <2>3, <3>1
  <2> QED
    BY <1>1, <2>2, <2>3
<1>5. IsTail(S, W)
  BY <1>1, <1>2, <1>3, <1>4 DEF IsTail
<1> QED
  BY <1>5 DEF S, W

LEMMA TailPeel ==
    ASSUME NEW R, NEW s \in Seq(R), NEW w \in Seq(R), NEW x \in R, IsTail(s, Append(w, x)), s # <<>>
    PROVE  \E q \in Seq(R) : s = Append(q, x) /\ IsTail(q, w)
<1> DEFINE n == Len(s)
           m == Len(w)
           W == Append(w, x)
           q == [i \in 1 .. (n - 1) |-> s[i]]
           S == Append(q, x)
<1>1. n \in Nat /\ m \in Nat /\ n >= 1
  OBVIOUS
<1>2. Len(W) = m + 1 /\ W[m + 1] = x /\ \A i \in 1 .. m : W[i] = w[i]
  OBVIOUS
<1>3. n <= m + 1 /\ \A i \in 1 .. n : s[i] = W[i + ((m + 1) - n)]
  BY <1>2 DEF IsTail
<1>4. q \in Seq(R) /\ Len(q) = n - 1 /\ \A i \in 1 .. (n - 1) : q[i] = s[i]
  BY <1>1
<1> HIDE DEF W, q
<1>5. S \in Seq(R) /\ Len(S) = n /\ S[n] = x /\ \A i \in 1 .. (n - 1) : S[i] = q[i]
  BY <1>1, <1>4
<1>6. s[n] = x
  <2>1. n \in 1 .. n /\ n + ((m + 1) - n) = m + 1
    BY <1>1
  <2> QED
    BY <1>2, <1>3, <2>1
<1> HIDE DEF S, n, m
<1>7. \A i \in 1 .. n : S[i] = s[i]
  <2> SUFFICES ASSUME NEW i \in 1 .. n PROVE S[i] = s[i]
    OBVIOUS
  <2>1. i = n \/ i \in 1 .. (n - 1)
    BY <1>1
  <2> QED
    BY <1>4, <1>5, <1>6, <2>1
<1>8. s = S
  BY <1>1, <1>5, <1>7 DEF n
<1>9. \A i \in 1 .. (n - 1) : q[i] = w[i + (m - (n - 1))]
  <2> SUFFICES ASSUME NEW i \in 1 .. (n - 1) PROVE q[i] = w[i + (m - (n - 1))]
    OBVIOUS
  <2>1. PICK j \in 1 .. m : j = i + (m - (n - 1)) /\ j = i + ((m + 1) - n)
    BY <1>1, <1>3
  <2>2. i \in 1 .. n
    BY <1>1
  <2>3. s[i] = W[j]
    BY <1>3, <2>1, <2>2
  <2> QED
    BY <1>2, <1>4, <2>1, <2>3
<1>10. IsTail(q, w)
  <2>1. n - 1 <= m
    BY <1>1, <1>3
  <2> QED
    BY <1>4, <1>9, <2>1 DEF IsTail, m
<1> QED
  BY <1>4, <1>8, <1>10 DEF S

LEMMA TailNewest ==
    ASSUME NEW R, NEW s \in Seq(R), NEW w \in Seq(R), IsTail(s, w)
    PROVE  IsTail(Newest(s), w)
<1> DEFINE n == Len(s)
           m == Len(w)
           k == MaxRecords
           N == Newest(s)
<1>1. n \in Nat /\ m \in Nat /\ n <= m /\ \A i \in 1 .. n : s[i] = w[i + (m - n)]
  BY DEF IsTail
<1>2. k \in Nat \ {0}
  BY TrailAssumption
<1>3. CASE n <= k
  <2>1. N = s
    BY <1>1, <1>2, <1>3 DEF Newest
  <2> QED
    BY <2>1
<1>4. CASE n > k
  <2>1. N = SubSeq(s, n - k + 1, n)
    BY <1>4 DEF Newest
  <2>2. Len(N) = k /\ \A i \in 1 .. k : N[i] = s[i + (n - k)]
    BY <1>1, <1>2, <1>4, <2>1
  <2> HIDE DEF N, n, m, k
  <2>3. \A i \in 1 .. k : N[i] = w[i + (m - k)]
    <3> SUFFICES ASSUME NEW i \in 1 .. k PROVE N[i] = w[i + (m - k)]
      OBVIOUS
    <3>1. PICK j \in 1 .. n : j = i + (n - k)
      BY <1>1, <1>2, <1>4
    <3>2. j + (m - n) = i + (m - k)
      BY <1>1, <1>2, <3>1
    <3> QED
      BY <1>1, <2>2, <3>1, <3>2
  <2>4. k <= m
    BY <1>1, <1>2, <1>4
  <2> QED
    BY <2>2, <2>3, <2>4 DEF IsTail, N, m
<1> QED
  BY <1>1, <1>2, <1>3, <1>4

LEMMA NewestIs ==
    ASSUME NEW R, NEW s \in Seq(R)
    PROVE  Newest(s) \in Seq(R) /\ Len(Newest(s)) <= MaxRecords
<1>1. MaxRecords \in Nat \ {0} /\ Len(s) \in Nat
  BY TrailAssumption
<1>2. CASE Len(s) <= MaxRecords
  BY <1>1, <1>2 DEF Newest
<1>3. CASE Len(s) > MaxRecords
  <2>1. Newest(s) = SubSeq(s, Len(s) - MaxRecords + 1, Len(s))
    BY <1>3 DEF Newest
  <2> DEFINE a == Len(s) - MaxRecords + 1
  <2>2. a \in 1 .. Len(s) /\ Len(s) - a + 1 = MaxRecords
    BY <1>1, <1>3
  <2>3. SubSeq(s, a, Len(s)) \in Seq(R) /\ Len(SubSeq(s, a, Len(s))) = Len(s) - a + 1
    BY <1>1, <2>2
  <2> QED
    BY <1>1, <2>1, <2>2, <2>3
<1> QED
  BY <1>1, <1>2, <1>3

\* A generation's size is its lines, its pieces and the lines they spoiled.
GenOK(f) ==
    /\ f \in [lines : Seq(LineSet), size : Nat, torn : BOOLEAN, cuts : Nat]
    /\ f.size + (IF f.torn THEN 1 ELSE 0) <= Len(f.lines) + 2 * f.cuts

FullGen(f) == Len(f.lines) + 2 * f.cuts >= MaxLines

\* The two generations are the end of what was written, a full one at least once
\* there is an older one.
FilesOK(o, f, w) ==
    /\ GenOK(o) /\ GenOK(f)
    /\ IsTail(o.lines \o f.lines, w)
    /\ (o.lines = <<>> /\ f.lines = w) \/ FullGen(o)

\* The log, while no line is lost, is the end of what was written too.
TrailInv ==
    /\ FilesOK(old, cur, written)
    /\ written \in Seq(LineSet) /\ records \in Seq(LineSet)
    /\ lost \in BOOLEAN /\ fileErrors \in 0 .. MaxFileErrors /\ Len(records) <= MaxRecords
    /\ ~ lost => IsTail(records, written)

LEMMA Cats ==
    ASSUME NEW R, NEW a \in Seq(R), NEW b \in Seq(R), NEW x \in R
    PROVE  /\ a \o b \in Seq(R) /\ Len(a \o b) = Len(a) + Len(b)
           /\ a \o Append(b, x) = Append(a \o b, x)
           /\ b \o <<x>> = Append(b, x) /\ a \o <<>> = a /\ <<>> \o b = b
<1>1. a \o b \in Seq(R) /\ Len(a \o b) = Len(a) + Len(b)
  OBVIOUS
<1>2. a \o Append(b, x) = Append(a \o b, x)
  <2> DEFINE c == a \o b
             A == a \o Append(b, x)
             B == Append(c, x)
             n == Len(a)
             m == Len(b)
  <2>1. n \in Nat /\ m \in Nat
    OBVIOUS
  <2>2. A \in Seq(R) /\ Len(A) = n + (m + 1) /\ (\A i \in 1 .. n : A[i] = a[i])
        /\ \A i \in n + 1 .. n + (m + 1) : A[i] = Append(b, x)[i - n]
    <3> DEFINE d == Append(b, x)
    <3>1. d \in Seq(R) /\ Len(d) = m + 1
      OBVIOUS
    <3> HIDE DEF d
    <3>2. a \o d \in Seq(R) /\ Len(a \o d) = n + (m + 1) /\ (\A i \in 1 .. n : (a \o d)[i] = a[i])
          /\ \A i \in n + 1 .. n + (m + 1) : (a \o d)[i] = d[i - n]
      BY <3>1
    <3> QED
      BY <3>2 DEF d
  <2>3. \A i \in 1 .. (m + 1) : Append(b, x)[i] = IF i = m + 1 THEN x ELSE b[i]
    OBVIOUS
  <2>4. B \in Seq(R) /\ Len(B) = (n + m) + 1 /\ B[(n + m) + 1] = x /\ \A i \in 1 .. (n + m) : B[i] = c[i]
    <3>1. c \in Seq(R) /\ Len(c) = n + m
      OBVIOUS
    <3> HIDE DEF c
    <3> QED
      BY <2>1, <3>1
  <2>5. (\A i \in 1 .. n : c[i] = a[i]) /\ \A i \in n + 1 .. n + m : c[i] = b[i - n]
    OBVIOUS
  <2> HIDE DEF A, B, c, n, m
  <2>6. \A i \in 1 .. Len(A) : A[i] = B[i]
    <3> SUFFICES ASSUME NEW i \in 1 .. Len(A) PROVE A[i] = B[i]
      OBVIOUS
    <3>1. i \in 1 .. n \/ i \in n + 1 .. n + m \/ i = (n + m) + 1
      BY <2>1, <2>2
    <3>2. CASE i \in 1 .. n
      <4>1. i \in 1 .. (n + m)
        BY <2>1, <3>2
      <4> QED
        BY <2>2, <2>4, <2>5, <3>2, <4>1
    <3>3. CASE i \in n + 1 .. n + m
      <4>1. PICK j \in 1 .. m : j = i - n
        BY <2>1, <3>3
      <4>2. i \in n + 1 .. n + (m + 1) /\ i \in 1 .. (n + m) /\ j \in 1 .. (m + 1) /\ j # m + 1
        BY <2>1, <3>3, <4>1
      <4> QED
        BY <2>2, <2>3, <2>4, <2>5, <3>3, <4>1, <4>2, ZenonT(30)
    <3>4. CASE i = (n + m) + 1
      <4>1. PICK j \in 1 .. (m + 1) : j = i - n /\ j = m + 1
        BY <2>1, <3>4
      <4>2. i \in n + 1 .. n + (m + 1)
        BY <2>1, <3>4
      <4> QED
        BY <2>2, <2>3, <2>4, <3>4, <4>1, <4>2
    <3> QED
      BY <3>1, <3>2, <3>3, <3>4
  <2>7. Len(A) = Len(B)
    BY <2>1, <2>2, <2>4
  <2>8. A = B
    BY <2>2, <2>4, <2>6, <2>7, SeqEqual
  <2> QED
    BY <2>8 DEF A, B, c
<1>3. b \o <<x>> = Append(b, x)
  OBVIOUS
<1>4. a \o <<>> = a /\ <<>> \o b = b
  OBVIOUS
<1> QED
  BY <1>1, <1>2, <1>3, <1>4

\* Each end of the file ends with the file it is the end of.
LEMMA TailCur ==
    ASSUME NEW R, NEW a \in Seq(R), NEW b \in Seq(R), NEW w \in Seq(R), IsTail(a \o b, w)
    PROVE  IsTail(b, w)
<1> DEFINE n == Len(a)
           m == Len(b)
           k == Len(w)
           c == a \o b
<1>1. n \in Nat /\ m \in Nat /\ k \in Nat /\ Len(c) = n + m /\ \A i \in n + 1 .. n + m : c[i] = b[i - n]
  OBVIOUS
<1>2. n + m <= k /\ \A i \in 1 .. (n + m) : c[i] = w[i + (k - (n + m))]
  BY <1>1 DEF IsTail
<1> HIDE DEF c
<1>3. \A i \in 1 .. m : b[i] = w[i + (k - m)]
  <2> SUFFICES ASSUME NEW i \in 1 .. m PROVE b[i] = w[i + (k - m)]
    OBVIOUS
  <2> HIDE DEF n, m, k
  <2>1. PICK j \in n + 1 .. n + m : j = i + n
    BY <1>1
  <2>2. j - n = i /\ j \in 1 .. (n + m) /\ j + (k - (n + m)) = i + (k - m)
    BY <1>1, <2>1
  <2> QED
    BY <1>1, <1>2, <2>1, <2>2
<1> QED
  BY <1>1, <1>2, <1>3 DEF IsTail

LEMMA FreshOK == GenOK(Fresh) /\ Fresh.lines = <<>> /\ ~ Fresh.torn
<1> DEFINE none == <<>>
<1>1. none \in Seq(LineSet) /\ Len(none) = 0
  OBVIOUS
<1>2. Fresh = [lines |-> none, size |-> 0, torn |-> FALSE, cuts |-> 0]
  BY DEF Fresh
<1> HIDE DEF none
<1>3. GenOK(Fresh) /\ Fresh.lines = none /\ ~ Fresh.torn
  BY <1>1, <1>2 DEF GenOK
<1> QED
  BY <1>3 DEF none

\* A full file is renamed with all it holds.
LEMMA RenameOK ==
    ASSUME TrailInv
    PROVE  FilesOK(NextOld, NextCur, written)
<1>1. FilesOK(old, cur, written) /\ written \in Seq(LineSet)
  BY DEF TrailInv
<1>2. CASE ~ Rotates
  BY <1>1, <1>2 DEF NextOld, NextCur
<1>3. CASE Rotates
  <2>1. NextOld = cur /\ NextCur = Fresh
    BY <1>3 DEF NextOld, NextCur
  <2>2. GenOK(cur) /\ GenOK(old) /\ cur.lines \in Seq(LineSet) /\ old.lines \in Seq(LineSet)
    BY <1>1 DEF FilesOK, GenOK
  <2>3. IsTail(cur.lines, written)
    BY <1>1, <2>2, TailCur DEF FilesOK
  <2>4. cur.lines \o <<>> = cur.lines
    BY <2>2
  <2>5. FullGen(cur)
    <3>1. cur.size \in Nat /\ cur.cuts \in Nat /\ cur.size <= Len(cur.lines) + 2 * cur.cuts
      BY <2>2 DEF GenOK
    <3>2. cur.size >= MaxLines
      BY <1>3, <3>1, TrailAssumption DEF Rotates
    <3> QED
      BY <2>2, <3>1, <3>2, TrailAssumption DEF FullGen
  <2>6. GenOK(Fresh) /\ Fresh.lines = <<>>
    BY FreshOK
  <2>7. FilesOK(cur, Fresh, written)
    BY <2>2, <2>3, <2>4, <2>5, <2>6 DEF FilesOK
  <2> QED
    BY <2>1, <2>7
<1> QED
  BY <1>2, <1>3

LEMMA CutOK ==
    ASSUME NEW o, NEW f, NEW w, FilesOK(o, f, w)
    PROVE  FilesOK(o, CutShort(f), w)
<1>1. GenOK(f)
  BY DEF FilesOK
<1>2. PICK n \in Seq(LineSet), k \in Nat, t \in BOOLEAN, c \in Nat :
          f = [lines |-> n, size |-> k, torn |-> t, cuts |-> c]
  BY <1>1 DEF GenOK
<1>3. CutShort(f) = [lines |-> n, size |-> k + 1, torn |-> TRUE, cuts |-> c + 1]
  BY <1>2 DEF CutShort
<1>4. k <= Len(n) + 2 * c /\ Len(n) \in Nat
  BY <1>1, <1>2 DEF GenOK
<1>5. GenOK(CutShort(f)) /\ CutShort(f).lines = f.lines
  <2>1. PICK g : g = [lines |-> n, size |-> k + 1, torn |-> TRUE, cuts |-> c + 1]
    OBVIOUS
  <2>2. g \in [lines : Seq(LineSet), size : Nat, torn : BOOLEAN, cuts : Nat]
    BY <2>1
  <2>3. g.lines = n /\ g.size = k + 1 /\ g.torn = TRUE /\ g.cuts = c + 1
    BY <2>1
  <2>4. GenOK(g)
    BY <1>4, <2>2, <2>3 DEF GenOK
  <2> QED
    BY <1>2, <1>3, <2>1, <2>3, <2>4
<1> QED
  BY <1>5 DEF FilesOK

\* A line added to the file, or spoiled by the piece it follows.
LEMMA AddOK ==
    ASSUME NEW o, NEW f, NEW w \in Seq(LineSet), NEW l \in LineSet, FilesOK(o, f, w)
    PROVE  FilesOK(o, Appended(f, l), IF f.torn THEN w ELSE Append(w, l))
<1>1. GenOK(f) /\ GenOK(o) /\ o.lines \in Seq(LineSet)
  BY DEF FilesOK, GenOK
<1>2. PICK n \in Seq(LineSet), k \in Nat, t \in BOOLEAN, c \in Nat :
          f = [lines |-> n, size |-> k, torn |-> t, cuts |-> c]
  BY <1>1 DEF GenOK
<1>3. Len(n) \in Nat /\ k + (IF t THEN 1 ELSE 0) <= Len(n) + 2 * c
  BY <1>1, <1>2 DEF GenOK
<1>4. CASE t
  <2>1. Appended(f, l) = [lines |-> n, size |-> k + 1, torn |-> FALSE, cuts |-> c]
    BY <1>2, <1>4 DEF Appended
  <2>2. GenOK(Appended(f, l)) /\ Appended(f, l).lines = f.lines
    <3>1. PICK g : g = [lines |-> n, size |-> k + 1, torn |-> FALSE, cuts |-> c]
      OBVIOUS
    <3>2. g \in [lines : Seq(LineSet), size : Nat, torn : BOOLEAN, cuts : Nat]
      BY <3>1
    <3>3. g.lines = n /\ g.size = k + 1 /\ g.torn = FALSE /\ g.cuts = c
      BY <3>1
    <3>4. GenOK(g)
      BY <1>3, <1>4, <3>2, <3>3 DEF GenOK
    <3> QED
      BY <1>2, <2>1, <3>1, <3>3, <3>4
  <2> QED
    BY <1>2, <1>4, <2>2 DEF FilesOK
<1>5. CASE ~ t
  <2> DEFINE m == Append(n, l)
             v == Append(w, l)
             a == o.lines \o n
  <2>1. m \in Seq(LineSet) /\ Len(m) = Len(n) + 1 /\ v \in Seq(LineSet)
    OBVIOUS
  <2>2. a \in Seq(LineSet) /\ IsTail(a, w)
    BY <1>1, <1>2, Cats DEF FilesOK
  <2>10. o.lines \o m = Append(a, l)
    <3>1. PICK p \in Seq(LineSet) : p = o.lines
      BY <1>1
    <3>2. p \o Append(n, l) = Append(p \o n, l)
      BY Cats
    <3> QED
      BY <3>1, <3>2
  <2>3. n = w => m = v
    OBVIOUS
  <2> HIDE DEF a
  <2>4. IsTail(Append(a, l), Append(w, l))
    BY <2>2, TailAppend
  <2>5. Appended(f, l) = [lines |-> m, size |-> k + 1, torn |-> FALSE, cuts |-> c]
    BY <1>2, <1>5 DEF Appended
  <2> HIDE DEF m
  <2>6. GenOK(Appended(f, l)) /\ Appended(f, l).lines = m
    BY <1>3, <1>5, <2>1, <2>5 DEF GenOK
  <2>7. (o.lines = <<>> /\ m = v) \/ FullGen(o)
    BY <1>2, <2>3 DEF FilesOK
  <2>8. IsTail(o.lines \o m, v)
    BY <2>10, <2>4
  <2>9. FilesOK(o, Appended(f, l), v)
    BY <1>1, <2>6, <2>7, <2>8 DEF FilesOK
  <2> QED
    BY <1>2, <1>5, <2>9
<1> QED
  BY <1>4, <1>5

\* What a line does to the files, whichever pair of them it goes to.
LEMMA LineAdds ==
    ASSUME TrailInv, NEW l \in LineSet, NEW o, NEW f, FilesOK(o, f, written), LineWritten(o, f, l)
    PROVE  /\ FilesOK(old', cur', written') /\ written' \in Seq(LineSet) /\ lost' \in BOOLEAN
           /\ ~ lost' => ~ lost /\ written' = Append(written, l)
<1>1. f.torn \in BOOLEAN /\ lost \in BOOLEAN /\ written \in Seq(LineSet)
  BY DEF TrailInv, FilesOK, GenOK
<1>2. written' = (IF f.torn THEN written ELSE Append(written, l)) /\ lost' = (lost \/ f.torn)
  BY DEF LineWritten
<1>3. FilesOK(o, Appended(f, l), IF f.torn THEN written ELSE Append(written, l))
  BY <1>1, AddOK
<1>4. FilesOK(old', cur', written')
  BY <1>2, <1>3 DEF LineWritten
<1>5. written' \in Seq(LineSet)
  BY <1>1, <1>2
<1> QED
  BY <1>1, <1>2, <1>4, <1>5

LEMMA LineLeaves ==
    ASSUME TrailInv, NEW o, NEW f, FilesOK(o, f, written), LineLost(o, f)
    PROVE  FilesOK(old', cur', written') /\ written' \in Seq(LineSet) /\ lost'
<1>1. old' = o /\ (cur' = f \/ cur' = CutShort(f)) /\ written' = written /\ lost'
  BY DEF LineLost
<1> QED
  BY <1>1, CutOK DEF TrailInv

LEMMA WrittenOn ==
    ASSUME TrailInv, NEW l \in LineSet, Emit(l)
    PROVE  TrailInv' /\ (~ lost' => ~ lost /\ written' = Append(written, l))
<1>1. records' = Newest(Append(records, l)) /\ Append(records, l) \in Seq(LineSet)
  BY DEF Emit, TrailInv
<1>2. records' \in Seq(LineSet) /\ Len(records') <= MaxRecords
  BY <1>1, NewestIs
<1>3. ASSUME ~ lost, written' = Append(written, l)
      PROVE  IsTail(records', written')
  <2>1. IsTail(Append(records, l), Append(written, l)) /\ Append(written, l) \in Seq(LineSet)
    BY <1>3, TailAppend DEF TrailInv
  <2> QED
    BY <1>1, <1>3, <2>1, TailNewest
<1>4. fileErrors' \in 0 .. MaxFileErrors
  <2>1. fileErrors \in 0 .. MaxFileErrors /\ MaxFileErrors \in Nat
    BY TrailAssumption DEF TrailInv
  <2> QED
    BY <2>1 DEF Emit, WriteWell, WriteFails, RenameFails, ReopenFails, NoFile, EmitFails
<1>5. FilesOK(old, cur, written) /\ FilesOK(NextOld, NextCur, written) /\ written \in Seq(LineSet)
  BY RenameOK DEF TrailInv
<1>6. /\ FilesOK(old', cur', written') /\ written' \in Seq(LineSet) /\ lost' \in BOOLEAN
      /\ ~ lost' => ~ lost /\ written' = Append(written, l)
  <2>1. CASE \E o, f : FilesOK(o, f, written) /\ LineWritten(o, f, l)
    BY <2>1, LineAdds
  <2>2. CASE \E o, f : FilesOK(o, f, written) /\ LineLost(o, f)
    <3>1. FilesOK(old', cur', written') /\ written' \in Seq(LineSet) /\ lost' = TRUE
      BY <2>2, LineLeaves DEF LineLost
    <3> QED
      BY <3>1
  <2>3. CASE ReopenFails
    <3>1. written' = written /\ lost' = TRUE /\ Rotates
      BY <2>3 DEF ReopenFails
    <3>2. CASE UNCHANGED <<old, cur>>
      BY <1>5, <3>1, <3>2
    <3>3. CASE old' = cur /\ cur' = Fresh
      BY <1>5, <3>1, <3>3 DEF NextOld, NextCur
    <3> QED
      BY <2>3, <3>2, <3>3 DEF ReopenFails
  <2>4. CASE NoFile
    <3>1. written' = written /\ lost' = TRUE /\ old' = old /\ cur' = cur
      BY <2>4 DEF NoFile
    <3> QED
      BY <1>5, <3>1
  <2>5. CASE WriteWell(l) \/ WriteFails \/ RenameFails(l)
    BY <1>5, <2>1, <2>2, <2>5 DEF WriteWell, WriteFails, RenameFails
  <2> QED
    BY <2>3, <2>4, <2>5 DEF Emit
<1> QED
  BY <1>2, <1>3, <1>4, <1>6 DEF TrailInv

(***************************************************************************)
(* The inductive invariant of a turn.                                      *)
(***************************************************************************)
\* Whatever end of the trail is folded, its rows are the last turns taken.
FoldOK(w, T) == \A s \in Seq(LineSet) : IsTail(s, w) => Good(Cycles(s), T)

Planned(p) ==
    /\ p.id \in PlanIds /\ p = [id |-> p.id, steps |-> p.steps]
    /\ \E S : p.steps \in Seq(S)
    /\ CanRun(p.steps)

LogInv == TrailInv /\ TruthOK(truth) /\ (~ lost => FoldOK(written, truth))

HereInv ==
    /\ at \in {"rest", "paused", "slot", "wait", "health", "unhealthy", "catalog", "ask", "llm", "execute"}
    /\ arena \in Arenas /\ polls \in 0 .. MaxPolls /\ attempts \in 0 .. MaxRetries
    /\ at # "rest" => UnderWay(truth, arena)
    /\ at = "rest" => polls = 0 /\ attempts = 0 /\ plan = NoDraft
    /\ at = "execute" => Planned(plan) /\ truth[Len(truth)].id = plan.id

TurnInv == LogInv /\ HereInv

LEMMA NoneGood ==
    ASSUME NEW T, TruthOK(T)
    PROVE  Good(<<>>, T)
<1>1. T \in Seq(RowSet) /\ <<>> \in Seq(RowSet) /\ <<>> \in RowLists
  BY DEF TruthOK, RowLists, OneOpen
<1>2. ASSUME NEW ms \in Arenas
      PROVE  Aligned(RowsOf(<<>>, ms), RowsOf(T, ms))
  <2>1. RowsOf(T, ms) \in Seq(RowSet)
    BY <1>1, RowsOwn
  <2>2. RowsOf(<<>>, ms) = <<>>
    <3>1. Row(ms, Unset) \in RowSet
      BY RowIs
    <3> QED
      BY <1>1, <3>1, RowsAppend
  <2> DEFINE took == RowsOf(T, ms)
             none == <<>>
  <2> HIDE DEF took
  <2>3. Len(none) = 0 /\ DOMAIN none = {} /\ Len(took) >= 0
    BY <2>1 DEF took
  <2> HIDE DEF none
  <2>4. Aligned(none, took)
    BY <2>3 DEF Aligned
  <2> QED
    BY <2>2, <2>4 DEF none, took
<1> QED
  BY <1>1, <1>2 DEF Good

LEMMA FoldOn ==
    ASSUME NEW w \in Seq(LineSet), NEW l \in LineSet, NEW T, NEW U, FoldOK(w, T), TruthOK(U),
           \A C : Good(C, T) => Good(Fold(C, l), U)
    PROVE  FoldOK(Append(w, l), U)
<1> SUFFICES ASSUME NEW s \in Seq(LineSet), IsTail(s, Append(w, l))
             PROVE  Good(Cycles(s), U)
  BY DEF FoldOK
<1>1. CASE s = <<>>
  BY <1>1, CyclesNone, NoneGood
<1>2. CASE s # <<>>
  <2>1. PICK q \in Seq(LineSet) : s = Append(q, l) /\ IsTail(q, w)
    BY <1>2, TailPeel
  <2>2. Cycles(s) = Fold(Cycles(q), l)
    BY <2>1, CyclesAppend
  <2>3. Good(Cycles(q), T)
    BY <2>1 DEF FoldOK
  <2> QED
    BY <2>2, <2>3
<1> QED
  BY <1>1, <1>2

LEMMA UBegins == UInit => TurnInv
<1> SUFFICES ASSUME UInit PROVE TurnInv
  OBVIOUS
<1>1. /\ old = Fresh /\ cur = Fresh /\ written = <<>> /\ records = <<>> /\ lost = FALSE /\ fileErrors = 0
      /\ at = "rest" /\ arena \in Arenas /\ polls = 0 /\ attempts = 0 /\ plan = NoDraft /\ truth = <<>>
  BY DEF UInit, TInit
<1>2. <<>> \in Seq(LineSet) /\ Len(<<>>) = 0 /\ <<>> \o <<>> = <<>>
  OBVIOUS
<1>3. IsTail(<<>>, <<>>)
  BY <1>2 DEF IsTail
<1>4. TrailInv
  <2> DEFINE none == <<>>
  <2>1. none \in Seq(LineSet) /\ Len(none) = 0 /\ none \o none = none /\ IsTail(none, none)
    BY <1>2, <1>3
  <2>2. old = Fresh /\ cur = Fresh /\ written = none /\ records = none /\ Fresh.lines = none /\ GenOK(Fresh)
    BY <1>1, FreshOK
  <2>3. (old.lines = <<>> /\ cur.lines = written)
    BY <2>2
  <2> HIDE DEF none
  <2>4. FilesOK(old, cur, written)
    BY <2>1, <2>2, <2>3 DEF FilesOK
  <2>5. 0 \in 0 .. MaxFileErrors /\ 0 <= MaxRecords /\ Len(records) <= MaxRecords
    BY <2>1, <2>2, TrailAssumption
  <2> QED
    BY <1>1, <2>1, <2>2, <2>4, <2>5 DEF TrailInv
<1>5. TruthOK(<<>>)
  <2>1. <<>> \in RowLists
    BY DEF RowLists, OneOpen
  <2>2. ASSUME NEW ms \in Arenas
        PROVE  OnlyLast(RowsOf(<<>>, ms))
    <3>1. Row(ms, Unset) \in RowSet /\ <<>> \in Seq(RowSet)
      BY RowIs
    <3>2. RowsOf(<<>>, ms) = <<>>
      BY <3>1, RowsAppend
    <3> QED
      BY <3>2 DEF OnlyLast
  <2> QED
    BY <2>1, <2>2 DEF TruthOK
<1>6. FoldOK(<<>>, <<>>)
  <2> SUFFICES ASSUME NEW s \in Seq(LineSet), IsTail(s, <<>>)
               PROVE  Good(Cycles(s), <<>>)
    BY DEF FoldOK
  <2>1. s = <<>>
    BY <1>2 DEF IsTail
  <2> QED
    BY <1>5, <2>1, CyclesNone, NoneGood
<1>7. LogInv
  BY <1>1, <1>4, <1>5, <1>6 DEF LogInv
<1>8. HereInv
  BY <1>1, TurnsAssumption DEF HereInv
<1> QED
  BY <1>7, <1>8 DEF TurnInv

\* A record of the turn under way leaves its row as t.
LEMMA Say ==
    ASSUME TurnInv, at # "rest", NEW l \in LineSet, l.ns = arena, l.ev # "started", Emit(l),
           NEW t \in RowSet, t.ns = arena, t.outcome = "open" => t.why = "none",
           \A r \in RowSet : r.outcome = "open" /\ Like(r, truth[Len(truth)]) => Like(Told(r, l), t),
           truth' = [truth EXCEPT ![Len(truth)] = t]
    PROVE  /\ LogInv'
           /\ t.outcome = "open" => UnderWay(truth', arena)
           /\ truth'[Len(truth')] = t
<1>1. TrailInv /\ TruthOK(truth) /\ (~ lost => FoldOK(written, truth)) /\ arena \in Arenas /\ UnderWay(truth, arena)
  BY DEF TurnInv, LogInv, HereInv
<1> DEFINE U == [truth EXCEPT ![Len(truth)] = t]
<1>2. TruthOK(U) /\ (t.outcome = "open" => UnderWay(U, arena)) /\ Len(U) = Len(truth) /\ U[Len(truth)] = t
  BY <1>1, TellTruth
<1>3. TrailInv' /\ (~ lost' => ~ lost /\ written' = Append(written, l))
  BY <1>1, WrittenOn
<1>4. \A C : Good(C, truth) => Good(Fold(C, l), U)
  BY <1>1, TellGood
<1> HIDE DEF U
<1>5. ASSUME ~ lost'
      PROVE  FoldOK(written', U)
  <2>1. written \in Seq(LineSet) /\ FoldOK(written, truth) /\ written' = Append(written, l)
    BY <1>1, <1>3, <1>5 DEF TrailInv
  <2>2. FoldOK(Append(written, l), U)
    BY <1>2, <1>4, <2>1, FoldOn
  <2> QED
    BY <2>1, <2>2
<1>6. truth' = U
  BY DEF U
<1>7. LogInv'
  BY <1>2, <1>3, <1>5, <1>6 DEF LogInv
<1> QED
  BY <1>2, <1>6, <1>7

LEMMA LastRow ==
    ASSUME TurnInv, at # "rest"
    PROVE  /\ truth[Len(truth)] \in RowSet /\ truth[Len(truth)].ns = arena
           /\ truth[Len(truth)].outcome = "open" /\ truth[Len(truth)].why = "none"
           /\ Len(truth) \in DOMAIN truth /\ truth \in Seq(RowSet) /\ Len(truth) \in Nat /\ arena \in Arenas
<1>1. TruthOK(truth) /\ UnderWay(truth, arena) /\ arena \in Arenas
  BY DEF TurnInv, LogInv, HereInv
<1>2. truth \in Seq(RowSet) /\ truth # <<>>
  BY <1>1 DEF TruthOK, RowLists, UnderWay
<1>3. Len(truth) \in Nat /\ Len(truth) > 0 /\ DOMAIN truth = 1 .. Len(truth)
  BY <1>2
<1>4. Len(truth) \in DOMAIN truth
  BY <1>3
<1>5. truth[Len(truth)] \in RowSet
  BY <1>2, <1>4
<1> QED
  BY <1>1, <1>2, <1>3, <1>4, <1>5 DEF TruthOK, UnderWay

\* What leaves the trail and the turns alone.
LEMMA LogStays == LogInv /\ UNCHANGED <<truth, tvars>> => LogInv'
BY DEF LogInv, TrailInv, tvars

LEMMA RestHere == LogInv' /\ HereInv /\ Rest /\ arena' = arena => TurnInv'
<1> SUFFICES ASSUME LogInv', HereInv, Rest, arena' = arena PROVE TurnInv'
  OBVIOUS
<1>1. 0 \in 0 .. MaxPolls /\ 0 \in 0 .. MaxRetries
  BY TurnsAssumption
<1>2. HereInv'
  BY <1>1 DEF HereInv, Rest
<1> QED
  BY <1>2 DEF TurnInv

\* A record that says nothing of the turn's end.
LEMMA SayMore ==
    ASSUME TurnInv, at # "rest", NEW ev \in {"unhealthy", "llm", "stepSkipped"}, NEW id \in PlanIds,
           Emit(Line(arena, ev, id)), truth' = truth
    PROVE  LogInv'
<1> DEFINE l == Line(arena, ev, id)
           t == truth[Len(truth)]
<1>1. t \in RowSet /\ t.ns = arena /\ t.outcome = "open" /\ t.why = "none" /\ truth \in Seq(RowSet)
      /\ Len(truth) \in DOMAIN truth /\ arena \in Arenas
  BY LastRow
<1>2. l \in LineSet /\ l.ns = arena /\ l.ev = ev
  BY <1>1 DEF Line, LineSet
<1>3. l.ev # "started"
  BY <1>2
<1>4. ASSUME NEW r \in RowSet
      PROVE  Told(r, l) = r
  BY <1>2 DEF Told, Skips
<1>5. truth' = [truth EXCEPT ![Len(truth)] = t]
  BY <1>1
<1>6. Emit(l)
  OBVIOUS
<1> HIDE DEF l
<1>7. \A r \in RowSet : r.outcome = "open" /\ Like(r, t) => Like(Told(r, l), t)
  BY <1>4
<1>8. t.outcome = "open" => t.why = "none"
  BY <1>1
<1> QED
  BY <1>1, <1>2, <1>3, <1>5, <1>6, <1>7, <1>8, Say

\* A skip ends the turn with its reason.
LEMMA SkipEnds ==
    ASSUME TurnInv, at # "rest", NEW why \in Skips, Skip(why)
    PROVE  TurnInv'
<1> DEFINE l == Line(arena, why, Unset)
           last == truth[Len(truth)]
           t == [last EXCEPT !.outcome = "skipped", !.why = why]
<1>1. last \in RowSet /\ last.ns = arena /\ truth \in Seq(RowSet)
      /\ Len(truth) \in DOMAIN truth /\ arena \in Arenas
  BY LastRow
<1>2. l \in LineSet /\ l.ns = arena /\ l.ev = why
  BY <1>1 DEF Line, LineSet, PlanIds
<1>3. l.ev # "started" /\ l.ev # "planned" /\ l.ev # "completed"
  BY <1>2 DEF Skips
<1>4. t \in RowSet /\ t.ns = arena /\ t.outcome = "skipped" /\ t.why = why /\ t.id = last.id
  BY <1>1 DEF RowSet
<1>5. ASSUME NEW r \in RowSet, Like(r, last)
      PROVE  Like(Told(r, l), t)
  <2>1. Told(r, l) = [r EXCEPT !.outcome = "skipped", !.why = why]
    BY <1>2, <1>3 DEF Told
  <2>2. Told(r, l).outcome = "skipped" /\ Told(r, l).why = why /\ Told(r, l).id = r.id
    BY <2>1 DEF RowSet
  <2> QED
    BY <1>4, <1>5, <2>2 DEF Like
<1>6. truth' = [truth EXCEPT ![Len(truth)] = t]
  BY <1>1 DEF Skip, Close
<1>7. Emit(l)
  BY DEF Skip
<1> HIDE DEF l, t
<1>8. LogInv'
  BY <1>2, <1>3, <1>4, <1>5, <1>6, <1>7, Say
<1> QED
  BY <1>8, RestHere DEF Skip, TurnInv

\* The waits, the gate, the prompt, and a draft sent back.
LEMMA MovesOn ==
    ASSUME TurnInv,
           \/ SlotFree \/ SlotBusy \/ LookAgain \/ HealthPasses \/ Prompt \/ CatalogFails \/ Stop
           \/ \E d \in Drafts : DraftInvalid(d)
    PROVE  TurnInv'
<1>1. UNCHANGED <<truth, tvars, arena>>
  BY DEF SlotFree, SlotBusy, LookAgain, HealthPasses, Prompt, CatalogFails, Stop, DraftInvalid, GoesTo
<1>2. LogInv'
  BY <1>1, LogStays DEF TurnInv
<1>3. CASE CatalogFails
  BY <1>2, <1>3, RestHere DEF CatalogFails, TurnInv
<1>4. CASE SlotBusy
  <2>1. polls' \in 0 .. MaxPolls
    <3>1. polls \in 0 .. MaxPolls /\ polls < MaxPolls /\ polls' = polls + 1 /\ MaxPolls \in Nat
      BY <1>4, TurnsAssumption DEF SlotBusy, Polled, TurnInv, HereInv
    <3> QED
      BY <3>1
  <2> QED
    BY <1>1, <1>2, <1>4, <2>1 DEF TurnInv, HereInv, SlotBusy
<1>5. CASE \E d \in Drafts : DraftInvalid(d)
  <2>1. attempts' \in 0 .. MaxRetries
    <3>1. attempts \in 0 .. MaxRetries /\ attempts < MaxRetries /\ attempts' = attempts + 1 /\ MaxRetries \in Nat
      BY <1>5, TurnsAssumption DEF DraftInvalid, TurnInv, HereInv
    <3> QED
      BY <3>1
  <2> QED
    BY <1>1, <1>2, <1>5, <2>1 DEF TurnInv, HereInv, DraftInvalid
<1>6. CASE Stop
  BY <1>1, <1>2, <1>6 DEF TurnInv, HereInv, Stop
<1>7. CASE SlotFree \/ LookAgain \/ HealthPasses \/ Prompt
  <2>1. at # "rest" /\ at' \in {"health", "slot", "catalog", "ask"} /\ UNCHANGED <<polls, attempts>>
    BY <1>7 DEF SlotFree, LookAgain, HealthPasses, Prompt, GoesTo
  <2> QED
    BY <1>1, <1>2, <2>1 DEF TurnInv, HereInv
<1> QED
  BY <1>3, <1>4, <1>5, <1>6, <1>7

\* The gate and the LLM leave a record before the turn is given up.
LEMMA GivesUp ==
    ASSUME TurnInv, HealthFails \/ (~ stopping /\ CallFails)
    PROVE  TurnInv'
<1>1. PICK ev \in {"unhealthy", "llm"} :
        /\ at # "rest" /\ Emit(Line(arena, ev, Unset)) /\ at' = ev
        /\ UNCHANGED <<polls, attempts, truth, arena>>
  BY DEF HealthFails, CallFails, GoesTo
<1>2. Unset \in PlanIds
  BY DEF PlanIds
<1>3. LogInv'
  BY <1>1, <1>2, SayMore
<1> QED
  BY <1>1, <1>3 DEF TurnInv, HereInv

\* The executor passes over a step of the plan.
LEMMA PassesOver ==
    ASSUME TurnInv, StepSkipped
    PROVE  TurnInv'
<1>1. Planned(plan) /\ truth[Len(truth)].id = plan.id /\ at = "execute" /\ plan.steps # <<>>
  BY DEF StepSkipped, TurnInv, HereInv
<1>2. LogInv'
  <2>1. plan.id \in PlanIds
    BY <1>1 DEF Planned
  <2> QED
    BY <1>1, <2>1, SayMore DEF StepSkipped
<1>3. plan'.id = plan.id /\ plan'.steps = Tail(plan.steps) /\ plan' = [id |-> plan'.id, steps |-> plan'.steps]
  <2>1. plan = [id |-> plan.id, steps |-> plan.steps]
    BY <1>1 DEF Planned
  <2>2. plan' = [plan EXCEPT !.steps = Tail(plan.steps)]
    BY DEF StepSkipped
  <2> DEFINE id == plan.id
             steps == plan.steps
             less == Tail(plan.steps)
  <2>3. plan = [id |-> id, steps |-> steps] /\ plan' = [plan EXCEPT !.steps = less]
    BY <2>1, <2>2
  <2> HIDE DEF id, steps, less
  <2>4. plan' = [id |-> id, steps |-> less]
    BY <2>3
  <2> QED
    BY <2>4 DEF id, less
<1>4. Planned(plan')
  <2>1. PICK S : plan.steps \in Seq(S)
    BY <1>1 DEF Planned
  <2>2. CanRun(plan.steps)
    BY <1>1 DEF Planned
  <2>3. CanRun(Tail(plan.steps)) /\ Tail(plan.steps) \in Seq(S)
    BY <1>1, <2>1, <2>2, TailRuns
  <2>4. CanRun(plan'.steps) /\ plan'.steps \in Seq(S)
    BY <1>3, <2>3
  <2> QED
    BY <1>1, <1>3, <2>4 DEF Planned
<1> QED
  BY <1>1, <1>2, <1>3, <1>4 DEF TurnInv, HereInv, StepSkipped

\* Every skip has a reason that ends a row.
LEMMA Skipped ==
    ASSUME TurnInv,
           \/ SkipPaused \/ SlotFull \/ SkipUnhealthy \/ SkipUnavailable \/ (stopping /\ CallFails)
           \/ \E d \in Drafts : DraftsExhausted(d)
    PROVE  TurnInv'
<1>1. PICK why \in Skips : Skip(why) /\ at # "rest"
  BY DEF SkipPaused, SlotFull, SkipUnhealthy, SkipUnavailable, CallFails, DraftsExhausted, Verdict, Skips
<1> QED
  BY <1>1, SkipEnds

\* A draft that parses becomes the plan, and the turn's row says so.
LEMMA Planning ==
    ASSUME TurnInv, NEW d \in Drafts, DraftValid(d)
    PROVE  TurnInv'
<1> DEFINE id == parseAttackPlan(d).id
           l == Line(arena, "planned", id)
           last == truth[Len(truth)]
           t == [last EXCEPT !.id = id]
<1>0. at = "ask" /\ parses(d) /\ plan' = parseAttackPlan(d) /\ at' = "execute"
      /\ UNCHANGED <<arena, polls, attempts>>
  BY DEF DraftValid
<1>1. last \in RowSet /\ last.ns = arena /\ last.outcome = "open" /\ last.why = "none" /\ truth \in Seq(RowSet)
      /\ Len(truth) \in DOMAIN truth /\ Len(truth) \in Nat /\ arena \in Arenas
  BY <1>0, LastRow
<1>2. id = (IF d.id = Unset THEN Len(truth) ELSE d.id) /\ plan'.id = id
      /\ plan'.steps = Normal(d.steps) /\ plan' = [id |-> plan'.id, steps |-> plan'.steps]
  BY <1>0 DEF parseAttackPlan
<1>3. id \in PlanIds
  BY <1>1, <1>2 DEF PlanIds
<1>4. Planned(plan')
  <2>1. \E S : Normal(d.steps) \in Seq(S) /\ CanRun(Normal(d.steps)) /\ Normal(d.steps) # <<>>
    BY <1>0, ParsedRuns
  <2> QED
    BY <1>2, <1>3, <2>1 DEF Planned
<1>5. Emit(l)
  BY <1>2 DEF DraftValid
<1>6. truth' = [truth EXCEPT ![Len(truth)] = t]
  BY <1>1, <1>2 DEF DraftValid
<1> HIDE DEF id
<1>7. l \in LineSet /\ l.ns = arena /\ l.ev = "planned" /\ l.id = id
  BY <1>1, <1>3 DEF Line, LineSet
<1>8. t \in RowSet /\ t.ns = arena /\ t.outcome = "open" /\ t.why = "none" /\ t.id = id
  BY <1>1, <1>3 DEF RowSet
<1>9. ASSUME NEW r \in RowSet, Like(r, last)
      PROVE  Like(Told(r, l), t)
  <2>1. Told(r, l) = [r EXCEPT !.id = id]
    BY <1>7 DEF Told, Skips
  <2>2. Told(r, l).outcome = r.outcome /\ Told(r, l).why = r.why /\ Told(r, l).id = id
    BY <2>1 DEF RowSet
  <2> QED
    BY <1>1, <1>8, <1>9, <2>2 DEF Like
<1> HIDE DEF l, t
<1>10. LogInv' /\ UnderWay(truth', arena) /\ truth'[Len(truth')] = t
  <2>1. l.ev # "started" /\ at # "rest"
    BY <1>0, <1>7
  <2> QED
    BY <1>5, <1>6, <1>7, <1>8, <1>9, <2>1, Say
<1>11. Planned(plan)' /\ (truth[Len(truth)].id = plan.id)'
  BY <1>2, <1>4, <1>8, <1>10
<1> QED
  BY <1>0, <1>10, <1>11 DEF TurnInv, HereInv

\* The plan was carried out.
LEMMA Completes ==
    ASSUME TurnInv, Completed
    PROVE  TurnInv'
<1> DEFINE id == plan.id
           l == Line(arena, "completed", id)
           last == truth[Len(truth)]
           t == [last EXCEPT !.outcome = "completed", !.why = "none"]
<1>0. at = "execute" /\ id \in PlanIds /\ last.id = id
  BY DEF Completed, TurnInv, HereInv, Planned
<1>1. last \in RowSet /\ last.ns = arena /\ last.outcome = "open" /\ last.why = "none" /\ truth \in Seq(RowSet)
      /\ Len(truth) \in DOMAIN truth /\ arena \in Arenas
  BY <1>0, LastRow
<1>2. Emit(l)
  BY DEF Completed
<1>3. truth' = [truth EXCEPT ![Len(truth)] = t]
  BY <1>1 DEF Completed, Close
<1> HIDE DEF id
<1>4. l \in LineSet /\ l.ns = arena /\ l.ev = "completed" /\ l.id = id
  BY <1>0, <1>1 DEF Line, LineSet
<1>5. t \in RowSet /\ t.ns = arena /\ t.outcome = "completed" /\ t.why = "none" /\ t.id = id
  BY <1>0, <1>1 DEF RowSet
<1>6. ASSUME NEW r \in RowSet, Like(r, last)
      PROVE  Like(Told(r, l), t)
  <2>1. Told(r, l) = [r EXCEPT !.outcome = "completed", !.id = IF @ = Unset THEN id ELSE @]
    BY <1>4 DEF Told, Skips
  <2>2. Told(r, l).outcome = "completed" /\ Told(r, l).why = r.why
    BY <2>1 DEF RowSet
  <2>3. Told(r, l).id = IF r.id = Unset THEN id ELSE r.id
    BY <2>1 DEF RowSet
  <2>4. r.why = "none" /\ r.id \in {id, Unset}
    BY <1>0, <1>1, <1>6 DEF Like
  <2> QED
    BY <1>5, <2>2, <2>3, <2>4 DEF Like
<1> HIDE DEF l, t
<1>7. LogInv'
  <2>1. l.ev # "started" /\ at # "rest" /\ (t.outcome = "open" => t.why = "none")
    BY <1>0, <1>4, <1>5
  <2> QED
    BY <1>2, <1>3, <1>4, <1>5, <1>6, <2>1, Say
<1> QED
  BY <1>7, RestHere DEF Completed, TurnInv

\* A turn begins: what was open in its namespace has no end.
LEMMA Begins ==
    ASSUME TurnInv, NEW ns \in Arenas, NEW paused \in BOOLEAN, Begin(ns, paused)
    PROVE  TurnInv'
<1> DEFINE l == Line(ns, "started", Unset)
<1>1. TrailInv /\ TruthOK(truth) /\ (~ lost => FoldOK(written, truth)) /\ truth \in Seq(RowSet)
  BY DEF TurnInv, LogInv, TruthOK, RowLists
<1>2. truth' = StartRow(truth, ns)
  <2>1. \A i \in DOMAIN truth : i \in InProgress(truth, ns) <=> truth[i].ns = ns /\ truth[i].outcome = "open"
    BY DEF InProgress
  <2>2. truth' = Append([i \in DOMAIN truth |->
                    IF truth[i].ns = ns /\ truth[i].outcome = "open" THEN [truth[i] EXCEPT !.outcome = "unfinished"] ELSE truth[i]],
                 Row(ns, Unset))
    BY DEF Begin, Row
  <2>3. [i \in DOMAIN truth |->
            IF truth[i].ns = ns /\ truth[i].outcome = "open" THEN [truth[i] EXCEPT !.outcome = "unfinished"] ELSE truth[i]]
         = [i \in DOMAIN truth |->
            IF i \in InProgress(truth, ns) THEN [truth[i] EXCEPT !.outcome = "unfinished"] ELSE truth[i]]
    BY <2>1
  <2> QED
    BY <2>2, <2>3 DEF StartRow
<1>3. l \in LineSet /\ l.ns = ns /\ l.ev = "started"
  BY DEF Line, LineSet, PlanIds
<1>4. Emit(l)
  BY DEF Begin
<1> HIDE DEF l
<1>5. TrailInv' /\ (~ lost' => ~ lost /\ written' = Append(written, l))
  BY <1>1, <1>3, <1>4, WrittenOn
<1>6. TruthOK(truth') /\ UnderWay(truth', ns)
  BY <1>1, <1>2, BeginTruth
<1>7. \A C : Good(C, truth) => Good(Fold(C, l), truth')
  BY <1>1, <1>2, <1>3, BeginGood
<1>8. ASSUME ~ lost'
      PROVE  FoldOK(written', truth')
  <2>1. written \in Seq(LineSet) /\ FoldOK(written, truth) /\ written' = Append(written, l)
    BY <1>1, <1>5, <1>8 DEF TrailInv
  <2> QED
    BY <1>3, <1>6, <1>7, <2>1, FoldOn
<1>9. LogInv'
  BY <1>5, <1>6, <1>8 DEF LogInv
<1>10. arena' = ns /\ at' \in {"paused", "slot"} /\ UNCHANGED <<polls, attempts>>
  BY DEF Begin
<1> QED
  BY <1>6, <1>9, <1>10 DEF TurnInv, HereInv

\* A new process reads the trail again.
LEMMA TakesOver ==
    ASSUME TurnInv, Replaced
    PROVE  TurnInv'
<1>1. TrailInv /\ UNCHANGED <<written, lost, fileErrors, truth, arena>> /\ Rest
  BY DEF TurnInv, LogInv, Replaced, Reopen
<1>2. FilesOK(old', cur', written)
  <2>1. FilesOK(old, cur, written) /\ FilesOK(NextOld, NextCur, written)
    BY <1>1, RenameOK DEF TrailInv
  <2>2. CASE UNCHANGED <<old, cur>>
    BY <2>1, <2>2
  <2>3. CASE DiesInEmit
    <3>1. old' = NextOld /\ (cur' = NextCur \/ cur' = CutShort(NextCur))
      BY <2>3 DEF DiesInEmit
    <3> QED
      BY <2>1, <3>1, CutOK
  <2> QED
    BY <2>2, <2>3 DEF Replaced, Reopen
<1>3. records' \in Seq(LineSet) /\ Len(records') <= MaxRecords /\ IsTail(records', written)
  <2>1. PICK a, b : a = old'.lines /\ b = cur'.lines
    OBVIOUS
  <2>2. a \in Seq(LineSet) /\ b \in Seq(LineSet) /\ written \in Seq(LineSet)
    BY <1>1, <1>2, <2>1 DEF FilesOK, GenOK, TrailInv
  <2> DEFINE read == a \o b
  <2>3. read \in Seq(LineSet) /\ IsTail(read, written)
    BY <1>2, <2>1, <2>2, Cats DEF FilesOK
  <2>4. records' = Newest(read)
    BY <2>1 DEF Replaced, Reopen
  <2> HIDE DEF read
  <2> QED
    BY <2>2, <2>3, <2>4, TailNewest, NewestIs
<1>5. TrailInv'
  BY <1>1, <1>2, <1>3 DEF TrailInv
<1>4. LogInv'
  BY <1>1, <1>5 DEF LogInv, TurnInv
<1> QED
  BY <1>1, <1>4, RestHere DEF TurnInv

LEMMA UStays == TurnInv /\ UNCHANGED uvars => TurnInv'
BY DEF TurnInv, LogInv, TrailInv, HereInv, uvars, turnVars, tvars

LEMMA UStep == TurnInv /\ [UNext]_uvars => TurnInv'
<1> SUFFICES ASSUME TurnInv, [UNext]_uvars PROVE TurnInv'
  OBVIOUS
<1>1. CASE SlotFree \/ SlotBusy \/ LookAgain \/ HealthPasses \/ Prompt \/ CatalogFails \/ Stop
           \/ \E d \in Drafts : DraftInvalid(d)
  BY <1>1, MovesOn
<1>2. CASE HealthFails \/ (~ stopping /\ CallFails)
  BY <1>2, GivesUp
<1>3. CASE SkipPaused \/ SlotFull \/ SkipUnhealthy \/ SkipUnavailable \/ (stopping /\ CallFails)
           \/ \E d \in Drafts : DraftsExhausted(d)
  BY <1>3, Skipped
<1>4. CASE StepSkipped
  BY <1>4, PassesOver
<1>5. CASE \E d \in Drafts : DraftValid(d)
  BY <1>5, Planning
<1>6. CASE Completed
  BY <1>6, Completes
<1>7. CASE \E ns \in Arenas, paused \in BOOLEAN : Begin(ns, paused)
  BY <1>7, Begins
<1>8. CASE Replaced
  BY <1>8, TakesOver
<1>9. CASE UNCHANGED uvars
  BY <1>9, UStays
<1> QED
  BY <1>1, <1>2, <1>3, <1>4, <1>5, <1>6, <1>7, <1>8, <1>9 DEF UNext, TurnStep

(***************************************************************************)
(* What the invariant says.                                                *)
(***************************************************************************)
LEMMA OneUnderWay ==
    ASSUME NEW T, TruthOK(T), NEW ns
    PROVE  Cardinality(InProgress(T, ns)) <= 1
<1>1. T \in Seq(RowSet) /\ OneOpen(T)
  BY DEF TruthOK, RowLists
<1>2. CASE InProgress(T, ns) = {}
  <2>1. Cardinality(InProgress(T, ns)) = 0
    BY <1>2, FS_EmptySet
  <2> QED
    BY <2>1
<1>3. ASSUME NEW k \in InProgress(T, ns)
      PROVE  Cardinality(InProgress(T, ns)) <= 1
  <2>1. InProgress(T, ns) = {k}
    BY <1>1, <1>3, OnlyOne DEF InProgress
  <2>2. Cardinality({k}) = 1
    BY FS_Singleton
  <2> QED
    BY <2>1, <2>2
<1> QED
  BY <1>2, <1>3

LEMMA TypesTold == TurnInv => UTypeOK
<1> SUFFICES ASSUME TurnInv PROVE UTypeOK
  OBVIOUS
<1>1. TrailInv /\ TruthOK(truth) /\ HereInv
  BY DEF TurnInv, LogInv
<1>2. \A ns \in Arenas : Cardinality(InProgress(truth, ns)) <= 1
  BY <1>1, OneUnderWay
<1>3. Len(records) <= MaxRecords /\ fileErrors \in 0 .. MaxFileErrors
  BY <1>1 DEF TrailInv
<1> QED
  BY <1>1, <1>2, <1>3 DEF UTypeOK, HereInv, UnderWay

LEMMA PlansTold == TurnInv => PlanRuns
<1> SUFFICES ASSUME TurnInv, at = "execute" PROVE PlanRuns
  BY DEF PlanRuns
<1>1. CanRun(plan.steps)
  BY DEF TurnInv, HereInv, Planned
<1>2. \E rank \in [OrdersOf(plan.steps) -> 1 .. Len(plan.steps)] :
            \A i \in DOMAIN plan.steps : \A d \in plan.steps[i].deps \cap DOMAIN rank :
                rank[d] < rank[plan.steps[i].order]
  BY <1>1, RunsInOrder
<1>3. /\ \A i, j \in DOMAIN plan.steps : plan.steps[i].order = plan.steps[j].order => i = j
      /\ \A i \in DOMAIN plan.steps :
            /\ plan.steps[i].dur > 0
            /\ MaxFaultDuration > 0 => plan.steps[i].dur <= MaxFaultDuration
  BY <1>1 DEF CanRun
<1> QED
  BY <1>2, <1>3 DEF PlanRuns

LEMMA TrailTold == TurnInv => TrailWhole
<1> SUFFICES ASSUME TurnInv PROVE TrailWhole
  OBVIOUS
<1> DEFINE read == old.lines \o cur.lines
<1>1. /\ old.lines \in Seq(LineSet) /\ cur.lines \in Seq(LineSet) /\ written \in Seq(LineSet)
      /\ IsTail(read, written)
      /\ (old.lines = <<>> /\ cur.lines = written) \/ FullGen(old)
  BY DEF TurnInv, LogInv, TrailInv, FilesOK, GenOK
<1>2. read \in Seq(LineSet)
  BY <1>1
<1>3. read = written \/ FullGen(old)
  <2>1. \A a, b \in Seq(LineSet) : a = <<>> => a \o b = b
    OBVIOUS
  <2>2. old.lines = <<>> /\ cur.lines = written => read = written
    BY <1>1, <2>1
  <2> QED
    BY <1>1, <2>2
<1> HIDE DEF read
<1>4. IsSuffix(read, written)
  BY <1>1, <1>2, TailIs
<1> QED
  BY <1>3, <1>4 DEF TrailWhole, FullGen, read

LEMMA FoldTold == TurnInv => FoldTrue
<1> SUFFICES ASSUME TurnInv, ~ lost PROVE FoldTrue
  BY DEF FoldTrue
<1>1. records \in Seq(LineSet) /\ IsTail(records, written) /\ FoldOK(written, truth) /\ TruthOK(truth)
  BY DEF TurnInv, LogInv, TrailInv
<1>2. Good(Cycles(records), truth)
  BY <1>1 DEF FoldOK
<1> DEFINE Told1(rows, took) ==
             /\ Len(took) - Len(rows) >= 0
             /\ \A i \in DOMAIN rows :
                  /\ rows[i].outcome = took[i + (Len(took) - Len(rows))].outcome
                  /\ rows[i].why = took[i + (Len(took) - Len(rows))].why
                  /\ rows[i].id \in {took[i + (Len(took) - Len(rows))].id, Unset}
<1>3. ASSUME NEW ns \in Arenas
      PROVE  Told1(RowsOf(Cycles(records), ns), RowsOf(truth, ns))
  <2> DEFINE rows == RowsOf(Cycles(records), ns)
             took == RowsOf(truth, ns)
  <2>1. Cycles(records) \in Seq(RowSet) /\ truth \in Seq(RowSet)
    BY <1>1, <1>2 DEF Good, TruthOK, RowLists
  <2>2. Len(rows) \in Nat /\ Len(took) \in Nat
    <3>1. rows \in Seq(RowSet) /\ took \in Seq(RowSet)
      BY <2>1, RowsOwn
    <3> HIDE DEF rows, took
    <3> QED
      BY <3>1
  <2>3. Aligned(rows, took)
    BY <1>2 DEF Good
  <2> HIDE DEF rows, took
  <2>4. Told1(rows, took)
    BY <2>2, <2>3 DEF Aligned, Like
  <2> QED
    BY <2>4 DEF rows, took
<1> QED
  BY <1>3 DEF FoldTrue

\* A turn hands the executor only a plan that can be run as it stands
\* (parseAttackPlan); what is read from the file is the end of the lines left
\* whole in it, a generation of them but for two for each write cut short in it
\* (FileAuditor.Emit); and as long as no line is lost the rows folded from the
\* log of cycles (Cycles) are the turns the loop took: for any number of
\* namespaces, drafts and turns, wherever the process dies and whichever calls
\* of the file system fail.
THEOREM TurnsAlwaysTold == USpec => []TurnsTold
<1>1. TurnInv => TurnsTold
  BY TypesTold, PlansTold, TrailTold, FoldTold DEF TurnsTold
<1> QED
  BY <1>1, UBegins, UStep, PTL DEF USpec

USE InstallAssumption, OfferedAssumption, EditsAssumption

(***************************************************************************)
(* The settings and the clock.                                             *)
(***************************************************************************)
\* The clock is capped at an interval no setting exceeds.
LEMMA Longest == LongestInterval \in Nat /\ \A s \in Offered : s.interval <= LongestInterval
<1> DEFINE Every == {s.interval : s \in Offered}
<1>1. \E n \in Every : \A s \in Offered : s.interval <= n
  BY LongestAssumption
<1>2. LongestInterval \in Every /\ \A s \in Offered : s.interval <= LongestInterval
  BY <1>1 DEF LongestInterval
<1> QED
  BY <1>2

LEMMA NextCycleTyped ==
  ASSUME cycle \in 0 .. CycleMod - 1, NextCycle
  PROVE  cycle' \in 0 .. CycleMod - 1
  BY CycleAssumption DEF NextCycle

(***************************************************************************)
(* The loop by itself.                                                     *)
(***************************************************************************)
\* What an armed timer is worth: while the loop waits, the time since the cycle
\* started and what is left on the timer make up the interval it works with.
TimerCovers == lpc = "waiting" => spent + left >= synced.interval

\* Whenever the loop comes to a new cycle, the interval it worked with is over,
\* unless it had read settings that let nothing run, as it has while it is off.
StartsLate == lpc = "top" /\ Runnable(synced) => spent >= synced.interval
OffRead == lpc = "off" => ~ Runnable(synced)

LoopInv == ATypeOK /\ WakeNotLost /\ TimerCovers /\ StartsLate /\ OffRead

LEMMA LoopInvInit == AInit => LoopInv
<1> SUFFICES ASSUME AInit PROVE LoopInv
  OBVIOUS
<1>1. cycle \in 0 .. CycleMod - 1
  BY CycleAssumption DEF AInit
<1>2. spent \in 0 .. LongestInterval /\ left \in 0 .. LongestInterval /\ edits \in 0 .. MaxEdits
  BY Longest DEF AInit
<1>3. ATypeOK
  BY <1>1, <1>2 DEF AInit, ATypeOK
<1> QED
  <2>1. spent >= Install.interval
    BY Longest, InstallAssumption DEF AInit
  <2> QED
    BY <1>3, <2>1 DEF AInit, LoopInv, WakeNotLost, TimerCovers, StartsLate, OffRead

LEMMA StoreKeeps ==
  ASSUME LoopInv, NEW s \in Offered, Store(s)
  PROVE  LoopInv'
  BY DEF LoopInv, ATypeOK, WakeNotLost, TimerCovers, StartsLate, OffRead, Store, clockVars, runVars

LEMMA WakeKeeps ==
  ASSUME LoopInv, Wake
  PROVE  LoopInv'
  BY DEF LoopInv, ATypeOK, WakeNotLost, TimerCovers, StartsLate, OffRead, Wake, clockVars, runVars

LEMMA RunKeeps ==
  ASSUME LoopInv, RunStep
  PROVE  LoopInv'
<1> USE Longest
<1>1. CASE Top
  BY <1>1 DEF LoopInv, ATypeOK, WakeNotLost, TimerCovers, StartsLate, OffRead, Top, controlVars
<1>2. CASE Woken
  <2>1. cycle' \in 0 .. CycleMod - 1
    BY <1>2, NextCycleTyped DEF LoopInv, ATypeOK, Woken
  <2> QED
    BY <1>2, <2>1 DEF LoopInv, ATypeOK, WakeNotLost, TimerCovers, StartsLate, OffRead, Woken, clockVars
<1>3. CASE TurnEnds
  BY <1>3 DEF LoopInv, ATypeOK, WakeNotLost, TimerCovers, StartsLate, OffRead, TurnEnds, controlVars, clockVars
<1>4. CASE CycleEnds
  <2>1. synced.interval \in Nat /\ synced.interval <= LongestInterval
    BY DEF LoopInv, ATypeOK
  <2> QED
    BY <1>4, <2>1 DEF LoopInv, ATypeOK, WakeNotLost, TimerCovers, StartsLate, OffRead, CycleEnds, controlVars
<1>5. CASE TimerFires
  <2>1. cycle' \in 0 .. CycleMod - 1
    BY <1>5, NextCycleTyped DEF LoopInv, ATypeOK, TimerFires
  <2> QED
    BY <1>5, <2>1 DEF LoopInv, ATypeOK, WakeNotLost, TimerCovers, StartsLate, OffRead, TimerFires, controlVars, clockVars
<1>6. CASE ChangedWhileWaiting
  <2>1. cycle' \in 0 .. CycleMod - 1
    BY <1>6, NextCycleTyped DEF LoopInv, ATypeOK, ChangedWhileWaiting
  <2>2. settings.interval \in Nat /\ settings.interval <= LongestInterval
    BY DEF LoopInv, ATypeOK
  <2>3. left' \in 0 .. LongestInterval
    BY <1>6, <2>2 DEF LoopInv, ATypeOK, ChangedWhileWaiting
  <2>4. ATypeOK'
    BY <1>6, <2>1, <2>3 DEF LoopInv, ATypeOK, ChangedWhileWaiting
  <2>5. TimerCovers' /\ WakeNotLost' /\ StartsLate' /\ OffRead'
    BY <1>6, <2>2 DEF LoopInv, ATypeOK, WakeNotLost, TimerCovers, StartsLate, OffRead, ChangedWhileWaiting
  <2> QED
    BY <2>4, <2>5 DEF LoopInv
<1>7. ASSUME NEW ns \in ToSet(turns), TurnSkipped(ns) \/ TurnStarts(ns)
      PROVE  LoopInv'
  BY <1>7 DEF LoopInv, ATypeOK, WakeNotLost, TimerCovers, StartsLate, OffRead, TurnSkipped, TurnStarts, TakeTurn,
              controlVars, clockVars
<1> QED
  BY <1>1, <1>2, <1>3, <1>4, <1>5, <1>6, <1>7 DEF RunStep

LEMMA ClockKeeps ==
  ASSUME LoopInv, APasses
  PROVE  LoopInv'
<1>1. synced.interval \in Nat /\ synced.interval <= LongestInterval
  BY Longest DEF LoopInv, ATypeOK
<1> QED
  BY <1>1, Longest DEF LoopInv, ATypeOK, WakeNotLost, TimerCovers, StartsLate, OffRead, APasses, Later, controlVars, runVars

LEMMA LoopInvStep == LoopInv /\ [ANext]_avars => LoopInv'
<1> SUFFICES ASSUME LoopInv, [ANext]_avars PROVE LoopInv'
  OBVIOUS
<1>1. CASE UNCHANGED avars
  BY <1>1 DEF LoopInv, ATypeOK, WakeNotLost, TimerCovers, StartsLate, OffRead, avars, controlVars, clockVars, runVars
<1>2. CASE ANext
  BY <1>2, StoreKeeps, WakeKeeps, RunKeeps, ClockKeeps DEF ANext, SetStep
<1> QED
  BY <1>1, <1>2

\* The type invariant of the loop: its copy of the settings is always one on offer,
\* and its clock and timer stay within the longest interval.
THEOREM LoopTypes == ASpec => []ATypeOK
<1>1. LoopInv => ATypeOK
  BY DEF LoopInv
<1> QED
  BY <1>1, LoopInvInit, LoopInvStep, PTL DEF ASpec

\* No call of Control.Set is slept through: a loop that is off while the settings
\* let it run has a token, or a call of Set about to offer one, whatever the order
\* of the two halves of Set and the loop's own reading.
THEOREM WakeNeverLost == ASpec => []WakeNotLost
<1>1. LoopInv => WakeNotLost
  BY DEF LoopInv
<1> QED
  BY <1>1, LoopInvInit, LoopInvStep, PTL DEF ASpec

\* No sequence of edits brings a cycle closer to the one before (Loop.Run) than
\* the interval of the settings the loop last read, if these let it run: true of
\* any settings on offer, any number of edits, and turns of any length.
THEOREM IntervalAlwaysKept == ASpec => IntervalKept
<1>1. LoopInv /\ [ANext]_avars =>
        [lpc = "top" /\ lpc' = "turns" /\ Runnable(synced) => spent >= synced.interval]_avars
  BY DEF LoopInv, StartsLate
<1> QED
  BY <1>1, LoopInvInit, LoopInvStep, PTL DEF ASpec, IntervalKept

(***************************************************************************)
(* The admin requests: types.                                              *)
(***************************************************************************)
USE RestartsAssumption

\* Whatever an operator asks for, the settings a request drafts are on offer.
LEMMA EditedOffered ==
  ASSUME NEW what \in Changes, NEW given \in Offered, NEW s \in Edited(what, given)
  PROVE  s \in Offered /\ (what = "reset" => s = Install)
<1>1. CASE what = "configure"
  BY <1>1 DEF Edited
<1>2. CASE what = "reset"
  BY <1>2 DEF Edited
<1>3. CASE what = "pause"
  <2>1. PICK t \in PauseTargets : s = [given EXCEPT !.paused = @ \cup {t}]
    BY <1>3 DEF Edited, PauseOrResume
  <2>2. given.paused \cup {t} \in SUBSET PauseTargets
    BY PausesAssumption
  <2> QED
    BY <1>3, <2>1, <2>2, PausesAssumption
<1>4. CASE what = "resume"
  <2>1. PICK t \in PauseTargets : s = [given EXCEPT !.paused = IF t = PauseAll THEN {} ELSE @ \ {t}]
    BY <1>4 DEF Edited, PauseOrResume
  <2>2. (IF t = PauseAll THEN {} ELSE given.paused \ {t}) \in SUBSET PauseTargets
    BY PausesAssumption
  <2> QED
    BY <1>4, <2>1, <2>2, PausesAssumption
<1>5. CASE what = "halt"
  <2>1. s = [given EXCEPT !.paused = {PauseAll}]
    BY <1>5 DEF Edited
  <2>2. {PauseAll} \in SUBSET PauseTargets
    BY DEF PauseTargets
  <2> QED
    BY <1>5, <2>1, <2>2, PausesAssumption
<1> QED
  BY <1>1, <1>2, <1>3, <1>4, <1>5 DEF Changes

\* The part of the type invariant that is the requests' own.
ReqTypeOK ==
    /\ req \in [Admins -> {"idle", "keeping", "setting", "waking", "listing", "clearing"}]
    /\ action \in [Admins -> Actions]
    /\ draft \in [Admins -> Offered]
    /\ kept \in {NotKept} \cup {{s} : s \in Offered}
    /\ unsure \in BOOLEAN
    /\ active \in SUBSET Faults
    /\ listed \in [Admins -> SUBSET Faults]
    /\ restarts \in 0 .. MaxRestarts

AdminInv == LoopInv /\ ReqTypeOK

LEMMA AdminInvInit == AdminInit => AdminInv
<1> SUFFICES ASSUME AdminInit PROVE AdminInv
  OBVIOUS
<1>1. LoopInv
  BY LoopInvInit DEF AdminInit
<1>2. restarts \in 0 .. MaxRestarts
  BY DEF AdminInit
<1>3. ReqTypeOK
  BY <1>2 DEF AdminInit, ReqTypeOK, Actions
<1> QED
  BY <1>1, <1>3 DEF AdminInv

LEMMA StillLoopInv ==
  ASSUME LoopInv, UNCHANGED avars
  PROVE  LoopInv'
  BY DEF LoopInv, ATypeOK, WakeNotLost, TimerCovers, StartsLate, OffRead, avars, controlVars, clockVars, runVars

LEMMA RequestKeeps ==
  ASSUME AdminInv, NEW a \in Admins, RequestStep(a)
  PROVE  AdminInv'
<1> USE DEF AdminInv
<1>1. CASE Get(a)
  <2>1. PICK what \in Changes :
          /\ action' = [action EXCEPT ![a] = what]
          /\ \E s \in Edited(what, settings) : draft' = [draft EXCEPT ![a] = s]
    BY <1>1 DEF Get
  <2>2. PICK s \in Edited(what, settings) : draft' = [draft EXCEPT ![a] = s]
    BY <2>1
  <2>3. s \in Offered
    BY EditedOffered DEF LoopInv, ATypeOK
  <2>4. ReqTypeOK'
    BY <1>1, <2>1, <2>2, <2>3 DEF Get, ReqTypeOK, Actions
  <2> QED
    BY <1>1, <2>4, StillLoopInv DEF Get
<1>2. CASE ClearAll(a)
  <2>1. ReqTypeOK'
    BY <1>2 DEF ClearAll, ReqTypeOK, Actions
  <2> QED
    BY <1>2, <2>1, StillLoopInv DEF ClearAll
<1>3. KeptBy(a) \in {NotKept} \cup {{s} : s \in Offered}
  BY DEF KeptBy, ReqTypeOK
<1>4. CASE Keep(a)
  <2>1. ReqTypeOK'
    BY <1>3, <1>4 DEF Keep, Goes, ReqTypeOK
  <2> QED
    BY <1>4, <2>1, StillLoopInv DEF Keep
<1>5. CASE KeepFails(a)
  <2>1. ReqTypeOK'
    BY <1>3, <1>5 DEF KeepFails, Goes, Returns, ReqTypeOK, Actions
  <2> QED
    BY <1>5, <2>1, StillLoopInv DEF KeepFails
<1>6. CASE PutInForce(a)
  <2>1. draft[a] \in Offered
    BY DEF ReqTypeOK
  <2>2. LoopInv'
    BY <1>6, <2>1, StoreKeeps DEF PutInForce
  <2>3. ReqTypeOK'
    BY <1>6 DEF PutInForce, Goes, ReqTypeOK
  <2> QED
    BY <2>2, <2>3
<1>7. CASE Answer(a)
  <2>1. LoopInv'
    BY <1>7, WakeKeeps DEF Answer
  <2>2. ReqTypeOK'
    BY <1>7 DEF Answer, Goes, Returns, ReqTypeOK, Actions
  <2> QED
    BY <2>1, <2>2
<1>8. CASE ListActive(a)
  <2>1. \A found \in Listing(a) : found \in SUBSET Faults
    BY DEF Listing, ReqTypeOK
  <2>2. ReqTypeOK'
    BY <1>8, <2>1 DEF ListActive, Goes, ReqTypeOK
  <2> QED
    BY <1>8, <2>2, StillLoopInv DEF ListActive
<1>9. CASE ClearingDone(a)
  <2>1. ReqTypeOK'
    BY <1>9 DEF ClearingDone, Returns, ReqTypeOK, Actions
  <2> QED
    BY <1>9, <2>1, StillLoopInv DEF ClearingDone
<1>10. ASSUME NEW f \in Faults, ClearOne(a, f) PROVE AdminInv'
  <2>1. ReqTypeOK'
    BY <1>10 DEF ClearOne, ReqTypeOK
  <2> QED
    BY <1>10, <2>1, StillLoopInv DEF ClearOne
<1> QED
  BY <1>1, <1>2, <1>4, <1>5, <1>6, <1>7, <1>8, <1>9, <1>10 DEF RequestStep

LEMMA RestartKeeps ==
  ASSUME AdminInv, Restart
  PROVE  AdminInv'
<1>1. settings' \in Offered
  BY DEF AdminInv, ReqTypeOK, NotKept, Restart
<1>2. changed' \in BOOLEAN /\ unsure' \in BOOLEAN
  BY DEF AdminInv, ReqTypeOK, Restart
<1>3. cycle' \in 0 .. CycleMod - 1 /\ spent' \in 0 .. LongestInterval /\ left' \in 0 .. LongestInterval
  BY CycleAssumption, Longest DEF Restart
<1>4. LoopInv'
  <2>1. spent' >= synced'.interval
    BY Longest, InstallAssumption DEF Restart
  <2> QED
    BY <1>1, <1>2, <1>3, <2>1 DEF AdminInv, LoopInv, ATypeOK, WakeNotLost, TimerCovers, StartsLate, OffRead, Restart
<1>5. restarts' \in 0 .. MaxRestarts
  BY DEF AdminInv, ReqTypeOK, Restart
<1>6. ReqTypeOK'
  BY <1>2, <1>5 DEF AdminInv, ReqTypeOK, Restart, Actions
<1> QED
  BY <1>4, <1>6 DEF AdminInv

LEMMA AdminInvStep == AdminInv /\ [AdminNext]_advars => AdminInv'
<1> SUFFICES ASSUME AdminInv, [AdminNext]_advars PROVE AdminInv'
  OBVIOUS
<1>1. CASE UNCHANGED advars
  <2>1. ReqTypeOK'
    BY <1>1 DEF AdminInv, ReqTypeOK, advars, adminVars, reqVars
  <2> QED
    BY <1>1, <2>1, StillLoopInv DEF AdminInv, advars
<1>2. ASSUME NEW f \in Faults, LoopApply(f) \/ Reap(f) PROVE AdminInv'
  <2>1. ReqTypeOK'
    BY <1>2 DEF AdminInv, ReqTypeOK, LoopApply, Reap, reqVars
  <2> QED
    BY <1>2, <2>1, StillLoopInv DEF AdminInv, LoopApply, Reap
<1>3. CASE LoopStep
  <2>1. ReqTypeOK'
    BY <1>3 DEF AdminInv, ReqTypeOK, LoopStep, adminVars, reqVars
  <2> QED
    BY <1>3, <2>1, RunKeeps, ClockKeeps DEF AdminInv, LoopStep
<1> QED
  BY <1>1, <1>2, <1>3, RequestKeeps, RestartKeeps DEF AdminNext

LEMMA AdminInvGives == AdminInv => AdminTypeOK /\ WakeNotLost
  BY DEF AdminInv, LoopInv, ReqTypeOK, AdminTypeOK

\* Whatever requests run at once, the settings in force, kept and drafted are of
\* those on offer, though a halt is not validated.
THEOREM AdminTypes == AdminSpec => []AdminTypeOK
  BY AdminInvInit, AdminInvStep, AdminInvGives, PTL DEF AdminSpec

\* No admin request is slept through, and no restart loses the wake-up that goes
\* with kept settings.
THEOREM AdminWakeNeverLost == AdminSpec => []WakeNotLost
  BY AdminInvInit, AdminInvStep, AdminInvGives, PTL DEF AdminSpec

(***************************************************************************)
(* The admin requests: what is kept is what is in force.                   *)
(***************************************************************************)
\* A change that has read the settings and not yet put its own in force.
Changing(a) == req[a] \in {"keeping", "setting"}

\* No two changes overlap from the read to the set.  Nothing in applyAutonomy sees
\* to it, and KeptInForce fails without it.
OneChange == \A a, b \in Admins : Changing(a) /\ Changing(b) => a = b

Agreed == kept = {settings} \/ (kept = NotKept /\ settings = Install)

\* KeptInForce strengthened: a change that has kept its settings, and not yet put
\* them in force, is the only reason for a disagreement, and ends it.
KeepInv ==
    /\ \A a \in Admins : Changing(a) /\ action[a] = "reset" => draft[a] = Install
    /\ \A a \in Admins : req[a] = "setting" /\ ~ unsure => kept = KeptBy(a)
    /\ (\A a \in Admins : req[a] # "setting") /\ ~ unsure => Agreed

LEMMA KeepInvInit == AdminInit => KeepInv
  BY DEF AdminInit, AInit, KeepInv, Changing, Agreed

\* A step that leaves the settings, what is kept and every change alone.
LEMMA ChangesStand ==
  ASSUME KeepInv, UNCHANGED <<settings, kept, unsure, action, draft>>,
         \A b \in Admins : (Changing(b)' <=> Changing(b)) /\ (req'[b] = "setting" <=> req[b] = "setting")
  PROVE  KeepInv'
  BY DEF KeepInv, Changing, Agreed, KeptBy

LEMMA RequestKeepsAgreed ==
  ASSUME ReqTypeOK, KeepInv, OneChange, settings \in Offered, NEW a \in Admins, RequestStep(a)
  PROVE  KeepInv'
<1> USE DEF Changing
<1>1. CASE Get(a)
  <2>1. PICK what \in Changes :
          /\ action' = [action EXCEPT ![a] = what]
          /\ \E s \in Edited(what, settings) : draft' = [draft EXCEPT ![a] = s]
    BY <1>1 DEF Get
  <2>2. PICK s \in Edited(what, settings) : draft' = [draft EXCEPT ![a] = s]
    BY <2>1
  <2>3. what = "reset" => s = Install
    BY EditedOffered
  <2>4. /\ \A b \in Admins \ {a} : req'[b] = req[b] /\ action'[b] = action[b] /\ draft'[b] = draft[b]
        /\ req[a] = "idle" /\ req'[a] = "keeping" /\ action'[a] = what /\ draft'[a] = s
        /\ UNCHANGED <<settings, kept, unsure>>
    BY <1>1, <2>1, <2>2 DEF Get, ReqTypeOK, avars, controlVars
  <2> QED
    BY <2>3, <2>4 DEF KeepInv, Agreed, KeptBy
<1>2. CASE ClearAll(a)
  <2>1. /\ \A b \in Admins \ {a} : req'[b] = req[b] /\ action'[b] = action[b]
        /\ req[a] = "idle" /\ req'[a] = "listing"
        /\ UNCHANGED <<settings, kept, unsure, draft>>
    BY <1>2 DEF ClearAll, ReqTypeOK, avars, controlVars
  <2> QED
    BY <2>1 DEF KeepInv, Agreed, KeptBy
<1>3. CASE Keep(a)
  <2>1. /\ \A b \in Admins \ {a} : req'[b] = req[b]
        /\ req[a] = "keeping" /\ req'[a] = "setting" /\ kept' = KeptBy(a)
        /\ UNCHANGED <<settings, action, draft>>
    BY <1>3 DEF Keep, Goes, ReqTypeOK, avars, controlVars
  <2>2. \A b \in Admins \ {a} : req[b] # "setting"
    BY <2>1 DEF OneChange
  <2> QED
    BY <2>1, <2>2 DEF KeepInv, KeptBy
<1>4. CASE KeepFails(a)
  <2>1. unsure' = TRUE
    BY <1>4 DEF KeepFails
  <2>2. \A b \in Admins \ {a} : req'[b] = req[b] /\ action'[b] = action[b] /\ draft'[b] = draft[b]
    BY <1>4 DEF KeepFails, Goes, Returns, ReqTypeOK
  <2>3. req[a] = "keeping" /\ (UNCHANGED <<action, draft>> \/ req'[a] = "idle")
    BY <1>4 DEF KeepFails, Goes, Returns, ReqTypeOK
  <2> QED
    BY <2>1, <2>2, <2>3 DEF KeepInv
<1>5. CASE PutInForce(a)
  <2>1. /\ \A b \in Admins \ {a} : req'[b] = req[b]
        /\ req[a] = "setting" /\ req'[a] = "waking" /\ settings' = draft[a]
        /\ UNCHANGED <<kept, unsure, action, draft>>
    BY <1>5 DEF PutInForce, Goes, Store, ReqTypeOK
  <2>2. \A b \in Admins \ {a} : req[b] # "setting"
    BY <2>1 DEF OneChange
  <2>3. ~ unsure => kept = KeptBy(a) /\ (action[a] = "reset" => draft[a] = Install)
    BY <2>1 DEF KeepInv
  <2>4. ~ unsure => Agreed'
    BY <2>1, <2>3 DEF Agreed, KeptBy
  <2> QED
    BY <2>1, <2>2, <2>4 DEF KeepInv
<1>6. CASE Answer(a) \/ ClearingDone(a)
  <2>1. /\ \A b \in Admins \ {a} : req'[b] = req[b] /\ action'[b] = action[b] /\ draft'[b] = draft[b]
        /\ req[a] \in {"waking", "clearing"} /\ req'[a] \in {"idle", "listing"}
        /\ UNCHANGED <<settings, kept, unsure>>
    BY <1>6 DEF Answer, ClearingDone, Goes, Returns, Wake, ReqTypeOK, avars, controlVars
  <2> QED
    BY <2>1 DEF KeepInv, Agreed, KeptBy
<1>7. CASE ListActive(a)
  <2>1. /\ \A b \in Admins \ {a} : req'[b] = req[b]
        /\ req[a] = "listing" /\ req'[a] = "clearing"
        /\ UNCHANGED <<settings, kept, unsure, action, draft>>
    BY <1>7 DEF ListActive, Goes, ReqTypeOK, avars, controlVars
  <2> QED
    BY <2>1, ChangesStand
<1>8. ASSUME NEW f \in Faults, ClearOne(a, f) PROVE KeepInv'
  BY <1>8, ChangesStand DEF ClearOne, avars, controlVars
<1> QED
  BY <1>1, <1>2, <1>3, <1>4, <1>5, <1>6, <1>7, <1>8 DEF RequestStep

\* A new process reads what is kept; where it cannot, or there is nothing, it
\* begins with the install's settings.
LEMMA RestartAgrees ==
  ASSUME ReqTypeOK, KeepInv, Restart
  PROVE  KeepInv'
<1>1. \A a \in Admins : req'[a] = "idle"
  BY DEF Restart
<1>2. ~ unsure' => Agreed'
  BY DEF Restart, ReqTypeOK, NotKept, Agreed
<1> QED
  BY <1>1, <1>2 DEF KeepInv, Changing

LEMMA RunLeavesSettings ==
  ASSUME RunStep \/ APasses
  PROVE  settings' = settings
  BY DEF RunStep, APasses, Top, Woken, TurnEnds, CycleEnds, TimerFires, ChangedWhileWaiting,
         TurnSkipped, TurnStarts, TakeTurn, controlVars

LEMMA KeepInvStep == AdminInv /\ KeepInv /\ OneChange /\ [AdminNext]_advars => KeepInv'
<1> SUFFICES ASSUME AdminInv, KeepInv, OneChange, [AdminNext]_advars PROVE KeepInv'
  OBVIOUS
<1>1. ReqTypeOK /\ settings \in Offered
  BY DEF AdminInv, LoopInv, ATypeOK
<1>2. CASE UNCHANGED advars
  BY <1>2, ChangesStand DEF Changing, advars, avars, controlVars, adminVars, reqVars
<1>3. ASSUME NEW f \in Faults, LoopApply(f) \/ Reap(f) PROVE KeepInv'
  BY <1>3, ChangesStand DEF Changing, LoopApply, Reap, reqVars, avars, controlVars
<1>4. CASE LoopStep
  BY <1>4, ChangesStand, RunLeavesSettings DEF Changing, LoopStep, adminVars, reqVars
<1> QED
  BY <1>1, <1>2, <1>3, <1>4, RequestKeepsAgreed, RestartAgrees DEF AdminNext

LEMMA KeepInvGives == AdminInv /\ KeepInv => SettingsSound
  BY AdminInvGives DEF KeepInv, Agreed, SettingsSound, KeptInForce

\* Settings cannot vanish: between requests, and while no save has failed, a restart
\* brings back what is in force, for any number of requests and restarts, a halt that
\* could not be kept and a process that dies between the two halves of a change
\* included, as long as no two changes overlap.
THEOREM SettingsAlwaysSound == AdminSpec /\ []OneChange => []SettingsSound
  BY AdminInvInit, AdminInvStep, KeepInvInit, KeepInvStep, KeepInvGives, PTL DEF AdminSpec
=============================================================================
