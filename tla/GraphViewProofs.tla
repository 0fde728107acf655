--------------------------- MODULE GraphViewProofs ---------------------------
(***************************************************************************)
(* Proofs about GraphView: the commit graph is drawn as the history is,    *)
(* for any history, refs, filters and folds, and any number of commits,    *)
(* rows, keys and loads.                                                   *)
(*                                                                         *)
(* The builder, the segments and the projection are pure functions of what *)
(* they are given.  Each is first described by what it returns: a walk     *)
(* lists the least closed set of commits, children first; the lanes below  *)
(* a row are what the rows above it await, each commit once; two rows are  *)
(* in one segment if and only if their first-parent chains meet off the    *)
(* trunk; a projection shows every row once, or counts it in the           *)
(* placeholder of its segment.  Of the view the inductive invariant        *)
(* (ViewInv) says that the rows are a build of an earlier revision of the  *)
(* history, that the folded rows are the projection of the rows unless     *)
(* nothing is folded, and that the selection and the search marks are of   *)
(* the list on the screen.                                                 *)
(***************************************************************************)
EXTENDS GraphView, SequenceTheorems, FiniteSetTheorems, WellFoundedInduction, TLAPS

-----------------------------------------------------------------------------
(* Numbers and functions.                                                  *)

(* A set of numbers has a least one.                                       *)
LEMMA LeastNumber ==
  ASSUME NEW T, T \subseteq Nat, T # {}
  PROVE  \E n \in T : \A m \in T : n <= m
<1>1. PICK n \in T : \A m \in T : ~ (<<m, n>> \in OpToRel(<, Nat))
  BY NatLessThanWellFounded, WFMin
<1>2. \A m \in T : ~(m < n)
  BY <1>1 DEF OpToRel
<1> QED BY <1>2

(* What holds of 0 and of a number if of the one before holds up to N.     *)
LEMMA Upward ==
  ASSUME NEW N \in Nat, NEW G, 0 \in G, \A n \in 1..N : n - 1 \in G => n \in G
  PROVE  \A n \in 0..N : n \in G
<1>1. PICK T : T = {n \in 0..N : n \notin G}
  OBVIOUS
<1>2. SUFFICES ASSUME T # {} PROVE FALSE
  BY <1>1
<1>3. T \subseteq Nat
  BY <1>1
<1>4. PICK n \in T : \A m \in T : n <= m
  BY <1>2, <1>3, LeastNumber
<1>5. n \in 0..N /\ n # 0
  BY <1>1
<1>6. n - 1 \in 0..N /\ n \in 1..N /\ ~(n <= n - 1)
  BY <1>5
<1>7. n - 1 \in G
  BY <1>1, <1>4, <1>6
<1> QED BY <1>1, <1>6, <1>7

(* Functions that go through the numbers up to N, one after the other.     *)
Recurs(f, N, base, op) == f = [n \in 0..N |-> IF n = 0 THEN base ELSE op[<<n, f[n - 1]>>]]

LEMMA RecursExist ==
  ASSUME NEW N, N \in Nat, NEW V, NEW base, base \in V, NEW op, op \in [(1..N) \X V -> V]
  PROVE  \E f \in [0..N -> V] : Recurs(f, N, base, op)
<1>1. PICK G : G = {m \in Nat : m <= N => \E f \in [0..m -> V] : Recurs(f, m, base, op)}
  OBVIOUS
<1>2. 0 \in G
  <2>1. PICK f : f = [n \in 0..0 |-> base]
    OBVIOUS
  <2>2. f \in [0..0 -> V] /\ Recurs(f, 0, base, op)
    BY <2>1 DEF Recurs
  <2> QED BY <1>1, <2>2
<1>3. ASSUME NEW m \in G PROVE m + 1 \in G
  <2>1. m \in Nat
    BY <1>1
  <2>2. SUFFICES ASSUME m + 1 <= N PROVE \E f \in [0..m + 1 -> V] : Recurs(f, m + 1, base, op)
    BY <1>1, <2>1
  <2>3. PICK f \in [0..m -> V] : Recurs(f, m, base, op)
    BY <1>1, <2>1, <2>2
  <2>4. PICK last : last = op[<<m + 1, f[m]>>]
    OBVIOUS
  <2>5. last \in V
    <3>1. f[m] \in V /\ m + 1 \in 1..N
      BY <2>1, <2>2
    <3> QED BY <2>4, <3>1
  <2>6. PICK h : h = [n \in 0..m + 1 |-> IF n = m + 1 THEN last ELSE f[n]]
    OBVIOUS
  <2>7. (\A n \in 0..m : h[n] = f[n]) /\ h[m + 1] = last
    BY <2>1, <2>6
  <2>8. ASSUME NEW n \in 0..m + 1
        PROVE  h[n] = IF n = 0 THEN base ELSE op[<<n, h[n - 1]>>]
    <3>1. CASE n = m + 1
      <4>1. h[n - 1] = f[m] /\ n # 0
        BY <2>1, <2>7, <3>1
      <4> QED BY <2>4, <2>7, <3>1, <4>1
    <3>2. CASE n \in 0..m
      <4>1. n # 0 => h[n - 1] = f[n - 1]
        BY <2>1, <2>7, <3>2
      <4>2. f[n] = IF n = 0 THEN base ELSE op[<<n, f[n - 1]>>]
        BY <2>3, <3>2 DEF Recurs
      <4> QED BY <2>7, <3>2, <4>1, <4>2
    <3> QED BY <2>1, <3>1, <3>2
  <2>9. Recurs(h, m + 1, base, op)
    BY <2>6, <2>8 DEF Recurs
  <2>10. \A n \in 0..m + 1 : h[n] \in V
    <3>1. \A n \in 0..m + 1 : n = m + 1 \/ n \in 0..m
      BY <2>1
    <3> QED BY <2>3, <2>5, <2>7, <3>1
  <2>11. h \in [0..m + 1 -> V]
    BY <2>6, <2>10
  <2> QED BY <2>9, <2>11
<1>4. N \in G
  <2>1. SUFFICES ASSUME Nat \ G # {} PROVE FALSE
    OBVIOUS
  <2>2. PICK n \in Nat \ G : \A m \in Nat \ G : n <= m
    BY <2>1, LeastNumber
  <2>3. n # 0 /\ n - 1 \in Nat
    BY <1>2, <2>2
  <2>4. n - 1 \in G
    BY <2>2, <2>3
  <2> QED BY <1>3, <2>2, <2>3, <2>4
<1> QED BY <1>1, <1>4

(* The least and the greatest of some numbers.                             *)
LEMMA MinIs ==
  ASSUME NEW T, T \subseteq Nat, T # {}
  PROVE  Min(T) \in T /\ \A x \in T : Min(T) <= x
<1>1. \E y \in T : \A x \in T : y <= x
  BY LeastNumber
<1> QED BY <1>1 DEF Min

LEMMA MaxIs ==
  ASSUME NEW T, NEW b, b \in Nat, T \subseteq 0..b, T # {}
  PROVE  Max(T) \in T /\ \A x \in T : x <= Max(T)
<1>1. PICK D : D = {d \in Nat : b - d \in T}
  OBVIOUS
<1>2. D \subseteq Nat /\ D # {}
  <2>1. PICK x \in T : TRUE
    OBVIOUS
  <2>2. x \in 0..b
    OBVIOUS
  <2>3. b - x \in Nat /\ b - (b - x) = x
    BY <2>2
  <2> QED BY <1>1, <2>1, <2>3
<1>3. PICK d \in D : \A k \in D : d <= k
  BY <1>2, LeastNumber
<1>4. PICK m : m = b - d
  OBVIOUS
<1>5. m \in T /\ d \in Nat
  BY <1>1, <1>3, <1>4
<1>6. \A x \in T : x <= m
  <2>1. SUFFICES ASSUME NEW x \in T PROVE x <= m
    OBVIOUS
  <2>2. x \in 0..b
    OBVIOUS
  <2>3. b - x \in Nat /\ b - (b - x) = x
    BY <2>2
  <2>4. d <= b - x
    BY <1>1, <1>3, <2>1, <2>3
  <2> QED BY <1>4, <1>5, <2>2, <2>4
<1>7. \E y \in T : \A x \in T : y >= x
  <2>1. \A x \in T : x \in Nat
    OBVIOUS
  <2> QED BY <1>5, <1>6, <2>1
<1>8. PICK z : z = Max(T)
  OBVIOUS
<1>9. z \in T /\ \A x \in T : z >= x
  BY <1>7, <1>8 DEF Max
<1>10. \A x \in T : x \in Nat
  OBVIOUS
<1>11. \A x \in T : x <= z
  BY <1>9, <1>10
<1> QED BY <1>8, <1>9, <1>11

LEMMA MinPair ==
  ASSUME NEW i \in Nat, NEW j \in Nat
  PROVE  Min({i, j}) = IF i <= j THEN i ELSE j
<1>1. PICK m : m = Min({i, j})
  OBVIOUS
<1>2. m \in {i, j} /\ \A x \in {i, j} : m <= x
  BY <1>1, MinIs
<1> QED BY <1>1, <1>2

LEMMA MaxPair ==
  ASSUME NEW i \in Nat, NEW j \in Nat
  PROVE  Max({i, j}) = IF i <= j THEN j ELSE i
<1>1. PICK b \in Nat : b = i + j
  OBVIOUS
<1>2. {i, j} \subseteq 0..b
  BY <1>1
<1>3. PICK m : m = Max({i, j})
  OBVIOUS
<1>4. m \in {i, j} /\ \A x \in {i, j} : x <= m
  BY <1>2, <1>3, MaxIs
<1> QED BY <1>3, <1>4

LEMMA FirstIs ==
  ASSUME NEW T, T \subseteq Nat, 0 \notin T
  PROVE  /\ T = {} => FirstOf(T) = 0
         /\ T # {} => FirstOf(T) \in T /\ FirstOf(T) # 0 /\ \A x \in T : FirstOf(T) <= x
         /\ FirstOf(T) \in Nat
<1>1. CASE T = {}
  BY <1>1 DEF FirstOf
<1>2. CASE T # {}
  <2>1. Min(T) \in T /\ \A x \in T : Min(T) <= x
    BY <1>2, MinIs
  <2>2. FirstOf(T) = Min(T)
    BY <1>2 DEF FirstOf
  <2> QED BY <1>2, <2>1, <2>2
<1> QED BY <1>1, <1>2

-----------------------------------------------------------------------------
(* Numbers in order.                                                       *)

Listed(s, T) ==
  /\ s \in Seq(Nat)
  /\ \A i \in 1..Len(s) : s[i] \in T
  /\ \A t \in T : \E i \in 1..Len(s) : s[i] = t
  /\ \A i, j \in 1..Len(s) : i < j => s[i] < s[j]

LEMMA ListedGrows ==
  ASSUME NEW S, NEW n \in Nat, n # 0, NEW s, Listed(s, S \cap (1..(n - 1)))
  PROVE  Listed(IF n \in S THEN Append(s, n) ELSE s, S \cap (1..n))
<1>1. PICK T : T = S \cap (1..(n - 1))
  OBVIOUS
<1>2. PICK U : U = S \cap (1..n)
  OBVIOUS
<1>3. /\ s \in Seq(Nat) /\ Len(s) \in Nat /\ \A i \in 1..Len(s) : s[i] \in T
      /\ \A t \in T : \E i \in 1..Len(s) : s[i] = t
      /\ \A i, j \in 1..Len(s) : i < j => s[i] < s[j]
  BY <1>1 DEF Listed
<1>4. \A t \in T : t \in Nat /\ t < n
  BY <1>1
<1>5. 1..n = 1..(n - 1) \cup {n}
  OBVIOUS
<1>6. CASE n \notin S
  <2>1. U = T
    BY <1>1, <1>2, <1>5, <1>6
  <2> QED BY <1>1, <1>2, <1>6, <2>1
<1>7. CASE n \in S
  <2>1. U = T \cup {n}
    BY <1>1, <1>2, <1>5, <1>7
  <2>2. PICK u : u = Append(s, n)
    OBVIOUS
  <2>3. /\ u \in Seq(Nat) /\ Len(u) = Len(s) + 1 /\ u[Len(u)] = n
        /\ \A i \in 1..Len(s) : u[i] = s[i]
    BY <1>3, <2>2
  <2>4. 1..Len(u) = 1..Len(s) \cup {Len(u)}
    BY <1>3, <2>3
  <2>5. \A i \in 1..Len(u) : u[i] \in U
    BY <1>3, <2>1, <2>3, <2>4
  <2>6. \A t \in U : \E i \in 1..Len(u) : u[i] = t
    BY <1>3, <2>1, <2>3, <2>4
  <2>7. ASSUME NEW i \in 1..Len(u), NEW j \in 1..Len(u), i < j PROVE u[i] < u[j]
    <3>1. i \in 1..Len(s)
      BY <1>3, <2>3, <2>7
    <3>2. CASE j \in 1..Len(s)
      BY <1>3, <2>3, <2>7, <3>1, <3>2
    <3>3. CASE j = Len(u)
      <4>1. u[i] = s[i] /\ s[i] \in T
        BY <1>3, <2>3, <3>1
      <4> QED BY <1>4, <2>3, <3>3, <4>1
    <3> QED BY <2>4, <3>2, <3>3
  <2>8. Listed(u, U)
    BY <2>3, <2>5, <2>6, <2>7 DEF Listed
  <2> QED BY <1>2, <1>7, <2>2, <2>8
<1> QED BY <1>6, <1>7

Ordering(f, S, n) ==
  f = [i \in 0..n |-> IF i = 0 THEN <<>> ELSE IF i \in S THEN Append(f[i - 1], i) ELSE f[i - 1]]

LEMMA InOrderIs ==
  ASSUME NEW S, NEW N \in Nat
  PROVE  Listed(InOrder(S, N), S \cap (1..N))
<1>1. PICK V : V = Seq(Nat)
  OBVIOUS
<1>2. PICK op : op = [w \in (1..N) \X V |-> IF w[1] \in S THEN Append(w[2], w[1]) ELSE w[2]]
  OBVIOUS
<1>3. op \in [(1..N) \X V -> V]
  <2>1. \A n \in 1..N, t \in V : Append(t, n) \in V
    BY <1>1
  <2> QED BY <1>2, <2>1
<1>4. <<>> \in V
  BY <1>1
<1>5. PICK f \in [0..N -> V] : Recurs(f, N, <<>>, op)
  BY <1>3, <1>4, RecursExist
<1>6. ASSUME NEW n \in 0..N
      PROVE  f[n] = IF n = 0 THEN <<>> ELSE IF n \in S THEN Append(f[n - 1], n) ELSE f[n - 1]
  <2>1. f[n] = IF n = 0 THEN <<>> ELSE op[<<n, f[n - 1]>>]
    BY <1>5 DEF Recurs
  <2>2. CASE n # 0
    <3>1. n - 1 \in 0..N /\ n \in 1..N
      BY <2>2
    <3>2. f[n - 1] \in V
      BY <3>1
    <3>3. op[<<n, f[n - 1]>>] = IF n \in S THEN Append(f[n - 1], n) ELSE f[n - 1]
      BY <1>2, <3>1, <3>2
    <3> QED BY <2>1, <2>2, <3>3
  <2> QED BY <2>1, <2>2
<1>7. Ordering(f, S, N)
  BY <1>5, <1>6 DEF Ordering, Recurs
<1>8. PICK x : x = CHOOSE y : Ordering(y, S, N)
  OBVIOUS
<1>9. Ordering(x, S, N)
  BY <1>7, <1>8
<1>10. InOrder(S, N) = x[N]
  BY <1>8 DEF InOrder, Ordering
<1>11. PICK G : G = {n \in 0..N : Listed(x[n], S \cap (1..n))}
  OBVIOUS
<1>12. 0 \in G
  <2>1. x[0] = <<>>
    BY <1>9 DEF Ordering
  <2>2. Listed(<<>>, S \cap (1..0))
    BY DEF Listed
  <2> QED BY <1>11, <2>1, <2>2
<1>13. ASSUME NEW n \in 1..N, n - 1 \in G PROVE n \in G
  <2>1. x[n] = IF n \in S THEN Append(x[n - 1], n) ELSE x[n - 1]
    <3>1. n \in 0..N /\ n # 0
      OBVIOUS
    <3> QED BY <1>9, <3>1 DEF Ordering
  <2>2. PICK s : s = x[n - 1]
    OBVIOUS
  <2>3. Listed(s, S \cap (1..(n - 1))) /\ n \in Nat /\ n # 0
    BY <1>11, <1>13, <2>2
  <2>4. Listed(IF n \in S THEN Append(s, n) ELSE s, S \cap (1..n))
    BY <2>3, ListedGrows
  <2>5. Listed(x[n], S \cap (1..n))
    BY <2>1, <2>2, <2>4
  <2> QED BY <1>11, <2>5
<1>14. \A n \in 0..N : n \in G
  <2>1. \A n \in 1..N : n - 1 \in G => n \in G
    BY <1>13
  <2> QED BY <1>12, <2>1, Upward
<1>15. N \in G
  BY <1>14
<1> QED BY <1>10, <1>11, <1>15

(* Two lists of the same numbers that agree so far go on alike.            *)
LEMMA ListedNext ==
  ASSUME NEW T, NEW s, NEW t, Listed(s, T), Listed(t, T), NEW m \in Nat,
         m + 1 <= Len(s), \A i \in 1..m : s[i] = t[i]
  PROVE  m + 1 <= Len(t) /\ t[m + 1] <= s[m + 1]
<1>1. /\ s \in Seq(Nat) /\ t \in Seq(Nat) /\ Len(s) \in Nat /\ Len(t) \in Nat
      /\ \A i \in 1..Len(s) : s[i] \in T
      /\ \A u \in T : \E i \in 1..Len(t) : t[i] = u
      /\ \A i, j \in 1..Len(s) : i < j => s[i] < s[j]
      /\ \A i, j \in 1..Len(t) : i < j => t[i] < t[j]
  BY DEF Listed
<1>2. m + 1 \in 1..Len(s)
  BY <1>1
<1>3. PICK j \in 1..Len(t) : t[j] = s[m + 1]
  BY <1>1, <1>2
<1>4. s[m + 1] \in Nat /\ t[j] \in Nat
  BY <1>1, <1>2
<1>5. j \notin 1..m
  <2>1. SUFFICES ASSUME j \in 1..m PROVE FALSE
    OBVIOUS
  <2>2. j \in 1..Len(s) /\ j < m + 1
    BY <1>2, <2>1
  <2>3. s[j] < s[m + 1] /\ s[j] = t[j]
    BY <1>1, <1>2, <2>1, <2>2
  <2> QED BY <1>3, <1>4, <2>3
<1>6. j \in Nat /\ m + 1 <= j /\ j <= Len(t)
  BY <1>1, <1>5
<1>7. m + 1 <= Len(t) /\ m + 1 \in 1..Len(t)
  BY <1>1, <1>6
<1>8. t[m + 1] \in Nat
  BY <1>1, <1>7
<1>9. CASE m + 1 = j
  BY <1>3, <1>4, <1>7, <1>9
<1>10. CASE m + 1 # j
  <2>1. t[m + 1] < t[j]
    BY <1>1, <1>6, <1>7, <1>10
  <2> QED BY <1>3, <1>4, <1>7, <1>8, <2>1
<1> QED BY <1>9, <1>10

LEMMA ListedOnce ==
  ASSUME NEW T, NEW s, NEW t, Listed(s, T), Listed(t, T)
  PROVE  s = t
<1>1. s \in Seq(Nat) /\ t \in Seq(Nat) /\ Len(s) \in Nat /\ Len(t) \in Nat
  BY DEF Listed
<1>2. PICK N \in Nat : N = Len(s)
  BY <1>1
<1>3. PICK G : G = {m \in 0..N : m <= Len(t) /\ \A i \in 1..m : s[i] = t[i]}
  OBVIOUS
<1>4. 0 \in G
  BY <1>1, <1>3
<1>5. ASSUME NEW n \in 1..N, n - 1 \in G PROVE n \in G
  <2>1. PICK m \in Nat : m = n - 1
    OBVIOUS
  <2>2. m + 1 = n /\ m + 1 <= Len(s) /\ m <= Len(t) /\ \A i \in 1..m : s[i] = t[i]
    BY <1>2, <1>3, <1>5, <2>1
  <2>3. m + 1 <= Len(t) /\ t[m + 1] <= s[m + 1]
    BY <2>2, ListedNext
  <2>4. \A i \in 1..m : t[i] = s[i]
    BY <2>2
  <2>5. s[m + 1] <= t[m + 1]
    BY <2>2, <2>3, <2>4, ListedNext
  <2>6. s[n] \in Nat /\ t[n] \in Nat
    <3>1. n \in 1..Len(s) /\ n \in 1..Len(t)
      BY <1>1, <1>2, <2>2, <2>3
    <3> QED BY <1>1, <3>1
  <2>7. s[n] = t[n]
    BY <2>2, <2>3, <2>5, <2>6
  <2>8. 1..n = 1..m \cup {n}
    BY <2>1
  <2> QED BY <1>3, <2>2, <2>3, <2>7, <2>8
<1>6. \A n \in 0..N : n \in G
  <2>1. \A n \in 1..N : n - 1 \in G => n \in G
    BY <1>5
  <2> QED BY <1>4, <2>1, Upward
<1>7. N \in G
  BY <1>6
<1>8. N <= Len(t) /\ \A i \in 1..N : s[i] = t[i]
  BY <1>3, <1>7
<1>9. Len(t) = N
  <2>1. SUFFICES ASSUME N + 1 <= Len(t) PROVE FALSE
    BY <1>1, <1>8
  <2>2. \A i \in 1..N : t[i] = s[i]
    BY <1>8
  <2>3. N + 1 <= Len(s)
    BY <2>1, <2>2, ListedNext
  <2> QED BY <1>2, <2>3
<1> QED BY <1>1, <1>2, <1>8, <1>9

LEMMA InOrderFar ==
  ASSUME NEW S, NEW n \in Nat, NEW m \in Nat, S \subseteq 1..n, n <= m
  PROVE  InOrder(S, m) = InOrder(S, n)
<1>1. S \subseteq 1..m
  OBVIOUS
<1>2. \A U : S \subseteq U => S \cap U = S
  OBVIOUS
<1>3. S \cap (1..n) = S
  BY <1>2
<1>4. S \cap (1..m) = S
  BY <1>1, <1>2
<1>5. Listed(InOrder(S, n), S \cap (1..n)) /\ Listed(InOrder(S, m), S \cap (1..m))
  BY InOrderIs
<1> QED BY <1>3, <1>4, <1>5, ListedOnce

LEMMA InOrderAll ==
  ASSUME NEW n \in Nat
  PROVE  InOrder(1..n, n) = [i \in 1..n |-> i]
<1>1. PICK s : s = [i \in 1..n |-> i]
  OBVIOUS
<1>2. s \in Seq(Nat) /\ Len(s) = n
  BY <1>1
<1>3. PICK U : U = 1..n
  OBVIOUS
<1>4. Listed(s, U)
  <2>1. \A i \in 1..n : s[i] = i
    BY <1>1
  <2> QED BY <1>2, <1>3, <2>1 DEF Listed
<1>5. U \cap (1..n) = U
  BY <1>3
<1>6. Listed(InOrder(U, n), U \cap (1..n))
  BY InOrderIs
<1>7. InOrder(U, n) = s
  BY <1>4, <1>5, <1>6, ListedOnce
<1> QED BY <1>1, <1>3, <1>7

(* What comes first in the numbers comes first in the list.                *)
LEMMA ListedStart ==
  ASSUME NEW T, 0 \notin T, NEW s, Listed(s, T), NEW m \in Nat, 1..m \subseteq T
  PROVE  m <= Len(s) /\ \A i \in 1..m : s[i] = i
<1>1. /\ s \in Seq(Nat) /\ Len(s) \in Nat
      /\ \A i \in 1..Len(s) : s[i] \in T /\ s[i] \in Nat /\ s[i] # 0
      /\ \A u \in T : \E i \in 1..Len(s) : s[i] = u
      /\ \A i, j \in 1..Len(s) : i < j => s[i] < s[j]
  BY DEF Listed
<1>2. PICK G : G = {k \in 0..m : k <= Len(s) /\ \A i \in 1..k : s[i] = i}
  OBVIOUS
<1>3. 0 \in G
  BY <1>1, <1>2
<1>4. ASSUME NEW n \in 1..m, n - 1 \in G PROVE n \in G
  <2>1. n - 1 <= Len(s) /\ \A i \in 1..(n - 1) : s[i] = i
    BY <1>2, <1>4
  <2>2. PICK j \in 1..Len(s) : s[j] = n
    BY <1>1
  <2>3. j \notin 1..(n - 1)
    BY <2>1, <2>2
  <2>4. n <= j /\ n \in 1..Len(s)
    BY <1>1, <2>3
  <2>5. j = n
    <3>1. SUFFICES ASSUME n < j PROVE FALSE
      BY <2>4
    <3>2. s[n] < s[j] /\ s[n] \in Nat /\ s[n] # 0
      BY <1>1, <2>4, <3>1
    <3>3. s[n] \in 1..(n - 1)
      BY <2>2, <3>2
    <3>4. s[s[n]] = s[n] /\ s[n] \in 1..Len(s) /\ s[n] < n
      BY <2>1, <2>4, <3>3
    <3>5. s[s[n]] < s[n]
      BY <1>1, <2>4, <3>4
    <3> QED BY <3>2, <3>4, <3>5
  <2>6. 1..n = 1..(n - 1) \cup {n}
    OBVIOUS
  <2>7. s[n] = n /\ n <= Len(s)
    BY <1>1, <2>2, <2>4, <2>5
  <2>8. \A i \in 1..n : s[i] = i
    BY <2>1, <2>6, <2>7
  <2> QED BY <1>2, <2>7, <2>8
<1>5. \A n \in 0..m : n \in G
  <2>1. \A n \in 1..m : n - 1 \in G => n \in G
    BY <1>4
  <2> QED BY <1>3, <2>1, Upward
<1>6. m \in G
  BY <1>5
<1> QED BY <1>2, <1>6

-----------------------------------------------------------------------------
(* What a set leads to, in an order in which nothing leads back: the least *)
(* set that has it and is closed.                                          *)

Spreading(f, S, order, next) ==
  f = [n \in 0..Len(order) |-> IF n = 0 THEN S ELSE Extended(f[n - 1], order[n], next)]

Closed(S, next) == \A c \in S : next[c] \subseteq S

(* Every one of U has its turn, and leads to what has its turn later.      *)
Orders(order, U, next) ==
  /\ \A c \in U : \E k \in 1..Len(order) : order[k] = c
  /\ \A k, m \in 1..Len(order) : order[m] \in next[order[k]] => k < m

LEMMA SpreadIs ==
  ASSUME NEW U, NEW S, S \subseteq U, NEW order \in Seq(U), NEW next \in [U -> SUBSET U]
  PROVE  /\ S \subseteq Spread(S, order, next) /\ Spread(S, order, next) \subseteq U
         /\ \A X : S \subseteq X /\ (\A c \in X \cap U : next[c] \subseteq X) => Spread(S, order, next) \subseteq X
         /\ Orders(order, U, next) => Closed(Spread(S, order, next), next)
<1>1. PICK N \in Nat : N = Len(order)
  OBVIOUS
<1>2. PICK V : V = SUBSET U
  OBVIOUS
<1>3. PICK op : op = [w \in (1..N) \X V |-> Extended(w[2], order[w[1]], next)]
  OBVIOUS
<1>4. \A n \in 1..N : order[n] \in U
  BY <1>1
<1>5. ASSUME NEW n \in 1..N, NEW W \in V PROVE Extended(W, order[n], next) \in V
  <2>1. next[order[n]] \subseteq U
    BY <1>4
  <2> QED BY <1>2, <2>1 DEF Extended
<1>6. op \in [(1..N) \X V -> V]
  BY <1>3, <1>5
<1>7. S \in V
  BY <1>2
<1>8. PICK f \in [0..N -> V] : Recurs(f, N, S, op)
  BY <1>6, <1>7, RecursExist
<1>9. ASSUME NEW n \in 0..N
      PROVE  f[n] = IF n = 0 THEN S ELSE Extended(f[n - 1], order[n], next)
  <2>1. f[n] = IF n = 0 THEN S ELSE op[<<n, f[n - 1]>>]
    BY <1>8 DEF Recurs
  <2>2. CASE n # 0
    <3>1. n - 1 \in 0..N /\ n \in 1..N
      BY <2>2
    <3>2. f[n - 1] \in V
      BY <3>1
    <3>3. op[<<n, f[n - 1]>>] = Extended(f[n - 1], order[n], next)
      BY <1>3, <3>1, <3>2
    <3> QED BY <2>1, <2>2, <3>3
  <2> QED BY <2>1, <2>2
<1>10. Spreading(f, S, order, next)
  BY <1>1, <1>8, <1>9 DEF Spreading, Recurs
<1>11. PICK x : x = CHOOSE y : Spreading(y, S, order, next)
  OBVIOUS
<1>12. Spreading(x, S, order, next)
  BY <1>10, <1>11
<1>13. Spread(S, order, next) = x[N]
  BY <1>1, <1>11 DEF Spread, Spreading
<1>14. x[0] = S
  BY <1>12 DEF Spreading
<1>15. ASSUME NEW n \in 1..N
       PROVE  x[n] = IF order[n] \in x[n - 1] THEN x[n - 1] \cup next[order[n]] ELSE x[n - 1]
  <2>1. n \in 0..N /\ n # 0
    OBVIOUS
  <2>2. x[n] = Extended(x[n - 1], order[n], next)
    BY <1>1, <1>12, <2>1 DEF Spreading
  <2> QED BY <2>2 DEF Extended
<1>16. S \subseteq x[N] /\ x[N] \subseteq U
  <2>1. PICK G : G = {n \in 0..N : S \subseteq x[n] /\ x[n] \subseteq U}
    OBVIOUS
  <2>2. 0 \in G
    BY <1>14, <2>1
  <2>3. ASSUME NEW n \in 1..N, n - 1 \in G PROVE n \in G
    <3>1. S \subseteq x[n - 1] /\ x[n - 1] \subseteq U
      BY <2>1, <2>3
    <3>2. next[order[n]] \subseteq U
      BY <1>4
    <3>3. S \subseteq x[n] /\ x[n] \subseteq U
      BY <1>15, <3>1, <3>2
    <3> QED BY <2>1, <3>3
  <2>4. \A n \in 0..N : n \in G
    <3>1. \A n \in 1..N : n - 1 \in G => n \in G
      BY <2>3
    <3> QED BY <2>2, <3>1, Upward
  <2>5. N \in G
    BY <2>4
  <2> QED BY <2>1, <2>5
<1>17. ASSUME NEW X, S \subseteq X, \A c \in X \cap U : next[c] \subseteq X PROVE x[N] \subseteq X
  <2>1. PICK G : G = {n \in 0..N : x[n] \subseteq X}
    OBVIOUS
  <2>2. 0 \in G
    BY <1>14, <1>17, <2>1
  <2>3. ASSUME NEW n \in 1..N, n - 1 \in G PROVE n \in G
    <3>1. x[n - 1] \subseteq X
      BY <2>1, <2>3
    <3>2. order[n] \in x[n - 1] => next[order[n]] \subseteq X
      BY <1>4, <1>17, <3>1
    <3>3. x[n] \subseteq X
      BY <1>15, <3>1, <3>2
    <3> QED BY <2>1, <3>3
  <2>4. \A n \in 0..N : n \in G
    <3>1. \A n \in 1..N : n - 1 \in G => n \in G
      BY <2>3
    <3> QED BY <2>2, <3>1, Upward
  <2>5. N \in G
    BY <2>4
  <2> QED BY <2>1, <2>5
<1>18. ASSUME Orders(order, U, next) PROVE Closed(x[N], next)
  <2>1. /\ \A c \in U : \E k \in 1..N : order[k] = c
        /\ \A k, m \in 1..N : order[m] \in next[order[k]] => k < m
    BY <1>1, <1>18 DEF Orders
  <2>2. PICK G : G = {n \in 0..N : \A k \in 1..n : order[k] \in x[n] => next[order[k]] \subseteq x[n]}
    OBVIOUS
  <2>3. 0 \in G
    BY <2>2
  <2>4. ASSUME NEW n \in 1..N, n - 1 \in G PROVE n \in G
    <3>1. \A k \in 1..(n - 1) : order[k] \in x[n - 1] => next[order[k]] \subseteq x[n - 1]
      BY <2>2, <2>4
    <3>2. x[n] = IF order[n] \in x[n - 1] THEN x[n - 1] \cup next[order[n]] ELSE x[n - 1]
      BY <1>15
    <3>3. ASSUME NEW k \in 1..n, order[k] \in x[n] PROVE next[order[k]] \subseteq x[n]
      <4>1. k \in 1..N /\ n \in 1..N /\ k <= n
        BY <2>4
      <4>2. order[k] \in x[n - 1]
        <5>1. order[k] \notin next[order[n]]
          <6>1. ~(n < k)
            BY <4>1
          <6> QED BY <2>1, <4>1, <6>1
        <5> QED BY <3>2, <3>3, <5>1
      <4>3. CASE k = n
        BY <3>2, <4>2, <4>3
      <4>4. CASE k # n
        <5>1. k \in 1..(n - 1)
          BY <4>1, <4>4
        <5> QED BY <3>1, <3>2, <4>2, <5>1
      <4> QED BY <4>3, <4>4
    <3> QED BY <2>2, <3>3
  <2>5. \A n \in 0..N : n \in G
    <3>1. \A n \in 1..N : n - 1 \in G => n \in G
      BY <2>4
    <3> QED BY <2>3, <3>1, Upward
  <2>6. N \in G
    BY <2>5
  <2>7. \A k \in 1..N : order[k] \in x[N] => next[order[k]] \subseteq x[N]
    BY <2>2, <2>6
  <2>8. ASSUME NEW c \in x[N] PROVE next[c] \subseteq x[N]
    <3>1. PICK k \in 1..N : order[k] = c
      BY <1>16, <2>1
    <3> QED BY <2>7, <3>1
  <2> QED BY <2>8 DEF Closed
<1> QED BY <1>13, <1>16, <1>17, <1>18

-----------------------------------------------------------------------------
(* First-parent chains: onto[i] is a later row than i, or 0.               *)

Later(onto, N) ==
  /\ onto \in Seq(Nat) /\ Len(onto) = N /\ N \in Nat
  /\ \A i \in 1..N : onto[i] # 0 => i < onto[i] /\ onto[i] <= N

LEMMA ChainIs ==
  ASSUME NEW N, NEW onto, Later(onto, N), NEW i \in 1..N
  PROVE  /\ i \in Chain(onto, i) /\ Chain(onto, i) \subseteq i..N
         /\ \A j \in Chain(onto, i) : onto[j] # 0 => onto[j] \in Chain(onto, i)
         /\ \A X : i \in X /\ (\A j \in X \cap (1..N) : onto[j] # 0 => onto[j] \in X) => Chain(onto, i) \subseteq X
<1>1. /\ onto \in Seq(Nat) /\ Len(onto) = N /\ N \in Nat /\ DOMAIN onto = 1..N
      /\ \A j \in 1..N : onto[j] \in Nat /\ (onto[j] # 0 => j < onto[j] /\ onto[j] <= N /\ onto[j] \in 1..N)
  BY DEF Later
<1>2. PICK order : order = [n \in 1..N |-> n]
  OBVIOUS
<1>3. PICK next : next = [n \in 1..N |-> {onto[n]} \ {0}]
  OBVIOUS
<1>4. PICK U : U = 1..N
  OBVIOUS
<1>5. order \in Seq(U) /\ Len(order) = N /\ \A n \in 1..N : order[n] = n
  BY <1>1, <1>2, <1>4
<1>6. next \in [U -> SUBSET U] /\ \A n \in U : \A m : m \in next[n] <=> m = onto[n] /\ m # 0
  BY <1>1, <1>3, <1>4
<1>7. {i} \subseteq U
  BY <1>4
<1>8. Orders(order, U, next)
  BY <1>1, <1>4, <1>5, <1>6 DEF Orders
<1>9. PICK C : C = Chain(onto, i)
  OBVIOUS
<1>10. C = Spread({i}, order, next)
  BY <1>1, <1>2, <1>3, <1>9 DEF Chain
<1>11. /\ {i} \subseteq C /\ C \subseteq U
       /\ \A X : {i} \subseteq X /\ (\A c \in X \cap U : next[c] \subseteq X) => C \subseteq X
       /\ Closed(C, next)
  <2>1. next \in [U -> SUBSET U] /\ order \in Seq(U)
    BY <1>5, <1>6
  <2>2. /\ {i} \subseteq Spread({i}, order, next) /\ Spread({i}, order, next) \subseteq U
        /\ \A X : {i} \subseteq X /\ (\A c \in X \cap U : next[c] \subseteq X) => Spread({i}, order, next) \subseteq X
        /\ Orders(order, U, next) => Closed(Spread({i}, order, next), next)
    BY <1>7, <2>1, SpreadIs
  <2> QED BY <1>8, <1>10, <2>2
<1>12. \A j \in C : onto[j] # 0 => onto[j] \in C
  BY <1>6, <1>11 DEF Closed
<1>13. ASSUME NEW X, i \in X, \A j \in X \cap (1..N) : onto[j] # 0 => onto[j] \in X PROVE C \subseteq X
  <2>1. \A c \in X \cap U : next[c] \subseteq X
    BY <1>4, <1>6, <1>13
  <2> QED BY <1>11, <1>13, <2>1
<1>14. C \subseteq i..N
  <2>1. \A j \in (i..N) \cap (1..N) : onto[j] # 0 => onto[j] \in i..N
    BY <1>1
  <2>2. i \in i..N
    BY <1>1
  <2> QED BY <1>13, <2>1, <2>2
<1> QED BY <1>9, <1>11, <1>12, <1>13, <1>14

(* What is on a chain has its own chain on it.                             *)
LEMMA ChainIn ==
  ASSUME NEW N, NEW onto, Later(onto, N), NEW i \in 1..N, NEW j \in Chain(onto, i)
  PROVE  j \in 1..N /\ Chain(onto, j) \subseteq Chain(onto, i)
<1>1. PICK C : C = Chain(onto, i)
  OBVIOUS
<1>2. C \subseteq i..N /\ \A k \in C : onto[k] # 0 => onto[k] \in C
  BY <1>1, ChainIs
<1>3. j \in 1..N
  BY <1>1, <1>2
<1>4. j \in C
  BY <1>1
<1>5. \A X : j \in X /\ (\A k \in X \cap (1..N) : onto[k] # 0 => onto[k] \in X) => Chain(onto, j) \subseteq X
  BY <1>3, ChainIs
<1> QED BY <1>1, <1>2, <1>3, <1>4, <1>5

LEMMA ChainStep ==
  ASSUME NEW N, NEW onto, Later(onto, N), NEW i \in 1..N, NEW j \in Chain(onto, i)
  PROVE  j = i \/ (onto[i] # 0 /\ onto[i] \in 1..N /\ j \in Chain(onto, onto[i]))
<1>1. N \in Nat /\ \A k \in 1..N : onto[k] # 0 => k < onto[k] /\ onto[k] <= N /\ onto[k] \in Nat /\ onto[k] \in 1..N
  BY DEF Later
<1>2. PICK C : C = Chain(onto, i)
  OBVIOUS
<1>3. \A X : i \in X /\ (\A k \in X \cap (1..N) : onto[k] # 0 => onto[k] \in X) => C \subseteq X
  BY <1>2, ChainIs
<1>4. CASE onto[i] = 0
  <2>1. \A k \in {i} \cap (1..N) : onto[k] # 0 => onto[k] \in {i}
    BY <1>4
  <2>2. C \subseteq {i}
    BY <1>3, <2>1
  <2> QED BY <1>2, <2>2
<1>5. CASE onto[i] # 0
  <2>1. onto[i] \in 1..N
    BY <1>1, <1>5
  <2>2. PICK D : D = Chain(onto, onto[i])
    OBVIOUS
  <2>3. onto[i] \in D /\ \A k \in D : onto[k] # 0 => onto[k] \in D
    BY <2>1, <2>2, ChainIs
  <2>4. \A k \in ({i} \cup D) \cap (1..N) : onto[k] # 0 => onto[k] \in {i} \cup D
    BY <2>3
  <2>5. C \subseteq {i} \cup D
    BY <1>3, <2>4
  <2> QED BY <1>2, <1>5, <2>1, <2>2, <2>5
<1> QED BY <1>4, <1>5

(* A chain does not fork.                                                  *)
LEMMA ChainLine ==
  ASSUME NEW N, NEW onto, Later(onto, N), NEW i \in 1..N, NEW j \in Chain(onto, i), NEW k \in Chain(onto, i)
  PROVE  j \in Chain(onto, k) \/ k \in Chain(onto, j)
<1>1. PICK C : C = Chain(onto, i)
  OBVIOUS
<1>2. /\ C \subseteq 1..N /\ i \in C
      /\ \A m \in C : onto[m] # 0 => onto[m] \in C
      /\ \A X : i \in X /\ (\A m \in X \cap (1..N) : onto[m] # 0 => onto[m] \in X) => C \subseteq X
  <2>1. C \subseteq i..N
    BY <1>1, ChainIs
  <2> QED BY <1>1, <2>1, ChainIs
<1>3. PICK X : X = {m \in C : j \in Chain(onto, m) \/ m \in Chain(onto, j)}
  OBVIOUS
<1>4. j \in 1..N /\ j \in C
  BY <1>1, <1>2
<1>5. i \in X
  BY <1>1, <1>2, <1>3
<1>6. ASSUME NEW m \in X, onto[m] # 0 PROVE onto[m] \in X
  <2>1. m \in C /\ m \in 1..N /\ onto[m] \in C
    BY <1>2, <1>3, <1>6
  <2>2. CASE m \in Chain(onto, j)
    <3>1. onto[m] \in Chain(onto, j)
      BY <1>4, <1>6, <2>2, ChainIs
    <3> QED BY <1>3, <2>1, <3>1
  <2>3. CASE j \in Chain(onto, m)
    <3>1. j = m \/ j \in Chain(onto, onto[m])
      BY <2>1, <2>3, ChainStep
    <3>2. CASE j = m
      <4>1. j \in Chain(onto, j)
        BY <1>4, ChainIs
      <4> QED BY <2>2, <3>2, <4>1
    <3> QED BY <1>3, <2>1, <3>1, <3>2
  <2> QED BY <1>3, <2>2, <2>3
<1>7. C \subseteq X
  BY <1>2, <1>5, <1>6
<1> QED BY <1>1, <1>3, <1>7

-----------------------------------------------------------------------------
(* Branch segments: rows off the trunk are of one segment if and only if    *)
(* their chains meet off the trunk.                                         *)

Meets(onto, i, j) == \E k \in Chain(onto, i) : k \in Chain(onto, j) /\ k \notin Trunk(onto)

Joined(P, i, j) == \E s \in P : i \in s /\ j \in s

Partition(P, S) ==
  /\ \A s \in P : s \subseteq S /\ s # {}
  /\ \A i \in S : Joined(P, i, i)
  /\ \A s, t \in P : \A i \in s : i \in t => s = t

LEMMA MeetsAcross ==
  ASSUME NEW N, NEW onto, Later(onto, N), NEW i \in 1..N, NEW j \in 1..N, NEW k \in 1..N,
         Meets(onto, i, j), Meets(onto, j, k)
  PROVE  Meets(onto, i, k)
<1>1. PICK a \in Chain(onto, i) : a \in Chain(onto, j) /\ a \notin Trunk(onto)
  BY DEF Meets
<1>2. PICK b \in Chain(onto, j) : b \in Chain(onto, k) /\ b \notin Trunk(onto)
  BY DEF Meets
<1>3. a \in Chain(onto, b) \/ b \in Chain(onto, a)
  BY <1>1, <1>2, ChainLine
<1>4. Chain(onto, a) \subseteq Chain(onto, i)
  BY <1>1, ChainIn
<1>5. Chain(onto, b) \subseteq Chain(onto, k)
  BY <1>2, ChainIn
<1> QED BY <1>1, <1>2, <1>3, <1>4, <1>5 DEF Meets

LEMMA UniteJoins ==
  ASSUME NEW S, NEW P, Partition(P, S), NEW i \in S, NEW j \in S
  PROVE  /\ Partition(Unite(P, i, j), S)
         /\ \A a, b \in S : Joined(P, a, b) => Joined(Unite(P, i, j), a, b)
         /\ Joined(Unite(P, i, j), i, j)
         /\ \A a, b \in S : Joined(Unite(P, i, j), a, b) =>
              \/ Joined(P, a, b)
              \/ (Joined(P, a, i) \/ Joined(P, a, j)) /\ (Joined(P, b, i) \/ Joined(P, b, j))
<1>1. PICK R : R = {s \in P : i \in s \/ j \in s}
  OBVIOUS
<1>2. PICK u : u = UNION R
  OBVIOUS
<1>3. PICK Q : Q = Unite(P, i, j)
  OBVIOUS
<1>4. \A s : s \in Q <=> (s \in P /\ i \notin s /\ j \notin s) \/ s = u
  BY <1>1, <1>2, <1>3 DEF Unite
<1>5. /\ \A s \in P : s \subseteq S /\ s # {}
      /\ \A a \in S : \E s \in P : a \in s
      /\ \A s, t \in P : \A a \in s : a \in t => s = t
  BY DEF Partition, Joined
<1>6. \A a : a \in u <=> \E s \in P : a \in s /\ (i \in s \/ j \in s)
  BY <1>1, <1>2
<1>7. i \in u /\ j \in u
  BY <1>5, <1>6
<1>8. u \subseteq S
  BY <1>5, <1>6
<1>9. \A a \in S : \E s \in Q : a \in s
  <2>1. SUFFICES ASSUME NEW a \in S PROVE \E s \in Q : a \in s
    OBVIOUS
  <2>2. PICK s \in P : a \in s
    BY <1>5
  <2>3. CASE i \in s \/ j \in s
    BY <1>4, <1>6, <2>2, <2>3
  <2>4. CASE i \notin s /\ j \notin s
    BY <1>4, <2>2, <2>4
  <2> QED BY <2>3, <2>4
<1>10. \A s, t \in Q : \A a \in s : a \in t => s = t
  <2>1. SUFFICES ASSUME NEW s \in Q, NEW t \in Q, NEW a \in s, a \in t PROVE s = t
    OBVIOUS
  <2>2. ASSUME NEW w \in P, i \notin w, j \notin w, a \in w PROVE a \notin u
    BY <1>5, <1>6, <2>2
  <2> QED BY <1>4, <1>5, <2>1, <2>2
<1>11. Partition(Q, S)
  <2>1. \A s \in Q : s \subseteq S /\ s # {}
    BY <1>4, <1>5, <1>7, <1>8
  <2> QED BY <1>9, <1>10, <2>1 DEF Partition, Joined
<1>12. \A a, b \in S : Joined(P, a, b) => Joined(Q, a, b)
  <2>1. SUFFICES ASSUME NEW a \in S, NEW b \in S, Joined(P, a, b) PROVE \E s \in Q : a \in s /\ b \in s
    BY DEF Joined
  <2>2. PICK s \in P : a \in s /\ b \in s
    BY <2>1 DEF Joined
  <2>3. CASE i \in s \/ j \in s
    BY <1>4, <1>6, <2>2, <2>3
  <2>4. CASE i \notin s /\ j \notin s
    BY <1>4, <2>2, <2>4
  <2> QED BY <2>3, <2>4
<1>13. Joined(Q, i, j)
  BY <1>4, <1>7 DEF Joined
<1>14. \A a, b \in S : Joined(Q, a, b) =>
         \/ Joined(P, a, b)
         \/ (Joined(P, a, i) \/ Joined(P, a, j)) /\ (Joined(P, b, i) \/ Joined(P, b, j))
  <2>1. SUFFICES ASSUME NEW a \in S, NEW b \in S, Joined(Q, a, b), ~Joined(P, a, b)
                 PROVE  (Joined(P, a, i) \/ Joined(P, a, j)) /\ (Joined(P, b, i) \/ Joined(P, b, j))
    OBVIOUS
  <2>2. PICK s \in Q : a \in s /\ b \in s
    BY <2>1 DEF Joined
  <2>3. s = u
    BY <1>4, <2>1, <2>2 DEF Joined
  <2> QED BY <1>6, <2>2, <2>3 DEF Joined
<1> QED BY <1>3, <1>11, <1>12, <1>13, <1>14

LEMMA SegmentAtIs ==
  ASSUME NEW S, NEW P, Partition(P, S), NEW i
  PROVE  /\ \A j : j \in SegmentAt(P, i) <=> Joined(P, i, j)
         /\ \A s \in P : i \in s => SegmentAt(P, i) = s
         /\ i \in S => SegmentAt(P, i) \in P /\ i \in SegmentAt(P, i)
<1>1. PICK R : R = {s \in P : i \in s}
  OBVIOUS
<1>2. SegmentAt(P, i) = UNION R
  BY <1>1 DEF SegmentAt
<1>3. \A j : j \in UNION R <=> Joined(P, i, j)
  BY <1>1 DEF Joined
<1>4. ASSUME NEW s \in P, i \in s PROVE UNION R = s
  <2>1. R = {s}
    BY <1>1, <1>4 DEF Partition
  <2> QED BY <2>1
<1>5. i \in S => UNION R \in P /\ i \in UNION R
  <2>1. SUFFICES ASSUME i \in S PROVE UNION R \in P /\ i \in UNION R
    OBVIOUS
  <2>2. PICK s \in P : i \in s
    BY <2>1 DEF Partition, Joined
  <2>3. UNION R = s
    BY <1>4, <2>2
  <2> QED BY <2>2, <2>3
<1> QED BY <1>2, <1>3, <1>4, <1>5

LEMMA TrunkIs ==
  ASSUME NEW N, NEW onto, Later(onto, N)
  PROVE  /\ Trunk(onto) \subseteq 1..N /\ (N # 0 => 1 \in Trunk(onto))
         /\ \A j \in Trunk(onto) : onto[j] # 0 => onto[j] \in Trunk(onto)
<1>1. onto \in Seq(Nat) /\ Len(onto) = N /\ N \in Nat
  BY DEF Later
<1>2. CASE N = 0
  <2>1. onto = <<>>
    BY <1>1, <1>2
  <2> QED BY <1>2, <2>1 DEF Trunk
<1>3. CASE N # 0
  <2>1. onto # <<>> /\ 1 \in 1..N
    BY <1>1, <1>3
  <2>2. Trunk(onto) = Chain(onto, 1)
    BY <2>1 DEF Trunk
  <2>3. /\ 1 \in Chain(onto, 1) /\ Chain(onto, 1) \subseteq 1..N
        /\ \A j \in Chain(onto, 1) : onto[j] # 0 => onto[j] \in Chain(onto, 1)
    BY <2>1, ChainIs
  <2> QED BY <2>2, <2>3
<1> QED BY <1>2, <1>3

Segmenting(f, onto, side) ==
  f = [n \in 0..Len(onto) |->
        IF n = 0 THEN {{i} : i \in side}
        ELSE IF n \in side /\ onto[n] \in side THEN Unite(f[n - 1], n, onto[n]) ELSE f[n - 1]]

(* The segments when the first n rows are joined to what they lead to.     *)
Segmented(P, onto, side, n) ==
  /\ Partition(P, side)
  /\ \A i, j \in side : Joined(P, i, j) => Meets(onto, i, j)
  /\ \A k \in 1..n : k \in side /\ onto[k] \in side => Joined(P, k, onto[k])

LEMMA SegmentsStart ==
  ASSUME NEW onto, NEW side, \A i \in side : Meets(onto, i, i)
  PROVE  Segmented({{i} : i \in side}, onto, side, 0)
<1>1. PICK P : P = {{i} : i \in side}
  OBVIOUS
<1>2. \A s : s \in P <=> \E i \in side : s = {i}
  BY <1>1
<1>3. Partition(P, side)
  <2>1. \A s \in P : s \subseteq side /\ s # {}
    BY <1>2
  <2>2. \A i \in side : {i} \in P /\ i \in {i}
    BY <1>2
  <2>3. ASSUME NEW s \in P, NEW t \in P, NEW i \in s, i \in t PROVE s = t
    <3>1. PICK a \in side : s = {a}
      BY <1>2
    <3>2. PICK b \in side : t = {b}
      BY <1>2
    <3> QED BY <2>3, <3>1, <3>2
  <2> QED BY <2>1, <2>2, <2>3 DEF Partition, Joined
<1>4. \A i, j \in side : Joined(P, i, j) => i = j
  BY <1>2 DEF Joined
<1>5. \A i, j \in side : Joined(P, i, j) => Meets(onto, i, j)
  BY <1>4
<1>6. 1..0 = {}
  OBVIOUS
<1> QED BY <1>1, <1>3, <1>5, <1>6 DEF Segmented

LEMMA SegmentsGrow ==
  ASSUME NEW N, NEW onto, Later(onto, N), NEW side, side = 1..N \ Trunk(onto),
         NEW n \in 1..N, NEW P, Segmented(P, onto, side, n - 1)
  PROVE  Segmented(IF n \in side /\ onto[n] \in side THEN Unite(P, n, onto[n]) ELSE P, onto, side, n)
<1>1. /\ Partition(P, side)
      /\ \A i, j \in side : Joined(P, i, j) => Meets(onto, i, j)
      /\ \A k \in 1..(n - 1) : k \in side /\ onto[k] \in side => Joined(P, k, onto[k])
  BY DEF Segmented
<1>2. 1..n = 1..(n - 1) \cup {n}
  BY DEF Later
<1>3. CASE ~(n \in side /\ onto[n] \in side)
  <2>1. \A k \in 1..n : k \in side /\ onto[k] \in side => Joined(P, k, onto[k])
    BY <1>1, <1>2, <1>3
  <2> QED BY <1>1, <1>3, <2>1 DEF Segmented
<1>4. CASE n \in side /\ onto[n] \in side
  <2>1. PICK m : m = onto[n]
    OBVIOUS
  <2>2. n \in side /\ m \in side /\ side \subseteq 1..N /\ m \in 1..N /\ n \in 1..N
    BY <1>4, <2>1
  <2>3. PICK Q : Q = Unite(P, n, m)
    OBVIOUS
  <2>4. /\ Partition(Q, side)
        /\ \A a, b \in side : Joined(P, a, b) => Joined(Q, a, b)
        /\ Joined(Q, n, m)
        /\ \A a, b \in side : Joined(Q, a, b) =>
             \/ Joined(P, a, b)
             \/ (Joined(P, a, n) \/ Joined(P, a, m)) /\ (Joined(P, b, n) \/ Joined(P, b, m))
    <3>1. Partition(P, side) /\ n \in side /\ m \in side
      BY <1>1, <2>2
    <3> QED BY ONLY <2>3, <3>1, UniteJoins
  <2>5. Meets(onto, n, m) /\ Meets(onto, m, n)
    <3>1. n \in Chain(onto, n) /\ m # 0
      BY <2>2, ChainIs
    <3>2. m \in Chain(onto, n)
      BY <2>1, <2>2, <3>1, ChainIs
    <3>3. m \in Chain(onto, m)
      BY <2>2, ChainIs
    <3>4. m \notin Trunk(onto)
      BY <2>2
    <3> QED BY <3>2, <3>3, <3>4 DEF Meets
  <2>6. \A a \in side : (Joined(P, a, n) \/ Joined(P, a, m)) => Meets(onto, a, n) /\ Meets(onto, n, a)
    <3>1. SUFFICES ASSUME NEW a \in side, Joined(P, a, n) \/ Joined(P, a, m)
                   PROVE  Meets(onto, a, n) /\ Meets(onto, n, a)
      OBVIOUS
    <3>2. Meets(onto, a, n) \/ Meets(onto, a, m)
      BY <1>1, <2>2, <3>1
    <3>3. Meets(onto, a, n)
      <4>1. a \in 1..N
        BY <2>2
      <4> QED BY <2>2, <2>5, <3>2, <4>1, MeetsAcross
    <3> QED BY <3>3 DEF Meets
  <2>7. \A a, b \in side : Joined(Q, a, b) => Meets(onto, a, b)
    <3>1. SUFFICES ASSUME NEW a \in side, NEW b \in side, Joined(Q, a, b) PROVE Meets(onto, a, b)
      OBVIOUS
    <3>2. CASE Joined(P, a, b)
      BY <1>1, <3>2
    <3>3. CASE ~Joined(P, a, b)
      <4>1. Meets(onto, a, n) /\ Meets(onto, n, b)
        BY <2>4, <2>6, <3>1, <3>3
      <4>2. a \in 1..N /\ b \in 1..N
        BY <2>2
      <4> QED BY <2>2, <4>1, <4>2, MeetsAcross
    <3> QED BY <3>2, <3>3
  <2>8. \A k \in 1..n : k \in side /\ onto[k] \in side => Joined(Q, k, onto[k])
    BY <1>1, <1>2, <2>1, <2>4
  <2>9. Segmented(Q, onto, side, n)
    BY <2>4, <2>7, <2>8 DEF Segmented
  <2> QED BY <1>4, <2>1, <2>3, <2>9
<1> QED BY <1>3, <1>4

(* Joined to what they lead to, rows whose chains meet are joined.         *)
LEMMA SegmentsEnd ==
  ASSUME NEW N, NEW onto, Later(onto, N), NEW side, side = 1..N \ Trunk(onto),
         NEW P, Segmented(P, onto, side, N), NEW i \in side, NEW j \in side, Meets(onto, i, j)
  PROVE  Joined(P, i, j)
<1>1. /\ Partition(P, side)
      /\ \A k \in 1..N : k \in side /\ onto[k] \in side => Joined(P, k, onto[k])
  BY DEF Segmented
<1>2. i \in 1..N /\ j \in 1..N /\ N \in Nat
  BY DEF Later
<1>3. \A a, b, c : Joined(P, a, b) /\ Joined(P, b, c) => Joined(P, a, c)
  <2>1. SUFFICES ASSUME NEW a, NEW b, NEW c, Joined(P, a, b), Joined(P, b, c) PROVE Joined(P, a, c)
    OBVIOUS
  <2>2. PICK s \in P : a \in s /\ b \in s
    BY <2>1 DEF Joined
  <2>3. PICK t \in P : b \in t /\ c \in t
    BY <2>1 DEF Joined
  <2>4. s = t
    BY <1>1, <2>2, <2>3 DEF Partition
  <2> QED BY <2>2, <2>3, <2>4 DEF Joined
<1>4. ASSUME NEW a \in side PROVE \A k \in Chain(onto, a) : k \in Trunk(onto) \/ Joined(P, a, k)
  <2>1. PICK X : X = {k \in 1..N : k \in Trunk(onto) \/ Joined(P, a, k)}
    OBVIOUS
  <2>2. a \in X
    BY <1>1, <2>1 DEF Partition
  <2>3. ASSUME NEW k \in X, onto[k] # 0 PROVE onto[k] \in X
    <3>1. k \in 1..N /\ onto[k] \in 1..N
      BY <2>1, <2>3 DEF Later
    <3>2. CASE k \in Trunk(onto)
      <4>1. onto[k] \in Trunk(onto)
        BY <2>3, <3>2, TrunkIs
      <4> QED BY <2>1, <3>1, <4>1
    <3>3. CASE k \notin Trunk(onto) /\ onto[k] \notin Trunk(onto)
      <4>1. k \in side /\ onto[k] \in side
        BY <3>1, <3>3
      <4>2. Joined(P, a, k) /\ Joined(P, k, onto[k])
        BY <1>1, <2>1, <3>1, <3>3, <4>1
      <4>3. Joined(P, a, onto[k])
        BY <1>3, <4>2
      <4> QED BY <2>1, <3>1, <4>3
    <3>4. CASE onto[k] \in Trunk(onto)
      BY <2>1, <3>1, <3>4
    <3> QED BY <3>2, <3>3, <3>4
  <2>4. Chain(onto, a) \subseteq X
    <3>1. a \in 1..N
      OBVIOUS
    <3>2. \A Y : a \in Y /\ (\A k \in Y \cap (1..N) : onto[k] # 0 => onto[k] \in Y) => Chain(onto, a) \subseteq Y
      BY <3>1, ChainIs
    <3>3. \A k \in X \cap (1..N) : onto[k] # 0 => onto[k] \in X
      BY <2>3
    <3> QED BY <2>2, <3>2, <3>3
  <2> QED BY <2>1, <2>4
<1>5. PICK k \in Chain(onto, i) : k \in Chain(onto, j) /\ k \notin Trunk(onto)
  BY DEF Meets
<1>6. Joined(P, i, k) /\ Joined(P, j, k)
  BY <1>4, <1>5
<1>7. Joined(P, k, j)
  BY <1>6 DEF Joined
<1> QED BY <1>3, <1>6, <1>7

LEMMA SegmentsAre ==
  ASSUME NEW N, NEW onto, Later(onto, N), NEW side, side = 1..N \ Trunk(onto)
  PROVE  /\ Partition(SegmentsOf(onto, side), side)
         /\ \A i, j \in side : Joined(SegmentsOf(onto, side), i, j) <=> Meets(onto, i, j)
<1>1. N \in Nat /\ N = Len(onto)
  BY DEF Later
<1>2. PICK V : V = SUBSET SUBSET side
  OBVIOUS
<1>3. PICK base : base = {{i} : i \in side}
  OBVIOUS
<1>4. PICK op : op = [w \in (1..N) \X V |-> IF w[1] \in side /\ onto[w[1]] \in side
                                            THEN Unite(w[2], w[1], onto[w[1]]) ELSE w[2]]
  OBVIOUS
<1>5. ASSUME NEW W \in V, NEW i, NEW j PROVE Unite(W, i, j) \in V
  BY <1>2 DEF Unite
<1>6. op \in [(1..N) \X V -> V]
  <2>1. \A n \in 1..N, W \in V : Unite(W, n, onto[n]) \in V
    BY <1>5
  <2> QED BY <1>4, <2>1
<1>7. base \in V
  BY <1>2, <1>3
<1>8. PICK f \in [0..N -> V] : Recurs(f, N, base, op)
  BY <1>1, <1>6, <1>7, RecursExist
<1>9. ASSUME NEW n \in 0..N
      PROVE  f[n] = IF n = 0 THEN base
                    ELSE IF n \in side /\ onto[n] \in side THEN Unite(f[n - 1], n, onto[n]) ELSE f[n - 1]
  <2>1. f[n] = IF n = 0 THEN base ELSE op[<<n, f[n - 1]>>]
    BY <1>8 DEF Recurs
  <2>2. CASE n # 0
    <3>1. n - 1 \in 0..N /\ n \in 1..N
      BY <1>1, <2>2
    <3>2. f[n - 1] \in V
      BY <3>1
    <3>3. op[<<n, f[n - 1]>>] = IF n \in side /\ onto[n] \in side THEN Unite(f[n - 1], n, onto[n]) ELSE f[n - 1]
      BY <1>4, <3>1, <3>2
    <3> QED BY <2>1, <2>2, <3>3
  <2> QED BY <2>1, <2>2
<1>10. Segmenting(f, onto, side)
  BY <1>1, <1>3, <1>8, <1>9 DEF Segmenting, Recurs
<1>11. PICK x : x = CHOOSE y : Segmenting(y, onto, side)
  OBVIOUS
<1>12. Segmenting(x, onto, side)
  BY <1>10, <1>11
<1>13. SegmentsOf(onto, side) = x[N]
  BY <1>1, <1>11 DEF SegmentsOf, Segmenting
<1>14. PICK G : G = {n \in 0..N : Segmented(x[n], onto, side, n)}
  OBVIOUS
<1>15. 0 \in G
  <2>1. x[0] = base
    BY <1>1, <1>3, <1>12 DEF Segmenting
  <2>2. \A i \in side : Meets(onto, i, i)
    <3>1. SUFFICES ASSUME NEW i \in side PROVE Meets(onto, i, i)
      OBVIOUS
    <3>2. i \in 1..N /\ i \notin Trunk(onto)
      OBVIOUS
    <3>3. i \in Chain(onto, i)
      BY <3>2, ChainIs
    <3> QED BY <3>2, <3>3 DEF Meets
  <2>3. Segmented(base, onto, side, 0)
    BY <1>3, <2>2, SegmentsStart
  <2>4. Segmented(x[0], onto, side, 0)
    BY <2>1, <2>3
  <2>5. 0 \in 0..N
    BY <1>1
  <2> QED BY <1>14, <2>4, <2>5
<1>16. ASSUME NEW n \in 1..N, n - 1 \in G PROVE n \in G
  <2>1. x[n] = IF n \in side /\ onto[n] \in side THEN Unite(x[n - 1], n, onto[n]) ELSE x[n - 1]
    <3>1. n \in 0..Len(onto) /\ n # 0
      BY <1>1
    <3> QED BY <1>12, <3>1 DEF Segmenting
  <2>2. PICK P : P = x[n - 1]
    OBVIOUS
  <2>3. Segmented(P, onto, side, n - 1)
    BY <1>14, <1>16, <2>2
  <2>4. Segmented(IF n \in side /\ onto[n] \in side THEN Unite(P, n, onto[n]) ELSE P, onto, side, n)
    BY <2>3, SegmentsGrow
  <2>5. Segmented(x[n], onto, side, n)
    BY <2>1, <2>2, <2>4
  <2> QED BY <1>14, <2>5
<1>17. \A n \in 0..N : n \in G
  <2>1. \A n \in 1..N : n - 1 \in G => n \in G
    BY <1>16
  <2> QED BY <1>1, <1>15, <2>1, Upward
<1>18. Segmented(x[N], onto, side, N)
  BY <1>1, <1>14, <1>17
<1>19. PICK P : P = x[N]
  OBVIOUS
<1>20. Segmented(P, onto, side, N)
  BY <1>18, <1>19
<1>21. \A i, j \in side : Meets(onto, i, j) => Joined(P, i, j)
  BY <1>20, SegmentsEnd
<1> QED BY <1>13, <1>19, <1>20, <1>21 DEF Segmented

-----------------------------------------------------------------------------
(* Lists of commits: no commit is listed twice.                            *)

Distinct(list) ==
  /\ DOMAIN list = 1..Len(list) /\ Len(list) \in Nat
  /\ \A i, j \in 1..Len(list) : list[i].oid = list[j].oid => i = j

LEMMA RowOfIs ==
  ASSUME NEW list, Distinct(list), NEW c
  PROVE  /\ RowOf(list, c) \in 0..Len(list)
         /\ RowOf(list, c) # 0 => list[RowOf(list, c)].oid = c
         /\ \A i \in 1..Len(list) : list[i].oid = c => RowOf(list, c) = i
<1>1. PICK T : T = {i \in DOMAIN list : list[i].oid = c}
  OBVIOUS
<1>2. DOMAIN list = 1..Len(list) /\ Len(list) \in Nat
  BY DEF Distinct
<1>3. \A i : i \in T <=> i \in 1..Len(list) /\ list[i].oid = c
  BY <1>1, <1>2
<1>4. T \subseteq Nat /\ 0 \notin T
  BY <1>2, <1>3
<1>5. RowOf(list, c) = FirstOf(T)
  BY <1>1 DEF RowOf
<1>6. /\ T = {} => FirstOf(T) = 0
      /\ T # {} => FirstOf(T) \in T /\ FirstOf(T) # 0
  BY <1>4, FirstIs
<1>7. \A i, j \in T : i = j
  BY <1>3 DEF Distinct
<1>8. FirstOf(T) # 0 => FirstOf(T) \in T
  BY <1>6
<1>9. FirstOf(T) \in 0..Len(list)
  BY <1>2, <1>3, <1>6
<1>10. \A i \in T : FirstOf(T) = i
  BY <1>6, <1>7
<1> QED BY <1>3, <1>5, <1>8, <1>9, <1>10

Cells == {"commit", "empty", "straight", "mergeLeft", "mergeRight", "forkLeft", "forkRight",
          "rightTee", "leftTee", "cross", "horizontal"}
Lines == [oid : Nat, col : Nat, cells : Seq(Cells), spans : Seq(Nat \X Nat)]
Shown == [oid : Nat, hidden : Nat]

(* Parents are older than their child.                                     *)
Ancestry ==
  /\ parents \in Seq(Seq(Nat)) /\ Len(parents) \in Nat
  /\ \A c \in 1..Len(parents) : \A i \in 1..Len(parents[c]) : parents[c][i] \in 1..(c - 1)

(* Rows of commits of the history, newest first.                           *)
Descends(rows) ==
  /\ rows \in Seq(Lines)
  /\ \A i \in 1..Len(rows) : rows[i].oid \in 1..Len(parents)
  /\ \A i, j \in 1..Len(rows) : i < j => rows[j].oid < rows[i].oid

LEMMA DescendsDistinct ==
  ASSUME NEW rows, Descends(rows), Ancestry
  PROVE  Distinct(rows)
<1>1. rows \in Seq(Lines) /\ Len(rows) \in Nat /\ DOMAIN rows = 1..Len(rows)
  BY DEF Descends
<1>2. ASSUME NEW i \in 1..Len(rows), NEW j \in 1..Len(rows), rows[i].oid = rows[j].oid PROVE i = j
  <2>1. rows[i].oid \in Nat
    BY DEF Descends, Ancestry
  <2>2. ~(i < j) /\ ~(j < i)
    BY <1>2, <2>1 DEF Descends
  <2> QED BY <1>1, <2>2
<1> QED BY <1>1, <1>2 DEF Distinct

LEMMA OntosLater ==
  ASSUME NEW rows, Descends(rows), Ancestry
  PROVE  Later(Ontos(rows), Len(rows))
<1>1. Distinct(rows)
  BY DescendsDistinct
<1>2. Len(rows) \in Nat /\ DOMAIN rows = 1..Len(rows)
  BY <1>1 DEF Distinct
<1>3. PICK onto : onto = Ontos(rows)
  OBVIOUS
<1>4. onto = [i \in 1..Len(rows) |-> Onto(rows, i)]
  BY <1>2, <1>3 DEF Ontos
<1>5. ASSUME NEW i \in 1..Len(rows)
      PROVE  onto[i] \in 0..Len(rows) /\ (onto[i] # 0 => i < onto[i])
  <2>1. onto[i] = Onto(rows, i)
    BY <1>4
  <2>2. PICK c \in 1..Len(parents) : c = rows[i].oid
    BY DEF Descends
  <2>3. CASE parents[c] = <<>>
    BY <1>2, <2>1, <2>2, <2>3 DEF Onto
  <2>4. CASE parents[c] # <<>>
    <3>1. parents[c] \in Seq(Nat) /\ Len(parents[c]) \in Nat /\ Len(parents[c]) # 0
      BY <2>4 DEF Ancestry
    <3>2. parents[c][1] \in 1..(c - 1)
      BY <3>1 DEF Ancestry
    <3>3. PICK m : m = RowOf(rows, parents[c][1])
      OBVIOUS
    <3>4. onto[i] = m
      BY <2>1, <2>2, <2>4, <3>3 DEF Onto
    <3>5. m \in 0..Len(rows) /\ (m # 0 => rows[m].oid = parents[c][1])
      BY <1>1, <3>3, RowOfIs
    <3>6. m # 0 => i < m
      <4>1. SUFFICES ASSUME m # 0, ~(i < m) PROVE FALSE
        OBVIOUS
      <4>2. m \in 1..Len(rows) /\ m <= i
        BY <1>2, <3>5, <4>1
      <4>3. m = i \/ rows[i].oid < rows[m].oid
        BY <4>2, <1>2 DEF Descends
      <4>4. rows[m].oid < c /\ rows[m].oid \in Nat /\ c \in Nat
        <5>1. rows[m].oid = parents[c][1]
          BY <3>5, <4>1
        <5> QED BY <2>1, <3>2, <5>1
      <4> QED BY <2>2, <4>3, <4>4
    <3> QED BY <3>4, <3>5, <3>6
  <2> QED BY <2>3, <2>4
<1>6. onto \in Seq(Nat) /\ Len(onto) = Len(rows)
  <2>1. onto \in [1..Len(rows) -> Nat]
    BY <1>2, <1>4, <1>5
  <2> QED BY <1>2, <2>1
<1> QED BY <1>2, <1>3, <1>5, <1>6 DEF Later

-----------------------------------------------------------------------------
(* Projection: a folded segment is one placeholder.                        *)

FoldedOf(rows, P, collapsed) == {s \in P : rows[Min(s)].oid \in collapsed}

KeptOf(rows, P, collapsed) ==
  {i \in 1..Len(rows) : \A s \in FoldedOf(rows, P, collapsed) : i \in s => i = Min(s)}

KeptList(rows, P, collapsed) == InOrder(KeptOf(rows, P, collapsed), Len(rows))

LEMMA KeptIs ==
  ASSUME NEW rows, Len(rows) \in Nat, NEW P, NEW collapsed
  PROVE  Listed(KeptList(rows, P, collapsed), KeptOf(rows, P, collapsed))
<1>1. PICK T : T = KeptOf(rows, P, collapsed)
  OBVIOUS
<1>2. T \cap (1..Len(rows)) = T
  BY <1>1 DEF KeptOf
<1>3. Listed(InOrder(T, Len(rows)), T \cap (1..Len(rows)))
  BY InOrderIs
<1> QED BY <1>1, <1>2, <1>3 DEF KeptList

LEMMA ProjectIs ==
  ASSUME NEW rows, DOMAIN rows = 1..Len(rows), Len(rows) \in Nat, NEW P, NEW collapsed,
         NEW kept, kept = KeptList(rows, P, collapsed), NEW folded, folded = FoldedOf(rows, P, collapsed),
         NEW shown, shown = Project(rows, P, collapsed)
  PROVE  /\ DOMAIN shown = 1..Len(kept) /\ Len(kept) \in Nat /\ Len(shown) = Len(kept)
         /\ \A k \in 1..Len(kept) :
              shown[k] = [oid |-> rows[kept[k]].oid, hidden |-> Cardinality(SegmentAt(folded, kept[k]))]
<1>1. Len(kept) \in Nat /\ DOMAIN kept = 1..Len(kept)
  BY KeptIs DEF Listed
<1>2. KeptOf(rows, P, collapsed) = {i \in DOMAIN rows : \A s \in folded : i \in s => i = Min(s)}
  BY DEF KeptOf
<1>3. kept = InOrder({i \in DOMAIN rows : \A s \in folded : i \in s => i = Min(s)}, Len(rows))
  BY <1>2 DEF KeptList
<1>4. shown = [k \in DOMAIN kept |->
                 [oid |-> rows[kept[k]].oid, hidden |-> Cardinality(SegmentAt(folded, kept[k]))]]
  BY <1>3 DEF Project, FoldedOf
<1>5. shown = [k \in 1..Len(kept) |->
                 [oid |-> rows[kept[k]].oid, hidden |-> Cardinality(SegmentAt(folded, kept[k]))]]
  BY <1>1, <1>4
<1> QED BY <1>1, <1>5

(* The folded segments are a partition of what they have.                  *)
LEMMA FoldedApart ==
  ASSUME NEW rows, NEW S, NEW P, Partition(P, S), NEW collapsed, NEW folded,
         folded = FoldedOf(rows, P, collapsed)
  PROVE  Partition(folded, UNION folded) /\ UNION folded \subseteq S
<1>1. \A s : s \in folded <=> s \in P /\ rows[Min(s)].oid \in collapsed
  BY DEF FoldedOf
<1>2. \A s \in folded : s \subseteq S /\ s # {} /\ s \subseteq UNION folded
  BY <1>1 DEF Partition
<1>3. \A i \in UNION folded : Joined(folded, i, i)
  BY DEF Joined
<1>4. \A s, t \in folded : \A i \in s : i \in t => s = t
  BY <1>1 DEF Partition
<1> QED BY <1>2, <1>3, <1>4 DEF Partition

(* The rows that row i, kept, stands for.                                  *)
Unit(folded, i) == {i} \cup SegmentAt(folded, i)

LEMMA UnitSize ==
  ASSUME NEW n \in Nat, NEW i \in 1..n, NEW folded, \A s \in folded : s \subseteq 1..n
  PROVE  /\ IsFiniteSet(SegmentAt(folded, i)) /\ Cardinality(SegmentAt(folded, i)) \in Nat
         /\ IsFiniteSet(Unit(folded, i))
         /\ Cardinality(Unit(folded, i)) = Max({1, Cardinality(SegmentAt(folded, i))})
<1>1. PICK s : s = SegmentAt(folded, i)
  OBVIOUS
<1>2. s \subseteq 1..n /\ (s # {} => i \in s)
  BY <1>1 DEF SegmentAt
<1>3. IsFiniteSet(1..n)
  BY FS_Interval
<1>4. IsFiniteSet(s) /\ Cardinality(s) \in Nat
  BY <1>2, <1>3, FS_Subset, FS_CardinalityType
<1>5. PICK u : u = Unit(folded, i)
  OBVIOUS
<1>6. CASE s = {}
  <2>1. u = {i} /\ Cardinality(s) = 0
    BY <1>1, <1>5, <1>6, FS_EmptySet DEF Unit
  <2>2. IsFiniteSet(u) /\ Cardinality(u) = 1
    BY <2>1, FS_Singleton
  <2>3. Max({1, 0}) = 1
    BY MaxPair
  <2> QED BY <1>1, <1>4, <1>5, <2>1, <2>2, <2>3
<1>7. CASE s # {}
  <2>1. u = s /\ Cardinality(s) # 0
    BY <1>1, <1>2, <1>4, <1>5, <1>7, FS_EmptySet DEF Unit
  <2>2. PICK m \in Nat : m = Cardinality(s)
    BY <1>4
  <2>3. Max({1, m}) = m
    BY <2>1, <2>2, MaxPair
  <2> QED BY <1>1, <1>4, <1>5, <2>1, <2>2, <2>3
<1> QED BY <1>6, <1>7

Counting(f, shown) ==
  f = [n \in 0..Len(shown) |-> IF n = 0 THEN 0 ELSE f[n - 1] + Max({1, shown[n].hidden})]

LEMMA CountedIs ==
  ASSUME NEW shown, Len(shown) \in Nat, NEW f, Counting(f, shown)
  PROVE  Counted(shown) = f[Len(shown)]
<1>1. PICK N \in Nat : N = Len(shown)
  OBVIOUS
<1>2. PICK x : x = CHOOSE y : Counting(y, shown)
  OBVIOUS
<1>3. Counting(x, shown)
  BY <1>2
<1>4. Counted(shown) = x[N]
  BY <1>1, <1>2 DEF Counted, Counting
<1>5. PICK G : G = {n \in 0..N : x[n] = f[n]}
  OBVIOUS
<1>6. 0 \in G
  <2>1. 0 \in 0..N
    BY <1>1
  <2>2. x[0] = 0 /\ f[0] = 0
    BY <1>1, <1>3, <2>1 DEF Counting
  <2> QED BY <1>5, <2>1, <2>2
<1>7. ASSUME NEW n \in 1..N, n - 1 \in G PROVE n \in G
  <2>1. n \in 0..Len(shown) /\ n # 0 /\ n \in 0..N
    BY <1>1
  <2>2. x[n] = x[n - 1] + Max({1, shown[n].hidden})
    BY <1>3, <2>1 DEF Counting
  <2>3. f[n] = f[n - 1] + Max({1, shown[n].hidden})
    BY <2>1 DEF Counting
  <2>4. x[n - 1] = f[n - 1]
    BY <1>5, <1>7
  <2> QED BY <1>5, <2>1, <2>2, <2>3, <2>4
<1>8. \A n \in 0..N : n \in G
  <2>1. \A n \in 1..N : n - 1 \in G => n \in G
    BY <1>7
  <2> QED BY <1>1, <1>6, <2>1, Upward
<1>9. N \in G
  BY <1>1, <1>8
<1> QED BY <1>1, <1>4, <1>5, <1>9

LEMMA PlainCounts ==
  ASSUME NEW rows, DOMAIN rows = 1..Len(rows), Len(rows) \in Nat
  PROVE  Counted(Plain(rows)) = Len(rows)
<1>1. PICK N \in Nat : N = Len(rows)
  OBVIOUS
<1>2. PICK shown : shown = Plain(rows)
  OBVIOUS
<1>3. shown = [i \in 1..N |-> [oid |-> rows[i].oid, hidden |-> 0]]
  BY <1>1, <1>2 DEF Plain
<1>4. Len(shown) = N
  BY <1>3
<1>5. PICK f : f = [n \in 0..N |-> n]
  OBVIOUS
<1>6. ASSUME NEW n \in 0..N PROVE f[n] = IF n = 0 THEN 0 ELSE f[n - 1] + Max({1, shown[n].hidden})
  <2>1. CASE n # 0
    <3>1. n \in 1..N /\ n - 1 \in 0..N
      BY <2>1
    <3>2. shown[n].hidden = 0
      BY <1>3, <3>1
    <3>3. Max({1, 0}) = 1
      BY MaxPair
    <3>4. f[n] = n /\ f[n - 1] = n - 1
      BY <1>5, <3>1
    <3> QED BY <2>1, <3>1, <3>2, <3>3, <3>4
  <2> QED BY <1>5, <2>1
<1>7. Counting(f, shown)
  BY <1>4, <1>5, <1>6 DEF Counting
<1>8. Counted(shown) = f[N]
  BY <1>4, <1>7, CountedIs
<1> QED BY <1>1, <1>2, <1>5, <1>8

LEMMA SegmentTip ==
  ASSUME NEW N \in Nat, NEW s, s \subseteq 1..N, s # {}
  PROVE  Min(s) \in s /\ Min(s) \in 1..N /\ \A i \in s : Min(s) <= i
<1>1. s \subseteq Nat
  OBVIOUS
<1> QED BY <1>1, MinIs

LEMMA UnitsApart ==
  ASSUME NEW rows, NEW S, NEW P, Partition(P, S), NEW collapsed,
         NEW folded, folded = FoldedOf(rows, P, collapsed),
         NEW i \in KeptOf(rows, P, collapsed), NEW j \in KeptOf(rows, P, collapsed), NEW x,
         x \in Unit(folded, i), x \in Unit(folded, j)
  PROVE  i = j
<1>1. Partition(folded, UNION folded)
  BY FoldedApart
<1>2. \A s \in folded : (i \in s => i = Min(s)) /\ (j \in s => j = Min(s))
  BY DEF KeptOf
<1>3. x = i \/ Joined(folded, i, x)
  BY <1>1, SegmentAtIs DEF Unit
<1>4. x = j \/ Joined(folded, j, x)
  BY <1>1, SegmentAtIs DEF Unit
<1>5. SUFFICES ASSUME i # j PROVE FALSE
  OBVIOUS
<1>6. PICK s \in folded : i \in s /\ j \in s
  <2>1. CASE x = i
    BY <1>4, <1>5, <2>1 DEF Joined
  <2>2. CASE x = j
    BY <1>3, <1>5, <2>2 DEF Joined
  <2>3. CASE x # i /\ x # j
    <3>1. PICK s \in folded : i \in s /\ x \in s
      BY <1>3, <2>3 DEF Joined
    <3>2. PICK t \in folded : j \in t /\ x \in t
      BY <1>4, <2>3 DEF Joined
    <3>3. s = t
      BY <1>1, <3>1, <3>2 DEF Partition
    <3> QED BY <3>1, <3>2, <3>3
  <2> QED BY <2>1, <2>2, <2>3
<1> QED BY <1>2, <1>5, <1>6

LEMMA UnitsCover ==
  ASSUME NEW rows, Len(rows) \in Nat, NEW S, S \subseteq 1..Len(rows), NEW P, Partition(P, S), NEW collapsed,
         NEW folded, folded = FoldedOf(rows, P, collapsed), NEW i \in 1..Len(rows)
  PROVE  \E j \in KeptOf(rows, P, collapsed) : i \in Unit(folded, j)
<1>1. Partition(folded, UNION folded) /\ UNION folded \subseteq 1..Len(rows)
  <2>1. Partition(folded, UNION folded) /\ UNION folded \subseteq S
    BY FoldedApart
  <2> QED BY <2>1
<1>2. CASE i \in KeptOf(rows, P, collapsed)
  BY <1>2 DEF Unit
<1>3. CASE i \notin KeptOf(rows, P, collapsed)
  <2>1. PICK s \in folded : i \in s /\ i # Min(s)
    BY <1>3 DEF KeptOf
  <2>2. s \subseteq 1..Len(rows) /\ s # {}
    BY <1>1, <2>1
  <2>3. PICK m : m = Min(s)
    OBVIOUS
  <2>4. m \in s /\ m \in 1..Len(rows)
    BY <2>2, <2>3, SegmentTip
  <2>5. \A t \in folded : m \in t => m = Min(t)
    BY <1>1, <2>3, <2>4 DEF Partition
  <2>6. m \in KeptOf(rows, P, collapsed)
    BY <2>4, <2>5 DEF KeptOf
  <2>7. SegmentAt(folded, m) = s
    BY <1>1, <2>4, SegmentAtIs
  <2> QED BY <2>1, <2>6, <2>7 DEF Unit
<1> QED BY <1>2, <1>3

LEMMA ProjectCounts ==
  ASSUME NEW rows, DOMAIN rows = 1..Len(rows), Len(rows) \in Nat,
         NEW S, S \subseteq 1..Len(rows), NEW P, Partition(P, S), NEW collapsed
  PROVE  Counted(Project(rows, P, collapsed)) = Len(rows)
<1>1. PICK N \in Nat : N = Len(rows)
  OBVIOUS
<1>2. PICK folded : folded = FoldedOf(rows, P, collapsed)
  OBVIOUS
<1>3. PICK kept : kept = KeptList(rows, P, collapsed)
  OBVIOUS
<1>4. PICK shown : shown = Project(rows, P, collapsed)
  OBVIOUS
<1>5. PICK Keep : Keep = KeptOf(rows, P, collapsed)
  OBVIOUS
<1>6. Listed(kept, Keep)
  BY <1>3, <1>5, KeptIs
<1>7. PICK K \in Nat : K = Len(kept)
  BY <1>6 DEF Listed
<1>8. /\ Len(shown) = K
      /\ \A k \in 1..K : shown[k] = [oid |-> rows[kept[k]].oid, hidden |-> Cardinality(SegmentAt(folded, kept[k]))]
  BY <1>2, <1>3, <1>4, <1>7, ProjectIs
<1>9. /\ \A k \in 1..K : kept[k] \in Keep
      /\ \A i \in Keep : \E k \in 1..K : kept[k] = i
      /\ \A j, k \in 1..K : kept[j] = kept[k] => j = k
  <2>1. /\ kept \in Seq(Nat) /\ \A k \in 1..K : kept[k] \in Keep /\ kept[k] \in Nat
        /\ \A i \in Keep : \E k \in 1..K : kept[k] = i
        /\ \A j, k \in 1..K : j < k => kept[j] < kept[k]
    BY <1>6, <1>7 DEF Listed
  <2>2. ASSUME NEW j \in 1..K, NEW k \in 1..K, kept[j] = kept[k] PROVE j = k
    <3>1. ~(j < k) /\ ~(k < j)
      BY <2>1, <2>2
    <3> QED BY <3>1
  <2> QED BY <2>1, <2>2
<1>10. Keep \subseteq 1..N
  BY <1>1, <1>5 DEF KeptOf
<1>11. \A s \in folded : s \subseteq 1..N
  <2>1. Partition(folded, UNION folded) /\ UNION folded \subseteq S
    BY <1>2, FoldedApart
  <2> QED BY <1>1, <2>1
<1>12. PICK D : D = [n \in 0..K |-> {i \in 1..N : \E m \in 1..n : i \in Unit(folded, kept[m])}]
  OBVIOUS
<1>13. \A n \in 0..K : \A i : i \in D[n] <=> i \in 1..N /\ \E m \in 1..n : i \in Unit(folded, kept[m])
  BY <1>12
<1>14. ASSUME NEW n \in 0..K PROVE IsFiniteSet(D[n]) /\ Cardinality(D[n]) \in Nat
  <2>1. D[n] \subseteq 1..N
    BY <1>13
  <2>2. IsFiniteSet(1..N)
    BY FS_Interval
  <2> QED BY <2>1, <2>2, FS_Subset, FS_CardinalityType
<1>15. PICK f : f = [n \in 0..K |-> Cardinality(D[n])]
  OBVIOUS
<1>16. f[0] = 0
  <2>1. 0 \in 0..K /\ 1..0 = {}
    OBVIOUS
  <2>2. D[0] = {}
    BY <1>13, <2>1
  <2> QED BY <1>15, <2>1, <2>2, FS_EmptySet
<1>17. ASSUME NEW n \in 1..K PROVE f[n] = f[n - 1] + Max({1, shown[n].hidden})
  <2>1. n \in 0..K /\ n - 1 \in 0..K /\ 1..n = 1..(n - 1) \cup {n} /\ n \notin 1..(n - 1)
    OBVIOUS
  <2>2. PICK u : u = Unit(folded, kept[n])
    OBVIOUS
  <2>3. kept[n] \in Keep /\ kept[n] \in 1..N
    BY <1>9, <1>10
  <2>4. /\ Cardinality(SegmentAt(folded, kept[n])) \in Nat
        /\ IsFiniteSet(u) /\ Cardinality(u) = Max({1, Cardinality(SegmentAt(folded, kept[n]))})
    BY <1>11, <2>2, <2>3, UnitSize
  <2>5. u \subseteq 1..N
    BY <1>11, <2>2, <2>3 DEF Unit, SegmentAt
  <2>6. D[n] = D[n - 1] \cup u
    BY <1>13, <2>1, <2>2, <2>5
  <2>7. D[n - 1] \cap u = {}
    <3>1. ASSUME NEW i \in D[n - 1], i \in u PROVE FALSE
      <4>1. PICK m \in 1..(n - 1) : i \in Unit(folded, kept[m])
        BY <1>13, <2>1, <3>1
      <4>2. m \in 1..K /\ m # n /\ kept[m] \in Keep
        BY <1>9, <2>1, <4>1
      <4>3. kept[m] = kept[n]
        BY <1>2, <1>5, <2>2, <2>3, <3>1, <4>1, <4>2, UnitsApart
      <4> QED BY <1>9, <4>2, <4>3
    <3> QED BY <3>1
  <2>8. Cardinality(D[n]) = Cardinality(D[n - 1]) + Cardinality(u)
    <3>1. IsFiniteSet(D[n - 1]) /\ Cardinality(D[n - 1]) \in Nat
      BY <1>14, <2>1
    <3>2. Cardinality(D[n - 1] \cup u) = Cardinality(D[n - 1]) + Cardinality(u) - Cardinality(D[n - 1] \cap u)
      BY <2>4, <3>1, FS_Union
    <3>3. Cardinality(D[n - 1] \cap u) = 0
      BY <2>7, FS_EmptySet
    <3>4. Cardinality(u) \in Nat
      BY <2>4, FS_CardinalityType
    <3> QED BY <2>6, <3>1, <3>2, <3>3, <3>4
  <2>9. shown[n].hidden = Cardinality(SegmentAt(folded, kept[n]))
    BY <1>8
  <2> QED BY <1>15, <2>1, <2>4, <2>8, <2>9
<1>18. Counting(f, shown)
  <2>1. ASSUME NEW n \in 0..K PROVE f[n] = IF n = 0 THEN 0 ELSE f[n - 1] + Max({1, shown[n].hidden})
    <3>1. n = 0 \/ n \in 1..K
      OBVIOUS
    <3> QED BY <1>16, <1>17, <3>1
  <2>2. f = [n \in 0..K |-> f[n]]
    BY <1>15
  <2> QED BY <1>8, <2>1, <2>2 DEF Counting
<1>19. Counted(shown) = f[K]
  BY <1>8, <1>18, CountedIs
<1>20. D[K] = 1..N
  <2>1. ASSUME NEW i \in 1..N PROVE \E m \in 1..K : i \in Unit(folded, kept[m])
    <3>1. PICK j \in Keep : i \in Unit(folded, j)
      BY <1>1, <1>2, <1>5, UnitsCover
    <3>2. PICK m \in 1..K : kept[m] = j
      BY <1>9
    <3> QED BY <3>1, <3>2
  <2>2. K \in 0..K
    OBVIOUS
  <2> QED BY <1>13, <2>1, <2>2
<1>21. f[K] = N
  <2>1. Cardinality(1..N) = N
    BY FS_Interval
  <2> QED BY <1>15, <1>20, <2>1
<1> QED BY <1>1, <1>4, <1>19, <1>21

(* What is on no branch is shown, and no commit is shown twice.            *)
Projected(rows, S, shown) ==
  /\ shown \in Seq(Shown) /\ Distinct(shown)
  /\ \A i \in 1..Len(rows) \ S : \E k \in 1..Len(shown) : shown[k] = [oid |-> rows[i].oid, hidden |-> 0]
  /\ (Len(rows) # 0 /\ 1 \notin S => Len(shown) # 0)
  /\ (Len(rows) = 0 => Len(shown) = 0)
  /\ \A k \in 1..Len(shown) : \E i \in 1..Len(rows) : shown[k].oid = rows[i].oid /\ k <= i

LEMMA ProjectShows ==
  ASSUME NEW rows, Distinct(rows), \A i \in 1..Len(rows) : rows[i].oid \in Nat,
         NEW S, S \subseteq 1..Len(rows), NEW P, Partition(P, S), NEW collapsed,
         NEW shown, shown = Project(rows, P, collapsed)
  PROVE  Projected(rows, S, shown)
<1>1. PICK N \in Nat : N = Len(rows)
  BY DEF Distinct
<1>2. PICK folded : folded = FoldedOf(rows, P, collapsed)
  OBVIOUS
<1>3. PICK kept : kept = KeptList(rows, P, collapsed)
  OBVIOUS
<1>4. PICK Keep : Keep = KeptOf(rows, P, collapsed)
  OBVIOUS
<1>5. Listed(kept, Keep)
  BY <1>1, <1>3, <1>4, KeptIs
<1>6. PICK K \in Nat : K = Len(kept)
  BY <1>5 DEF Listed
<1>7. /\ DOMAIN shown = 1..K /\ Len(shown) = K
      /\ \A k \in 1..K : shown[k] = [oid |-> rows[kept[k]].oid, hidden |-> Cardinality(SegmentAt(folded, kept[k]))]
  <2>1. DOMAIN rows = 1..Len(rows)
    BY DEF Distinct
  <2> QED BY <1>1, <1>2, <1>3, <1>6, <2>1, ProjectIs
<1>8. /\ kept \in Seq(Nat) /\ \A k \in 1..K : kept[k] \in Keep /\ kept[k] \in Nat
      /\ \A i \in Keep : \E k \in 1..K : kept[k] = i
      /\ \A j, k \in 1..K : j < k => kept[j] < kept[k]
  BY <1>5, <1>6 DEF Listed
<1>9. Keep \subseteq 1..N
  BY <1>1, <1>4 DEF KeptOf
<1>10. UNION folded \subseteq S /\ \A s \in folded : s \subseteq 1..N
  <2>1. Partition(folded, UNION folded) /\ UNION folded \subseteq S
    BY <1>2, FoldedApart
  <2> QED BY <1>1, <2>1
<1>11. \A k \in 1..K : kept[k] \in 1..N /\ shown[k].oid = rows[kept[k]].oid
  BY <1>7, <1>8, <1>9
<1>12. shown \in Seq(Shown)
  <2>1. ASSUME NEW k \in 1..K PROVE shown[k] \in Shown
    <3>1. Cardinality(SegmentAt(folded, kept[k])) \in Nat
      BY <1>10, <1>11, UnitSize
    <3>2. rows[kept[k]].oid \in Nat
      BY <1>1, <1>11
    <3> QED BY <1>7, <3>1, <3>2 DEF Shown
  <2>2. shown = [k \in 1..K |-> shown[k]]
    BY <1>2, <1>3, <1>6, <1>7 DEF Project, FoldedOf
  <2> QED BY <1>7, <2>1, <2>2
<1>13. Distinct(shown)
  <2>1. ASSUME NEW j \in 1..K, NEW k \in 1..K, shown[j].oid = shown[k].oid PROVE j = k
    <3>1. kept[j] = kept[k]
      BY <1>1, <1>11, <2>1 DEF Distinct
    <3>2. ~(j < k) /\ ~(k < j)
      BY <1>8, <3>1
    <3> QED BY <3>2
  <2> QED BY <1>7, <2>1 DEF Distinct
<1>14. ASSUME NEW i \in 1..N \ S
       PROVE  \E k \in 1..K : shown[k] = [oid |-> rows[i].oid, hidden |-> 0]
  <2>1. \A s \in folded : i \notin s
    BY <1>10
  <2>2. i \in Keep
    BY <1>1, <1>2, <1>4, <2>1 DEF KeptOf
  <2>3. PICK k \in 1..K : kept[k] = i
    BY <1>8, <2>2
  <2>4. SegmentAt(folded, i) = {}
    BY <2>1 DEF SegmentAt
  <2>5. Cardinality(SegmentAt(folded, i)) = 0
    BY <2>4, FS_EmptySet
  <2> QED BY <1>7, <2>3, <2>5
<1>15. N = 0 => K = 0
  <2>1. SUFFICES ASSUME N = 0, K # 0 PROVE FALSE
    OBVIOUS
  <2>2. 1 \in 1..K
    BY <2>1
  <2> QED BY <1>11, <2>1, <2>2
<1>16. N # 0 /\ 1 \notin S => K # 0
  <2>1. SUFFICES ASSUME N # 0, 1 \notin S, K = 0 PROVE FALSE
    OBVIOUS
  <2>2. 1 \in 1..N \ S
    BY <2>1
  <2> QED BY <1>14, <2>1, <2>2
<1>17. \A k \in 1..K : k <= kept[k]
  <2>1. PICK G : G = {k \in 0..K : k # 0 => k <= kept[k]}
    OBVIOUS
  <2>2. 0 \in G
    BY <2>1
  <2>3. ASSUME NEW n \in 1..K, n - 1 \in G PROVE n \in G
    <3>1. kept[n] \in 1..N
      BY <1>11
    <3>2. CASE n # 1
      <4>1. n - 1 \in 1..K /\ n - 1 < n
        BY <3>2
      <4>2. n - 1 <= kept[n - 1] /\ kept[n - 1] < kept[n] /\ kept[n - 1] \in Nat /\ kept[n] \in Nat
        BY <1>8, <2>1, <2>3, <3>2, <4>1
      <4> QED BY <2>1, <4>1, <4>2
    <3> QED BY <2>1, <3>1, <3>2
  <2>4. \A n \in 0..K : n \in G
    <3>1. \A n \in 1..K : n - 1 \in G => n \in G
      BY <2>3
    <3> QED BY <2>2, <3>1, Upward
  <2> QED BY <2>1, <2>4
<1> QED BY <1>1, <1>7, <1>11, <1>12, <1>13, <1>14, <1>15, <1>16, <1>17 DEF Projected

(* Row i is drawn itself, or its branch is, as a placeholder.              *)
Stands(rows, S, P, shown, i) ==
  \E k \in DOMAIN shown :
    \/ shown[k] = [oid |-> rows[i].oid, hidden |-> 0]
    \/ \E j \in S : /\ i \in SegmentAt(P, j)
                    /\ shown[k] = [oid |-> rows[j].oid, hidden |-> Cardinality(SegmentAt(P, j))]

LEMMA ProjectDraws ==
  ASSUME NEW rows, DOMAIN rows = 1..Len(rows), Len(rows) \in Nat,
         NEW S, S \subseteq 1..Len(rows), NEW P, Partition(P, S), NEW collapsed,
         NEW shown, shown = Project(rows, P, collapsed), NEW i \in 1..Len(rows)
  PROVE  Stands(rows, S, P, shown, i)
<1>1. PICK folded : folded = FoldedOf(rows, P, collapsed)
  OBVIOUS
<1>2. PICK kept : kept = KeptList(rows, P, collapsed)
  OBVIOUS
<1>3. PICK j \in KeptOf(rows, P, collapsed) : i \in Unit(folded, j)
  BY <1>1, UnitsCover
<1>4. PICK k \in 1..Len(kept) : kept[k] = j
  BY <1>2, <1>3, KeptIs DEF Listed
<1>5. k \in DOMAIN shown /\ shown[k] = [oid |-> rows[j].oid, hidden |-> Cardinality(SegmentAt(folded, j))]
  BY <1>1, <1>2, <1>4, ProjectIs
<1>6. i = j \/ i \in SegmentAt(folded, j)
  BY <1>3 DEF Unit
<1>7. CASE \A s \in folded : j \notin s
  <2>1. SegmentAt(folded, j) = {}
    BY <1>7 DEF SegmentAt
  <2>2. Cardinality(SegmentAt(folded, j)) = 0
    BY <2>1, FS_EmptySet
  <2>3. i = j
    BY <1>6, <2>1
  <2> QED BY <1>5, <2>2, <2>3 DEF Stands
<1>8. ASSUME NEW s \in folded, j \in s
      PROVE  /\ j \in S /\ i \in SegmentAt(P, j)
             /\ shown[k] = [oid |-> rows[j].oid, hidden |-> Cardinality(SegmentAt(P, j))]
  <2>1. Partition(folded, UNION folded)
    BY <1>1, FoldedApart
  <2>2. SegmentAt(folded, j) = s
    BY <1>8, <2>1, SegmentAtIs
  <2>3. s \in P /\ s \subseteq S
    BY <1>1, <1>8 DEF FoldedOf, Partition
  <2>4. SegmentAt(P, j) = s
    BY <1>8, <2>3, SegmentAtIs
  <2> QED BY <1>5, <1>6, <1>8, <2>2, <2>3, <2>4
<1> QED BY <1>5, <1>7, <1>8 DEF Stands

-----------------------------------------------------------------------------
(* Lanes.                                                                  *)

ListOf(s, T) == s \in Seq(T)

LEMMA PutIs ==
  ASSUME NEW T, NEW s, ListOf(s, T), NEW x \in T, NEW i \in 1..(Len(s) + 1), NEW r, r = Put(s, i, x)
  PROVE  /\ ListOf(r, T) /\ Len(s) <= Len(r) /\ i <= Len(r) /\ r[i] = x
         /\ Len(r) = IF i <= Len(s) THEN Len(s) ELSE Len(s) + 1
         /\ \A j \in 1..Len(s) : j # i => r[j] = s[j]
         /\ \A j \in 1..Len(r) : j # i => j \in 1..Len(s)
<1>1. s \in Seq(T)
  BY DEF ListOf
<1>2. Len(s) \in Nat /\ i \in Nat /\ i # 0
  BY <1>1
<1>3. CASE i <= Len(s)
  <2>1. r = [s EXCEPT ![i] = x]
    BY <1>3 DEF Put
  <2>2. r \in Seq(T) /\ Len(r) = Len(s) /\ r[i] = x /\ \A j \in 1..Len(s) : j # i => r[j] = s[j]
    BY <1>1, <1>2, <1>3, <2>1
  <2> QED BY <1>2, <1>3, <2>2 DEF ListOf
<1>4. CASE ~(i <= Len(s))
  <2>1. r = Append(s, x) /\ i = Len(s) + 1
    BY <1>2, <1>4 DEF Put
  <2>2. r \in Seq(T) /\ Len(r) = Len(s) + 1 /\ r[i] = x /\ \A j \in 1..Len(s) : r[j] = s[j]
    BY <1>1, <1>2, <2>1
  <2> QED BY <1>2, <1>4, <2>1, <2>2 DEF ListOf
<1> QED BY <1>3, <1>4

LEMMA LaneIs ==
  ASSUME NEW lanes \in Seq(Nat), NEW c
  PROVE  /\ LaneOf(lanes, c) \in 0..Len(lanes)
         /\ LaneOf(lanes, c) # 0 => lanes[LaneOf(lanes, c)] = c
         /\ LaneOf(lanes, c) = 0 => \A i \in 1..Len(lanes) : lanes[i] # c
<1>1. PICK T : T = {i \in DOMAIN lanes : lanes[i] = c}
  OBVIOUS
<1>2. DOMAIN lanes = 1..Len(lanes) /\ Len(lanes) \in Nat
  OBVIOUS
<1>3. \A i : i \in T <=> i \in 1..Len(lanes) /\ lanes[i] = c
  BY <1>1, <1>2
<1>4. T \subseteq Nat /\ 0 \notin T
  BY <1>2, <1>3
<1>5. LaneOf(lanes, c) = FirstOf(T)
  BY <1>1 DEF LaneOf
<1>6. /\ T = {} => FirstOf(T) = 0
      /\ T # {} => FirstOf(T) \in T /\ FirstOf(T) # 0
  BY <1>4, FirstIs
<1> QED BY <1>2, <1>3, <1>5, <1>6

LEMMA FreeIs ==
  ASSUME NEW lanes \in Seq(Nat)
  PROVE  /\ FreeLane(lanes) \in 1..(Len(lanes) + 1)
         /\ FreeLane(lanes) <= Len(lanes) => lanes[FreeLane(lanes)] = 0
<1>1. Len(lanes) \in Nat
  OBVIOUS
<1>2. /\ LaneOf(lanes, 0) \in 0..Len(lanes)
      /\ LaneOf(lanes, 0) # 0 => lanes[LaneOf(lanes, 0)] = 0
  BY LaneIs
<1> QED BY <1>1, <1>2 DEF FreeLane

On(lanes, p) == \E i \in 1..Len(lanes) : lanes[i] = p

(* Every commit has at most one lane.                                      *)
Single(lanes) == \A i, j \in 1..Len(lanes) : lanes[i] = lanes[j] /\ lanes[i] # 0 => i = j

Rows == [oid : Nat, col : Nat, lanes : Seq(Nat), spans : Seq(Nat \X Nat), cells : Seq(Cells)]

Rowed(row) == row \in Rows /\ Len(row.cells) = Len(row.lanes) /\ row.col \in 1..Len(row.lanes)

(* A drawn link between lanes y and col.                                   *)
Tied(spans, y, col) == y = col \/ \E i \in 1..Len(spans) : spans[i] = Span(y, col)

LEMMA SpanIs ==
  ASSUME NEW i \in Nat, NEW j \in Nat
  PROVE  /\ Span(i, j) \in Nat \X Nat /\ Span(i, j) = Span(j, i)
         /\ Span(i, j)[1] = (IF i <= j THEN i ELSE j) /\ Span(i, j)[2] = (IF i <= j THEN j ELSE i)
<1>1. Min({i, j}) = IF i <= j THEN i ELSE j
  BY MinPair
<1>2. Max({i, j}) = IF i <= j THEN j ELSE i
  BY MaxPair
<1>3. {i, j} = {j, i}
  OBVIOUS
<1> QED BY <1>1, <1>2, <1>3 DEF Span

(* What FirstParent and ForkLane make of a row.                            *)
Merged(row, lane, cell, r) ==
  /\ Rowed(r) /\ r.oid = row.oid /\ r.col = row.col /\ r.lanes = row.lanes
  /\ \A i \in 1..Len(row.cells) : i # row.col => r.cells[i] = row.cells[i]
  /\ r.cells[row.col] = cell /\ Len(r.cells) = Len(row.cells)
  /\ r.spans = Append(row.spans, Span(lane, row.col))

Forked(row, lane, p, cell, r) ==
  /\ Rowed(r) /\ r.oid = row.oid /\ r.col = row.col
  /\ lane \in 1..(Len(row.lanes) + 1) /\ (lane <= Len(row.lanes) => row.lanes[lane] = 0)
  /\ Len(row.lanes) <= Len(r.lanes) /\ lane <= Len(r.lanes) /\ r.lanes[lane] = p
  /\ \A i \in 1..Len(row.lanes) : i # lane => r.lanes[i] = row.lanes[i] /\ r.cells[i] = row.cells[i]
  /\ \A i \in 1..Len(r.lanes) : i # lane => i \in 1..Len(row.lanes)
  /\ r.cells[lane] = cell
  /\ r.spans = Append(row.spans, Span(lane, row.col))

LEMMA MergedIs ==
  ASSUME NEW row, Rowed(row), NEW lane \in 1..Len(row.lanes), NEW cell \in Cells, NEW r,
         r = [row EXCEPT !.cells = Put(@, row.col, cell), !.spans = Append(@, Span(lane, row.col))]
  PROVE  Merged(row, lane, cell, r)
<1>1. row \in Rows /\ Len(row.cells) = Len(row.lanes) /\ row.col \in 1..Len(row.lanes)
  BY DEF Rowed
<1>2. /\ row.cells \in Seq(Cells) /\ row.spans \in Seq(Nat \X Nat) /\ row.lanes \in Seq(Nat)
      /\ Len(row.lanes) \in Nat /\ row.col \in Nat /\ row.oid \in Nat
  BY <1>1 DEF Rows
<1>3. PICK cells : cells = Put(row.cells, row.col, cell)
  OBVIOUS
<1>4. /\ cells \in Seq(Cells) /\ Len(cells) = Len(row.cells) /\ cells[row.col] = cell
      /\ \A i \in 1..Len(row.cells) : i # row.col => cells[i] = row.cells[i]
  <2>1. PICK s : s = row.cells /\ ListOf(s, Cells) /\ s \in Seq(Cells)
    BY <1>2 DEF ListOf
  <2>2. PICK i \in 1..(Len(s) + 1) : i = row.col /\ i <= Len(s)
    BY <1>1, <1>2, <2>1
  <2>3. cells = Put(s, i, cell)
    BY <1>3, <2>1, <2>2
  <2>4. /\ ListOf(cells, Cells) /\ cells[i] = cell
        /\ Len(cells) = IF i <= Len(s) THEN Len(s) ELSE Len(s) + 1
        /\ \A j \in 1..Len(s) : j # i => cells[j] = s[j]
    BY <2>1, <2>3, PutIs
  <2> QED BY <2>1, <2>2, <2>4 DEF ListOf
<1>5. PICK spans : spans = Append(row.spans, Span(lane, row.col))
  OBVIOUS
<1>6. spans \in Seq(Nat \X Nat)
  <2>1. lane \in Nat
    BY <1>2
  <2>2. Span(lane, row.col) \in Nat \X Nat
    BY <1>2, <2>1, SpanIs
  <2> QED BY <1>2, <1>5, <2>2
<1>7. r = [row EXCEPT !.cells = cells, !.spans = spans]
  BY <1>3, <1>5
<1>8. r \in Rows /\ r.oid = row.oid /\ r.col = row.col /\ r.lanes = row.lanes /\ r.cells = cells /\ r.spans = spans
  BY <1>1, <1>4, <1>6, <1>7 DEF Rows
<1> QED BY <1>1, <1>4, <1>5, <1>8 DEF Rowed, Merged

LEMMA ForkedIs ==
  ASSUME NEW row, Rowed(row), NEW p \in Nat, NEW lane, lane = FreeLane(row.lanes), NEW cell \in Cells, NEW r,
         r = [row EXCEPT !.lanes = Put(@, lane, p), !.cells = Put(@, lane, cell),
                         !.spans = Append(@, Span(lane, row.col))]
  PROVE  Forked(row, lane, p, cell, r)
<1>1. row \in Rows /\ Len(row.cells) = Len(row.lanes) /\ row.col \in 1..Len(row.lanes)
  BY DEF Rowed
<1>2. /\ row.cells \in Seq(Cells) /\ row.spans \in Seq(Nat \X Nat) /\ row.lanes \in Seq(Nat)
      /\ Len(row.lanes) \in Nat /\ row.col \in Nat /\ row.oid \in Nat
  BY <1>1 DEF Rows
<1>3. lane \in 1..(Len(row.lanes) + 1) /\ (lane <= Len(row.lanes) => row.lanes[lane] = 0)
  BY <1>2, FreeIs
<1>4. PICK cells : cells = Put(row.cells, lane, cell)
  OBVIOUS
<1>5. /\ cells \in Seq(Cells) /\ cells[lane] = cell
      /\ Len(cells) = IF lane <= Len(row.lanes) THEN Len(row.lanes) ELSE Len(row.lanes) + 1
      /\ \A i \in 1..Len(row.cells) : i # lane => cells[i] = row.cells[i]
  <2>1. PICK s : s = row.cells /\ ListOf(s, Cells) /\ s \in Seq(Cells)
    BY <1>2 DEF ListOf
  <2>2. PICK i \in 1..(Len(s) + 1) : i = lane
    BY <1>1, <1>3, <2>1
  <2>3. cells = Put(s, i, cell)
    BY <1>4, <2>1, <2>2
  <2>4. /\ ListOf(cells, Cells) /\ cells[i] = cell
        /\ Len(cells) = IF i <= Len(s) THEN Len(s) ELSE Len(s) + 1
        /\ \A j \in 1..Len(s) : j # i => cells[j] = s[j]
    BY <2>1, <2>3, PutIs
  <2> QED BY <1>1, <2>1, <2>2, <2>4 DEF ListOf
<1>6. PICK lanes : lanes = Put(row.lanes, lane, p)
  OBVIOUS
<1>7. /\ lanes \in Seq(Nat) /\ Len(row.lanes) <= Len(lanes) /\ lane <= Len(lanes) /\ lanes[lane] = p
      /\ Len(lanes) = IF lane <= Len(row.lanes) THEN Len(row.lanes) ELSE Len(row.lanes) + 1
      /\ \A i \in 1..Len(row.lanes) : i # lane => lanes[i] = row.lanes[i]
      /\ \A i \in 1..Len(lanes) : i # lane => i \in 1..Len(row.lanes)
  <2>0. PICK T : T = Nat
    OBVIOUS
  <2>1. PICK s : s = row.lanes /\ ListOf(s, T) /\ s \in Seq(T) /\ p \in T
    BY <1>2, <2>0 DEF ListOf
  <2>2. PICK i \in 1..(Len(s) + 1) : i = lane
    BY <1>3, <2>1
  <2>3. lanes = Put(s, i, p)
    BY <1>6, <2>1, <2>2
  <2>4. /\ ListOf(lanes, T) /\ Len(s) <= Len(lanes) /\ i <= Len(lanes) /\ lanes[i] = p
        /\ Len(lanes) = IF i <= Len(s) THEN Len(s) ELSE Len(s) + 1
        /\ \A j \in 1..Len(s) : j # i => lanes[j] = s[j]
        /\ \A j \in 1..Len(lanes) : j # i => j \in 1..Len(s)
    BY <2>1, <2>3, PutIs
  <2> QED BY <2>0, <2>1, <2>2, <2>4 DEF ListOf
<1>8. PICK spans : spans = Append(row.spans, Span(lane, row.col))
  OBVIOUS
<1>9. spans \in Seq(Nat \X Nat)
  <2>1. lane \in Nat
    BY <1>2, <1>3
  <2>2. Span(lane, row.col) \in Nat \X Nat
    BY <1>2, <2>1, SpanIs
  <2> QED BY <1>2, <1>8, <2>2
<1>10. r = [row EXCEPT !.lanes = lanes, !.cells = cells, !.spans = spans]
  BY <1>4, <1>6, <1>8
<1>11. r \in Rows /\ r.oid = row.oid /\ r.col = row.col /\ r.lanes = lanes /\ r.cells = cells /\ r.spans = spans
  BY <1>1, <1>5, <1>7, <1>9, <1>10 DEF Rows
<1>12. row.col \in 1..Len(lanes)
  BY <1>1, <1>2, <1>7
<1> QED BY <1>1, <1>3, <1>5, <1>7, <1>8, <1>11, <1>12 DEF Rowed, Forked

(* The row of commit c, whose lanes were L, linked to the first n of ps.   *)
Linking(row, L, c, ps, n) ==
  /\ Rowed(row) /\ row.oid = c
  /\ Len(L) <= Len(row.lanes) /\ Single(row.lanes)
  /\ \A i \in 1..Len(L) : L[i] # 0 /\ L[i] # c => row.lanes[i] = L[i] /\ i # row.col
  /\ \A i \in 1..Len(L) : L[i] = c => row.col = i
  /\ \A p \in Nat : p # 0 => (On(row.lanes, p) <=> (p # c /\ On(L, p)) \/ \E m \in 1..n : ps[m] = p)
  /\ \A i \in 1..Len(row.cells) : row.cells[i] \in Vertical <=> i <= Len(L) /\ L[i] # 0 /\ L[i] # c
  /\ \A m \in 1..n : \A y \in 1..Len(row.lanes) :
       row.lanes[y] = ps[m] => (On(L, ps[m]) /\ ps[1] # ps[m]) \/ Tied(row.spans, y, row.col)
  /\ n = 0 => row.lanes[row.col] = 0

LEMMA TiedGrows ==
  ASSUME NEW spans \in Seq(Nat \X Nat), NEW x \in Nat \X Nat
  PROVE  /\ \A y, col : Tied(spans, y, col) => Tied(Append(spans, x), y, col)
         /\ \A y, col : x = Span(y, col) => Tied(Append(spans, x), y, col)
<1>1. PICK t : t = Append(spans, x)
  OBVIOUS
<1>2. /\ Len(spans) \in Nat /\ Len(t) = Len(spans) + 1 /\ t[Len(t)] = x /\ Len(t) \in 1..Len(t)
      /\ \A i \in 1..Len(spans) : t[i] = spans[i] /\ i \in 1..Len(t)
  BY <1>1
<1> QED BY <1>1, <1>2 DEF Tied

LEMMA CommitLane ==
  ASSUME NEW L \in Seq(Nat), Single(L), NEW c \in Nat, c # 0, NEW col,
         col = IF LaneOf(L, c) # 0 THEN LaneOf(L, c) ELSE FreeLane(L)
  PROVE  /\ col \in 1..(Len(L) + 1)
         /\ col <= Len(L) => L[col] = 0 \/ L[col] = c
         /\ \A i \in 1..Len(L) : L[i] = c => i = col
<1>1. Len(L) \in Nat
  OBVIOUS
<1>2. /\ LaneOf(L, c) \in 0..Len(L)
      /\ LaneOf(L, c) # 0 => L[LaneOf(L, c)] = c
      /\ LaneOf(L, c) = 0 => \A i \in 1..Len(L) : L[i] # c
  BY LaneIs
<1>3. CASE LaneOf(L, c) # 0
  <2>1. col \in 1..Len(L) /\ L[col] = c
    BY <1>1, <1>2, <1>3
  <2>2. \A i \in 1..Len(L) : L[i] = c => i = col
    BY <2>1 DEF Single
  <2> QED BY <1>1, <2>1, <2>2
<1>4. CASE LaneOf(L, c) = 0
  <2>1. col = FreeLane(L)
    BY <1>4
  <2>2. FreeLane(L) \in 1..(Len(L) + 1) /\ (FreeLane(L) <= Len(L) => L[FreeLane(L)] = 0)
    BY FreeIs
  <2> QED BY <1>2, <1>4, <2>1, <2>2
<1> QED BY <1>3, <1>4

LEMMA LinkStarts ==
  ASSUME NEW L \in Seq(Nat), Single(L), NEW c \in Nat, c # 0, NEW col, NEW ps,
         col = IF LaneOf(L, c) # 0 THEN LaneOf(L, c) ELSE FreeLane(L)
  PROVE  Linking(RowAt(L, col, c), L, c, ps, 0)
<1>1. /\ col \in 1..(Len(L) + 1) /\ Len(L) \in Nat /\ col \in Nat
      /\ col <= Len(L) => L[col] = 0 \/ L[col] = c
      /\ \A i \in 1..Len(L) : L[i] = c => i = col
  <2>1. col \in 1..(Len(L) + 1) /\ (col <= Len(L) => L[col] = 0 \/ L[col] = c)
        /\ \A i \in 1..Len(L) : L[i] = c => i = col
    BY CommitLane
  <2> QED BY <2>1
<1>2. PICK T : T = Nat
  OBVIOUS
<1>3. ListOf(L, T) /\ 0 \in T /\ c \in T
  BY <1>2 DEF ListOf
<1>4. PICK t : t = Put(L, col, 0)
  OBVIOUS
<1>5. /\ t \in Seq(Nat) /\ Len(L) <= Len(t) /\ col <= Len(t) /\ t[col] = 0
      /\ Len(t) = IF col <= Len(L) THEN Len(L) ELSE Len(L) + 1
      /\ \A j \in 1..Len(L) : j # col => t[j] = L[j]
      /\ \A j \in 1..Len(t) : j # col => j \in 1..Len(L)
  <2>1. /\ ListOf(t, T) /\ Len(L) <= Len(t) /\ col <= Len(t) /\ t[col] = 0
        /\ Len(t) = IF col <= Len(L) THEN Len(L) ELSE Len(L) + 1
        /\ \A j \in 1..Len(L) : j # col => t[j] = L[j]
        /\ \A j \in 1..Len(t) : j # col => j \in 1..Len(L)
    BY <1>1, <1>3, <1>4, PutIs
  <2> QED BY <1>2, <2>1 DEF ListOf
<1>6. PICK u : u = Put(L, col, c)
  OBVIOUS
<1>7. u \in Seq(Nat) /\ Len(u) = Len(t)
  <2>1. ListOf(u, T) /\ Len(u) = IF col <= Len(L) THEN Len(L) ELSE Len(L) + 1
    BY <1>1, <1>3, <1>6, PutIs
  <2> QED BY <1>2, <1>5, <2>1 DEF ListOf
<1>8. PICK N \in Nat : N = Len(t)
  BY <1>5
<1>9. PICK cells : cells = [i \in 1..N |-> IF i = col THEN "commit" ELSE IF L[i] = 0 THEN "empty" ELSE "straight"]
  OBVIOUS
<1>10. cells \in Seq(Cells) /\ Len(cells) = N
  <2>1. cells \in [1..N -> Cells]
    BY <1>9 DEF Cells
  <2> QED BY <2>1
<1>11. PICK r : r = RowAt(L, col, c)
  OBVIOUS
<1>12. r = [oid |-> c, col |-> col, lanes |-> t, spans |-> <<>>, cells |-> cells]
  <2>1. DOMAIN u = 1..N
    BY <1>7, <1>8
  <2> QED BY <1>4, <1>6, <1>9, <1>11, <2>1 DEF RowAt
<1>13. Rowed(r) /\ r.oid = c /\ r.col = col /\ r.lanes = t /\ r.cells = cells
  BY <1>1, <1>5, <1>8, <1>10, <1>12 DEF Rowed, Rows
<1>14. Single(t)
  <2>1. SUFFICES ASSUME NEW i \in 1..Len(t), NEW j \in 1..Len(t), t[i] = t[j], t[i] # 0 PROVE i = j
    BY DEF Single
  <2>2. i # col /\ j # col
    BY <1>5, <2>1
  <2>3. i \in 1..Len(L) /\ j \in 1..Len(L) /\ t[i] = L[i] /\ t[j] = L[j]
    BY <1>5, <2>2
  <2> QED BY <2>1, <2>3 DEF Single
<1>15. ASSUME NEW i \in 1..Len(L), L[i] # 0, L[i] # c PROVE t[i] = L[i] /\ i # col
  BY <1>1, <1>5, <1>15
<1>16. ASSUME NEW p \in Nat, p # 0 PROVE On(t, p) <=> p # c /\ On(L, p)
  <2>1. ASSUME On(t, p) PROVE p # c /\ On(L, p)
    <3>1. PICK i \in 1..Len(t) : t[i] = p
      BY <2>1 DEF On
    <3>2. i # col /\ i \in 1..Len(L) /\ L[i] = p
      BY <1>5, <1>16, <3>1
    <3> QED BY <1>1, <3>2 DEF On
  <2>2. ASSUME p # c, On(L, p) PROVE On(t, p)
    <3>1. PICK i \in 1..Len(L) : L[i] = p
      BY <2>2 DEF On
    <3>2. L[i] # 0 /\ L[i] # c
      BY <1>16, <2>2, <3>1
    <3>3. t[i] = p
      BY <1>15, <3>1, <3>2
    <3>4. Len(t) \in Nat
      BY <1>5
    <3>5. i \in 1..Len(t)
      BY <1>1, <1>5, <3>4
    <3> QED BY <3>3, <3>5 DEF On
  <2> QED BY <2>1, <2>2
<1>17. ASSUME NEW i \in 1..Len(cells) PROVE cells[i] \in Vertical <=> i <= Len(L) /\ L[i] # 0 /\ L[i] # c
  <2>1. i \in 1..N /\ i \in 1..Len(t)
    BY <1>8, <1>10
  <2>2. CASE i = col
    BY <1>1, <1>9, <2>1, <2>2 DEF Vertical
  <2>3. CASE i # col
    <3>1. i \in 1..Len(L) /\ L[i] # c /\ i <= Len(L)
      BY <1>1, <1>5, <2>1, <2>3
    <3> QED BY <1>9, <2>1, <2>3, <3>1 DEF Vertical
  <2> QED BY <2>2, <2>3
<1>18. 1..0 = {}
  OBVIOUS
<1>19. \A i \in 1..Len(L) : L[i] # 0 /\ L[i] # c => t[i] = L[i] /\ i # col
  BY <1>15
<1>20. \A p \in Nat : p # 0 => (On(t, p) <=> (p # c /\ On(L, p)) \/ \E m \in 1..0 : ps[m] = p)
  BY <1>16, <1>18
<1>21. \A i \in 1..Len(cells) : cells[i] \in Vertical <=> i <= Len(L) /\ L[i] # 0 /\ L[i] # c
  BY <1>17
<1>22. t[col] = 0 /\ Len(L) <= Len(t) /\ \A i \in 1..Len(L) : L[i] = c => col = i
  BY <1>1, <1>5
<1>23. \A m \in 1..0 : \A y \in 1..Len(t) :
         t[y] = ps[m] => (On(L, ps[m]) /\ ps[1] # ps[m]) \/ Tied(r.spans, y, col)
  BY <1>18
<1> QED BY <1>11, <1>13, <1>14, <1>19, <1>20, <1>21, <1>22, <1>23 DEF Linking

LEMMA LinkFirst ==
  ASSUME NEW row, NEW L, Len(L) \in Nat, NEW c, NEW ps, Linking(row, L, c, ps, 0),
         NEW p \in Nat, p = ps[1], p # 0, p # c
  PROVE  Linking(FirstParent(row, p), L, c, ps, 1)
<1>1. /\ Rowed(row) /\ row.oid = c
      /\ Len(L) <= Len(row.lanes) /\ Single(row.lanes)
      /\ \A i \in 1..Len(L) : L[i] # 0 /\ L[i] # c => row.lanes[i] = L[i] /\ i # row.col
      /\ \A i \in 1..Len(L) : L[i] = c => row.col = i
      /\ \A q \in Nat : q # 0 => (On(row.lanes, q) <=> (q # c /\ On(L, q)))
      /\ \A i \in 1..Len(row.cells) : row.cells[i] \in Vertical <=> i <= Len(L) /\ L[i] # 0 /\ L[i] # c
      /\ row.lanes[row.col] = 0
  <2>1. 1..0 = {}
    OBVIOUS
  <2> QED BY <2>1 DEF Linking
<1>2. /\ row \in Rows /\ Len(row.cells) = Len(row.lanes) /\ row.col \in 1..Len(row.lanes)
      /\ row.lanes \in Seq(Nat) /\ Len(row.lanes) \in Nat /\ row.col \in Nat /\ row.spans \in Seq(Nat \X Nat)
      /\ DOMAIN row.lanes = 1..Len(row.lanes)
  BY <1>1 DEF Rowed, Rows
<1>3. 1..1 = {1}
  OBVIOUS
<1>4. PICK lane : lane = LaneOf(row.lanes, p)
  OBVIOUS
<1>5. /\ lane \in 0..Len(row.lanes)
      /\ lane # 0 => row.lanes[lane] = p
      /\ lane = 0 => \A i \in 1..Len(row.lanes) : row.lanes[i] # p
  BY <1>2, <1>4, LaneIs
<1>6. PICK r : r = FirstParent(row, p)
  OBVIOUS
<1>7. CASE lane = 0
  <2>1. r = [row EXCEPT !.lanes = Put(@, row.col, p)]
    BY <1>4, <1>6, <1>7 DEF FirstParent
  <2>2. PICK t : t = [row.lanes EXCEPT ![row.col] = p]
    OBVIOUS
  <2>3. /\ t \in Seq(Nat) /\ Len(t) = Len(row.lanes) /\ t[row.col] = p
        /\ \A i \in 1..Len(row.lanes) : i # row.col => t[i] = row.lanes[i]
    BY <1>2, <2>2
  <2>4. t = Put(row.lanes, row.col, p)
    BY <1>2, <2>2 DEF Put
  <2>5. r = [row EXCEPT !.lanes = t]
    BY <2>1, <2>4
  <2>6. /\ r \in Rows /\ r.oid = row.oid /\ r.col = row.col /\ r.lanes = t /\ r.cells = row.cells
        /\ r.spans = row.spans
    BY <1>2, <2>3, <2>5 DEF Rows
  <2>7. Rowed(r)
    BY <1>2, <2>3, <2>6 DEF Rowed
  <2>8. \A i \in 1..Len(t) : t[i] = p => i = row.col
    BY <1>5, <1>7, <2>3
  <2>9. Single(t)
    <3>1. Single(row.lanes)
      BY <1>1
    <3>2. ASSUME NEW i \in 1..Len(t), NEW j \in 1..Len(t), t[i] = t[j], t[i] # 0 PROVE i = j
      <4>1. CASE t[i] = p
        BY <2>8, <3>2, <4>1
      <4>2. CASE t[i] # p
        <5>1. i # row.col /\ j # row.col /\ i \in 1..Len(row.lanes) /\ j \in 1..Len(row.lanes)
          BY <2>3, <3>2, <4>2
        <5>2. t[i] = row.lanes[i] /\ t[j] = row.lanes[j]
          BY <2>3, <5>1
        <5> QED BY <3>1, <3>2, <5>1, <5>2 DEF Single
      <4> QED BY <4>1, <4>2
    <3> QED BY <3>2 DEF Single
  <2>10. \A i \in 1..Len(L) : L[i] # 0 /\ L[i] # c => t[i] = L[i] /\ i # row.col
    <3>1. ASSUME NEW i \in 1..Len(L), L[i] # 0, L[i] # c PROVE t[i] = L[i] /\ i # row.col
      <4>1. row.lanes[i] = L[i] /\ i # row.col
        BY <1>1, <3>1
      <4>2. Len(L) <= Len(row.lanes) /\ Len(row.lanes) \in Nat
        BY <1>1, <1>2
      <4>3. i \in 1..Len(row.lanes)
        BY <4>2
      <4> QED BY <2>3, <4>1, <4>3
    <3> QED BY <3>1
  <2>11. ASSUME NEW q \in Nat, q # 0 PROVE On(t, q) <=> (q # c /\ On(L, q)) \/ \E m \in 1..1 : ps[m] = q
    <3>1. On(t, q) => On(row.lanes, q) \/ q = p
      BY <2>3 DEF On
    <3>2. ASSUME On(row.lanes, q) PROVE On(t, q)
      <4>1. PICK i \in 1..Len(row.lanes) : row.lanes[i] = q
        BY <3>2 DEF On
      <4>2. i # row.col
        BY <1>1, <2>11, <4>1
      <4>3. t[i] = q /\ i \in 1..Len(t)
        BY <2>3, <4>1, <4>2
      <4> QED BY <4>3 DEF On
    <3>3. On(t, p)
      BY <1>2, <2>3 DEF On
    <3>4. On(t, q) <=> On(row.lanes, q) \/ q = p
      BY <3>1, <3>2, <3>3
    <3> QED BY <1>1, <1>3, <2>11, <3>4
  <2>12. \A y \in 1..Len(t) : t[y] = ps[1] => Tied(row.spans, y, row.col)
    BY <2>8 DEF Tied
  <2>13. \A m \in 1..1 : \A y \in 1..Len(t) :
           t[y] = ps[m] => (On(L, ps[m]) /\ ps[1] # ps[m]) \/ Tied(row.spans, y, row.col)
    BY <1>3, <2>12
  <2> QED BY <1>1, <1>6, <2>3, <2>6, <2>7, <2>9, <2>10, <2>11, <2>13 DEF Linking
<1>8. CASE lane # 0
  <2>1. PICK cell \in Cells : cell = (IF lane < row.col THEN "mergeLeft" ELSE "mergeRight") /\ cell \notin Vertical
    BY DEF Cells, Vertical
  <2>2. r = [row EXCEPT !.cells = Put(@, row.col, cell), !.spans = Append(@, Span(lane, row.col))]
    BY <1>4, <1>6, <1>8, <2>1 DEF FirstParent
  <2>3. lane \in 1..Len(row.lanes) /\ row.lanes[lane] = p /\ lane \in Nat
    BY <1>2, <1>5, <1>8
  <2>20. Merged(row, lane, cell, r)
    <3>1. Rowed(row)
      BY <1>1
    <3> QED BY <2>1, <2>2, <2>3, <3>1, MergedIs
  <2>4. /\ Rowed(r) /\ r.oid = row.oid /\ r.col = row.col /\ r.lanes = row.lanes
        /\ \A i \in 1..Len(row.cells) : i # row.col => r.cells[i] = row.cells[i]
        /\ r.cells[row.col] = cell /\ Len(r.cells) = Len(row.cells)
        /\ r.spans = Append(row.spans, Span(lane, row.col))
    BY <2>20 DEF Merged
  <2>5. ASSUME NEW i \in 1..Len(r.cells)
        PROVE  r.cells[i] \in Vertical <=> i <= Len(L) /\ L[i] # 0 /\ L[i] # c
    <3>1. CASE i = row.col
      <4>1. ~(i <= Len(L) /\ L[i] # 0 /\ L[i] # c)
        BY <1>1, <1>2, <3>1
      <4> QED BY <2>1, <2>4, <3>1, <4>1
    <3>2. CASE i # row.col
      BY <1>1, <2>4, <2>5, <3>2
    <3> QED BY <3>1, <3>2
  <2>6. ASSUME NEW q \in Nat, q # 0 PROVE On(r.lanes, q) <=> (q # c /\ On(L, q)) \/ \E m \in 1..1 : ps[m] = q
    <3>1. On(row.lanes, p)
      BY <2>3 DEF On
    <3>2. p # c /\ On(L, p)
      BY <1>1, <3>1
    <3> QED BY <1>1, <1>3, <2>4, <2>6, <3>2
  <2>7. Tied(r.spans, lane, row.col)
    <3>1. Span(lane, row.col) \in Nat \X Nat
      BY <1>2, <2>3, SpanIs
    <3> QED BY <1>2, <2>4, <3>1, TiedGrows
  <2>8. \A y \in 1..Len(row.lanes) : row.lanes[y] = p => y = lane
    BY <1>1, <2>3 DEF Single
  <2>9. \A m \in 1..1 : \A y \in 1..Len(r.lanes) :
           r.lanes[y] = ps[m] => (On(L, ps[m]) /\ ps[1] # ps[m]) \/ Tied(r.spans, y, r.col)
    BY <1>3, <2>4, <2>7, <2>8
  <2> QED BY <1>1, <1>6, <2>4, <2>5, <2>6, <2>9 DEF Linking
<1> QED BY <1>7, <1>8

LEMMA LinkNext ==
  ASSUME NEW row, NEW L, Len(L) \in Nat, NEW c, NEW ps, NEW n \in Nat, n # 0, Linking(row, L, c, ps, n),
         NEW p \in Nat, p = ps[n + 1], p # 0, p # c
  PROVE  Linking(ForkLane(row, p), L, c, ps, n + 1)
<1>1. /\ Rowed(row) /\ row.oid = c
      /\ Len(L) <= Len(row.lanes) /\ Single(row.lanes)
      /\ \A i \in 1..Len(L) : L[i] # 0 /\ L[i] # c => row.lanes[i] = L[i] /\ i # row.col
      /\ \A i \in 1..Len(L) : L[i] = c => row.col = i
      /\ \A q \in Nat : q # 0 => (On(row.lanes, q) <=> (q # c /\ On(L, q)) \/ \E m \in 1..n : ps[m] = q)
      /\ \A i \in 1..Len(row.cells) : row.cells[i] \in Vertical <=> i <= Len(L) /\ L[i] # 0 /\ L[i] # c
      /\ \A m \in 1..n : \A y \in 1..Len(row.lanes) :
           row.lanes[y] = ps[m] => (On(L, ps[m]) /\ ps[1] # ps[m]) \/ Tied(row.spans, y, row.col)
  BY DEF Linking
<1>2. /\ row \in Rows /\ Len(row.cells) = Len(row.lanes) /\ row.col \in 1..Len(row.lanes)
      /\ row.lanes \in Seq(Nat) /\ Len(row.lanes) \in Nat /\ row.col \in Nat /\ row.spans \in Seq(Nat \X Nat)
  BY <1>1 DEF Rowed, Rows
<1>3. 1..(n + 1) = 1..n \cup {n + 1} /\ 1 \in 1..n /\ n + 1 # 0
  OBVIOUS
<1>4. /\ LaneOf(row.lanes, p) \in 0..Len(row.lanes)
      /\ LaneOf(row.lanes, p) # 0 => row.lanes[LaneOf(row.lanes, p)] = p
      /\ LaneOf(row.lanes, p) = 0 => \A i \in 1..Len(row.lanes) : row.lanes[i] # p
  BY <1>2, LaneIs
<1>5. PICK r : r = ForkLane(row, p)
  OBVIOUS
<1>6. CASE LaneOf(row.lanes, p) # 0
  <2>1. r = row
    BY <1>5, <1>6 DEF ForkLane
  <2>2. On(row.lanes, p)
    <3>1. PICK i : i = LaneOf(row.lanes, p)
      OBVIOUS
    <3>2. i \in 1..Len(row.lanes) /\ row.lanes[i] = p
      BY <1>2, <1>4, <1>6, <3>1
    <3> QED BY <3>2 DEF On
  <2>3. \A q \in Nat : q # 0 => (On(row.lanes, q) <=> (q # c /\ On(L, q)) \/ \E m \in 1..(n + 1) : ps[m] = q)
    BY <1>1, <1>3, <2>2
  <2>4. ASSUME NEW y \in 1..Len(row.lanes), row.lanes[y] = p
        PROVE  (On(L, p) /\ ps[1] # p) \/ Tied(row.spans, y, row.col)
    <3>1. CASE \E m \in 1..n : ps[m] = p
      BY <1>1, <2>4, <3>1
    <3>2. CASE ~\E m \in 1..n : ps[m] = p
      BY <1>1, <1>3, <2>2, <3>2
    <3> QED BY <3>1, <3>2
  <2>5. \A m \in 1..(n + 1) : \A y \in 1..Len(row.lanes) :
          row.lanes[y] = ps[m] => (On(L, ps[m]) /\ ps[1] # ps[m]) \/ Tied(row.spans, y, row.col)
    BY <1>1, <1>3, <2>4
  <2> QED BY <1>1, <1>3, <1>5, <2>1, <2>3, <2>5 DEF Linking
<1>7. CASE LaneOf(row.lanes, p) = 0
  <2>1. PICK lane : lane = FreeLane(row.lanes)
    OBVIOUS
  <2>2. PICK cell \in Cells : cell = (IF lane > row.col THEN "forkRight" ELSE "forkLeft") /\ cell \notin Vertical
    BY DEF Cells, Vertical
  <2>3. r = [row EXCEPT !.lanes = Put(@, lane, p), !.cells = Put(@, lane, cell),
                        !.spans = Append(@, Span(lane, row.col))]
    BY <1>5, <1>7, <2>1, <2>2 DEF ForkLane
  <2>20. Forked(row, lane, p, cell, r)
    <3>1. Rowed(row)
      BY <1>1
    <3> QED BY <2>1, <2>3, <3>1, ForkedIs
  <2>4. /\ Rowed(r) /\ r.oid = row.oid /\ r.col = row.col
        /\ lane \in 1..(Len(row.lanes) + 1) /\ (lane <= Len(row.lanes) => row.lanes[lane] = 0)
        /\ Len(row.lanes) <= Len(r.lanes) /\ lane <= Len(r.lanes) /\ r.lanes[lane] = p
        /\ \A i \in 1..Len(row.lanes) : i # lane => r.lanes[i] = row.lanes[i] /\ r.cells[i] = row.cells[i]
        /\ \A i \in 1..Len(r.lanes) : i # lane => i \in 1..Len(row.lanes)
        /\ r.cells[lane] = cell
        /\ r.spans = Append(row.spans, Span(lane, row.col))
    BY <2>20 DEF Forked
  <2>5. r.lanes \in Seq(Nat) /\ Len(r.lanes) \in Nat /\ Len(r.cells) = Len(r.lanes) /\ lane \in 1..Len(r.lanes)
        /\ lane \in Nat
    BY <1>2, <2>4 DEF Rowed, Rows
  <2>6. \A i \in 1..Len(row.lanes) : row.lanes[i] # p
    BY <1>4, <1>7
  <2>7. \A i \in 1..Len(r.lanes) : r.lanes[i] = p => i = lane
    BY <2>4, <2>6
  <2>8. Single(r.lanes)
    <3>1. SUFFICES ASSUME NEW i \in 1..Len(r.lanes), NEW j \in 1..Len(r.lanes), r.lanes[i] = r.lanes[j], r.lanes[i] # 0
                   PROVE  i = j
      BY DEF Single
    <3>2. CASE i = lane \/ j = lane
      BY <2>4, <2>7, <3>1, <3>2
    <3>3. CASE i # lane /\ j # lane
      <4>1. i \in 1..Len(row.lanes) /\ j \in 1..Len(row.lanes) /\ row.lanes[i] = r.lanes[i] /\ row.lanes[j] = r.lanes[j]
        BY <2>4, <3>3
      <4> QED BY <1>1, <3>1, <4>1 DEF Single
    <3> QED BY <3>2, <3>3
  <2>9. ASSUME NEW i \in 1..Len(L), L[i] # 0, L[i] # c PROVE r.lanes[i] = L[i] /\ i # row.col /\ i # lane
    <3>1. row.lanes[i] = L[i] /\ i # row.col /\ i \in 1..Len(row.lanes)
      <4>1. row.lanes[i] = L[i] /\ i # row.col
        BY <1>1, <2>9
      <4>2. Len(L) <= Len(row.lanes) /\ Len(row.lanes) \in Nat
        BY <1>1, <1>2
      <4> QED BY <4>1, <4>2
    <3>2. i # lane
      BY <2>4, <2>9, <3>1
    <3> QED BY <2>4, <3>1, <3>2
  <2>10. ASSUME NEW q \in Nat, q # 0
         PROVE  On(r.lanes, q) <=> (q # c /\ On(L, q)) \/ \E m \in 1..(n + 1) : ps[m] = q
    <3>1. On(r.lanes, q) => On(row.lanes, q) \/ q = p
      BY <2>4 DEF On
    <3>2. On(row.lanes, q) => On(r.lanes, q)
      <4>1. SUFFICES ASSUME NEW i \in 1..Len(row.lanes), row.lanes[i] = q PROVE On(r.lanes, q)
        BY DEF On
      <4>2. i # lane
        BY <2>4, <2>10, <4>1
      <4>3. r.lanes[i] = q /\ i \in 1..Len(r.lanes)
        <5>1. r.lanes[i] = row.lanes[i]
          BY <2>4, <4>1, <4>2
        <5>2. i \in 1..Len(r.lanes)
          BY <1>2, <2>4, <2>5, <4>1
        <5> QED BY <4>1, <5>1, <5>2
      <4> QED BY <4>3 DEF On
    <3>3. On(r.lanes, p)
      BY <2>4, <2>5 DEF On
    <3>4. On(r.lanes, q) <=> On(row.lanes, q) \/ q = p
      BY <3>1, <3>2, <3>3
    <3> QED BY <1>1, <1>3, <2>10, <3>4
  <2>11. ASSUME NEW i \in 1..Len(r.cells)
         PROVE  r.cells[i] \in Vertical <=> i <= Len(L) /\ L[i] # 0 /\ L[i] # c
    <3>1. CASE i = lane
      <4>1. ~(i <= Len(L) /\ L[i] # 0 /\ L[i] # c)
        BY <2>5, <2>9, <3>1
      <4> QED BY <2>2, <2>4, <3>1, <4>1
    <3>2. CASE i # lane
      <4>1. i \in 1..Len(row.lanes)
        BY <2>4, <2>5, <3>2
      <4> QED BY <1>1, <1>2, <2>4, <3>2, <4>1
    <3> QED BY <3>1, <3>2
  <2>12. /\ \A y, col : Tied(row.spans, y, col) => Tied(r.spans, y, col)
         /\ Tied(r.spans, lane, row.col)
    <3>1. Span(lane, row.col) \in Nat \X Nat
      BY <1>2, <2>5, SpanIs
    <3> QED BY <1>2, <2>4, <3>1, TiedGrows
  <2>13. ASSUME NEW m \in 1..(n + 1), NEW y \in 1..Len(r.lanes), r.lanes[y] = ps[m]
         PROVE  (On(L, ps[m]) /\ ps[1] # ps[m]) \/ Tied(r.spans, y, r.col)
    <3>1. CASE y = lane
      BY <2>4, <2>12, <3>1
    <3>2. CASE y # lane
      <4>1. y \in 1..Len(row.lanes) /\ row.lanes[y] = ps[m]
        BY <2>4, <2>13, <3>2
      <4>2. ps[m] # p
        BY <2>6, <4>1
      <4>3. m \in 1..n
        BY <1>3, <4>2
      <4> QED BY <1>1, <2>4, <2>12, <4>1, <4>3
    <3> QED BY <3>1, <3>2
  <2>14. Len(L) <= Len(r.lanes)
    <3>1. Len(L) <= Len(row.lanes) /\ Len(row.lanes) \in Nat
      BY <1>1, <1>2
    <3> QED BY <2>4, <2>5, <3>1
  <2>15. \A i \in 1..Len(L) : L[i] # 0 /\ L[i] # c => r.lanes[i] = L[i] /\ i # row.col
    BY <2>9
  <2> QED BY <1>1, <1>3, <1>5, <2>4, <2>8, <2>10, <2>11, <2>13, <2>14, <2>15 DEF Linking
<1> QED BY <1>6, <1>7

LinkedFun(f, row, ps) ==
  f = [n \in 0..Len(ps) |->
        IF n = 0 THEN row ELSE IF n = 1 THEN FirstParent(row, ps[1]) ELSE ForkLane(f[n - 1], ps[n])]

LEMMA ForkLaneRowed ==
  ASSUME NEW row, Rowed(row), NEW p \in Nat
  PROVE  Rowed(ForkLane(row, p))
<1>1. CASE LaneOf(row.lanes, p) # 0
  BY <1>1 DEF ForkLane
<1>2. CASE LaneOf(row.lanes, p) = 0
  <2>1. PICK lane : lane = FreeLane(row.lanes)
    OBVIOUS
  <2>2. PICK cell \in Cells : cell = IF lane > row.col THEN "forkRight" ELSE "forkLeft"
    BY DEF Cells
  <2>3. PICK r : r = [row EXCEPT !.lanes = Put(@, lane, p), !.cells = Put(@, lane, cell),
                                 !.spans = Append(@, Span(lane, row.col))]
    OBVIOUS
  <2>4. r = ForkLane(row, p)
    BY <1>2, <2>1, <2>2, <2>3 DEF ForkLane
  <2>5. Forked(row, lane, p, cell, r)
    BY <2>1, <2>3, ForkedIs
  <2> QED BY <2>4, <2>5 DEF Forked
<1> QED BY <1>1, <1>2

LEMMA LinkedIs ==
  ASSUME NEW row, NEW L, Len(L) \in Nat, NEW c, NEW ps, ListOf(ps, Nat), Linking(row, L, c, ps, 0),
         \A n \in 1..Len(ps) : ps[n] # 0 /\ ps[n] # c
  PROVE  Linking(Linked(row, ps), L, c, ps, Len(ps))
<1>1. PICK N \in Nat : N = Len(ps)
  BY DEF ListOf
<1>2. \A n \in 1..N : ps[n] \in Nat /\ ps[n] # 0 /\ ps[n] # c
  BY <1>1 DEF ListOf
<1>3. PICK V : V = {r \in Rows : Rowed(r)}
  OBVIOUS
<1>4. \A r : r \in V <=> Rowed(r)
  BY <1>3 DEF Rowed
<1>5. PICK op : op = [w \in (1..N) \X V |-> IF w[1] = 1 THEN FirstParent(row, ps[1]) ELSE ForkLane(w[2], ps[w[1]])]
  OBVIOUS
<1>6. ASSUME NEW n \in 1..N PROVE Linking(FirstParent(row, ps[1]), L, c, ps, 1)
  <2>1. 1 \in 1..N
    OBVIOUS
  <2>2. PICK p \in Nat : p = ps[1] /\ p # 0 /\ p # c
    BY <1>2, <2>1
  <2>3. Linking(FirstParent(row, p), L, c, ps, 1)
    BY <2>2, LinkFirst
  <2> QED BY <2>2, <2>3
<1>7. op \in [(1..N) \X V -> V]
  <2>1. \A n \in 1..N : FirstParent(row, ps[1]) \in V
    BY <1>4, <1>6 DEF Linking
  <2>2. ASSUME NEW n \in 1..N, NEW r \in V PROVE ForkLane(r, ps[n]) \in V
    BY <1>2, <1>4, ForkLaneRowed
  <2> QED BY <1>5, <2>1, <2>2
<1>8. row \in V
  BY <1>4 DEF Linking
<1>9. PICK f \in [0..N -> V] : Recurs(f, N, row, op)
  BY <1>7, <1>8, RecursExist
<1>10. ASSUME NEW n \in 0..N
       PROVE  f[n] = IF n = 0 THEN row ELSE IF n = 1 THEN FirstParent(row, ps[1]) ELSE ForkLane(f[n - 1], ps[n])
  <2>1. f[n] = IF n = 0 THEN row ELSE op[<<n, f[n - 1]>>]
    BY <1>9 DEF Recurs
  <2>2. CASE n # 0
    <3>1. n - 1 \in 0..N /\ n \in 1..N
      BY <2>2
    <3>2. f[n - 1] \in V
      BY <3>1
    <3>3. op[<<n, f[n - 1]>>] = IF n = 1 THEN FirstParent(row, ps[1]) ELSE ForkLane(f[n - 1], ps[n])
      BY <1>5, <3>1, <3>2
    <3> QED BY <2>1, <2>2, <3>3
  <2> QED BY <2>1, <2>2
<1>11. LinkedFun(f, row, ps)
  BY <1>1, <1>9, <1>10 DEF LinkedFun, Recurs
<1>12. PICK x : x = CHOOSE y : LinkedFun(y, row, ps)
  OBVIOUS
<1>13. LinkedFun(x, row, ps)
  BY <1>11, <1>12
<1>14. Linked(row, ps) = x[N]
  BY <1>1, <1>12 DEF Linked, LinkedFun
<1>15. PICK G : G = {n \in 0..N : Linking(x[n], L, c, ps, n)}
  OBVIOUS
<1>16. 0 \in G
  <2>1. 0 \in 0..N
    OBVIOUS
  <2>2. x[0] = row
    BY <1>1, <1>13, <2>1 DEF LinkedFun
  <2>3. Linking(x[0], L, c, ps, 0)
    BY <2>2
  <2> QED BY <1>15, <2>1, <2>3
<1>17. ASSUME NEW n \in 1..N, n - 1 \in G PROVE n \in G
  <2>1. n \in 0..N /\ n # 0 /\ n \in 0..Len(ps)
    BY <1>1
  <2>2. CASE n = 1
    <3>1. x[n] = FirstParent(row, ps[1])
      BY <1>13, <2>1, <2>2 DEF LinkedFun
    <3>2. Linking(x[n], L, c, ps, n)
      BY <1>6, <2>2, <3>1
    <3> QED BY <1>15, <2>1, <3>2
  <2>3. CASE n # 1
    <3>1. x[n] = ForkLane(x[n - 1], ps[n])
      BY <1>13, <2>1, <2>3 DEF LinkedFun
    <3>2. PICK m \in Nat : m = n - 1 /\ n = m + 1 /\ m # 0
      BY <2>3
    <3>3. PICK r : r = x[n - 1]
      OBVIOUS
    <3>4. PICK p \in Nat : p = ps[n] /\ p # 0 /\ p # c
      BY <1>2
    <3>5. Linking(r, L, c, ps, m)
      BY <1>15, <1>17, <3>2, <3>3
    <3>6. p = ps[m + 1]
      BY <3>2, <3>4
    <3>7. Linking(ForkLane(r, p), L, c, ps, m + 1)
      BY <3>2, <3>4, <3>5, <3>6, LinkNext
    <3>8. Linking(x[n], L, c, ps, n)
      BY <3>1, <3>2, <3>3, <3>4, <3>7
    <3> QED BY <1>15, <2>1, <3>8
  <2> QED BY <2>2, <2>3
<1>18. \A n \in 0..N : n \in G
  <2>1. \A n \in 1..N : n - 1 \in G => n \in G
    BY <1>17
  <2> QED BY <1>16, <2>1, Upward
<1>19. Linking(x[N], L, c, ps, N)
  BY <1>15, <1>18
<1> QED BY <1>1, <1>14, <1>19

-----------------------------------------------------------------------------
(* Spans cross lines and do not break them.                                *)

AsVertical(s, t) ==
  /\ ListOf(t, Cells) /\ Len(t) = Len(s)
  /\ \A i \in 1..Len(s) : t[i] \in Vertical <=> s[i] \in Vertical

LEMMA CrossedIs ==
  ASSUME NEW s, ListOf(s, Cells), NEW span
  PROVE  AsVertical(s, Crossed(s, span))
<1>1. s \in Seq(Cells) /\ Len(s) \in Nat /\ DOMAIN s = 1..Len(s)
  BY DEF ListOf
<1>2. PICK N \in Nat : N = Len(s)
  BY <1>1
<1>3. PICK t : t = Crossed(s, span)
  OBVIOUS
<1>4. t = [i \in 1..N |->
            CASE s[i] = "straight" /\ i = span[1] -> "rightTee"
              [] s[i] = "straight" /\ i = span[2] -> "leftTee"
              [] s[i] = "straight" /\ span[1] < i /\ i < span[2] -> "cross"
              [] s[i] = "empty" /\ span[1] < i /\ i < span[2] -> "horizontal"
              [] OTHER -> s[i]]
  BY <1>1, <1>2, <1>3 DEF Crossed
<1>5. ASSUME NEW i \in 1..N
      PROVE  t[i] = s[i] \/ (s[i] = "straight" /\ t[i] \in {"rightTee", "leftTee", "cross"})
             \/ (s[i] = "empty" /\ t[i] = "horizontal")
  BY <1>4
<1>6. ASSUME NEW i \in 1..N PROVE t[i] \in Cells /\ (t[i] \in Vertical <=> s[i] \in Vertical)
  <2>1. s[i] \in Cells
    BY <1>1, <1>2
  <2>2. CASE t[i] = s[i]
    BY <2>1, <2>2
  <2>3. CASE s[i] = "straight" /\ t[i] \in {"rightTee", "leftTee", "cross"}
    BY <2>3 DEF Cells, Vertical
  <2>4. CASE s[i] = "empty" /\ t[i] = "horizontal"
    BY <2>4 DEF Cells, Vertical
  <2> QED BY <1>5, <2>2, <2>3, <2>4
<1>7. t \in Seq(Cells) /\ Len(t) = N
  <2>1. t \in [1..N -> Cells]
    BY <1>4, <1>6
  <2> QED BY <2>1
<1> QED BY <1>2, <1>3, <1>6, <1>7 DEF AsVertical, ListOf

CrossedFun(f, cells, spans) ==
  f = [n \in 0..Len(spans) |-> IF n = 0 THEN cells ELSE Crossed(f[n - 1], spans[n])]

LEMMA CrossedByIs ==
  ASSUME NEW cells, ListOf(cells, Cells), NEW spans, Len(spans) \in Nat
  PROVE  AsVertical(cells, CrossedBy(cells, spans))
<1>1. PICK N \in Nat : N = Len(spans)
  OBVIOUS
<1>2. PICK V : V = Seq(Cells)
  OBVIOUS
<1>3. \A s : s \in V <=> ListOf(s, Cells)
  BY <1>2 DEF ListOf
<1>4. PICK op : op = [w \in (1..N) \X V |-> Crossed(w[2], spans[w[1]])]
  OBVIOUS
<1>5. op \in [(1..N) \X V -> V]
  <2>1. ASSUME NEW n \in 1..N, NEW s \in V PROVE Crossed(s, spans[n]) \in V
    <3>1. AsVertical(s, Crossed(s, spans[n]))
      BY <1>3, CrossedIs
    <3> QED BY <1>3, <3>1 DEF AsVertical
  <2> QED BY <1>4, <2>1
<1>6. cells \in V
  BY <1>3
<1>7. PICK f \in [0..N -> V] : Recurs(f, N, cells, op)
  BY <1>5, <1>6, RecursExist
<1>8. ASSUME NEW n \in 0..N
      PROVE  f[n] = IF n = 0 THEN cells ELSE Crossed(f[n - 1], spans[n])
  <2>1. f[n] = IF n = 0 THEN cells ELSE op[<<n, f[n - 1]>>]
    BY <1>7 DEF Recurs
  <2>2. CASE n # 0
    <3>1. n - 1 \in 0..N /\ n \in 1..N
      BY <2>2
    <3>2. f[n - 1] \in V
      BY <3>1
    <3>3. op[<<n, f[n - 1]>>] = Crossed(f[n - 1], spans[n])
      BY <1>4, <3>1, <3>2
    <3> QED BY <2>1, <2>2, <3>3
  <2> QED BY <2>1, <2>2
<1>9. CrossedFun(f, cells, spans)
  BY <1>1, <1>7, <1>8 DEF CrossedFun, Recurs
<1>10. PICK x : x = CHOOSE y : CrossedFun(y, cells, spans)
  OBVIOUS
<1>11. CrossedFun(x, cells, spans)
  BY <1>9, <1>10
<1>12. CrossedBy(cells, spans) = x[N]
  BY <1>1, <1>10 DEF CrossedBy, CrossedFun
<1>13. PICK G : G = {n \in 0..N : AsVertical(cells, x[n])}
  OBVIOUS
<1>14. 0 \in G
  <2>1. 0 \in 0..N
    OBVIOUS
  <2>2. x[0] = cells
    BY <1>1, <1>11, <2>1 DEF CrossedFun
  <2>3. AsVertical(cells, x[0])
    BY <2>2 DEF AsVertical
  <2> QED BY <1>13, <2>1, <2>3
<1>15. ASSUME NEW n \in 1..N, n - 1 \in G PROVE n \in G
  <2>1. n \in 0..N /\ n # 0 /\ n \in 0..Len(spans)
    BY <1>1
  <2>2. x[n] = Crossed(x[n - 1], spans[n])
    BY <1>11, <2>1 DEF CrossedFun
  <2>3. PICK s : s = x[n - 1]
    OBVIOUS
  <2>4. AsVertical(cells, s)
    BY <1>13, <1>15, <2>3
  <2>5. ListOf(s, Cells)
    BY <2>4 DEF AsVertical
  <2>6. AsVertical(s, Crossed(s, spans[n]))
    BY <2>5, CrossedIs
  <2>7. PICK t : t = Crossed(s, spans[n])
    OBVIOUS
  <2>8. AsVertical(cells, t)
    BY <2>4, <2>6, <2>7 DEF AsVertical
  <2> QED BY <1>13, <2>1, <2>2, <2>3, <2>7, <2>8
<1>16. \A n \in 0..N : n \in G
  <2>1. \A n \in 1..N : n - 1 \in G => n \in G
    BY <1>15
  <2> QED BY <1>14, <2>1, Upward
<1> QED BY <1>12, <1>13, <1>16

-----------------------------------------------------------------------------
(* The row of commit c, whose lanes were L and whose parents are ps.       *)

Processed(row, L, c, ps) ==
  /\ row \in Rows /\ row.oid = c /\ Single(row.lanes)
  /\ Len(L) <= Len(row.cells) /\ Len(row.lanes) <= Len(row.cells) /\ row.col \in 1..Len(row.cells)
  /\ \A i \in 1..Len(L) : L[i] = c => row.col = i
  /\ \A i \in 1..Len(L) : L[i] # 0 /\ L[i] # c => i \in 1..Len(row.lanes) /\ row.lanes[i] = L[i] /\ i # row.col
  /\ \A p \in Nat : p # 0 => (On(row.lanes, p) <=> (p # c /\ On(L, p)) \/ \E m \in 1..Len(ps) : ps[m] = p)
  /\ \A i \in 1..Len(row.cells) : row.cells[i] \in Vertical <=> i <= Len(L) /\ L[i] # 0 /\ L[i] # c
  /\ \A m \in 1..Len(ps) : \A y \in 1..Len(row.lanes) :
       row.lanes[y] = ps[m] => (On(L, ps[m]) /\ ps[1] # ps[m]) \/ Tied(row.spans, y, row.col)

Trimmed(lanes, t) ==
  /\ t \in Seq(Nat) /\ Len(t) <= Len(lanes) /\ Len(t) \in Nat
  /\ \A i \in 1..Len(t) : t[i] = lanes[i]
  /\ \A i \in 1..Len(lanes) : lanes[i] # 0 => i \in 1..Len(t)

LEMMA TrimIs ==
  ASSUME NEW lanes, lanes \in Seq(Nat), NEW t, t = SubSeq(lanes, 1, Max({0} \cup {i \in DOMAIN lanes : lanes[i] # 0}))
  PROVE  Trimmed(lanes, t)
<1>1. PICK N \in Nat : N = Len(lanes)
  OBVIOUS
<1>2. PICK T : T = {0} \cup {i \in DOMAIN lanes : lanes[i] # 0}
  OBVIOUS
<1>3. DOMAIN lanes = 1..N
  BY <1>1
<1>4. T \subseteq 0..N /\ T # {} /\ \A i \in 1..N : lanes[i] # 0 => i \in T
  BY <1>2, <1>3
<1>5. PICK m : m = Max(T)
  OBVIOUS
<1>6. m \in T /\ \A x \in T : x <= m
  BY <1>4, <1>5, MaxIs
<1>7. m \in 0..N
  BY <1>4, <1>6
<1>8. t = SubSeq(lanes, 1, m)
  BY <1>2, <1>5
<1>9. t \in Seq(Nat) /\ Len(t) = m /\ \A i \in 1..m : t[i] = lanes[i]
  <2>1. PICK D : D = Nat
    OBVIOUS
  <2>2. \A i \in 1..m : lanes[i] \in D
    BY <1>1, <1>7, <2>1
  <2>3. 1 \in Int /\ m \in Int /\ m \in Nat
    BY <1>7
  <2>4. /\ SubSeq(lanes, 1, m) \in Seq(D)
        /\ Len(SubSeq(lanes, 1, m)) = IF 1 <= m THEN m - 1 + 1 ELSE 0
        /\ \A i \in 1..(m - 1 + 1) : SubSeq(lanes, 1, m)[i] = lanes[1 + i - 1]
    BY ONLY <2>2, <2>3, SubSeqProperties
  <2>5. t \in Seq(Nat)
    BY <1>8, <2>1, <2>4
  <2>6. Len(t) = m
    <3>1. PICK q : q = SubSeq(lanes, 1, m)
      OBVIOUS
    <3>2. Len(q) = IF 1 <= m THEN m - 1 + 1 ELSE 0
      BY <2>4, <3>1
    <3>3. t = q
      BY <1>8, <3>1
    <3>4. Len(q) = m
      BY <2>3, <3>2
    <3> QED BY <3>3, <3>4
  <2>7. ASSUME NEW i \in 1..m PROVE t[i] = lanes[i]
    <3>1. i \in 1..(m - 1 + 1) /\ 1 + i - 1 = i
      BY <2>3
    <3>2. SubSeq(lanes, 1, m)[i] = lanes[1 + i - 1]
      BY <2>4, <3>1
    <3> QED BY <1>8, <3>1, <3>2
  <2> QED BY <2>5, <2>6, <2>7
<1>10. \A i \in 1..N : lanes[i] # 0 => i \in 1..m
  BY <1>4, <1>6, <1>7
<1>11. m <= Len(lanes) /\ Len(t) = m /\ Len(t) \in Nat
  BY <1>1, <1>7, <1>9
<1>12. \A i \in 1..Len(lanes) : lanes[i] # 0 => i \in 1..Len(t)
  BY <1>1, <1>10, <1>11
<1> QED BY <1>9, <1>11, <1>12 DEF Trimmed

LEMMA ProcessIs ==
  ASSUME NEW L \in Seq(Nat), Single(L), NEW c \in Nat, c # 0, NEW ps, ListOf(ps, Nat),
         \A n \in 1..Len(ps) : ps[n] # 0 /\ ps[n] # c
  PROVE  Processed(ProcessCommit(L, c, ps), L, c, ps)
<1>1. PICK col : col = IF LaneOf(L, c) # 0 THEN LaneOf(L, c) ELSE FreeLane(L)
  OBVIOUS
<1>2. PICK N \in Nat : N = Len(ps)
  BY DEF ListOf
<1>3. PICK first : first = RowAt(L, col, c)
  OBVIOUS
<1>4. Linking(first, L, c, ps, 0)
  BY <1>1, <1>3, LinkStarts
<1>5. PICK row : row = Linked(first, ps)
  OBVIOUS
<1>6. Linking(row, L, c, ps, N)
  <2>1. Len(L) \in Nat
    OBVIOUS
  <2> QED BY <1>2, <1>4, <1>5, <2>1, LinkedIs
<1>7. /\ Rowed(row) /\ row.oid = c
      /\ Len(L) <= Len(row.lanes) /\ Single(row.lanes)
      /\ \A i \in 1..Len(L) : L[i] # 0 /\ L[i] # c => row.lanes[i] = L[i] /\ i # row.col
      /\ \A i \in 1..Len(L) : L[i] = c => row.col = i
      /\ \A q \in Nat : q # 0 => (On(row.lanes, q) <=> (q # c /\ On(L, q)) \/ \E m \in 1..N : ps[m] = q)
      /\ \A i \in 1..Len(row.cells) : row.cells[i] \in Vertical <=> i <= Len(L) /\ L[i] # 0 /\ L[i] # c
      /\ \A m \in 1..N : \A y \in 1..Len(row.lanes) :
           row.lanes[y] = ps[m] => (On(L, ps[m]) /\ ps[1] # ps[m]) \/ Tied(row.spans, y, row.col)
  BY <1>6 DEF Linking
<1>8. /\ row \in Rows /\ Len(row.cells) = Len(row.lanes) /\ row.col \in 1..Len(row.lanes)
      /\ row.lanes \in Seq(Nat) /\ Len(row.lanes) \in Nat /\ row.spans \in Seq(Nat \X Nat) /\ row.cells \in Seq(Cells)
  BY <1>7 DEF Rowed, Rows
<1>9. PICK cells : cells = CrossedBy(row.cells, row.spans)
  OBVIOUS
<1>10. AsVertical(row.cells, cells)
  <2>1. ListOf(row.cells, Cells) /\ Len(row.spans) \in Nat
    BY <1>8 DEF ListOf
  <2> QED BY <1>9, <2>1, CrossedByIs
<1>11. /\ cells \in Seq(Cells) /\ Len(cells) = Len(row.cells)
       /\ \A i \in 1..Len(row.cells) : cells[i] \in Vertical <=> row.cells[i] \in Vertical
  BY <1>10 DEF AsVertical, ListOf
<1>12. PICK t : t = SubSeq(row.lanes, 1, Max({0} \cup {i \in DOMAIN row.lanes : row.lanes[i] # 0}))
  OBVIOUS
<1>13. /\ t \in Seq(Nat) /\ Len(t) <= Len(row.lanes) /\ Len(t) \in Nat
       /\ \A i \in 1..Len(t) : t[i] = row.lanes[i]
       /\ \A i \in 1..Len(row.lanes) : row.lanes[i] # 0 => i \in 1..Len(t)
  <2>1. PICK lanes : lanes = row.lanes
    OBVIOUS
  <2>2. Trimmed(lanes, t)
    <3>1. lanes \in Seq(Nat)
      BY <1>8, <2>1
    <3>2. t = SubSeq(lanes, 1, Max({0} \cup {i \in DOMAIN lanes : lanes[i] # 0}))
      BY <1>12, <2>1
    <3> QED BY <3>1, <3>2, TrimIs
  <2> QED BY <2>1, <2>2 DEF Trimmed
<1>14. PICK r : r = ProcessCommit(L, c, ps)
  OBVIOUS
<1>15. r = [row EXCEPT !.cells = cells, !.lanes = t]
  BY <1>1, <1>3, <1>5, <1>9, <1>12, <1>14 DEF ProcessCommit, Drawn
<1>16. /\ r \in Rows /\ r.oid = c /\ r.col = row.col /\ r.lanes = t /\ r.cells = cells /\ r.spans = row.spans
  BY <1>7, <1>8, <1>11, <1>13, <1>15 DEF Rows
<1>17. \A i \in 1..Len(t) : i \in 1..Len(row.lanes)
  BY <1>8, <1>13
<1>18. Single(t)
  <2>1. ASSUME NEW i \in 1..Len(t), NEW j \in 1..Len(t), t[i] = t[j], t[i] # 0 PROVE i = j
    <3>1. t[i] = row.lanes[i] /\ t[j] = row.lanes[j] /\ i \in 1..Len(row.lanes) /\ j \in 1..Len(row.lanes)
      BY <1>13, <1>17
    <3> QED BY <1>7, <2>1, <3>1 DEF Single
  <2> QED BY <2>1 DEF Single
<1>19. ASSUME NEW i \in 1..Len(L), L[i] # 0, L[i] # c PROVE i \in 1..Len(t) /\ t[i] = L[i] /\ i # row.col
  <2>1. i \in 1..Len(row.lanes) /\ row.lanes[i] = L[i] /\ i # row.col
    BY <1>7, <1>19
  <2>2. i \in 1..Len(t)
    BY <1>13, <1>19, <2>1
  <2> QED BY <1>13, <2>1, <2>2
<1>20. ASSUME NEW p \in Nat, p # 0 PROVE On(t, p) <=> On(row.lanes, p)
  BY <1>13, <1>17, <1>20 DEF On
<1>21. \A p \in Nat : p # 0 => (On(t, p) <=> (p # c /\ On(L, p)) \/ \E m \in 1..N : ps[m] = p)
  BY <1>7, <1>20
<1>22. \A i \in 1..Len(cells) : cells[i] \in Vertical <=> i <= Len(L) /\ L[i] # 0 /\ L[i] # c
  BY <1>7, <1>11
<1>23. \A m \in 1..N : \A y \in 1..Len(t) :
         t[y] = ps[m] => (On(L, ps[m]) /\ ps[1] # ps[m]) \/ Tied(row.spans, y, row.col)
  BY <1>7, <1>13, <1>17
<1>24. Len(L) <= Len(cells) /\ Len(t) <= Len(cells) /\ row.col \in 1..Len(cells)
  BY <1>7, <1>8, <1>11, <1>13
<1>25. \A i \in 1..Len(L) : L[i] # 0 /\ L[i] # c => i \in 1..Len(t) /\ t[i] = L[i] /\ i # row.col
  BY <1>19
<1> QED BY <1>2, <1>7, <1>14, <1>16, <1>18, <1>21, <1>22, <1>23, <1>24, <1>25 DEF Processed

-----------------------------------------------------------------------------
(* The rows of a walk.                                                     *)

LanesBefore(rows, i) == IF i = 1 THEN <<>> ELSE rows[i - 1].lanes

Laying(rows, commits, ps, n) ==
  /\ rows \in Seq(Rows) /\ Len(rows) = n
  /\ \A i \in 1..n : Processed(rows[i], LanesBefore(rows, i), commits[i], ps[i])

(* Commits whose parents are others.                                       *)
Lineage(commits, ps) ==
  /\ ListOf(commits, Nat)
  /\ \A n \in 1..Len(commits) :
       commits[n] # 0 /\ ListOf(ps[n], Nat) /\ \A m \in 1..Len(ps[n]) : ps[n][m] # 0 /\ ps[n][m] # commits[n]

LaidFun(f, commits, ps) ==
  f = [n \in 0..Len(commits) |->
        IF n = 0 THEN <<>> ELSE Append(f[n - 1], ProcessCommit(LanesAfter(f[n - 1]), commits[n], ps[n]))]

SingleRows(rows) == rows \in Seq(Rows) /\ \A i \in 1..Len(rows) : Single(rows[i].lanes)

LEMMA LanesAfterIs ==
  ASSUME NEW rows, SingleRows(rows)
  PROVE  /\ LanesAfter(rows) \in Seq(Nat) /\ Single(LanesAfter(rows))
         /\ LanesAfter(rows) = IF Len(rows) = 0 THEN <<>> ELSE rows[Len(rows)].lanes
<1>1. rows \in Seq(Rows) /\ Len(rows) \in Nat /\ (rows = <<>> <=> Len(rows) = 0)
  BY DEF SingleRows
<1>2. CASE Len(rows) = 0
  <2>1. LanesAfter(rows) = <<>>
    BY <1>1, <1>2 DEF LanesAfter
  <2>2. Single(<<>>)
    BY DEF Single
  <2> QED BY <1>2, <2>1, <2>2
<1>3. CASE Len(rows) # 0
  <2>1. LanesAfter(rows) = rows[Len(rows)].lanes
    BY <1>1, <1>3 DEF LanesAfter
  <2>2. Len(rows) \in 1..Len(rows)
    BY <1>1, <1>3
  <2>3. rows[Len(rows)] \in Rows
    BY <1>1, <2>2
  <2>4. rows[Len(rows)].lanes \in Seq(Nat)
    BY <2>3 DEF Rows
  <2>5. Single(rows[Len(rows)].lanes)
    BY <2>2 DEF SingleRows
  <2> QED BY <1>3, <2>1, <2>4, <2>5
<1> QED BY <1>2, <1>3

LEMMA LaidGrows ==
  ASSUME NEW commits, NEW ps, Lineage(commits, ps), NEW n \in 1..Len(commits), NEW rows, SingleRows(rows),
         NEW r, r = Append(rows, ProcessCommit(LanesAfter(rows), commits[n], ps[n]))
  PROVE  /\ SingleRows(r)
         /\ Laying(rows, commits, ps, n - 1) => Laying(r, commits, ps, n)
<1>1. /\ commits[n] \in Nat /\ commits[n] # 0 /\ ListOf(ps[n], Nat) /\ n \in Nat
      /\ \A m \in 1..Len(ps[n]) : ps[n][m] # 0 /\ ps[n][m] # commits[n]
  <2>1. commits \in Seq(Nat)
    BY DEF Lineage, ListOf
  <2> QED BY <2>1 DEF Lineage
<1>2. PICK L : L = LanesAfter(rows)
  OBVIOUS
<1>3. L \in Seq(Nat) /\ Single(L) /\ L = IF Len(rows) = 0 THEN <<>> ELSE rows[Len(rows)].lanes
  BY <1>2, LanesAfterIs
<1>4. PICK x : x = ProcessCommit(L, commits[n], ps[n])
  OBVIOUS
<1>5. Processed(x, L, commits[n], ps[n])
  <2>1. PICK c \in Nat : c = commits[n]
    BY <1>1
  <2>2. PICK p : p = ps[n]
    OBVIOUS
  <2>3. Processed(ProcessCommit(L, c, p), L, c, p)
    BY <1>1, <1>3, <2>1, <2>2, ProcessIs
  <2> QED BY <1>4, <2>1, <2>2, <2>3
<1>6. x \in Rows /\ Single(x.lanes)
  BY <1>5 DEF Processed
<1>7. rows \in Seq(Rows) /\ \A i \in 1..Len(rows) : Single(rows[i].lanes)
  BY DEF SingleRows
<1>8. r = Append(rows, x)
  BY <1>2, <1>4
<1>9. /\ r \in Seq(Rows) /\ Len(r) = Len(rows) + 1 /\ r[Len(rows) + 1] = x /\ Len(rows) \in Nat
      /\ \A i \in 1..Len(rows) : r[i] = rows[i]
  BY <1>6, <1>7, <1>8
<1>10. 1..Len(r) = 1..Len(rows) \cup {Len(rows) + 1}
  BY <1>9
<1>11. SingleRows(r)
  BY <1>6, <1>7, <1>9, <1>10 DEF SingleRows
<1>12. ASSUME Laying(rows, commits, ps, n - 1) PROVE Laying(r, commits, ps, n)
  <2>1. Len(rows) = n - 1 /\ \A i \in 1..(n - 1) : Processed(rows[i], LanesBefore(rows, i), commits[i], ps[i])
    BY <1>12 DEF Laying
  <2>2. Len(r) = n /\ 1..n = 1..(n - 1) \cup {n} /\ r[n] = x
    BY <1>1, <1>9, <2>1
  <2>3. ASSUME NEW i \in 1..n PROVE Processed(r[i], LanesBefore(r, i), commits[i], ps[i])
    <3>1. CASE i = n
      <4>1. LanesBefore(r, i) = L
        <5>1. CASE n = 1
          BY <1>3, <2>1, <3>1, <5>1 DEF LanesBefore
        <5>2. CASE n # 1
          <6>1. n - 1 \in 1..Len(rows) /\ Len(rows) # 0
            BY <1>1, <2>1, <5>2
          <6>2. r[n - 1] = rows[n - 1]
            BY <1>9, <6>1
          <6> QED BY <1>3, <2>1, <3>1, <5>2, <6>1, <6>2 DEF LanesBefore
        <5> QED BY <5>1, <5>2
      <4> QED BY <1>5, <2>2, <3>1, <4>1
    <3>2. CASE i \in 1..(n - 1)
      <4>1. r[i] = rows[i] /\ (i # 1 => i - 1 \in 1..Len(rows))
        BY <1>9, <2>1, <3>2
      <4>2. i # 1 => r[i - 1] = rows[i - 1]
        BY <1>9, <4>1
      <4>3. LanesBefore(r, i) = LanesBefore(rows, i)
        BY <4>2 DEF LanesBefore
      <4> QED BY <2>1, <3>2, <4>1, <4>3
    <3> QED BY <2>2, <3>1, <3>2
  <2> QED BY <1>9, <2>2, <2>3 DEF Laying
<1> QED BY <1>11, <1>12

LEMMA LaidIs ==
  ASSUME NEW commits, NEW ps, Lineage(commits, ps)
  PROVE  Laying(Laid(commits, ps), commits, ps, Len(commits))
<1>1. PICK N \in Nat : N = Len(commits)
  BY DEF Lineage, ListOf
<1>2. PICK V : V = {rows \in Seq(Rows) : SingleRows(rows)}
  OBVIOUS
<1>3. \A rows : rows \in V <=> SingleRows(rows)
  BY <1>2 DEF SingleRows
<1>4. PICK op : op = [w \in (1..N) \X V |-> Append(w[2], ProcessCommit(LanesAfter(w[2]), commits[w[1]], ps[w[1]]))]
  OBVIOUS
<1>5. op \in [(1..N) \X V -> V]
  <2>1. ASSUME NEW n \in 1..N, NEW rows \in V
        PROVE  Append(rows, ProcessCommit(LanesAfter(rows), commits[n], ps[n])) \in V
    <3>1. SingleRows(rows) /\ n \in 1..Len(commits)
      BY <1>1, <1>3
    <3>2. PICK r : r = Append(rows, ProcessCommit(LanesAfter(rows), commits[n], ps[n]))
      OBVIOUS
    <3>3. SingleRows(r) /\ (Laying(rows, commits, ps, n - 1) => Laying(r, commits, ps, n))
      BY <3>1, <3>2, LaidGrows
    <3> QED BY <1>3, <3>2, <3>3
  <2> QED BY <1>4, <2>1
<1>6. <<>> \in V
  <2>1. SingleRows(<<>>)
    BY DEF SingleRows
  <2> QED BY <1>3, <2>1
<1>7. PICK f \in [0..N -> V] : Recurs(f, N, <<>>, op)
  BY <1>5, <1>6, RecursExist
<1>8. ASSUME NEW n \in 0..N
      PROVE  f[n] = IF n = 0 THEN <<>> ELSE Append(f[n - 1], ProcessCommit(LanesAfter(f[n - 1]), commits[n], ps[n]))
  <2>1. f[n] = IF n = 0 THEN <<>> ELSE op[<<n, f[n - 1]>>]
    BY <1>7 DEF Recurs
  <2>2. CASE n # 0
    <3>1. n - 1 \in 0..N /\ n \in 1..N
      BY <2>2
    <3>2. f[n - 1] \in V
      BY <3>1
    <3>3. op[<<n, f[n - 1]>>] = Append(f[n - 1], ProcessCommit(LanesAfter(f[n - 1]), commits[n], ps[n]))
      BY <1>4, <3>1, <3>2
    <3> QED BY <2>1, <2>2, <3>3
  <2> QED BY <2>1, <2>2
<1>9. LaidFun(f, commits, ps)
  BY <1>1, <1>7, <1>8 DEF LaidFun, Recurs
<1>10. PICK x : x = CHOOSE y : LaidFun(y, commits, ps)
  OBVIOUS
<1>11. LaidFun(x, commits, ps)
  BY <1>9, <1>10
<1>12. Laid(commits, ps) = x[N]
  BY <1>1, <1>10 DEF Laid, LaidFun
<1>13. PICK G : G = {n \in 0..N : SingleRows(x[n]) /\ Laying(x[n], commits, ps, n)}
  OBVIOUS
<1>14. 0 \in G
  <2>1. 0 \in 0..N
    OBVIOUS
  <2>2. x[0] = <<>>
    BY <1>1, <1>11, <2>1 DEF LaidFun
  <2>3. SingleRows(<<>>) /\ Laying(<<>>, commits, ps, 0)
    BY DEF SingleRows, Laying
  <2> QED BY <1>13, <2>1, <2>2, <2>3
<1>15. ASSUME NEW n \in 1..N, n - 1 \in G PROVE n \in G
  <2>1. n \in 0..N /\ n # 0 /\ n \in 0..Len(commits) /\ n \in 1..Len(commits)
    BY <1>1
  <2>2. x[n] = Append(x[n - 1], ProcessCommit(LanesAfter(x[n - 1]), commits[n], ps[n]))
    BY <1>11, <2>1 DEF LaidFun
  <2>3. PICK rows : rows = x[n - 1]
    OBVIOUS
  <2>4. SingleRows(rows) /\ Laying(rows, commits, ps, n - 1)
    BY <1>13, <1>15, <2>3
  <2>5. PICK r : r = Append(rows, ProcessCommit(LanesAfter(rows), commits[n], ps[n]))
    OBVIOUS
  <2>6. SingleRows(r) /\ (Laying(rows, commits, ps, n - 1) => Laying(r, commits, ps, n))
    BY <2>1, <2>4, <2>5, LaidGrows
  <2> QED BY <1>13, <2>1, <2>2, <2>3, <2>4, <2>5, <2>6
<1>16. \A n \in 0..N : n \in G
  <2>1. \A n \in 1..N : n - 1 \in G => n \in G
    BY <1>15
  <2> QED BY <1>14, <2>1, Upward
<1> QED BY <1>1, <1>12, <1>13, <1>16

-----------------------------------------------------------------------------
(* What a build makes of a history P, at the revision rev.                 *)

AncestryIn(P) ==
  /\ P \in Seq(Seq(Nat)) /\ Len(P) \in Nat
  /\ \A c \in 1..Len(P) : \A i \in 1..Len(P[c]) : P[c][i] \in 1..(c - 1)

FollowedIn(P, c, first) == IF first THEN {P[c][i] : i \in DOMAIN P[c] \cap {1}} ELSE ToSet(P[c])

ReachedIn(P, roots, first) ==
  Spread(roots, [i \in DOMAIN P |-> Len(P) + 1 - i], [c \in DOMAIN P |-> FollowedIn(P, c, first)])

ReachedList(P, f, rev) == InOrder(ReachedIn(P, Roots(f, rev), f.first), Len(P))

WalkIn(P, f, rev) ==
  [i \in 1..Min({MaxRows, Len(ReachedList(P, f, rev))}) |->
     ReachedList(P, f, rev)[Len(ReachedList(P, f, rev)) + 1 - i]]

LaidIn(P, f, rev) == Laid(WalkIn(P, f, rev), [n \in DOMAIN WalkIn(P, f, rev) |-> P[WalkIn(P, f, rev)[n]]])

Admitted(laid, f) == {n \in DOMAIN laid : f.authors = None \/ AuthorOf[laid[n].oid] \in f.authors}

Trace(kept) ==
  [i \in DOMAIN kept |-> [oid |-> kept[i].oid, col |-> kept[i].col, cells |-> kept[i].cells, spans |-> kept[i].spans]]

BuildIn(P, f, rev) == Trace(Sieve(LaidIn(P, f, rev), Admitted(LaidIn(P, f, rev), f)))

Within(roots, P) == roots \subseteq 1..Len(P)

(* The refs of the revision are at commits of P.                           *)
Known(P, rev) == \A f \in Filters : Within(Roots(f, rev), P)

LEMMA FollowedIs ==
  ASSUME NEW P, AncestryIn(P), NEW first, NEW c \in 1..Len(P)
  PROVE  FollowedIn(P, c, first) \subseteq 1..(c - 1)
<1>1. P[c] \in Seq(Nat) /\ DOMAIN P[c] = 1..Len(P[c]) /\ \A i \in 1..Len(P[c]) : P[c][i] \in 1..(c - 1)
  BY DEF AncestryIn
<1> QED BY <1>1 DEF FollowedIn, ToSet

(* The least set that has the roots and what its commits lead to.          *)
Least(P, roots, first, R) ==
  /\ roots \subseteq R /\ R \subseteq 1..Len(P)
  /\ \A c \in R : FollowedIn(P, c, first) \subseteq R
  /\ \A X : roots \subseteq X /\ (\A c \in X \cap (1..Len(P)) : FollowedIn(P, c, first) \subseteq X) => R \subseteq X

LEMMA ReachedIs ==
  ASSUME NEW P, AncestryIn(P), NEW first, NEW roots, roots \subseteq 1..Len(P), NEW R, R = ReachedIn(P, roots, first)
  PROVE  Least(P, roots, first, R)
<1>1. PICK N \in Nat : N = Len(P)
  BY DEF AncestryIn
<1>2. DOMAIN P = 1..N
  BY <1>1 DEF AncestryIn
<1>3. PICK U : U = 1..N
  OBVIOUS
<1>4. PICK order : order = [i \in 1..N |-> N + 1 - i]
  OBVIOUS
<1>5. PICK next : next = [c \in 1..N |-> FollowedIn(P, c, first)]
  OBVIOUS
<1>6. order \in Seq(U) /\ Len(order) = N /\ \A i \in 1..N : order[i] = N + 1 - i
  <2>1. \A i \in 1..N : N + 1 - i \in 1..N
    OBVIOUS
  <2>2. order \in [1..N -> U]
    BY <1>3, <1>4, <2>1
  <2> QED BY <1>4, <2>2
<1>7. \A c \in U : next[c] = FollowedIn(P, c, first) /\ next[c] \subseteq 1..(c - 1)
  BY <1>1, <1>3, <1>5, FollowedIs
<1>8. next \in [U -> SUBSET U]
  <2>1. \A c \in U : 1..(c - 1) \subseteq U
    BY <1>3
  <2>2. \A c \in U : next[c] \subseteq U
    BY <1>7, <2>1
  <2> QED BY <1>3, <1>5, <2>2
<1>9. Orders(order, U, next)
  <2>1. ASSUME NEW c \in U PROVE \E k \in 1..Len(order) : order[k] = c
    <3>1. N + 1 - c \in 1..N /\ N + 1 - (N + 1 - c) = c
      BY <1>3
    <3> QED BY <1>6, <3>1
  <2>2. ASSUME NEW k \in 1..Len(order), NEW m \in 1..Len(order), order[m] \in next[order[k]] PROVE k < m
    <3>1. k \in 1..N /\ m \in 1..N /\ order[k] = N + 1 - k /\ order[m] = N + 1 - m /\ order[k] \in U
      BY <1>3, <1>6
    <3>2. order[m] \in 1..(order[k] - 1)
      BY <1>7, <2>2, <3>1
    <3> QED BY <3>1, <3>2
  <2> QED BY <2>1, <2>2 DEF Orders
<1>10. R = Spread(roots, order, next)
  BY <1>1, <1>2, <1>4, <1>5 DEF ReachedIn
<1>11. roots \subseteq U
  BY <1>1, <1>3
<1>12. /\ roots \subseteq R /\ R \subseteq U
       /\ \A X : roots \subseteq X /\ (\A c \in X \cap U : next[c] \subseteq X) => R \subseteq X
       /\ Closed(R, next)
  <2>1. PICK S : S = roots
    OBVIOUS
  <2>2. /\ S \subseteq Spread(S, order, next) /\ Spread(S, order, next) \subseteq U
        /\ \A X : S \subseteq X /\ (\A c \in X \cap U : next[c] \subseteq X) => Spread(S, order, next) \subseteq X
        /\ Orders(order, U, next) => Closed(Spread(S, order, next), next)
    <3>1. S \subseteq U
      BY <1>11, <2>1
    <3>2. order \in Seq(U) /\ next \in [U -> SUBSET U]
      BY <1>6, <1>8
    <3> QED BY <3>1, <3>2, SpreadIs
  <2> QED BY <1>9, <1>10, <2>1, <2>2
<1>13. \A c \in R : FollowedIn(P, c, first) \subseteq R
  BY <1>7, <1>12 DEF Closed
<1>14. ASSUME NEW X, roots \subseteq X, \A c \in X \cap (1..N) : FollowedIn(P, c, first) \subseteq X PROVE R \subseteq X
  <2>1. \A c \in X \cap U : next[c] \subseteq X
    BY <1>3, <1>7, <1>14
  <2> QED BY <1>12, <1>14, <2>1
<1> QED BY <1>1, <1>3, <1>12, <1>13, <1>14 DEF Least

(* A new commit changes nothing of what the older ones reach.              *)
Grown(P, Q) ==
  /\ AncestryIn(P) /\ AncestryIn(Q) /\ Len(Q) = Len(P) + 1
  /\ \A c \in 1..Len(P) : Q[c] = P[c]

LEMMA ReachedGrows ==
  ASSUME NEW P, NEW Q, Grown(P, Q), NEW first, NEW roots, Within(roots, P)
  PROVE  ReachedIn(Q, roots, first) = ReachedIn(P, roots, first)
<1>1. AncestryIn(P) /\ AncestryIn(Q) /\ Len(P) \in Nat /\ Len(Q) = Len(P) + 1 /\ 1..Len(P) \subseteq 1..Len(Q)
  <2>1. AncestryIn(P) /\ AncestryIn(Q) /\ Len(P) \in Nat /\ Len(Q) = Len(P) + 1
    BY DEF Grown, AncestryIn
  <2> QED BY <2>1
<1>2. \A c \in 1..Len(P) : FollowedIn(Q, c, first) = FollowedIn(P, c, first)
  BY DEF Grown, FollowedIn
<1>3. roots \subseteq 1..Len(Q) /\ roots \subseteq 1..Len(P)
  BY <1>1 DEF Within
<1>4. PICK A : A = ReachedIn(P, roots, first)
  OBVIOUS
<1>5. PICK B : B = ReachedIn(Q, roots, first)
  OBVIOUS
<1>6. /\ roots \subseteq A /\ A \subseteq 1..Len(P)
      /\ \A c \in A : FollowedIn(P, c, first) \subseteq A
      /\ \A X : roots \subseteq X /\ (\A c \in X \cap (1..Len(P)) : FollowedIn(P, c, first) \subseteq X) => A \subseteq X
  <2>1. Least(P, roots, first, A)
    BY <1>1, <1>3, <1>4, ReachedIs
  <2> QED BY <2>1 DEF Least
<1>7. /\ roots \subseteq B /\ B \subseteq 1..Len(Q)
      /\ \A c \in B : FollowedIn(Q, c, first) \subseteq B
      /\ \A X : roots \subseteq X /\ (\A c \in X \cap (1..Len(Q)) : FollowedIn(Q, c, first) \subseteq X) => B \subseteq X
  <2>1. Least(Q, roots, first, B)
    BY <1>1, <1>3, <1>5, ReachedIs
  <2> QED BY <2>1 DEF Least
<1>8. A \subseteq B
  <2>1. \A c \in B \cap (1..Len(P)) : FollowedIn(P, c, first) \subseteq B
    BY <1>2, <1>7
  <2> QED BY <1>6, <1>7, <2>1
<1>9. B \subseteq A
  <2>1. \A c \in A \cap (1..Len(Q)) : FollowedIn(Q, c, first) \subseteq A
    BY <1>2, <1>6
  <2> QED BY <1>6, <1>7, <2>1
<1> QED BY <1>4, <1>5, <1>8, <1>9

LEMMA ReachedListIs ==
  ASSUME NEW P, AncestryIn(P), NEW f, NEW rev, NEW s, s = ReachedList(P, f, rev)
  PROVE  /\ s \in Seq(Nat) /\ Len(s) \in Nat /\ \A i \in 1..Len(s) : s[i] \in 1..Len(P)
         /\ \A i, j \in 1..Len(s) : i < j => s[i] < s[j]
<1>1. PICK S : S = ReachedIn(P, Roots(f, rev), f.first)
  OBVIOUS
<1>2. Len(P) \in Nat
  BY DEF AncestryIn
<1>3. s = InOrder(S, Len(P))
  BY <1>1 DEF ReachedList
<1>4. Listed(s, S \cap (1..Len(P)))
  BY <1>2, <1>3, InOrderIs
<1> QED BY <1>4 DEF Listed

LEMMA WalkIs ==
  ASSUME NEW P, AncestryIn(P), NEW f, NEW rev, NEW w, w = WalkIn(P, f, rev)
  PROVE  /\ w \in Seq(Nat) /\ Len(w) \in Nat /\ DOMAIN w = 1..Len(w)
         /\ \A i \in 1..Len(w) : w[i] \in 1..Len(P)
         /\ \A i, j \in 1..Len(w) : i < j => w[j] < w[i]
<1>1. PICK s : s = ReachedList(P, f, rev)
  OBVIOUS
<1>2. /\ s \in Seq(Nat) /\ Len(s) \in Nat /\ \A i \in 1..Len(s) : s[i] \in 1..Len(P)
      /\ \A i, j \in 1..Len(s) : i < j => s[i] < s[j]
  BY <1>1, ReachedListIs
<1>3. PICK N \in Nat : N = Len(s)
  BY <1>2
<1>4. PICK K \in Nat : K = Min({MaxRows, N}) /\ K <= N
  <2>1. MaxRows \in Nat
    BY RefsAssumption
  <2>2. Min({MaxRows, N}) = IF MaxRows <= N THEN MaxRows ELSE N
    BY <2>1, MinPair
  <2> QED BY <2>1, <2>2
<1>5. w = [i \in 1..K |-> s[N + 1 - i]]
  BY <1>1, <1>3, <1>4 DEF WalkIn
<1>6. \A i \in 1..K : N + 1 - i \in 1..N /\ N + 1 - i \in 1..Len(s)
  BY <1>3, <1>4
<1>7. \A i \in 1..K : w[i] = s[N + 1 - i] /\ w[i] \in 1..Len(P) /\ w[i] \in Nat
  <2>1. \A i \in 1..Len(s) : s[i] \in Nat
    BY <1>2
  <2> QED BY <1>2, <1>5, <1>6, <2>1
<1>8. w \in Seq(Nat) /\ Len(w) = K /\ DOMAIN w = 1..K
  <2>1. w \in [1..K -> Nat]
    BY <1>5, <1>7
  <2> QED BY <2>1
<1>9. ASSUME NEW i \in 1..K, NEW j \in 1..K, i < j PROVE w[j] < w[i]
  <2>1. N + 1 - j < N + 1 - i
    BY <1>9
  <2> QED BY <1>2, <1>6, <1>7, <2>1
<1> QED BY <1>7, <1>8, <1>9

LEMMA WalkGrows ==
  ASSUME NEW P, NEW Q, Grown(P, Q), NEW f \in Filters, NEW rev, Known(P, rev)
  PROVE  WalkIn(Q, f, rev) = WalkIn(P, f, rev)
<1>1. PICK roots : roots = Roots(f, rev)
  OBVIOUS
<1>2. Within(roots, P) /\ roots \subseteq 1..Len(P)
  BY <1>1 DEF Known, Within
<1>9. PICK first : first = f.first
  OBVIOUS
<1>3. ReachedIn(Q, roots, first) = ReachedIn(P, roots, first)
  BY <1>2, ReachedGrows
<1>4. PICK S : S = ReachedIn(P, roots, first)
  OBVIOUS
<1>5. AncestryIn(P) /\ Len(P) \in Nat /\ Len(Q) \in Nat /\ Len(P) <= Len(Q)
  BY DEF Grown, AncestryIn
<1>6. S \subseteq 1..Len(P)
  <2>1. Least(P, roots, first, S)
    BY <1>2, <1>4, <1>5, ReachedIs
  <2> QED BY <2>1 DEF Least
<1>7. InOrder(S, Len(Q)) = InOrder(S, Len(P))
  BY <1>5, <1>6, InOrderFar
<1>8. ReachedList(Q, f, rev) = ReachedList(P, f, rev)
  BY <1>1, <1>3, <1>4, <1>7, <1>9 DEF ReachedList
<1> QED BY <1>8 DEF WalkIn

LEMMA BuildGrows ==
  ASSUME NEW P, NEW Q, Grown(P, Q), NEW f \in Filters, NEW rev, Known(P, rev)
  PROVE  BuildIn(Q, f, rev) = BuildIn(P, f, rev)
<1>1. WalkIn(Q, f, rev) = WalkIn(P, f, rev)
  BY WalkGrows
<1>2. PICK w : w = WalkIn(P, f, rev)
  OBVIOUS
<1>3. AncestryIn(P)
  BY DEF Grown
<1>4. DOMAIN w = 1..Len(w) /\ \A n \in 1..Len(w) : w[n] \in 1..Len(P)
  BY <1>2, <1>3, WalkIs
<1>5. \A n \in DOMAIN w : Q[w[n]] = P[w[n]]
  BY <1>4 DEF Grown
<1>6. [n \in DOMAIN w |-> Q[w[n]]] = [n \in DOMAIN w |-> P[w[n]]]
  BY <1>5
<1>7. LaidIn(Q, f, rev) = LaidIn(P, f, rev)
  BY <1>1, <1>2, <1>6 DEF LaidIn
<1> QED BY <1>7 DEF BuildIn

-----------------------------------------------------------------------------
(* The rows of a build.                                                    *)

Sieved(seq, S, r) ==
  /\ Len(r) \in Nat /\ DOMAIN r = 1..Len(r)
  /\ \E p : /\ \A k \in 1..Len(r) : p[k] \in 1..Len(seq) /\ r[k] = seq[p[k]]
            /\ \A k, m \in 1..Len(r) : k < m => p[k] < p[m]
  /\ S = 1..Len(seq) => Len(r) = Len(seq) /\ \A k \in 1..Len(r) : r[k] = seq[k]

LEMMA SieveIs ==
  ASSUME NEW seq, Len(seq) \in Nat, NEW S, S \subseteq 1..Len(seq), NEW r, r = Sieve(seq, S)
  PROVE  Sieved(seq, S, r)
<1>1. PICK N \in Nat : N = Len(seq)
  OBVIOUS
<1>2. PICK p : p = InOrder(S, N)
  OBVIOUS
<1>3. Listed(p, S \cap (1..N))
  BY <1>2, InOrderIs
<1>4. /\ p \in Seq(Nat) /\ Len(p) \in Nat /\ DOMAIN p = 1..Len(p)
      /\ \A k \in 1..Len(p) : p[k] \in 1..N
      /\ \A k, m \in 1..Len(p) : k < m => p[k] < p[m]
  BY <1>3 DEF Listed
<1>5. r = [k \in 1..Len(p) |-> seq[p[k]]]
  BY <1>1, <1>2, <1>4 DEF Sieve
<1>6. Len(r) = Len(p) /\ DOMAIN r = 1..Len(p)
  BY <1>4, <1>5
<1>7. ASSUME S = 1..N PROVE Len(p) = N /\ \A k \in 1..N : p[k] = k
  <2>1. p = [k \in 1..N |-> k]
    BY <1>2, <1>7, InOrderAll
  <2> QED BY <2>1
<1> QED BY <1>1, <1>4, <1>5, <1>6, <1>7 DEF Sieved

DescendsIn(P, rows) ==
  /\ rows \in Seq(Lines)
  /\ \A i \in 1..Len(rows) : rows[i].oid \in 1..Len(P)
  /\ \A i, j \in 1..Len(rows) : i < j => rows[j].oid < rows[i].oid

(* Rows as the builder laid them, one for every commit of the walk.        *)
Traced(P, rows) ==
  \E laid \in Seq(Rows) :
    /\ Len(laid) = Len(rows)
    /\ \A i \in 1..Len(rows) :
         /\ Processed(laid[i], LanesBefore(laid, i), rows[i].oid, P[rows[i].oid])
         /\ rows[i].col = laid[i].col /\ rows[i].cells = laid[i].cells /\ rows[i].spans = laid[i].spans

LEMMA LaidInIs ==
  ASSUME NEW P, AncestryIn(P), NEW f, NEW rev, NEW laid, laid = LaidIn(P, f, rev)
  PROVE  /\ laid \in Seq(Rows) /\ Len(laid) \in Nat /\ DOMAIN laid = 1..Len(laid)
         /\ \A i \in 1..Len(laid) : Processed(laid[i], LanesBefore(laid, i), laid[i].oid, P[laid[i].oid])
         /\ \A i \in 1..Len(laid) : laid[i].oid \in 1..Len(P)
         /\ \A i, j \in 1..Len(laid) : i < j => laid[j].oid < laid[i].oid
<1>1. PICK w : w = WalkIn(P, f, rev)
  OBVIOUS
<1>2. /\ w \in Seq(Nat) /\ Len(w) \in Nat /\ DOMAIN w = 1..Len(w)
      /\ \A i \in 1..Len(w) : w[i] \in 1..Len(P)
      /\ \A i, j \in 1..Len(w) : i < j => w[j] < w[i]
  BY <1>1, WalkIs
<1>3. PICK ps : ps = [n \in 1..Len(w) |-> P[w[n]]]
  OBVIOUS
<1>4. laid = Laid(w, ps)
  BY <1>1, <1>2, <1>3 DEF LaidIn
<1>5. Lineage(w, ps)
  <2>1. ASSUME NEW n \in 1..Len(w)
        PROVE  w[n] # 0 /\ ListOf(ps[n], Nat) /\ \A m \in 1..Len(ps[n]) : ps[n][m] # 0 /\ ps[n][m] # w[n]
    <3>1. PICK c \in 1..Len(P) : c = w[n]
      BY <1>2
    <3>2. c \in Nat /\ c # 0 /\ ps[n] = P[c]
      BY <1>3, <3>1 DEF AncestryIn
    <3>3. P[c] \in Seq(Nat) /\ \A m \in 1..Len(P[c]) : P[c][m] \in 1..(c - 1)
      BY DEF AncestryIn
    <3>4. \A m \in 1..Len(P[c]) : P[c][m] # 0 /\ P[c][m] # c
      BY <3>2, <3>3
    <3> QED BY <3>1, <3>2, <3>3, <3>4 DEF ListOf
  <2>2. ListOf(w, Nat)
    BY <1>2 DEF ListOf
  <2> QED BY <2>1, <2>2 DEF Lineage
<1>6. Laying(laid, w, ps, Len(w))
  BY <1>4, <1>5, LaidIs
<1>7. /\ laid \in Seq(Rows) /\ Len(laid) = Len(w)
      /\ \A i \in 1..Len(w) : Processed(laid[i], LanesBefore(laid, i), w[i], ps[i])
  BY <1>6 DEF Laying
<1>8. \A i \in 1..Len(w) : laid[i].oid = w[i] /\ ps[i] = P[w[i]]
  BY <1>3, <1>7 DEF Processed
<1>9. \A i \in 1..Len(laid) : Processed(laid[i], LanesBefore(laid, i), laid[i].oid, P[laid[i].oid])
  BY <1>7, <1>8
<1> QED BY <1>2, <1>7, <1>8, <1>9

LEMMA BuildIs ==
  ASSUME NEW P, AncestryIn(P), NEW f, NEW rev, NEW rows, rows = BuildIn(P, f, rev)
  PROVE  /\ DescendsIn(P, rows)
         /\ f.authors = None => Traced(P, rows)
<1>1. PICK laid : laid = LaidIn(P, f, rev)
  OBVIOUS
<1>2. /\ laid \in Seq(Rows) /\ Len(laid) \in Nat /\ DOMAIN laid = 1..Len(laid)
      /\ \A i \in 1..Len(laid) : Processed(laid[i], LanesBefore(laid, i), laid[i].oid, P[laid[i].oid])
      /\ \A i \in 1..Len(laid) : laid[i].oid \in 1..Len(P)
      /\ \A i, j \in 1..Len(laid) : i < j => laid[j].oid < laid[i].oid
  BY <1>1, LaidInIs
<1>3. PICK S : S = Admitted(laid, f)
  OBVIOUS
<1>4. S \subseteq 1..Len(laid) /\ (f.authors = None => S = 1..Len(laid))
  BY <1>2, <1>3 DEF Admitted
<1>5. PICK kept : kept = Sieve(laid, S)
  OBVIOUS
<1>6. /\ Len(kept) \in Nat /\ DOMAIN kept = 1..Len(kept)
      /\ \E p : /\ \A k \in 1..Len(kept) : p[k] \in 1..Len(laid) /\ kept[k] = laid[p[k]]
                /\ \A k, m \in 1..Len(kept) : k < m => p[k] < p[m]
      /\ S = 1..Len(laid) => Len(kept) = Len(laid) /\ \A k \in 1..Len(kept) : kept[k] = laid[k]
  <2>1. Sieved(laid, S, kept)
    BY <1>2, <1>4, <1>5, SieveIs
  <2> QED BY <2>1 DEF Sieved
<1>7. PICK p : /\ \A k \in 1..Len(kept) : p[k] \in 1..Len(laid) /\ kept[k] = laid[p[k]]
               /\ \A k, m \in 1..Len(kept) : k < m => p[k] < p[m]
  BY <1>6
<1>8. PICK K \in Nat : K = Len(kept)
  BY <1>6
<1>9. rows = [i \in 1..K |-> [oid |-> kept[i].oid, col |-> kept[i].col, cells |-> kept[i].cells, spans |-> kept[i].spans]]
  BY <1>1, <1>3, <1>5, <1>6, <1>8 DEF BuildIn, Trace
<1>10. ASSUME NEW i \in 1..K PROVE rows[i] \in Lines
  <2>1. kept[i] \in Rows
    BY <1>2, <1>7, <1>8
  <2> QED BY <1>9, <2>1 DEF Rows, Lines
<1>11. rows \in Seq(Lines) /\ Len(rows) = K
  <2>1. rows \in [1..K -> Lines]
    BY <1>9, <1>10
  <2> QED BY <2>1
<1>12. \A i \in 1..K : rows[i].oid = laid[p[i]].oid /\ p[i] \in 1..Len(laid)
  BY <1>7, <1>8, <1>9
<1>13. DescendsIn(P, rows)
  <2>1. \A i \in 1..K : rows[i].oid \in 1..Len(P)
    BY <1>2, <1>12
  <2>2. \A i, j \in 1..K : i < j => rows[j].oid < rows[i].oid
    BY <1>2, <1>7, <1>8, <1>12
  <2> QED BY <1>11, <2>1, <2>2 DEF DescendsIn
<1>14. ASSUME f.authors = None PROVE Traced(P, rows)
  <2>1. Len(laid) = K /\ \A i \in 1..K : kept[i] = laid[i]
    BY <1>4, <1>6, <1>8, <1>14
  <2>2. ASSUME NEW i \in 1..K
        PROVE  /\ Processed(laid[i], LanesBefore(laid, i), rows[i].oid, P[rows[i].oid])
               /\ rows[i].col = laid[i].col /\ rows[i].cells = laid[i].cells /\ rows[i].spans = laid[i].spans
    <3>1. rows[i] = [oid |-> laid[i].oid, col |-> laid[i].col, cells |-> laid[i].cells, spans |-> laid[i].spans]
      BY <1>9, <2>1
    <3> QED BY <1>2, <2>1, <3>1
  <2>3. Len(laid) = Len(rows) /\ \A i \in 1..Len(rows) : i \in 1..K
    BY <1>11, <2>1
  <2> QED BY <1>2, <2>2, <2>3 DEF Traced
<1> QED BY <1>13, <1>14

-----------------------------------------------------------------------------
(* The lines of a traced build are what is awaited.                        *)

AwaitedIn(P, rows, i) ==
  (UNION {ToSet(P[rows[j].oid]) : j \in 1..i}) \ {rows[j].oid : j \in 1..i}

(* The lanes below row i.                                                  *)
Below(laid, N) == [i \in 0..N |-> IF i = 0 THEN <<>> ELSE laid[i].lanes]

(* Lanes for what is awaited.                                              *)
Awaiting(lanes, A) ==
  /\ lanes \in Seq(Nat) /\ Single(lanes)
  /\ A \subseteq Nat \ {0} /\ \A p \in Nat : p # 0 => (On(lanes, p) <=> p \in A)

(* A commit c with parents ps turns what is awaited from A to B.           *)
Turns(A, B, c, ps) == \A p : p \in B <=> (p # c /\ p \in A) \/ \E m \in 1..Len(ps) : ps[m] = p

Positive(ps) == \A m \in 1..Len(ps) : ps[m] \in Nat /\ ps[m] # 0

LEMMA AwaitedIs ==
  ASSUME NEW P, AncestryIn(P), NEW rows, DescendsIn(P, rows), NEW i \in 0..Len(rows), NEW A, A = AwaitedIn(P, rows, i)
  PROVE  \A p : p \in A <=> /\ \E j \in 1..i : \E m \in 1..Len(P[rows[j].oid]) : P[rows[j].oid][m] = p
                            /\ \A j \in 1..i : rows[j].oid # p
<1>1. Len(rows) \in Nat
  BY DEF DescendsIn
<1>2. \A j \in 1..i : rows[j].oid \in 1..Len(P)
  BY <1>1 DEF DescendsIn
<1>3. \A c \in 1..Len(P) : DOMAIN P[c] = 1..Len(P[c])
  BY DEF AncestryIn
<1>4. \A j \in 1..i : \A p : p \in ToSet(P[rows[j].oid]) <=> \E m \in 1..Len(P[rows[j].oid]) : P[rows[j].oid][m] = p
  BY <1>2, <1>3 DEF ToSet
<1>5. PICK W : W = {ToSet(P[rows[j].oid]) : j \in 1..i}
  OBVIOUS
<1>6. PICK D : D = {rows[j].oid : j \in 1..i}
  OBVIOUS
<1>7. A = (UNION W) \ D
  BY <1>5, <1>6 DEF AwaitedIn
<1>8. \A p : p \in UNION W <=> \E j \in 1..i : p \in ToSet(P[rows[j].oid])
  BY <1>5
<1>9. \A p : p \in D <=> \E j \in 1..i : rows[j].oid = p
  BY <1>6
<1>10. ASSUME NEW p
       PROVE  p \in A <=> /\ \E j \in 1..i : \E m \in 1..Len(P[rows[j].oid]) : P[rows[j].oid][m] = p
                          /\ \A j \in 1..i : rows[j].oid # p
  <2>1. p \in A <=> p \in UNION W /\ p \notin D
    BY <1>7
  <2>2. p \in UNION W <=> \E j \in 1..i : \E m \in 1..Len(P[rows[j].oid]) : P[rows[j].oid][m] = p
    BY <1>4, <1>8
  <2>3. p \notin D <=> \A j \in 1..i : rows[j].oid # p
    BY <1>9
  <2> QED BY <2>1, <2>2, <2>3
<1> QED BY <1>10

LEMMA AwaitedStep ==
  ASSUME NEW P, AncestryIn(P), NEW rows, DescendsIn(P, rows), NEW i \in 1..Len(rows),
         NEW A, A = AwaitedIn(P, rows, i - 1), NEW B, B = AwaitedIn(P, rows, i),
         NEW c, c = rows[i].oid
  PROVE  Turns(A, B, c, P[c])
<1>1. Len(rows) \in Nat /\ i \in 0..Len(rows) /\ i - 1 \in 0..Len(rows) /\ 1..i = 1..(i - 1) \cup {i}
  BY DEF DescendsIn
<1>2. \A p : p \in A <=> /\ \E j \in 1..(i - 1) : \E m \in 1..Len(P[rows[j].oid]) : P[rows[j].oid][m] = p
                         /\ \A j \in 1..(i - 1) : rows[j].oid # p
  BY <1>1, AwaitedIs
<1>3. \A p : p \in B <=> /\ \E j \in 1..i : \E m \in 1..Len(P[rows[j].oid]) : P[rows[j].oid][m] = p
                         /\ \A j \in 1..i : rows[j].oid # p
  BY <1>1, AwaitedIs
<1>4. c \in 1..Len(P) /\ c \in Nat
  BY DEF DescendsIn, AncestryIn
<1>5. \A m \in 1..Len(P[c]) : P[c][m] \in 1..(c - 1)
  BY <1>4 DEF AncestryIn
<1>6. ASSUME NEW j \in 1..i PROVE rows[j].oid \in Nat /\ c <= rows[j].oid
  <2>1. j \in 1..Len(rows) /\ (j = i \/ j < i)
    BY <1>1
  <2>2. rows[j].oid \in Nat
    BY <2>1 DEF DescendsIn, AncestryIn
  <2>3. j < i => c < rows[j].oid
    BY <2>1 DEF DescendsIn
  <2> QED BY <1>4, <2>1, <2>2, <2>3
<1>7. ASSUME NEW m \in 1..Len(P[c]) PROVE \A j \in 1..i : rows[j].oid # P[c][m]
  <2>1. P[c][m] \in Nat /\ P[c][m] < c
    <3>1. P[c][m] \in 1..(c - 1) /\ c \in Nat
      BY <1>4, <1>5
    <3> QED BY <3>1
  <2> QED BY <1>4, <1>6, <2>1
<1>8. ASSUME NEW p, p \in B PROVE (p # c /\ p \in A) \/ \E m \in 1..Len(P[c]) : P[c][m] = p
  <2>1. PICK j \in 1..i : \E m \in 1..Len(P[rows[j].oid]) : P[rows[j].oid][m] = p
    BY <1>3, <1>8
  <2>2. \A k \in 1..i : rows[k].oid # p
    BY <1>3, <1>8
  <2>3. CASE j = i
    BY <2>1, <2>3
  <2>4. CASE j \in 1..(i - 1)
    <3>1. p \in A
      BY <1>1, <1>2, <2>1, <2>2, <2>4
    <3>2. p # c
      BY <1>1, <2>2
    <3> QED BY <3>1, <3>2
  <2> QED BY <1>1, <2>3, <2>4
<1>9. ASSUME NEW p, p # c, p \in A PROVE p \in B
  <2>1. PICK j \in 1..(i - 1) : \E m \in 1..Len(P[rows[j].oid]) : P[rows[j].oid][m] = p
    BY <1>2, <1>9
  <2>2. j \in 1..i /\ \A k \in 1..i : rows[k].oid # p
    BY <1>1, <1>2, <1>9
  <2> QED BY <1>3, <2>1, <2>2
<1>10. ASSUME NEW p, NEW m \in 1..Len(P[c]), P[c][m] = p PROVE p \in B
  <2>1. i \in 1..i
    BY <1>1
  <2> QED BY <1>3, <1>7, <1>10, <2>1
<1> QED BY <1>8, <1>9, <1>10 DEF Turns

LEMMA AwaitingStep ==
  ASSUME NEW L, NEW A, Awaiting(L, A), NEW row, NEW c \in Nat, NEW ps, Processed(row, L, c, ps), NEW B, Turns(A, B, c, ps), Positive(ps)
  PROVE  Awaiting(row.lanes, B)
<1>1. /\ L \in Seq(Nat) /\ A \subseteq Nat \ {0} /\ \A p \in Nat : p # 0 => (On(L, p) <=> p \in A)
  BY DEF Awaiting
<1>2. /\ row \in Rows /\ Single(row.lanes)
      /\ \A p \in Nat : p # 0 => (On(row.lanes, p) <=> (p # c /\ On(L, p)) \/ \E m \in 1..Len(ps) : ps[m] = p)
  BY DEF Processed
<1>3. row.lanes \in Seq(Nat)
  BY <1>2 DEF Rows
<1>4. B \subseteq Nat \ {0}
  BY <1>1 DEF Turns, Positive
<1>5. \A p \in Nat : p # 0 => (On(row.lanes, p) <=> p \in B)
  BY <1>1, <1>2 DEF Turns
<1> QED BY <1>2, <1>3, <1>4, <1>5 DEF Awaiting

LEMMA AwaitingStart ==
  ASSUME NEW P, NEW rows
  PROVE  Awaiting(<<>>, AwaitedIn(P, rows, 0))
<1>1. 1..0 = {}
  OBVIOUS
<1>2. AwaitedIn(P, rows, 0) = {}
  BY <1>1 DEF AwaitedIn
<1>3. <<>> \in Seq(Nat) /\ Single(<<>>) /\ \A p : ~On(<<>>, p)
  BY DEF Single, On
<1> QED BY <1>2, <1>3 DEF Awaiting

(* Row i of a traced build, and the lanes above and below it.              *)
TracedRow(P, rows, laid, i) ==
  /\ Processed(laid[i], Below(laid, Len(rows))[i - 1], rows[i].oid, P[rows[i].oid])
  /\ Below(laid, Len(rows))[i] = laid[i].lanes
  /\ rows[i].col = laid[i].col /\ rows[i].cells = laid[i].cells /\ rows[i].spans = laid[i].spans

LEMMA TracedIs ==
  ASSUME NEW P, AncestryIn(P), NEW rows, DescendsIn(P, rows), Traced(P, rows)
  PROVE  \E laid :
           /\ \A i \in 1..Len(rows) : TracedRow(P, rows, laid, i)
           /\ \A i \in 0..Len(rows) : Awaiting(Below(laid, Len(rows))[i], AwaitedIn(P, rows, i))
<1>1. PICK N \in Nat : N = Len(rows)
  BY DEF DescendsIn
<1>2. PICK laid \in Seq(Rows) :
        \A i \in 1..N :
          /\ Processed(laid[i], LanesBefore(laid, i), rows[i].oid, P[rows[i].oid])
          /\ rows[i].col = laid[i].col /\ rows[i].cells = laid[i].cells /\ rows[i].spans = laid[i].spans
  BY <1>1 DEF Traced
<1>3. PICK b : b = Below(laid, N)
  OBVIOUS
<1>4. b[0] = <<>> /\ \A i \in 1..N : b[i] = laid[i].lanes
  BY <1>3 DEF Below
<1>5. ASSUME NEW i \in 1..N PROVE LanesBefore(laid, i) = b[i - 1]
  <2>1. CASE i = 1
    BY <1>4, <2>1 DEF LanesBefore
  <2>2. CASE i # 1
    <3>1. i - 1 \in 1..N
      BY <2>2
    <3> QED BY <1>4, <2>2, <3>1 DEF LanesBefore
  <2> QED BY <2>1, <2>2
<1>6. ASSUME NEW i \in 1..N PROVE TracedRow(P, rows, laid, i)
  <2>1. Processed(laid[i], b[i - 1], rows[i].oid, P[rows[i].oid])
    BY <1>2, <1>5
  <2> QED BY <1>1, <1>2, <1>3, <1>4, <2>1 DEF TracedRow
<1>7. PICK G : G = {i \in 0..N : Awaiting(b[i], AwaitedIn(P, rows, i))}
  OBVIOUS
<1>8. 0 \in G
  <2>1. 0 \in 0..N
    OBVIOUS
  <2>2. Awaiting(b[0], AwaitedIn(P, rows, 0))
    BY <1>4, AwaitingStart
  <2> QED BY <1>7, <2>1, <2>2
<1>9. ASSUME NEW i \in 1..N, i - 1 \in G PROVE i \in G
  <2>1. PICK A : A = AwaitedIn(P, rows, i - 1)
    OBVIOUS
  <2>2. PICK B : B = AwaitedIn(P, rows, i)
    OBVIOUS
  <2>3. PICK c \in 1..Len(P) : c = rows[i].oid
    BY <1>1 DEF DescendsIn
  <2>4. c \in Nat /\ \A m \in 1..Len(P[c]) : P[c][m] \in Nat /\ P[c][m] # 0
    <3>1. c \in Nat /\ \A m \in 1..Len(P[c]) : P[c][m] \in 1..(c - 1)
      BY DEF AncestryIn
    <3> QED BY <3>1
  <2>5. Turns(A, B, c, P[c])
    BY <1>1, <2>1, <2>2, <2>3, AwaitedStep
  <2>6. PICK L : L = b[i - 1]
    OBVIOUS
  <2>7. Awaiting(L, A)
    BY <1>7, <1>9, <2>1, <2>6
  <2>8. PICK row : row = laid[i]
    OBVIOUS
  <2>9. PICK ps : ps = P[c]
    OBVIOUS
  <2>10. Processed(row, L, c, ps)
    BY <1>2, <1>5, <2>3, <2>6, <2>8, <2>9
  <2>11. Turns(A, B, c, ps) /\ Positive(ps)
    BY <2>4, <2>5, <2>9 DEF Positive
  <2>12. Awaiting(row.lanes, B)
    BY <2>4, <2>7, <2>10, <2>11, AwaitingStep
  <2>13. i \in 0..N
    OBVIOUS
  <2> QED BY <1>4, <1>7, <2>2, <2>8, <2>12, <2>13
<1>10. \A i \in 0..N : i \in G
  <2>1. \A i \in 1..N : i - 1 \in G => i \in G
    BY <1>9
  <2> QED BY <1>8, <2>1, Upward
<1>11. \A i \in 0..N : Awaiting(b[i], AwaitedIn(P, rows, i))
  BY <1>7, <1>10
<1> QED BY <1>1, <1>3, <1>6, <1>11

-----------------------------------------------------------------------------
(* The picture is the history.                                             *)

LinesOf(P, rows) ==
  /\ \A i \in DOMAIN rows :
       Cardinality({x \in DOMAIN rows[i].cells : rows[i].cells[x] \in Vertical})
         = Cardinality(AwaitedIn(P, rows, i - 1) \ {rows[i].oid})
  /\ \A k, j \in DOMAIN rows : rows[j].oid \in ToSet(P[rows[k].oid]) =>
       LET x == rows[j].col
       IN /\ k < j
          /\ \A i \in (k + 1)..(j - 1) : x \in DOMAIN rows[i].cells /\ rows[i].cells[x] \in Vertical
          /\ \/ rows[j].oid \in AwaitedIn(P, rows, k - 1) /\ P[rows[k].oid][1] # rows[j].oid
             \/ Span(x, rows[k].col)[1]..(Span(x, rows[k].col)[2] - 1) \subseteq Bars(rows[k])

(* One line for every commit that is awaited.                              *)
LEMMA LinesCounted ==
  ASSUME NEW L, NEW A, Awaiting(L, A), NEW row, NEW c, NEW ps, Processed(row, L, c, ps)
  PROVE  Cardinality({x \in DOMAIN row.cells : row.cells[x] \in Vertical}) = Cardinality(A \ {c})
<1>1. /\ L \in Seq(Nat) /\ Len(L) \in Nat /\ Single(L)
      /\ A \subseteq Nat \ {0} /\ \A p \in Nat : p # 0 => (On(L, p) <=> p \in A)
  BY DEF Awaiting
<1>2. /\ row \in Rows /\ Len(L) <= Len(row.cells)
      /\ \A i \in 1..Len(row.cells) : row.cells[i] \in Vertical <=> i <= Len(L) /\ L[i] # 0 /\ L[i] # c
  BY DEF Processed
<1>3. Len(row.cells) \in Nat /\ DOMAIN row.cells = 1..Len(row.cells)
  BY <1>2 DEF Rows
<1>4. PICK S : S = {x \in DOMAIN row.cells : row.cells[x] \in Vertical}
  OBVIOUS
<1>5. \A x : x \in S <=> x \in 1..Len(L) /\ L[x] # 0 /\ L[x] # c
  BY <1>1, <1>2, <1>3, <1>4
<1>6. PICK T : T = A \ {c}
  OBVIOUS
<1>7. PICK f : f = [x \in S |-> L[x]]
  OBVIOUS
<1>8. \A x \in S : f[x] \in T
  <2>1. \A x \in S : L[x] \in Nat /\ L[x] # 0 /\ L[x] # c /\ On(L, L[x])
    BY <1>1, <1>5 DEF On
  <2> QED BY <1>1, <1>6, <1>7, <2>1
<1>9. \A x, y \in S : f[x] = f[y] => x = y
  BY <1>5, <1>7, <1>1 DEF Single
<1>10. \A p \in T : \E x \in S : f[x] = p
  <2>1. \A p \in T : p \in Nat /\ p # 0 /\ p # c /\ On(L, p)
    BY <1>1, <1>6
  <2> QED BY <1>5, <1>7, <2>1 DEF On
<1>11. f \in [S -> T] /\ DOMAIN f = S
  BY <1>7, <1>8
<1>12. f \in Bijection(S, T)
  BY <1>9, <1>10, <1>11 DEF Bijection, Injection, Surjection, IsInjective
<1>13. ExistsBijection(S, T)
  BY <1>12 DEF ExistsBijection
<1>14. IsFiniteSet(S)
  <2>1. S \subseteq 1..Len(L)
    BY <1>5
  <2>2. IsFiniteSet(1..Len(L))
    BY <1>1, FS_Interval
  <2> QED BY <2>1, <2>2, FS_Subset
<1>15. Cardinality(T) = Cardinality(S)
  BY <1>13, <1>14, FS_Bijection
<1> QED BY <1>4, <1>6, <1>15

(* The lane of a commit that is awaited runs on until its row.             *)
LEMMA LineRuns ==
  ASSUME NEW P, AncestryIn(P), NEW rows, DescendsIn(P, rows), NEW laid,
         \A i \in 1..Len(rows) : TracedRow(P, rows, laid, i),
         NEW k \in 1..Len(rows), NEW j \in 1..Len(rows), k < j,
         NEW y \in Nat, y \in 1..Len(laid[k].lanes), laid[k].lanes[y] = rows[j].oid
  PROVE  /\ rows[j].col = y
         /\ \A i \in (k + 1)..(j - 1) : y \in DOMAIN rows[i].cells /\ rows[i].cells[y] \in Vertical
<1>1. PICK N \in Nat : N = Len(rows)
  BY DEF DescendsIn
<1>2. PICK b : b = Below(laid, N)
  OBVIOUS
<1>3. PICK p : p = rows[j].oid
  OBVIOUS
<1>4. p \in Nat /\ p # 0 /\ \A i \in 1..N : i < j => rows[i].oid # p
  <2>1. rows[j].oid \in 1..Len(P) /\ Len(P) \in Nat
    BY <1>1 DEF DescendsIn, AncestryIn
  <2>2. \A i \in 1..N : i < j => rows[j].oid < rows[i].oid /\ rows[i].oid \in 1..Len(P)
    BY <1>1 DEF DescendsIn
  <2> QED BY <1>3, <2>1, <2>2
<1>5. PICK C : C = [i \in 1..N |-> rows[i].oid]
  OBVIOUS
<1>6. \A i \in 1..N : Processed(laid[i], b[i - 1], C[i], P[C[i]]) /\ b[i] = laid[i].lanes
                      /\ rows[i].col = laid[i].col /\ rows[i].cells = laid[i].cells
  BY <1>1, <1>2, <1>5 DEF TracedRow
<1>7. PICK G : G = {n \in 0..(j - 1 - k) : y \in 1..Len(b[k + n]) /\ b[k + n][y] = p}
  OBVIOUS
<1>8. j - 1 - k \in Nat /\ k \in Nat /\ j \in Nat /\ j <= N /\ 1 <= k
  BY <1>1
<1>9. 0 \in G
  <2>1. k + 0 = k /\ 0 \in 0..(j - 1 - k)
    BY <1>8
  <2>2. b[k] = laid[k].lanes
    BY <1>1, <1>6
  <2> QED BY <1>3, <1>7, <2>1, <2>2
<1>10. ASSUME NEW n \in 1..(j - 1 - k), n - 1 \in G PROVE n \in G
  <2>1. PICK i \in 1..N : i = k + n
    BY <1>8
  <2>2. k + (n - 1) = i - 1 /\ i < j
    BY <1>8, <2>1
  <2>3. PICK L : L = b[i - 1]
    OBVIOUS
  <2>4. y \in 1..Len(L) /\ L[y] = p
    BY <1>7, <1>10, <2>2, <2>3
  <2>5. PICK c : c = C[i]
    OBVIOUS
  <2>6. c # p
    BY <1>4, <1>5, <2>2, <2>5
  <2>7. PICK row : row = laid[i]
    OBVIOUS
  <2>8. Processed(row, L, c, P[c])
    BY <1>6, <2>3, <2>5, <2>7
  <2>9. y \in 1..Len(row.lanes) /\ row.lanes[y] = p
    BY <1>4, <2>4, <2>6, <2>8 DEF Processed
  <2>10. n \in 0..(j - 1 - k)
    BY <1>8
  <2> QED BY <1>6, <1>7, <2>1, <2>7, <2>9, <2>10
<1>11. \A n \in 0..(j - 1 - k) : n \in G
  <2>1. \A n \in 1..(j - 1 - k) : n - 1 \in G => n \in G
    BY <1>10
  <2> QED BY <1>8, <1>9, <2>1, Upward
<1>12. ASSUME NEW i \in (k + 1)..j PROVE i \in 1..N /\ y \in 1..Len(b[i - 1]) /\ b[i - 1][y] = p
  <2>1. i \in 1..N /\ i - 1 - k \in 0..(j - 1 - k) /\ k + (i - 1 - k) = i - 1
    BY <1>8
  <2>2. i - 1 - k \in G
    BY <1>11, <2>1
  <2> QED BY <1>7, <2>1, <2>2
<1>13. rows[j].col = y
  <2>1. j \in (k + 1)..j
    BY <1>8
  <2>2. PICK L : L = b[j - 1]
    OBVIOUS
  <2>3. y \in 1..Len(L) /\ L[y] = p
    BY <1>12, <2>1, <2>2
  <2>4. PICK row : row = laid[j]
    OBVIOUS
  <2>5. Processed(row, L, p, P[p]) /\ rows[j].col = row.col
    BY <1>1, <1>3, <1>5, <1>6, <2>2, <2>4
  <2> QED BY <2>3, <2>5 DEF Processed
<1>14. ASSUME NEW i \in (k + 1)..(j - 1) PROVE y \in DOMAIN rows[i].cells /\ rows[i].cells[y] \in Vertical
  <2>1. i \in (k + 1)..j /\ i < j /\ i \in Nat
    BY <1>8
  <2>2. PICK L : L = b[i - 1]
    OBVIOUS
  <2>3. i \in 1..N /\ y \in 1..Len(L) /\ L[y] = p
    BY <1>12, <2>1, <2>2
  <2>4. PICK c : c = C[i]
    OBVIOUS
  <2>5. c # p
    BY <1>4, <1>5, <2>1, <2>3, <2>4
  <2>6. PICK row : row = laid[i]
    OBVIOUS
  <2>7. Processed(row, L, c, P[c]) /\ rows[i].cells = row.cells
    BY <1>6, <2>2, <2>3, <2>4, <2>6
  <2>8. /\ row \in Rows /\ Len(L) <= Len(row.cells)
        /\ \A x \in 1..Len(row.cells) : row.cells[x] \in Vertical <=> x <= Len(L) /\ L[x] # 0 /\ L[x] # c
    BY <2>7 DEF Processed
  <2>9. Len(row.cells) \in Nat /\ DOMAIN row.cells = 1..Len(row.cells)
    BY <2>8 DEF Rows
  <2>11. y <= Len(L) /\ 1 <= y
    BY <2>3
  <2>12. y \in 1..Len(row.cells)
    BY <2>3, <2>8, <2>9, <2>11
  <2> QED BY <1>4, <2>3, <2>5, <2>7, <2>8, <2>9, <2>11, <2>12
<1> QED BY <1>13, <1>14

(* A drawn link has a bar on every column it covers.                       *)
LEMMA TiedBars ==
  ASSUME NEW row, row \in Lines, NEW y \in Nat, y <= Len(row.cells), row.col <= Len(row.cells), 1 <= y, 1 <= row.col,
         Tied(row.spans, y, row.col)
  PROVE  Span(y, row.col)[1]..(Span(y, row.col)[2] - 1) \subseteq Bars(row)
<1>1. row.col \in Nat /\ Len(row.cells) \in Nat /\ DOMAIN row.cells = 1..Len(row.cells)
      /\ DOMAIN row.spans = 1..Len(row.spans)
  BY DEF Lines
<1>2. PICK col \in Nat : col = row.col
  BY <1>1
<1>3. PICK s : s = Span(y, col)
  OBVIOUS
<1>4. s[1] = (IF y <= col THEN y ELSE col) /\ s[2] = (IF y <= col THEN col ELSE y)
  BY <1>3, SpanIs
<1>5. CASE y = col
  <2>1. s[1]..(s[2] - 1) = {}
    BY <1>4, <1>5
  <2> QED BY <1>2, <1>3, <2>1
<1>6. CASE y # col
  <2>1. PICK i \in 1..Len(row.spans) : row.spans[i] = s
    BY <1>2, <1>3, <1>6 DEF Tied
  <2>2. ASSUME NEW x \in s[1]..(s[2] - 1) PROVE x \in 1..Len(row.cells) /\ s[1] <= x /\ x < s[2]
    BY <1>1, <1>2, <1>4
  <2>3. s[1]..(s[2] - 1) \subseteq Bars(row)
    BY <1>1, <2>1, <2>2 DEF Bars
  <2> QED BY <1>2, <1>3, <2>3
<1> QED BY <1>5, <1>6

(* A link that is drawn, or leads to what a lane already awaited.          *)
LinkedIn(P, rows, k, j) ==
  \/ rows[j].oid \in AwaitedIn(P, rows, k - 1) /\ P[rows[k].oid][1] # rows[j].oid
  \/ Span(rows[j].col, rows[k].col)[1]..(Span(rows[j].col, rows[k].col)[2] - 1) \subseteq Bars(rows[k])

LineIn(P, rows, k, j) ==
  /\ k < j
  /\ \A i \in (k + 1)..(j - 1) : rows[j].col \in DOMAIN rows[i].cells /\ rows[i].cells[rows[j].col] \in Vertical
  /\ LinkedIn(P, rows, k, j)

LEMMA LineIs ==
  ASSUME NEW P, AncestryIn(P), NEW rows, DescendsIn(P, rows), NEW laid,
         \A i \in 1..Len(rows) : TracedRow(P, rows, laid, i),
         \A i \in 0..Len(rows) : Awaiting(Below(laid, Len(rows))[i], AwaitedIn(P, rows, i)),
         NEW k \in 1..Len(rows), NEW j \in 1..Len(rows), rows[j].oid \in ToSet(P[rows[k].oid])
  PROVE  LineIn(P, rows, k, j)
<1>1. PICK N \in Nat : N = Len(rows)
  BY DEF DescendsIn
<1>2. PICK b : b = Below(laid, N)
  OBVIOUS
<1>3. PICK p : p = rows[j].oid
  OBVIOUS
<1>4. PICK c : c = rows[k].oid
  OBVIOUS
<1>5. c \in 1..Len(P) /\ p \in 1..Len(P) /\ Len(P) \in Nat
  BY <1>3, <1>4 DEF DescendsIn, AncestryIn
<1>6. PICK ps \in Seq(Nat) : ps = P[c]
  BY <1>5 DEF AncestryIn
<1>7. PICK m \in 1..Len(ps) : ps[m] = p
  <2>1. p \in ToSet(ps)
    BY <1>3, <1>4, <1>6
  <2>2. PICK m \in DOMAIN ps : p = ps[m]
    BY <2>1 DEF ToSet
  <2>3. m \in 1..Len(ps) /\ ps[m] = p
    BY <2>2
  <2> QED BY <2>3
<1>8. p < c /\ p \in Nat /\ p # 0 /\ c \in Nat
  <2>1. p \in 1..(c - 1)
    BY <1>5, <1>6, <1>7 DEF AncestryIn
  <2> QED BY <1>5, <2>1
<1>9. k < j
  <2>1. ~(j < k) /\ j # k
    BY <1>1, <1>3, <1>4, <1>8 DEF DescendsIn
  <2> QED BY <1>1, <2>1
<1>10. PICK L : L = b[k - 1]
  OBVIOUS
<1>11. PICK row : row = laid[k]
  OBVIOUS
<1>12. /\ Processed(row, L, c, ps) /\ b[k] = row.lanes
       /\ rows[k].col = row.col /\ rows[k].cells = row.cells /\ rows[k].spans = row.spans
  BY <1>1, <1>2, <1>4, <1>6, <1>10, <1>11 DEF TracedRow
<1>13. On(row.lanes, p)
  BY <1>7, <1>8, <1>12 DEF Processed
<1>14. PICK y \in 1..Len(row.lanes) : row.lanes[y] = p
  BY <1>13 DEF On
<1>15. row.lanes \in Seq(Nat) /\ Len(row.lanes) \in Nat /\ y \in Nat /\ 1 <= y /\ y <= Len(row.lanes)
  <2>1. row.lanes \in Seq(Nat)
    BY <1>12 DEF Processed, Rows
  <2> QED BY <2>1
<1>16. /\ rows[j].col = y
       /\ \A i \in (k + 1)..(j - 1) : y \in DOMAIN rows[i].cells /\ rows[i].cells[y] \in Vertical
  <2>1. y \in 1..Len(laid[k].lanes) /\ laid[k].lanes[y] = rows[j].oid
    BY <1>3, <1>11, <1>14
  <2>2. \A i \in 1..Len(rows) : TracedRow(P, rows, laid, i)
    OBVIOUS
  <2> QED BY <1>9, <1>15, <2>1, <2>2, LineRuns
<1>17. (On(L, p) /\ ps[1] # p) \/ Tied(row.spans, y, row.col)
  BY <1>7, <1>12, <1>14 DEF Processed
<1>18. LinkedIn(P, rows, k, j)
  <2>1. CASE On(L, p) /\ ps[1] # p
    <3>1. k - 1 \in 0..N
      BY <1>1
    <3>2. Awaiting(L, AwaitedIn(P, rows, k - 1))
      BY <1>1, <1>2, <1>10, <3>1
    <3>3. p \in AwaitedIn(P, rows, k - 1)
      BY <1>8, <2>1, <3>2 DEF Awaiting
    <3> QED BY <1>3, <1>4, <1>6, <2>1, <3>3 DEF LinkedIn
  <2>2. CASE Tied(row.spans, y, row.col)
    <3>1. PICK r \in Lines : r = rows[k]
      BY <1>1 DEF DescendsIn
    <3>2. Len(row.lanes) <= Len(row.cells) /\ row.col \in 1..Len(row.cells) /\ Len(row.cells) \in Nat
      BY <1>12 DEF Processed, Rows
    <3>3. y <= Len(r.cells) /\ r.col <= Len(r.cells) /\ 1 <= r.col
      <4>1. r.col = row.col /\ r.cells = row.cells
        BY <1>12, <3>1
      <4>2. PICK n \in Nat : n = Len(row.cells)
        BY <3>2
      <4>3. PICK q \in Nat : q = Len(row.lanes)
        BY <1>15
      <4>4. y <= q /\ q <= n /\ row.col \in 1..n
        BY <1>15, <3>2, <4>2, <4>3
      <4>5. y <= n /\ row.col <= n /\ 1 <= row.col
        BY <1>15, <4>4
      <4> QED BY <4>1, <4>2, <4>5
    <3>4. Tied(r.spans, y, r.col)
      BY <1>12, <2>2, <3>1
    <3>5. Span(y, r.col)[1]..(Span(y, r.col)[2] - 1) \subseteq Bars(r)
      BY <1>15, <3>3, <3>4, TiedBars
    <3> QED BY <1>16, <3>1, <3>5 DEF LinkedIn
  <2> QED BY <1>17, <2>1, <2>2
<1> QED BY <1>9, <1>16, <1>18 DEF LineIn

LEMMA LinesAre ==
  ASSUME NEW P, AncestryIn(P), NEW rows, DescendsIn(P, rows), Traced(P, rows)
  PROVE  LinesOf(P, rows)
<1>1. PICK laid :
        /\ \A i \in 1..Len(rows) : TracedRow(P, rows, laid, i)
        /\ \A i \in 0..Len(rows) : Awaiting(Below(laid, Len(rows))[i], AwaitedIn(P, rows, i))
  BY TracedIs
<1>2. Len(rows) \in Nat /\ DOMAIN rows = 1..Len(rows)
  BY DEF DescendsIn
<1>3. ASSUME NEW i \in 1..Len(rows)
      PROVE  Cardinality({x \in DOMAIN rows[i].cells : rows[i].cells[x] \in Vertical})
               = Cardinality(AwaitedIn(P, rows, i - 1) \ {rows[i].oid})
  <2>1. PICK L : L = Below(laid, Len(rows))[i - 1]
    OBVIOUS
  <2>2. PICK row : row = laid[i]
    OBVIOUS
  <2>3. PICK c : c = rows[i].oid
    OBVIOUS
  <2>4. Processed(row, L, c, P[c]) /\ rows[i].cells = row.cells
    BY <1>1, <2>1, <2>2, <2>3 DEF TracedRow
  <2>5. Awaiting(L, AwaitedIn(P, rows, i - 1))
    <3>1. i - 1 \in 0..Len(rows)
      BY <1>2
    <3> QED BY <1>1, <2>1, <3>1
  <2>6. Cardinality({x \in DOMAIN row.cells : row.cells[x] \in Vertical}) = Cardinality(AwaitedIn(P, rows, i - 1) \ {c})
    BY <2>4, <2>5, LinesCounted
  <2> QED BY <2>3, <2>4, <2>6
<1>4. ASSUME NEW k \in 1..Len(rows), NEW j \in 1..Len(rows), rows[j].oid \in ToSet(P[rows[k].oid])
      PROVE  LineIn(P, rows, k, j)
  BY <1>1, <1>4, LineIs
<1> QED BY <1>2, <1>3, <1>4 DEF LinesOf, LineIn, LinkedIn

-----------------------------------------------------------------------------
(* Folding hides what it says it hides.                                    *)

LEMMA SegmentsParted ==
  ASSUME NEW rows, Descends(rows), Ancestry, NEW onto, onto = Ontos(rows), NEW side, side = 1..Len(rows) \ Trunk(onto)
  PROVE  /\ Partition(Segments(rows), side)
         /\ \A i, j \in side : Joined(Segments(rows), i, j) <=> Meets(onto, i, j)
         /\ Trunk(onto) \subseteq 1..Len(rows) /\ side \subseteq 1..Len(rows) /\ 1 \notin side
<1>1. PICK N : N = Len(rows)
  OBVIOUS
<1>2. Later(onto, N) /\ N \in Nat
  BY <1>1, OntosLater DEF Later
<1>3. DOMAIN rows = 1..N
  BY <1>1 DEF Descends
<1>4. Segments(rows) = SegmentsOf(onto, side)
  BY <1>1, <1>3 DEF Segments
<1>5. /\ Partition(SegmentsOf(onto, side), side)
      /\ \A i, j \in side : Joined(SegmentsOf(onto, side), i, j) <=> Meets(onto, i, j)
  BY <1>1, <1>2, SegmentsAre
<1>6. Trunk(onto) \subseteq 1..N /\ (N # 0 => 1 \in Trunk(onto))
  BY <1>2, TrunkIs
<1>7. side \subseteq 1..N /\ (N = 0 => side = {})
  BY <1>1
<1>8. 1 \notin side
  BY <1>1, <1>6, <1>7
<1> QED BY <1>1, <1>4, <1>5, <1>6, <1>7, <1>8

LEMMA FoldsAre ==
  ASSUME NEW rows, Descends(rows), Ancestry, view.segments = Segments(rows), NEW collapsed, NEW shown,
         shown = Plain(rows) \/ shown = Project(rows, Segments(rows), collapsed)
  PROVE  FoldsAgree(rows, Ontos(rows), Trunk(Ontos(rows)), shown)
<1>1. PICK onto : onto = Ontos(rows)
  OBVIOUS
<1>2. PICK side : side = 1..Len(rows) \ Trunk(onto)
  OBVIOUS
<1>3. PICK P : P = Segments(rows)
  OBVIOUS
<1>4. /\ Partition(P, side) /\ \A i, j \in side : Joined(P, i, j) <=> Meets(onto, i, j)
      /\ Trunk(onto) \subseteq 1..Len(rows) /\ side \subseteq 1..Len(rows)
  BY <1>1, <1>2, <1>3, SegmentsParted
<1>5. Distinct(rows) /\ DOMAIN rows = 1..Len(rows) /\ Len(rows) \in Nat
  BY DescendsDistinct DEF Distinct
<1>6. \A i \in 1..Len(rows) : rows[i].oid \in Nat
  BY DEF Descends, Ancestry
<1>7. \A i, j \in DOMAIN rows \ Trunk(onto) :
        (j \in SegmentAt(P, i)) <=> ~(Chain(onto, i) \cap Chain(onto, j) \subseteq Trunk(onto))
  <2>1. ASSUME NEW i \in side, NEW j \in side
        PROVE  (j \in SegmentAt(P, i)) <=> ~(Chain(onto, i) \cap Chain(onto, j) \subseteq Trunk(onto))
    <3>1. j \in SegmentAt(P, i) <=> Joined(P, i, j)
      BY <1>4, SegmentAtIs
    <3>2. Joined(P, i, j) <=> Meets(onto, i, j)
      BY <1>4
    <3>3. Meets(onto, i, j) <=> ~(Chain(onto, i) \cap Chain(onto, j) \subseteq Trunk(onto))
      BY DEF Meets
    <3> QED BY <3>1, <3>2, <3>3
  <2> QED BY <1>2, <1>5, <2>1
<1>8. \A i \in Trunk(onto) : \E k \in DOMAIN shown : shown[k] = [oid |-> rows[i].oid, hidden |-> 0]
  <2>1. CASE shown = Plain(rows)
    BY <1>4, <1>5, <2>1 DEF Plain
  <2>2. CASE shown = Project(rows, P, collapsed)
    <3>1. Distinct(shown) /\ \A i \in 1..Len(rows) \ side : \E k \in 1..Len(shown) : shown[k] = [oid |-> rows[i].oid, hidden |-> 0]
      <4>1. Projected(rows, side, shown)
        BY <1>4, <1>5, <1>6, <2>2, ProjectShows
      <4> QED BY <4>1 DEF Projected
    <3>2. \A i \in Trunk(onto) : i \in 1..Len(rows) \ side
      BY <1>2, <1>4
    <3>3. DOMAIN shown = 1..Len(shown)
      BY <3>1 DEF Distinct
    <3> QED BY <3>1, <3>2, <3>3
  <2> QED BY <1>3, <2>1, <2>2
<1>9. Counted(shown) = Len(rows)
  <2>1. CASE shown = Plain(rows)
    BY <1>5, <2>1, PlainCounts
  <2>2. CASE shown = Project(rows, P, collapsed)
    BY <1>4, <1>5, <2>2, ProjectCounts
  <2> QED BY <1>3, <2>1, <2>2
<1>10. ASSUME NEW i \in DOMAIN rows PROVE IsDrawn(rows, Trunk(onto), shown, i)
  <2>1. CASE shown = Plain(rows)
    BY <2>1 DEF Plain, IsDrawn
  <2>2. CASE shown = Project(rows, P, collapsed)
    <3>1. Stands(rows, side, P, shown, i)
      BY <1>4, <1>5, <2>2, ProjectDraws
    <3>2. side = DOMAIN rows \ Trunk(onto) /\ view.segments = P
      BY <1>2, <1>3, <1>5
    <3> QED BY <3>1, <3>2 DEF IsDrawn, Stands
  <2> QED BY <1>3, <2>1, <2>2
<1> QED BY <1>1, <1>3, <1>7, <1>8, <1>9, <1>10 DEF FoldsAgree

-----------------------------------------------------------------------------
(* What holds of the view between two steps.                               *)

OntosIn(P, rows) ==
  [i \in DOMAIN rows |-> IF P[rows[i].oid] = <<>> THEN 0 ELSE RowOf(rows, P[rows[i].oid][1])]

SegmentsIn(P, rows) == SegmentsOf(OntosIn(P, rows), DOMAIN rows \ Trunk(OntosIn(P, rows)))

Views ==
  [rows : Seq(Lines), segments : SUBSET (SUBSET Nat), filters : Filters, collapsed : SUBSET Nat, shown : Seq(Shown),
   at : Nat, typing : BOOLEAN, query : Authors \cup {None}, matches : Seq(Nat), match : Nat,
   branches : SUBSET Names, authors : SUBSET Authors, built : Builds \cup {None}]

(* The rows are those of the build, and the segments theirs.               *)
Filled(P, v) ==
  /\ v.built = None => v.rows = <<>>
  /\ v.built # None =>
       /\ v.built \in Builds
       /\ v.rows = BuildIn(P, v.built.filters, v.built.revision)
       /\ Known(P, v.built.revision)
  /\ v.segments = SegmentsIn(P, v.rows)

Projecting(v) == v.collapsed # {} => v.shown = Project(v.rows, v.segments, v.collapsed)

Marked(v) == v.matches = Matches(v) /\ v.match <= Len(v.matches)

Placed(v) == v.at <= Len(Display(v)) /\ (v.at = 0 <=> Len(Display(v)) = 0)

Offered(v) ==
  /\ v.filters.branches # None => v.filters.branches \subseteq v.branches
  /\ v.filters.authors # None => v.filters.authors \subseteq v.authors

Good(P, v) == v \in Views /\ Filled(P, v) /\ Projecting(v) /\ Marked(v) /\ Placed(v) /\ Offered(v)

LEMMA FilledRows ==
  ASSUME NEW P, AncestryIn(P), NEW v, Filled(P, v)
  PROVE  DescendsIn(P, v.rows)
<1>1. CASE v.built = None
  <2>1. v.rows = <<>>
    BY <1>1 DEF Filled
  <2>2. PICK r : r = <<>>
    OBVIOUS
  <2>3. r \in Seq(Lines) /\ 1..Len(r) = {}
    BY <2>2
  <2>4. DescendsIn(P, r)
    BY <2>3 DEF DescendsIn
  <2> QED BY <2>1, <2>2, <2>4
<1>2. CASE v.built # None
  BY <1>2, BuildIs DEF Filled
<1> QED BY <1>1, <1>2

(* The list: the rows, or their projection.                                *)
Displayed(v, d) ==
  /\ d \in Seq(Shown) /\ Distinct(d)
  /\ Len(d) <= Len(v.rows) /\ (Len(d) = 0 <=> Len(v.rows) = 0) /\ Len(v.rows) \in Nat
  /\ \A k \in 1..Len(d) : d[k].oid \in 1..Len(parents)

LEMMA SegmentsKnown ==
  ASSUME AncestryIn(parents), NEW rows, DescendsIn(parents, rows), NEW segs, segs = SegmentsIn(parents, rows)
  PROVE  /\ segs = Segments(rows)
         /\ \E S : S \subseteq 1..Len(rows) /\ 1 \notin S /\ Partition(segs, S)
<1>1. Descends(rows) /\ Ancestry
  BY DEF DescendsIn, Descends, AncestryIn, Ancestry
<1>2. segs = Segments(rows)
  BY DEF SegmentsIn, Segments, OntosIn, Ontos, Onto
<1>3. PICK onto : onto = Ontos(rows)
  OBVIOUS
<1>4. PICK side : side = 1..Len(rows) \ Trunk(onto)
  OBVIOUS
<1>5. Partition(segs, side) /\ side \subseteq 1..Len(rows) /\ 1 \notin side
  BY <1>1, <1>2, <1>3, <1>4, SegmentsParted
<1> QED BY <1>2, <1>5

LEMMA PlainIs ==
  ASSUME NEW rows, DescendsIn(parents, rows), AncestryIn(parents), NEW d, d = Plain(rows)
  PROVE  /\ d \in Seq(Shown) /\ Distinct(d) /\ Len(d) = Len(rows) /\ Len(rows) \in Nat
         /\ \A k \in 1..Len(d) : d[k].oid = rows[k].oid /\ d[k].hidden = 0
<1>1. rows \in Seq(Lines) /\ Len(rows) \in Nat /\ DOMAIN rows = 1..Len(rows)
  BY DEF DescendsIn
<1>2. Descends(rows) /\ Ancestry
  BY DEF DescendsIn, Descends, AncestryIn, Ancestry
<1>3. Distinct(rows)
  BY <1>2, DescendsDistinct
<1>4. d = [i \in 1..Len(rows) |-> [oid |-> rows[i].oid, hidden |-> 0]]
  BY <1>1 DEF Plain
<1>5. \A i \in 1..Len(rows) : rows[i].oid \in Nat
  <2>1. \A i \in 1..Len(rows) : rows[i] \in Lines
    BY <1>1
  <2> QED BY <2>1 DEF Lines
<1>6. \A i \in 1..Len(rows) : [oid |-> rows[i].oid, hidden |-> 0] \in Shown
  BY <1>5 DEF Shown
<1>7. d \in [1..Len(rows) -> Shown]
  BY <1>4, <1>6
<1>8. d \in Seq(Shown) /\ Len(d) = Len(rows) /\ DOMAIN d = 1..Len(rows)
  BY <1>1, <1>7
<1>9. \A k \in 1..Len(rows) : d[k].oid = rows[k].oid /\ d[k].hidden = 0
  BY <1>4
<1>10. Distinct(d)
  BY <1>1, <1>3, <1>8, <1>9 DEF Distinct
<1> QED BY <1>1, <1>8, <1>9, <1>10

LEMMA DisplayIs ==
  ASSUME AncestryIn(parents), NEW v, Filled(parents, v), Projecting(v), NEW d, d = Display(v)
  PROVE  Displayed(v, d)
<1>1. PICK rows : rows = v.rows
  OBVIOUS
<1>2. DescendsIn(parents, rows)
  BY <1>1, FilledRows
<1>3. \A i \in 1..Len(rows) : rows[i].oid \in 1..Len(parents)
  BY <1>2 DEF DescendsIn
<1>4. CASE v.collapsed = {}
  <2>1. d = Plain(rows)
    BY <1>1, <1>4 DEF Display
  <2>2. /\ d \in Seq(Shown) /\ Distinct(d) /\ Len(d) = Len(rows) /\ Len(rows) \in Nat
        /\ \A k \in 1..Len(d) : d[k].oid = rows[k].oid
    BY <1>2, <2>1, PlainIs
  <2> QED BY <1>1, <1>3, <2>2 DEF Displayed
<1>5. CASE v.collapsed # {}
  <2>1. PICK segs : segs = SegmentsIn(parents, rows)
    OBVIOUS
  <2>2. PICK S : S \subseteq 1..Len(rows) /\ 1 \notin S /\ Partition(segs, S)
    BY <1>2, <2>1, SegmentsKnown
  <2>3. PICK collapsed : collapsed = v.collapsed
    OBVIOUS
  <2>4. d = Project(rows, segs, collapsed)
    BY <1>1, <1>5, <2>1, <2>3 DEF Display, Projecting, Filled
  <2>5. Descends(rows) /\ Ancestry
    BY <1>2 DEF DescendsIn, Descends, AncestryIn, Ancestry
  <2>6. Distinct(rows)
    BY <2>5, DescendsDistinct
  <2>7. \A i \in 1..Len(rows) : rows[i].oid \in Nat
    BY <1>3, <2>5 DEF Ancestry
  <2>8. Projected(rows, S, d)
    BY <2>2, <2>4, <2>6, <2>7, ProjectShows
  <2>9. Len(rows) \in Nat /\ Len(d) \in Nat
    BY <2>6, <2>8 DEF Distinct, Projected
  <2>10. /\ d \in Seq(Shown) /\ Distinct(d)
         /\ Len(rows) # 0 => Len(d) # 0
         /\ Len(rows) = 0 => Len(d) = 0
         /\ \A k \in 1..Len(d) : \E i \in 1..Len(rows) : d[k].oid = rows[i].oid /\ k <= i
    BY <2>2, <2>8 DEF Projected
  <2>11. Len(d) <= Len(rows)
    <3>1. CASE Len(d) = 0
      BY <2>9, <3>1
    <3>2. CASE Len(d) # 0
      <4>1. Len(d) \in 1..Len(d)
        BY <2>9, <3>2
      <4>2. PICK i \in 1..Len(rows) : Len(d) <= i
        BY <2>10, <4>1
      <4> QED BY <2>9, <4>2
    <3> QED BY <3>1, <3>2
  <2>12. \A k \in 1..Len(d) : d[k].oid \in 1..Len(parents)
    BY <1>3, <2>10
  <2> QED BY <1>1, <2>9, <2>10, <2>11, <2>12 DEF Displayed
<1> QED BY <1>4, <1>5

(* What the search finds: some of the list, in order.                      *)
LEMMA MatchesIs ==
  ASSUME NEW v, NEW d, d = Display(v), Len(d) \in Nat, DOMAIN d = 1..Len(d), NEW m, m = Matches(v)
  PROVE  m \in Seq(Nat) /\ Len(m) \in Nat /\ \A k \in 1..Len(m) : m[k] \in 1..Len(d)
<1>1. CASE v.query = None
  <2>1. PICK e : e = <<>>
    OBVIOUS
  <2>2. e \in Seq(Nat) /\ Len(e) = 0 /\ 1..Len(e) = {}
    BY <2>1
  <2>3. m = e
    BY <1>1, <2>1 DEF Matches
  <2> QED BY <2>2, <2>3
<1>2. CASE v.query # None
  <2>1. PICK T : T = {i \in DOMAIN d : d[i].hidden = 0 /\ AuthorOf[d[i].oid] = v.query}
    OBVIOUS
  <2>2. m = InOrder(T, Len(d))
    BY <1>2, <2>1 DEF Matches
  <2>3. Listed(m, T \cap (1..Len(d)))
    BY <2>2, InOrderIs
  <2> QED BY <2>3 DEF Listed
<1> QED BY <1>1, <1>2

(* w is v with the selection and the search marks put right.               *)
Remarked(v, at, w) ==
  /\ w \in Views /\ w.at = at /\ Marked(w)
  /\ \A r \in Views : r.rows = v.rows /\ r.shown = v.shown /\ r.collapsed = v.collapsed => Display(r) = Display(w)
  /\ w.rows = v.rows /\ w.segments = v.segments /\ w.filters = v.filters /\ w.collapsed = v.collapsed
  /\ w.shown = v.shown /\ w.branches = v.branches /\ w.authors = v.authors /\ w.built = v.built
  /\ w.typing = v.typing /\ w.query = v.query

Restored(v, c, previous, w) ==
  LET d == Display(v)
  IN Remarked(v, IF c # 0 /\ RowOf(d, c) # 0 THEN RowOf(d, c) ELSE Min({Max({previous, 1}), Len(d)}), w)

LEMMA RestoredIs ==
  ASSUME NEW v, v \in Views, NEW d, d = Display(v), Len(d) \in Nat, DOMAIN d = 1..Len(d),
         NEW at, at \in Nat, NEW m, m = Matches(v), NEW match \in Nat, match <= Len(m),
         NEW w, w = [v EXCEPT !.at = at, !.matches = m, !.match = match]
  PROVE  Remarked(v, at, w)
<1>1. m \in Seq(Nat)
  BY MatchesIs
<1>2. w \in Views /\ w.at = at /\ w.matches = m /\ w.match = match
  BY <1>1 DEF Views
<1>3. /\ w.rows = v.rows /\ w.segments = v.segments /\ w.filters = v.filters /\ w.collapsed = v.collapsed
      /\ w.shown = v.shown /\ w.branches = v.branches /\ w.authors = v.authors /\ w.built = v.built
      /\ w.typing = v.typing /\ w.query = v.query
  BY DEF Views
<1>4. Display(w) = d
  BY <1>3 DEF Display
<1>5. Matches(w) = m
  BY <1>3, <1>4 DEF Matches
<1>6. \A r \in Views : r.rows = v.rows /\ r.shown = v.shown /\ r.collapsed = v.collapsed => Display(r) = Display(w)
  BY <1>3 DEF Display
<1>7. Marked(w)
  BY <1>2, <1>5 DEF Marked
<1> QED BY <1>2, <1>3, <1>6, <1>7 DEF Remarked

LEMMA RestoreIs ==
  ASSUME NEW v, v \in Views, NEW d, d = Display(v), Distinct(d), NEW c, NEW previous \in Nat,
         NEW w, w = RestoreSelection(v, c, previous)
  PROVE  Restored(v, c, previous, w)
<1>1. Len(d) \in Nat /\ DOMAIN d = 1..Len(d)
  BY DEF Distinct
<1>2. PICK at : at = IF c # 0 /\ RowOf(d, c) # 0 THEN RowOf(d, c) ELSE Min({Max({previous, 1}), Len(d)})
  OBVIOUS
<1>3. at \in Nat
  <2>1. RowOf(d, c) \in Nat
    BY <1>1, RowOfIs
  <2>2. PICK n \in Nat : n = Max({previous, 1})
    BY MaxPair
  <2>3. Min({n, Len(d)}) \in Nat
    BY <1>1, MinPair
  <2> QED BY <1>2, <2>1, <2>2, <2>3
<1>4. PICK u : u = [v EXCEPT !.at = at]
  OBVIOUS
<1>5. u \in Views /\ Display(u) = d /\ Matches(u) = Matches(v)
  <2>1. u \in Views /\ u.rows = v.rows /\ u.shown = v.shown /\ u.collapsed = v.collapsed /\ u.query = v.query
    BY <1>3, <1>4 DEF Views
  <2>2. Display(u) = d
    BY <2>1 DEF Display
  <2> QED BY <2>1, <2>2 DEF Matches
<1>6. PICK m : m = Matches(v)
  OBVIOUS
<1>7. m \in Seq(Nat) /\ Len(m) \in Nat /\ DOMAIN m = 1..Len(m) /\ (m = <<>> <=> Len(m) = 0)
  BY <1>1, <1>6, MatchesIs
<1>8. PICK first : first = IF m = <<>> THEN 0 ELSE 1
  OBVIOUS
<1>9. PICK x : x = Matched(u)
  OBVIOUS
<1>10. x = [v EXCEPT !.at = at, !.matches = m, !.match = first]
  <2>1. x = [u EXCEPT !.matches = m, !.match = first]
    BY <1>5, <1>6, <1>8, <1>9 DEF Matched
  <2> QED BY <1>4, <2>1 DEF Views
<1>11. x.matches = m
  BY <1>10 DEF Views
<1>12. PICK place : place = FirstOf({k \in DOMAIN x.matches : x.matches[k] = at})
  OBVIOUS
<1>13. place \in Nat /\ place <= Len(m)
  <2>1. PICK T : T = {k \in 1..Len(m) : m[k] = at}
    OBVIOUS
  <2>2. place = FirstOf(T)
    BY <1>7, <1>11, <1>12, <2>1
  <2>3. T \subseteq Nat /\ 0 \notin T
    BY <2>1
  <2>4. /\ T = {} => FirstOf(T) = 0
        /\ T # {} => FirstOf(T) \in T
    BY <2>3, FirstIs
  <2>5. T # {} => FirstOf(T) \in 1..Len(m)
    BY <2>1, <2>4
  <2> QED BY <1>7, <2>2, <2>4, <2>5
<1>14. w = IF place # 0 THEN [x EXCEPT !.match = place] ELSE x
  BY <1>2, <1>4, <1>9, <1>12 DEF RestoreSelection
<1>15. PICK match \in Nat : match = IF place # 0 THEN place ELSE first
  BY <1>8, <1>13
<1>16. w = [v EXCEPT !.at = at, !.matches = m, !.match = match]
  BY <1>10, <1>14, <1>15 DEF Views
<1>17. match <= Len(m)
  BY <1>7, <1>8, <1>13, <1>15
<1>18. Remarked(v, at, w)
  BY <1>1, <1>3, <1>6, <1>16, <1>17, RestoredIs
<1> QED BY <1>2, <1>18 DEF Restored

-----------------------------------------------------------------------------
(* The operations of the view keep it good.                                *)

(* The selection stays on commit c if the list has it.                     *)
Stays(w, c) == c # 0 /\ RowOf(Display(w), c) # 0 => SelectedIn(w, w.at) = c

LEMMA RestoreKeeps ==
  ASSUME AncestryIn(parents), NEW v, v \in Views, Filled(parents, v), Projecting(v), Offered(v), NEW c, NEW previous \in Nat,
         NEW w, w = RestoreSelection(v, c, previous)
  PROVE  /\ Good(parents, w) /\ Stays(w, c) /\ Restored(v, c, previous, w) /\ Display(w) = Display(v)
<1>1. PICK d : d = Display(v)
  OBVIOUS
<1>2. Displayed(v, d)
  BY <1>1, DisplayIs
<1>3. Distinct(d) /\ Len(d) \in Nat /\ DOMAIN d = 1..Len(d)
  BY <1>2 DEF Displayed, Distinct
<1>4. Restored(v, c, previous, w)
  BY <1>1, <1>3, RestoreIs
<1>5. PICK at : at = IF c # 0 /\ RowOf(d, c) # 0 THEN RowOf(d, c) ELSE Min({Max({previous, 1}), Len(d)})
  OBVIOUS
<1>6. Remarked(v, at, w)
  BY <1>1, <1>4, <1>5 DEF Restored
<1>7. Display(w) = d
  BY <1>1, <1>6 DEF Remarked
<1>8. /\ w \in Views /\ w.at = at /\ Marked(w)
      /\ w.rows = v.rows /\ w.segments = v.segments /\ w.filters = v.filters /\ w.collapsed = v.collapsed
      /\ w.shown = v.shown /\ w.branches = v.branches /\ w.authors = v.authors /\ w.built = v.built
  BY <1>6 DEF Remarked
<1>9. Filled(parents, w) /\ Projecting(w) /\ Offered(w)
  BY <1>8 DEF Filled, Projecting, Offered
<1>10. /\ RowOf(d, c) \in 0..Len(d)
       /\ RowOf(d, c) # 0 => d[RowOf(d, c)].oid = c
  BY <1>3, RowOfIs
<1>11. PICK n \in Nat : n = Max({previous, 1}) /\ n # 0
  BY MaxPair
<1>12. Min({n, Len(d)}) = IF n <= Len(d) THEN n ELSE Len(d)
  BY <1>3, MinPair
<1>13. at <= Len(d) /\ (at = 0 <=> Len(d) = 0) /\ at \in Nat
  BY <1>3, <1>5, <1>10, <1>11, <1>12
<1>14. Placed(w)
  BY <1>7, <1>8, <1>13 DEF Placed
<1>15. Stays(w, c)
  <2>1. SUFFICES ASSUME c # 0, RowOf(d, c) # 0 PROVE SelectedIn(w, w.at) = c
    BY <1>7 DEF Stays
  <2>2. at = RowOf(d, c) /\ at \in 1..Len(d) /\ d[at].oid = c
    BY <1>3, <1>5, <1>10, <2>1
  <2> QED BY <1>3, <1>7, <1>8, <2>2 DEF SelectedIn
<1> QED BY <1>1, <1>4, <1>7, <1>8, <1>9, <1>14, <1>15 DEF Good

(* recompute_collapsed_rows.                                               *)
Recomputed(v, w) ==
  /\ Good(parents, w) /\ Stays(w, SelectedIn(v, v.at))
  /\ SelectedIn(v, v.at) = 0 => w.at = Min({Max({v.at, 1}), Len(Display(w))})
  /\ w.rows = v.rows /\ w.segments = v.segments /\ w.filters = v.filters /\ w.collapsed = v.collapsed
  /\ w.branches = v.branches /\ w.authors = v.authors /\ w.built = v.built

LEMMA ProjectListed ==
  ASSUME AncestryIn(parents), NEW v, v \in Views, Filled(parents, v)
  PROVE  Project(v.rows, v.segments, v.collapsed) \in Seq(Shown)
<1>1. PICK rows : rows = v.rows
  OBVIOUS
<1>2. DescendsIn(parents, rows)
  BY <1>1, FilledRows
<1>3. PICK segs : segs = SegmentsIn(parents, rows)
  OBVIOUS
<1>4. PICK S : S \subseteq 1..Len(rows) /\ Partition(segs, S)
  BY <1>2, <1>3, SegmentsKnown
<1>5. PICK collapsed : collapsed = v.collapsed
  OBVIOUS
<1>6. PICK d : d = Project(rows, segs, collapsed)
  OBVIOUS
<1>7. Descends(rows) /\ Ancestry
  BY <1>2 DEF DescendsIn, Descends, AncestryIn, Ancestry
<1>8. Distinct(rows) /\ \A i \in 1..Len(rows) : rows[i].oid \in Nat
  <2>1. Distinct(rows)
    BY <1>7, DescendsDistinct
  <2>2. Len(parents) \in Nat /\ \A i \in 1..Len(rows) : rows[i].oid \in 1..Len(parents)
    BY <1>7 DEF Descends, Ancestry
  <2> QED BY <2>1, <2>2
<1>9. Projected(rows, S, d)
  BY <1>4, <1>6, <1>8, ProjectShows
<1>10. segs = v.segments
  BY <1>1, <1>3 DEF Filled
<1> QED BY <1>1, <1>5, <1>6, <1>9, <1>10 DEF Projected

LEMMA RecomputeIs ==
  ASSUME AncestryIn(parents), NEW v, v \in Views, Filled(parents, v), Offered(v), NEW w, w = Recompute(v)
  PROVE  Recomputed(v, w)
<1>1. PICK shown : shown = IF v.collapsed = {} THEN <<>> ELSE Project(v.rows, v.segments, v.collapsed)
  OBVIOUS
<1>2. shown \in Seq(Shown)
  BY <1>1, ProjectListed
<1>3. PICK u : u = [v EXCEPT !.shown = shown]
  OBVIOUS
<1>4. /\ u \in Views /\ u.shown = shown
      /\ u.rows = v.rows /\ u.segments = v.segments /\ u.filters = v.filters /\ u.collapsed = v.collapsed
      /\ u.branches = v.branches /\ u.authors = v.authors /\ u.built = v.built
  BY <1>2, <1>3 DEF Views
<1>5. Filled(parents, u) /\ Projecting(u) /\ Offered(u)
  BY <1>1, <1>4 DEF Filled, Projecting, Offered
<1>6. PICK c : c = SelectedIn(v, v.at)
  OBVIOUS
<1>7. PICK at \in Nat : at = v.at
  BY DEF Views
<1>8. w = RestoreSelection(u, c, at)
  BY <1>1, <1>3, <1>6, <1>7 DEF Recompute
<1>9. Good(parents, w) /\ Stays(w, c) /\ Restored(u, c, at, w) /\ Display(w) = Display(u)
  BY <1>4, <1>5, <1>8, RestoreKeeps
<1>10. /\ w.rows = u.rows /\ w.segments = u.segments /\ w.filters = u.filters /\ w.collapsed = u.collapsed
       /\ w.branches = u.branches /\ w.authors = u.authors /\ w.built = u.built
  BY <1>9 DEF Restored, Remarked
<1>11. c = 0 => w.at = Min({Max({at, 1}), Len(Display(w))})
  <2>1. SUFFICES ASSUME c = 0 PROVE w.at = Min({Max({at, 1}), Len(Display(w))})
    OBVIOUS
  <2>2. Remarked(u, Min({Max({at, 1}), Len(Display(w))}), w)
    BY <1>9, <2>1 DEF Restored
  <2> QED BY <2>2 DEF Remarked
<1> QED BY <1>4, <1>6, <1>7, <1>9, <1>10, <1>11 DEF Recomputed

-----------------------------------------------------------------------------
(* A load.                                                                 *)

Historic ==
  /\ AncestryIn(parents) /\ Len(parents) \in 1..MaxCommits
  /\ refs \in [Names -> 0..Len(parents)]

LEMMA BuildNow ==
  ASSUME NEW f
  PROVE  Build(f) = BuildIn(parents, f, Revision)
<1>1. \A c, first : Followed(c, first) = FollowedIn(parents, c, first)
  BY DEF Followed, FollowedIn
<1>2. \A roots, first : Reached(roots, first) = ReachedIn(parents, roots, first)
  BY <1>1 DEF Reached, ReachedIn
<1>3. Walk(f) = WalkIn(parents, f, Revision)
  BY <1>2 DEF Walk, WalkIn, ReachedList
<1>4. PICK walk : walk = Walk(f)
  OBVIOUS
<1>5. PICK laid : laid = Laid(walk, [n \in DOMAIN walk |-> parents[walk[n]]])
  OBVIOUS
<1>6. LaidIn(parents, f, Revision) = laid
  BY <1>3, <1>4, <1>5 DEF LaidIn
<1>7. BuildIn(parents, f, Revision) = Trace(Sieve(laid, Admitted(laid, f)))
  BY <1>6 DEF BuildIn
<1>8. Build(f) = Trace(Sieve(laid, Admitted(laid, f)))
  BY <1>4, <1>5 DEF Build, Trace, Admitted
<1> QED BY <1>7, <1>8

LEMMA CatalogIs ==
  ASSUME NEW n \in Names
  PROVE  Catalog(n) \in Names
<1>1. PICK tracking : tracking = {m \in Names : RefKind[m] = "local" /\ refs[m] # 0 /\ Upstream[m] = n}
  OBVIOUS
<1>2. tracking \subseteq Names
  BY <1>1
<1>3. LocalOf(n) = IF Collects = {"local", "remote"} /\ Cardinality(tracking) = 1 THEN CHOOSE m \in tracking : TRUE ELSE n
  BY <1>1 DEF LocalOf
<1>4. Cardinality(tracking) = 1 => tracking # {}
  BY FS_EmptySet
<1>5. LocalOf(n) \in Names
  BY <1>2, <1>3, <1>4
<1> QED BY <1>5 DEF Catalog

LEMMA RevisionIs ==
  ASSUME Historic, NEW rev, rev = Revision
  PROVE  rev \in Revisions /\ Known(parents, rev) /\ BranchNames \subseteq Names
<1>1. refs \in [Names -> 0..Len(parents)] /\ Len(parents) \in Nat
  BY DEF Historic, AncestryIn
<1>2. HeadRef \in Names
  BY RefsAssumption
<1>3. \A n \in Labels : n \in Names /\ refs[n] \in 1..Len(parents)
  BY <1>1 DEF Labels, BranchLabels, TagLabels, StashLabels
<1>4. \A n \in Labels : Catalog(n) \in Names
  BY <1>3, CatalogIs
<1>5. PICK labels : labels = {<<refs[n], n, Catalog(n)>> : n \in Labels}
  OBVIOUS
<1>6. rev.labels = labels /\ rev.head = refs[HeadRef] /\ rev = [head |-> refs[HeadRef], labels |-> labels]
  BY <1>5 DEF Revision
<1>7. refs[HeadRef] \in 0..Len(parents)
  BY <1>1, <1>2
<1>8. \A l \in labels : l[1] \in 1..Len(parents)
  BY <1>3, <1>5
<1>9. labels \subseteq Nat \X Names \X Names
  BY <1>1, <1>3, <1>4, <1>5
<1>10. rev \in Revisions
  BY <1>6, <1>7, <1>9 DEF Revisions
<1>11. ASSUME NEW f \in Filters PROVE Within(Roots(f, rev), parents)
  <2>1. PICK included : included = {l \in labels : RefKind[l[2]] \in f.kinds}
    OBVIOUS
  <2>2. Roots(f, rev) =
          IF f.branches # None
          THEN {l[1] : l \in {m \in included : RefKind[m[2]] \in Collects /\ m[3] \in f.branches}}
          ELSE {l[1] : l \in included} \cup (IF "local" \in f.kinds THEN {refs[HeadRef]} \ {0} ELSE {})
    BY <1>6, <2>1 DEF Roots
  <2>3. {l[1] : l \in {m \in included : RefKind[m[2]] \in Collects /\ m[3] \in f.branches}} \subseteq 1..Len(parents)
    BY <1>8, <2>1
  <2>4. {l[1] : l \in included} \subseteq 1..Len(parents)
    BY <1>8, <2>1
  <2>5. {refs[HeadRef]} \ {0} \subseteq 1..Len(parents)
    BY <1>7
  <2>6. Roots(f, rev) \subseteq 1..Len(parents)
    BY <2>2, <2>3, <2>4, <2>5
  <2> QED BY <2>6 DEF Within
<1>12. BranchNames \subseteq Names
  BY CatalogIs DEF BranchNames, BranchLabels
<1> QED BY <1>10, <1>11, <1>12 DEF Known

(* Rows of the history are by its authors.                                 *)
LEMMA AuthorsKnown ==
  ASSUME Historic, NEW rows, DescendsIn(parents, rows)
  PROVE  {AuthorOf[rows[i].oid] : i \in DOMAIN rows} \subseteq Authors
<1>1. Len(parents) <= MaxCommits /\ Len(parents) \in Nat /\ MaxCommits \in Nat
  BY RefsAssumption DEF Historic
<1>2. DOMAIN rows = 1..Len(rows)
  BY DEF DescendsIn
<1>3. \A i \in DOMAIN rows : rows[i].oid \in AllCommits
  <2>1. \A i \in DOMAIN rows : rows[i].oid \in 1..Len(parents)
    BY <1>2 DEF DescendsIn
  <2> QED BY <1>1, <2>1 DEF AllCommits
<1> QED BY <1>3 DEF Authors

(* The view after a load.                                                  *)
Loaded(v, w) ==
  /\ Good(parents, w) /\ Stays(w, SelectedIn(v, v.at))
  /\ w.filters = v.filters /\ v.branches \subseteq w.branches /\ v.authors \subseteq w.authors

LEMMA SetRowsIs ==
  ASSUME Historic, NEW v, Good(parents, v), NEW w, w = SetRows(v, Build(v.filters))
  PROVE  Loaded(v, w)
<1>1. v \in Views /\ Filled(parents, v) /\ Projecting(v) /\ Offered(v) /\ Placed(v)
  BY DEF Good
<1>2. AncestryIn(parents)
  BY DEF Historic
<1>3. PICK f \in Filters : f = v.filters
  BY <1>1 DEF Views
<1>4. PICK rev : rev = Revision
  OBVIOUS
<1>5. rev \in Revisions /\ Known(parents, rev) /\ BranchNames \subseteq Names
  BY <1>4, RevisionIs
<1>6. PICK rows : rows = Build(f)
  OBVIOUS
<1>7. rows = BuildIn(parents, f, rev)
  BY <1>4, <1>6, BuildNow
<1>8. DescendsIn(parents, rows)
  BY <1>2, <1>7, BuildIs
<1>9. PICK segs : segs = SegmentsIn(parents, rows)
  OBVIOUS
<1>10. segs = Segments(rows) /\ \E S : S \subseteq 1..Len(rows) /\ Partition(segs, S)
  BY <1>2, <1>8, <1>9, SegmentsKnown
<1>11. segs \in SUBSET (SUBSET Nat)
  <2>1. PICK S : S \subseteq 1..Len(rows) /\ Partition(segs, S)
    BY <1>10
  <2>2. S \subseteq Nat
    BY <2>1
  <2> QED BY <2>1, <2>2 DEF Partition
<1>12. PICK names : names = BranchNames
  OBVIOUS
<1>13. PICK who : who = {AuthorOf[rows[i].oid] : i \in DOMAIN rows}
  OBVIOUS
<1>14. who \subseteq Authors /\ names \subseteq Names
  BY <1>5, <1>8, <1>12, <1>13, AuthorsKnown
<1>15. PICK built : built = [filters |-> f, revision |-> rev]
  OBVIOUS
<1>16. built \in Builds /\ built # None /\ built.filters = f /\ built.revision = rev
  BY <1>3, <1>5, <1>15, RefsAssumption DEF Builds
<1>17. rows \in Seq(Lines)
  BY <1>8 DEF DescendsIn
<1>18. PICK u : u = [v EXCEPT !.rows = rows, !.segments = segs, !.branches = @ \cup names, !.authors = @ \cup who, !.built = built]
  OBVIOUS
<1>19. /\ u.rows = rows /\ u.segments = segs /\ u.filters = f /\ u.built = built
       /\ u.branches = v.branches \cup names /\ u.authors = v.authors \cup who
  BY ONLY <1>1, <1>3, <1>18 DEF Views
<1>20. u \in Views
  <2>1. v.branches \cup names \in SUBSET Names /\ v.authors \cup who \in SUBSET Authors
    BY <1>1, <1>14 DEF Views
  <2> QED BY ONLY <1>1, <1>11, <1>16, <1>17, <1>18, <2>1 DEF Views
<1>21. Filled(parents, u)
  BY <1>5, <1>7, <1>9, <1>16, <1>19 DEF Filled
<1>22. Offered(u)
  BY <1>1, <1>3, <1>19 DEF Offered
<1>23. PICK x : x = Recompute(u)
  OBVIOUS
<1>24. Recomputed(u, x)
  BY <1>2, <1>20, <1>21, <1>22, <1>23, RecomputeIs
<1>25. Good(parents, x) /\ x.filters = f /\ x.branches = u.branches /\ x.authors = u.authors
  BY <1>19, <1>24 DEF Recomputed
<1>26. x \in Views /\ Filled(parents, x) /\ Projecting(x) /\ Offered(x)
  BY <1>25 DEF Good
<1>27. PICK at \in Nat : at = v.at
  BY <1>1 DEF Views
<1>28. PICK c : c = SelectedIn(v, Max({at, 1}))
  OBVIOUS
<1>29. w = RestoreSelection(x, c, at)
  BY <1>3, <1>4, <1>6, <1>10, <1>12, <1>13, <1>15, <1>18, <1>23, <1>27, <1>28 DEF SetRows
<1>30. Good(parents, w) /\ Stays(w, c) /\ Restored(x, c, at, w)
  BY <1>2, <1>26, <1>29, RestoreKeeps
<1>31. w.filters = x.filters /\ w.branches = x.branches /\ w.authors = x.authors
  BY <1>30 DEF Restored, Remarked
<1>32. Stays(w, SelectedIn(v, v.at))
  <2>1. CASE at = 0
    <3>1. PICK d : d = Display(v)
      OBVIOUS
    <3>2. Displayed(v, d)
      BY <1>1, <1>2, <3>1, DisplayIs
    <3>3. 0 \notin DOMAIN d
      BY <3>2 DEF Displayed, Distinct
    <3>4. SelectedIn(v, v.at) = 0
      BY <1>27, <2>1, <3>1, <3>3 DEF SelectedIn
    <3> QED BY <3>4 DEF Stays
  <2>2. CASE at # 0
    <3>1. Max({at, 1}) = at
      <4>1. Max({at, 1}) = IF at <= 1 THEN 1 ELSE at
        BY MaxPair
      <4> QED BY <2>2, <4>1
    <3> QED BY <1>27, <1>28, <1>30, <3>1
  <2> QED BY <2>1, <2>2
<1> QED BY <1>3, <1>19, <1>25, <1>30, <1>31, <1>32 DEF Loaded

-----------------------------------------------------------------------------
(* A fold.                                                                 *)

(* The list when segment s alone is folded, at its tip.                    *)
FoldsOne(rows, s, shown) ==
  /\ Min(s) <= Len(shown) /\ Min(s) \in 1..Len(rows) /\ Min(s) \in s
  /\ shown[Min(s)].oid = rows[Min(s)].oid
  /\ \A j \in s : j # Min(s) => \A k \in 1..Len(shown) : shown[k].oid # rows[j].oid

LEMMA ProjectOids ==
  ASSUME NEW rows, Distinct(rows), NEW segs, NEW collapsed, NEW shown, shown = Project(rows, segs, collapsed),
         NEW kept, kept = KeptList(rows, segs, collapsed)
  PROVE  Len(shown) = Len(kept) /\ \A k \in 1..Len(kept) : shown[k].oid = rows[kept[k]].oid
<1>1. DOMAIN rows = 1..Len(rows) /\ Len(rows) \in Nat
  BY DEF Distinct
<1>2. PICK folded : folded = FoldedOf(rows, segs, collapsed)
  OBVIOUS
<1>3. /\ DOMAIN shown = 1..Len(kept) /\ Len(shown) = Len(kept)
      /\ \A k \in 1..Len(kept) : shown[k] = [oid |-> rows[kept[k]].oid, hidden |-> Cardinality(SegmentAt(folded, kept[k]))]
  BY <1>1, <1>2, ProjectIs
<1> QED BY <1>3

LEMMA OneFold ==
  ASSUME NEW rows, Distinct(rows), NEW S, S \subseteq 1..Len(rows), NEW segs, Partition(segs, S),
         NEW s, s \in segs, NEW collapsed, collapsed = {rows[Min(s)].oid},
         NEW shown, shown = Project(rows, segs, collapsed)
  PROVE  FoldsOne(rows, s, shown)
<1>1. PICK N \in Nat : N = Len(rows) /\ DOMAIN rows = 1..N
  BY DEF Distinct
<1>2. s \subseteq 1..N /\ s # {}
  BY <1>1 DEF Partition
<1>3. PICK tip : tip = Min(s)
  OBVIOUS
<1>4. tip \in s /\ tip \in 1..N /\ \A i \in s : tip <= i
  BY <1>1, <1>2, <1>3, SegmentTip
<1>5. PICK folded : folded = FoldedOf(rows, segs, collapsed)
  OBVIOUS
<1>6. folded = {s}
  <2>1. s \in folded
    BY <1>5 DEF FoldedOf
  <2>2. ASSUME NEW t \in folded PROVE t = s
    <3>1. t \in segs /\ rows[Min(t)].oid = rows[tip].oid
      BY <1>3, <1>5 DEF FoldedOf
    <3>2. t \subseteq 1..N /\ t # {}
      BY <1>1, <3>1 DEF Partition
    <3>3. Min(t) \in t /\ Min(t) \in 1..N
      BY <1>1, <3>2, SegmentTip
    <3>4. Min(t) = tip
      BY <1>1, <1>4, <3>1, <3>3 DEF Distinct
    <3> QED BY <1>4, <3>1, <3>3, <3>4 DEF Partition
  <2> QED BY <2>1, <2>2
<1>7. PICK T : T = KeptOf(rows, segs, collapsed)
  OBVIOUS
<1>8. T = {i \in 1..N : i \in s => i = tip}
  <2>1. T = {i \in 1..N : \A t \in folded : i \in t => i = Min(t)}
    BY <1>1, <1>5, <1>7 DEF KeptOf
  <2>2. \A i : (\A t \in folded : i \in t => i = Min(t)) <=> (i \in s => i = tip)
    BY <1>3, <1>6
  <2> QED BY <2>1, <2>2
<1>9. PICK kept : kept = KeptList(rows, segs, collapsed)
  OBVIOUS
<1>10. Listed(kept, T)
  BY <1>1, <1>7, <1>9, KeptIs
<1>11. PICK K \in Nat : K = Len(kept)
  BY <1>10 DEF Listed
<1>12. Len(shown) = K /\ \A k \in 1..K : shown[k].oid = rows[kept[k]].oid
  BY <1>9, <1>11, ProjectOids
<1>13. tip <= K /\ \A i \in 1..tip : kept[i] = i
  <2>1. 1..tip \subseteq T
    BY <1>4, <1>8
  <2>2. 0 \notin T /\ tip \in Nat
    BY <1>4, <1>8
  <2> QED BY <1>10, <1>11, <2>1, <2>2, ListedStart
<1>14. shown[tip].oid = rows[tip].oid
  <2>1. tip \in 1..K /\ tip \in 1..tip
    BY <1>4, <1>11, <1>13
  <2>2. kept[tip] = tip
    BY <1>13, <2>1
  <2> QED BY <1>12, <2>1, <2>2
<1>15. ASSUME NEW j \in s, j # tip, NEW k \in 1..Len(shown) PROVE shown[k].oid # rows[j].oid
  <2>1. kept[k] \in T /\ shown[k].oid = rows[kept[k]].oid
    BY <1>10, <1>11, <1>12 DEF Listed
  <2>2. kept[k] # j /\ kept[k] \in 1..N /\ j \in 1..N
    BY <1>2, <1>8, <1>15, <2>1
  <2> QED BY <1>1, <2>1, <2>2 DEF Distinct
<1> QED BY <1>1, <1>3, <1>4, <1>13, <1>14, <1>15, <1>12 DEF FoldsOne

(* A placeholder stands at the tip of a folded segment.                    *)
LEMMA PlaceholderIs ==
  ASSUME NEW rows, Distinct(rows), NEW segs, NEW collapsed,
         NEW shown, shown = Project(rows, segs, collapsed), NEW k \in 1..Len(shown), shown[k].hidden # 0
  PROVE  \E s \in segs : rows[Min(s)].oid \in collapsed /\ shown[k].oid = rows[Min(s)].oid
<1>1. DOMAIN rows = 1..Len(rows) /\ Len(rows) \in Nat
  BY DEF Distinct
<1>2. PICK folded : folded = FoldedOf(rows, segs, collapsed)
  OBVIOUS
<1>3. PICK kept : kept = KeptList(rows, segs, collapsed)
  OBVIOUS
<1>4. Listed(kept, KeptOf(rows, segs, collapsed))
  BY <1>1, <1>3, KeptIs
<1>5. PICK K \in Nat : K = Len(kept)
  BY <1>4 DEF Listed
<1>6. /\ DOMAIN shown = 1..K /\ Len(shown) = K
      /\ \A n \in 1..K : shown[n] = [oid |-> rows[kept[n]].oid, hidden |-> Cardinality(SegmentAt(folded, kept[n]))]
  BY <1>1, <1>2, <1>3, <1>5, ProjectIs
<1>7. Cardinality(SegmentAt(folded, kept[k])) # 0 /\ shown[k].oid = rows[kept[k]].oid
  BY <1>6
<1>8. SegmentAt(folded, kept[k]) # {}
  BY <1>7, FS_EmptySet
<1>9. PICK s \in folded : kept[k] \in s
  BY <1>8 DEF SegmentAt
<1>10. kept[k] = Min(s)
  <2>1. kept[k] \in KeptOf(rows, segs, collapsed)
    BY <1>6, <1>4, <1>5 DEF Listed
  <2> QED BY <1>2, <1>9, <2>1 DEF KeptOf
<1>11. s \in segs /\ rows[Min(s)].oid \in collapsed
  BY <1>2, <1>9 DEF FoldedOf
<1> QED BY <1>7, <1>10, <1>11

(* The view after `c': the filters stay, and with a list that is not stale *)
(* the selection does not leave a commit that is still shown.              *)
Toggled(v, w) ==
  /\ Good(parents, w)
  /\ w.filters = v.filters /\ w.branches = v.branches /\ w.authors = v.authors
  /\ (v.collapsed = {} => v.shown = <<>>) => Stays(w, SelectedIn(v, v.at))

(* A placeholder unfolds.                                                  *)
LEMMA UnfoldIs ==
  ASSUME AncestryIn(parents), NEW v, Good(parents, v), NEW d, d = Display(v), v.at \in 1..Len(d), d[v.at].hidden # 0,
         NEW u, u = [v EXCEPT !.collapsed = @ \ {d[v.at].oid}], NEW w, w = Recompute(u)
  PROVE  Toggled(v, w)
<1>1. v \in Views /\ Filled(parents, v) /\ Projecting(v) /\ Offered(v)
  BY DEF Good
<1>2. PICK c : c = d[v.at].oid
  OBVIOUS
<1>3. /\ u \in Views /\ u.rows = v.rows /\ u.segments = v.segments /\ u.filters = v.filters /\ u.shown = v.shown
      /\ u.at = v.at /\ u.branches = v.branches /\ u.authors = v.authors /\ u.built = v.built
      /\ u.collapsed = v.collapsed \ {c}
  BY <1>1, <1>2 DEF Views
<1>4. Filled(parents, u) /\ Offered(u)
  BY <1>1, <1>3 DEF Filled, Offered
<1>5. Recomputed(u, w)
  BY <1>3, <1>4, RecomputeIs
<1>6. Displayed(v, d)
  BY <1>1, DisplayIs
<1>7. DOMAIN d = 1..Len(d) /\ Len(d) \in Nat /\ Distinct(d)
  BY <1>6 DEF Displayed, Distinct
<1>8. SelectedIn(v, v.at) = c
  BY <1>2, <1>7 DEF SelectedIn
<1>9. PICK rows : rows = v.rows
  OBVIOUS
<1>10. DescendsIn(parents, rows)
  BY <1>1, <1>9, FilledRows
<1>11. Descends(rows) /\ Ancestry
  BY <1>10 DEF DescendsIn, Descends, AncestryIn, Ancestry
<1>12. Distinct(rows)
  BY <1>11, DescendsDistinct
<1>13. v.collapsed # {}
  <2>1. SUFFICES ASSUME v.collapsed = {} PROVE FALSE
    OBVIOUS
  <2>2. d = Plain(rows)
    BY <1>9, <2>1 DEF Display
  <2>3. d[v.at].hidden = 0
    BY <1>10, <2>2, PlainIs
  <2> QED BY <2>3
<1>14. SelectedIn(u, u.at) = c
  <2>1. CASE u.collapsed # {}
    <3>1. Display(u) = d
      BY <1>3, <1>13, <2>1 DEF Display
    <3> QED BY <1>2, <1>3, <1>7, <3>1 DEF SelectedIn
  <2>2. CASE u.collapsed = {}
    <3>1. PICK collapsed : collapsed = {c}
      OBVIOUS
    <3>2. v.collapsed = collapsed
      BY <1>3, <1>13, <2>2, <3>1
    <3>3. PICK segs : segs = SegmentsIn(parents, rows)
      OBVIOUS
    <3>4. d = Project(rows, segs, collapsed)
      BY <1>1, <1>9, <1>13, <3>2, <3>3 DEF Display, Projecting, Filled
    <3>5. \E s \in segs : rows[Min(s)].oid \in collapsed /\ c = rows[Min(s)].oid
      BY <1>2, <1>12, <3>4, PlaceholderIs
    <3>6. PICK s \in segs : c = rows[Min(s)].oid
      BY <3>5
    <3>7. PICK S : S \subseteq 1..Len(rows) /\ Partition(segs, S)
      BY <1>10, <3>3, SegmentsKnown
    <3>8. collapsed = {rows[Min(s)].oid}
      BY <3>1, <3>6
    <3>9. FoldsOne(rows, s, d)
      BY <1>12, <3>4, <3>7, <3>8, OneFold
    <3>10. PICK tip : tip = Min(s)
      OBVIOUS
    <3>11. tip <= Len(d) /\ tip \in 1..Len(rows) /\ d[tip].oid = rows[tip].oid
      BY <3>9, <3>10 DEF FoldsOne
    <3>12. tip \in 1..Len(d) /\ d[tip].oid = c
      BY <1>7, <1>12, <3>6, <3>10, <3>11 DEF Distinct
    <3>13. v.at = tip
      BY <1>2, <1>7, <3>12 DEF Distinct
    <3>14. PICK plain : plain = Plain(rows)
      OBVIOUS
    <3>15. Distinct(plain) /\ Len(plain) = Len(rows) /\ \A k \in 1..Len(plain) : plain[k].oid = rows[k].oid
      BY <1>10, <3>14, PlainIs
    <3>16. Display(u) = plain
      BY <1>3, <1>9, <2>2, <3>14 DEF Display
    <3>17. tip \in DOMAIN plain /\ plain[tip].oid = c
      BY <3>6, <3>10, <3>11, <3>15 DEF Distinct
    <3> QED BY <1>3, <3>13, <3>16, <3>17 DEF SelectedIn
  <2> QED BY <2>1, <2>2
<1> QED BY <1>3, <1>5, <1>8, <1>14 DEF Recomputed, Toggled

(* A side branch folds.                                                    *)
LEMMA FoldIs ==
  ASSUME AncestryIn(parents), NEW v, Good(parents, v), NEW d, d = Display(v), v.at \in 1..Len(d),
         NEW segment, segment = SegmentId(v.rows, v.segments, RowOf(v.rows, d[v.at].oid)),
         RowOf(v.rows, d[v.at].oid) # 0, segment # 0,
         NEW u, u = [v EXCEPT !.collapsed = @ \cup {segment}], NEW w, w = Recompute(u)
  PROVE  Toggled(v, w)
<1>1. v \in Views /\ Filled(parents, v) /\ Projecting(v) /\ Offered(v)
  BY DEF Good
<1>2. PICK c : c = d[v.at].oid
  OBVIOUS
<1>3. PICK rows : rows = v.rows
  OBVIOUS
<1>4. DescendsIn(parents, rows)
  BY <1>1, <1>3, FilledRows
<1>5. Descends(rows) /\ Ancestry
  BY <1>4 DEF DescendsIn, Descends, AncestryIn, Ancestry
<1>6. Distinct(rows)
  BY <1>5, DescendsDistinct
<1>7. PICK N \in Nat : N = Len(rows) /\ DOMAIN rows = 1..N
  BY <1>6 DEF Distinct
<1>8. PICK segs : segs = SegmentsIn(parents, rows) /\ segs = v.segments
  BY <1>1, <1>3 DEF Filled
<1>9. PICK S : S \subseteq 1..Len(rows) /\ Partition(segs, S)
  BY <1>4, <1>8, SegmentsKnown
<1>10. PICK i : i = RowOf(rows, c)
  OBVIOUS
<1>11. i \in 1..N /\ rows[i].oid = c
  <2>1. i \in 0..N /\ i # 0
    BY <1>2, <1>3, <1>6, <1>7, <1>10, RowOfIs
  <2> QED BY <1>6, <1>10, <2>1, RowOfIs
<1>12. PICK s : s = SegmentAt(segs, i)
  OBVIOUS
<1>13. s # {} /\ segment = rows[Min(s)].oid
  BY <1>2, <1>3, <1>8, <1>10, <1>12 DEF SegmentId
<1>14. s \in segs /\ i \in s
  <2>1. PICK j : j \in s
    BY <1>13
  <2>2. Joined(segs, i, j)
    BY <1>9, <1>12, <2>1, SegmentAtIs
  <2>3. PICK t \in segs : i \in t
    BY <2>2 DEF Joined
  <2> QED BY <1>9, <1>12, <2>3, SegmentAtIs
<1>15. Min(s) \in s /\ Min(s) \in 1..N
  <2>1. s \subseteq 1..N
    BY <1>7, <1>9, <1>14 DEF Partition
  <2> QED BY <1>13, <2>1, SegmentTip
<1>16. segment \in Nat
  BY <1>5, <1>7, <1>13, <1>15 DEF Descends, Ancestry
<1>17. /\ u \in Views /\ u.rows = v.rows /\ u.segments = v.segments /\ u.filters = v.filters /\ u.shown = v.shown
       /\ u.at = v.at /\ u.branches = v.branches /\ u.authors = v.authors /\ u.built = v.built
       /\ u.collapsed = v.collapsed \cup {segment}
  BY <1>1, <1>16 DEF Views
<1>18. Filled(parents, u) /\ Offered(u)
  BY <1>1, <1>17 DEF Filled, Offered
<1>19. Recomputed(u, w)
  BY <1>17, <1>18, RecomputeIs
<1>20. Displayed(v, d)
  BY <1>1, DisplayIs
<1>21. DOMAIN d = 1..Len(d) /\ Len(d) \in Nat
  BY <1>20 DEF Displayed, Distinct
<1>22. SelectedIn(v, v.at) = c
  BY <1>2, <1>21 DEF SelectedIn
<1>23. ASSUME v.collapsed = {} => v.shown = <<>> PROVE Stays(w, c)
  <2>1. CASE v.collapsed # {}
    <3>1. Display(u) = d
      BY <1>17, <2>1 DEF Display
    <3>2. SelectedIn(u, u.at) = c
      BY <1>2, <1>17, <1>21, <3>1 DEF SelectedIn
    <3> QED BY <1>19, <3>2 DEF Recomputed
  <2>2. CASE v.collapsed = {}
    <3>1. PICK e : e = <<>>
      OBVIOUS
    <3>2. Display(u) = e
      BY <1>17, <1>23, <2>2, <3>1 DEF Display
    <3>3. DOMAIN e = {}
      BY <3>1
    <3>4. SelectedIn(u, u.at) = 0
      BY <3>2, <3>3 DEF SelectedIn
    <3>5. PICK shown : shown = Display(w)
      OBVIOUS
    <3>6. PICK at \in Nat : at = v.at
      BY <1>1 DEF Views
    <3>7. w.at = Min({Max({at, 1}), Len(shown)})
      BY <1>17, <1>19, <3>4, <3>5, <3>6 DEF Recomputed
    <3>8. PICK collapsed : collapsed = {rows[Min(s)].oid}
      OBVIOUS
    <3>9. w.collapsed = collapsed /\ w.rows = rows /\ w.segments = segs
      BY <1>3, <1>8, <1>13, <1>17, <1>19, <2>2, <3>8 DEF Recomputed
    <3>10. Good(parents, w)
      BY <1>19 DEF Recomputed
    <3>11. shown = Project(rows, segs, collapsed)
      BY <3>5, <3>8, <3>9, <3>10 DEF Good, Display, Projecting
    <3>12. FoldsOne(rows, s, shown)
      BY <1>6, <1>9, <1>14, <3>8, <3>11, OneFold
    <3>13. PICK tip : tip = Min(s)
      OBVIOUS
    <3>14. /\ tip <= Len(shown) /\ tip \in 1..N /\ shown[tip].oid = rows[tip].oid
           /\ \A j \in s : j # tip => \A k \in 1..Len(shown) : shown[k].oid # rows[j].oid
      BY <1>7, <3>12, <3>13 DEF FoldsOne
    <3>15. Displayed(w, shown)
      BY <3>5, <3>10, DisplayIs DEF Good
    <3>16. Distinct(shown) /\ Len(shown) \in Nat /\ DOMAIN shown = 1..Len(shown)
      BY <3>15 DEF Displayed, Distinct
    <3>17. at = i
      <4>1. d = Plain(rows)
        BY <1>3, <2>2 DEF Display
      <4>2. Len(d) = Len(rows) /\ \A k \in 1..Len(d) : d[k].oid = rows[k].oid
        BY <1>4, <4>1, PlainIs
      <4>3. at \in 1..N /\ rows[at].oid = c
        BY <1>2, <1>7, <3>6, <4>2
      <4> QED BY <1>6, <1>7, <1>11, <4>3 DEF Distinct
    <3>18. CASE i = tip
      <4>1. Max({at, 1}) = at
        <5>1. Max({at, 1}) = IF at <= 1 THEN 1 ELSE at
          BY MaxPair
        <5> QED BY <1>11, <3>17, <5>1
      <4>2. Min({at, Len(shown)}) = at
        <5>1. Min({at, Len(shown)}) = IF at <= Len(shown) THEN at ELSE Len(shown)
          BY <3>16, MinPair
        <5> QED BY <3>14, <3>17, <3>18, <5>1
      <4>3. w.at = tip /\ tip \in DOMAIN shown /\ shown[tip].oid = c
        <5>1. w.at = at
          BY <3>7, <4>1, <4>2
        <5>2. tip \in 1..Len(shown)
          BY <3>14, <3>16
        <5> QED BY <1>11, <3>14, <3>16, <3>17, <3>18, <5>1, <5>2
      <4>4. SelectedIn(w, w.at) = c
        BY <3>5, <4>3 DEF SelectedIn
      <4> QED BY <4>4 DEF Stays
    <3>19. CASE i # tip
      <4>1. \A k \in 1..Len(shown) : shown[k].oid # c
        BY <1>11, <1>14, <3>14, <3>19
      <4>2. RowOf(shown, c) = 0
        <5>1. RowOf(shown, c) \in 0..Len(shown) /\ (RowOf(shown, c) # 0 => shown[RowOf(shown, c)].oid = c)
          BY <3>16, RowOfIs
        <5> QED BY <3>16, <4>1, <5>1
      <4> QED BY <3>5, <4>2 DEF Stays
    <3> QED BY <3>18, <3>19
  <2> QED BY <2>1, <2>2
<1> QED BY <1>17, <1>19, <1>22, <1>23 DEF Recomputed, Toggled

LEMMA ToggleIs ==
  ASSUME AncestryIn(parents), NEW v, Good(parents, v), NEW w, w = ToggleCollapse(v)
  PROVE  Toggled(v, w)
<1>1. v \in Views /\ Filled(parents, v) /\ Projecting(v) /\ Placed(v)
  BY DEF Good
<1>2. Toggled(v, v)
  BY DEF Toggled, Stays
<1>3. PICK d : d = Display(v)
  OBVIOUS
<1>4. Displayed(v, d)
  BY <1>1, <1>3, DisplayIs
<1>5. PICK c : c = d[v.at].oid
  OBVIOUS
<1>6. PICK segment : segment = IF RowOf(v.rows, c) = 0 THEN 0 ELSE SegmentId(v.rows, v.segments, RowOf(v.rows, c))
  OBVIOUS
<1>7. w = IF v.at = 0 THEN v
          ELSE IF d[v.at].hidden # 0 THEN Recompute([v EXCEPT !.collapsed = @ \ {c}])
          ELSE IF segment = 0 THEN v
          ELSE Recompute([v EXCEPT !.collapsed = @ \cup {segment}])
  BY <1>3, <1>5, <1>6 DEF ToggleCollapse
<1>8. v.at # 0 => v.at \in 1..Len(d)
  BY <1>1, <1>3, <1>4 DEF Placed, Views, Displayed, Distinct
<1>9. CASE v.at # 0 /\ d[v.at].hidden # 0
  BY <1>3, <1>5, <1>7, <1>8, <1>9, UnfoldIs
<1>10. CASE v.at # 0 /\ d[v.at].hidden = 0 /\ segment # 0
  <2>1. RowOf(v.rows, c) # 0 /\ segment = SegmentId(v.rows, v.segments, RowOf(v.rows, c))
    BY <1>6, <1>10
  <2>2. PICK u : u = [v EXCEPT !.collapsed = @ \cup {segment}]
    OBVIOUS
  <2>3. w = Recompute(u)
    BY <1>7, <1>10, <2>2
  <2> QED BY <1>3, <1>5, <1>8, <1>10, <2>1, <2>2, <2>3, FoldIs
<1> QED BY <1>2, <1>7, <1>9, <1>10

-----------------------------------------------------------------------------
(* The selection, the search and the filters.                              *)

SameFilters(v, w) == w.filters = v.filters /\ w.branches = v.branches /\ w.authors = v.authors

LEMMA MovedIs ==
  ASSUME NEW v, Good(parents, v), NEW at \in Nat, at <= Len(Display(v)), at = 0 <=> Len(Display(v)) = 0,
         NEW match \in Nat, match <= Len(v.matches), NEW typing \in BOOLEAN,
         NEW w, w = [v EXCEPT !.at = at, !.match = match, !.typing = typing]
  PROVE  Good(parents, w) /\ SameFilters(v, w)
<1>1. v \in Views /\ Filled(parents, v) /\ Projecting(v) /\ Offered(v) /\ v.matches = Matches(v)
  BY DEF Good, Marked
<1>2. /\ w \in Views /\ w.at = at /\ w.match = match /\ w.matches = v.matches /\ w.query = v.query
      /\ w.rows = v.rows /\ w.segments = v.segments /\ w.filters = v.filters /\ w.collapsed = v.collapsed
      /\ w.shown = v.shown /\ w.branches = v.branches /\ w.authors = v.authors /\ w.built = v.built
  BY <1>1 DEF Views
<1>3. Filled(parents, w) /\ Projecting(w) /\ Offered(w)
  BY <1>1, <1>2 DEF Filled, Projecting, Offered
<1>4. Display(w) = Display(v)
  BY <1>2 DEF Display
<1>5. Matches(w) = Matches(v)
  BY <1>2, <1>4 DEF Matches
<1>6. Marked(w)
  BY <1>1, <1>2, <1>5 DEF Marked
<1>7. Placed(w)
  BY <1>2, <1>4 DEF Placed
<1> QED BY <1>2, <1>3, <1>6, <1>7 DEF Good, SameFilters

(* What the selection and the search marks of a good view are.             *)
Pointed(v) ==
  /\ v \in Views /\ v.at \in Nat /\ v.match \in Nat /\ v.typing \in BOOLEAN
  /\ Len(Display(v)) \in Nat /\ DOMAIN Display(v) = 1..Len(Display(v))
  /\ v.at <= Len(Display(v)) /\ (v.at = 0 <=> Len(Display(v)) = 0)
  /\ Len(v.matches) \in Nat /\ v.match <= Len(v.matches) /\ (v.matches = <<>> <=> Len(v.matches) = 0)
  /\ \A k \in 1..Len(v.matches) : v.matches[k] \in 1..Len(Display(v))

LEMMA PointedIs ==
  ASSUME AncestryIn(parents), NEW v, Good(parents, v)
  PROVE  Pointed(v)
<1>1. PICK d : d = Display(v)
  OBVIOUS
<1>2. Displayed(v, d)
  BY <1>1, DisplayIs DEF Good
<1>3. Distinct(d) /\ Len(d) \in Nat /\ DOMAIN d = 1..Len(d)
  BY <1>2 DEF Displayed, Distinct
<1>4. PICK m : m = Matches(v)
  OBVIOUS
<1>5. m \in Seq(Nat) /\ Len(m) \in Nat /\ \A k \in 1..Len(m) : m[k] \in 1..Len(d)
  BY <1>1, <1>3, <1>4, MatchesIs
<1>6. v \in Views /\ v.matches = m /\ v.match <= Len(m)
  BY <1>4 DEF Good, Marked
<1>7. v.at \in Nat /\ v.match \in Nat /\ v.typing \in BOOLEAN
  BY <1>6 DEF Views
<1>8. v.at <= Len(d) /\ (v.at = 0 <=> Len(d) = 0)
  BY <1>1 DEF Good, Placed
<1>9. m = <<>> <=> Len(m) = 0
  BY <1>5
<1> QED BY <1>1, <1>3, <1>5, <1>6, <1>7, <1>8, <1>9 DEF Pointed

LEMMA SelectNextIs ==
  ASSUME AncestryIn(parents), NEW v, Good(parents, v), NEW w, w = SelectNext(v)
  PROVE  Good(parents, w) /\ SameFilters(v, w)
<1>1. Pointed(v)
  BY PointedIs
<1>2. PICK n \in Nat : n = Len(Display(v)) /\ (Display(v) = <<>> <=> n = 0)
  <2>1. Displayed(v, Display(v))
    BY DisplayIs DEF Good
  <2> QED BY <2>1 DEF Displayed
<1>3. CASE n = 0
  BY <1>2, <1>3 DEF SelectNext, SameFilters
<1>4. CASE n # 0
  <2>1. PICK at : at = Min({v.at + 1, n})
    OBVIOUS
  <2>2. at = IF v.at + 1 <= n THEN v.at + 1 ELSE n
    <3>1. v.at + 1 \in Nat
      BY <1>1 DEF Pointed
    <3> QED BY <2>1, <3>1, MinPair
  <2>3. at \in Nat /\ at <= n /\ at # 0
    BY <1>1, <1>4, <2>2 DEF Pointed
  <2>4. w = [v EXCEPT !.at = at, !.match = v.match, !.typing = v.typing]
    <3>1. w = [v EXCEPT !.at = at]
      BY <1>2, <1>4, <2>1 DEF SelectNext
    <3>2. v \in Views
      BY <1>1 DEF Pointed
    <3> QED BY ONLY <3>1, <3>2 DEF Views
  <2>5. v.match \in Nat /\ v.match <= Len(v.matches) /\ v.typing \in BOOLEAN
    BY <1>1 DEF Pointed
  <2> QED BY <1>2, <1>4, <2>3, <2>4, <2>5, MovedIs
<1> QED BY <1>3, <1>4

LEMMA SelectPrevIs ==
  ASSUME AncestryIn(parents), NEW v, Good(parents, v), NEW w, w = SelectPrev(v)
  PROVE  Good(parents, w) /\ SameFilters(v, w)
<1>1. Pointed(v)
  BY PointedIs
<1>2. PICK n \in Nat : n = Len(Display(v)) /\ (Display(v) = <<>> <=> n = 0)
  <2>1. Displayed(v, Display(v))
    BY DisplayIs DEF Good
  <2> QED BY <2>1 DEF Displayed
<1>3. CASE n = 0
  BY <1>2, <1>3 DEF SelectPrev, SameFilters
<1>4. CASE n # 0
  <2>1. PICK at : at = Max({v.at - 1, 1})
    OBVIOUS
  <2>2. at = IF v.at - 1 <= 1 THEN 1 ELSE v.at - 1
    <3>1. v.at - 1 \in Nat
      BY <1>1, <1>2, <1>4 DEF Pointed
    <3> QED BY <2>1, <3>1, MaxPair
  <2>3. at \in Nat /\ at <= n /\ at # 0
    BY <1>1, <1>2, <1>4, <2>2 DEF Pointed
  <2>4. w = [v EXCEPT !.at = at, !.match = v.match, !.typing = v.typing]
    <3>1. w = [v EXCEPT !.at = at]
      BY <1>2, <1>4, <2>1 DEF SelectPrev
    <3>2. v \in Views
      BY <1>1 DEF Pointed
    <3> QED BY ONLY <3>1, <3>2 DEF Views
  <2>5. v.match \in Nat /\ v.match <= Len(v.matches) /\ v.typing \in BOOLEAN
    BY <1>1 DEF Pointed
  <2> QED BY <1>2, <1>4, <2>3, <2>4, <2>5, MovedIs
<1> QED BY <1>3, <1>4

(* The selection goes to a mark of the search.                             *)
LEMMA MarkIs ==
  ASSUME AncestryIn(parents), NEW v, Good(parents, v), NEW k \in 1..Len(v.matches), NEW typing \in BOOLEAN,
         NEW w, w = [v EXCEPT !.at = v.matches[k], !.match = k, !.typing = typing]
  PROVE  Good(parents, w) /\ SameFilters(v, w)
<1>1. Pointed(v)
  BY PointedIs
<1>2. PICK at : at = v.matches[k]
  OBVIOUS
<1>3. at \in Nat /\ at <= Len(Display(v)) /\ (at = 0 <=> Len(Display(v)) = 0)
  BY <1>1, <1>2 DEF Pointed
<1>4. k \in Nat /\ k <= Len(v.matches)
  BY <1>1 DEF Pointed
<1> QED BY <1>2, <1>3, <1>4, MovedIs

LEMMA SearchNextIs ==
  ASSUME AncestryIn(parents), NEW v, Good(parents, v), NEW w, w = SearchNext(v)
  PROVE  Good(parents, w) /\ SameFilters(v, w)
<1>1. Pointed(v)
  BY PointedIs
<1>2. PICK n \in Nat : n = Len(v.matches) /\ (v.matches = <<>> <=> n = 0) /\ v.match \in Nat
  BY <1>1 DEF Pointed
<1>3. CASE n = 0
  BY <1>2, <1>3 DEF SearchNext, SameFilters
<1>4. CASE n # 0
  <2>1. PICK k : k = (v.match % n) + 1
    OBVIOUS
  <2>2. k \in 1..n
    BY <1>2, <1>4, <2>1
  <2>3. w = [v EXCEPT !.at = v.matches[k], !.match = k, !.typing = v.typing]
    <3>1. w = [v EXCEPT !.match = k, !.at = v.matches[k]]
      BY <1>2, <1>4, <2>1 DEF SearchNext
    <3>2. v \in Views
      BY <1>1 DEF Pointed
    <3> QED BY ONLY <3>1, <3>2 DEF Views
  <2>4. v.typing \in BOOLEAN
    BY <1>1 DEF Pointed
  <2> QED BY <1>2, <2>2, <2>3, <2>4, MarkIs
<1> QED BY <1>3, <1>4

LEMMA SearchPrevIs ==
  ASSUME AncestryIn(parents), NEW v, Good(parents, v), NEW w, w = SearchPrev(v)
  PROVE  Good(parents, w) /\ SameFilters(v, w)
<1>1. Pointed(v)
  BY PointedIs
<1>2. PICK n \in Nat : n = Len(v.matches) /\ (v.matches = <<>> <=> n = 0) /\ v.match \in Nat /\ v.match <= n
  BY <1>1 DEF Pointed
<1>3. CASE n = 0
  BY <1>2, <1>3 DEF SearchPrev, SameFilters
<1>4. CASE n # 0
  <2>1. PICK k : k = IF v.match <= 1 THEN n ELSE v.match - 1
    OBVIOUS
  <2>2. k \in 1..n
    BY <1>2, <1>4, <2>1
  <2>3. w = [v EXCEPT !.at = v.matches[k], !.match = k, !.typing = v.typing]
    <3>1. w = [v EXCEPT !.match = k, !.at = v.matches[k]]
      BY <1>2, <1>4, <2>1 DEF SearchPrev
    <3>2. v \in Views
      BY <1>1 DEF Pointed
    <3> QED BY ONLY <3>1, <3>2 DEF Views
  <2>4. v.typing \in BOOLEAN
    BY <1>1 DEF Pointed
  <2> QED BY <1>2, <2>2, <2>3, <2>4, MarkIs
<1> QED BY <1>3, <1>4

LEMMA FirstMatchIs ==
  ASSUME AncestryIn(parents), NEW v, Good(parents, v), NEW w, w = FirstMatch(v)
  PROVE  Good(parents, w) /\ SameFilters(v, w)
<1>1. Pointed(v)
  BY PointedIs
<1>2. PICK n \in Nat : n = Len(v.matches) /\ (v.matches = <<>> <=> n = 0)
  BY <1>1 DEF Pointed
<1>3. v \in Views
  BY <1>1 DEF Pointed
<1>4. CASE n = 0
  <2>1. w = [v EXCEPT !.at = v.at, !.match = v.match, !.typing = FALSE]
    <3>1. w = [v EXCEPT !.typing = FALSE]
      BY <1>2, <1>4 DEF FirstMatch
    <3> QED BY ONLY <1>3, <3>1 DEF Views
  <2>2. /\ v.at \in Nat /\ v.at <= Len(Display(v)) /\ (v.at = 0 <=> Len(Display(v)) = 0)
        /\ v.match \in Nat /\ v.match <= Len(v.matches)
    BY <1>1 DEF Pointed
  <2> QED BY <2>1, <2>2, MovedIs
<1>5. CASE n # 0
  <2>1. w = [v EXCEPT !.at = v.matches[1], !.match = 1, !.typing = FALSE]
    <3>1. w = [v EXCEPT !.typing = FALSE, !.match = 1, !.at = v.matches[1]]
      BY <1>2, <1>5 DEF FirstMatch
    <3> QED BY ONLY <1>3, <3>1 DEF Views
  <2>2. 1 \in 1..Len(v.matches)
    BY <1>2, <1>5
  <2> QED BY <2>1, <2>2, MarkIs
<1> QED BY <1>4, <1>5

LEMMA TypedIs ==
  ASSUME AncestryIn(parents), NEW v, Good(parents, v), NEW w, w = [v EXCEPT !.typing = FALSE]
  PROVE  Good(parents, w) /\ SameFilters(v, w)
<1>1. Pointed(v)
  BY PointedIs
<1>2. v \in Views
  BY <1>1 DEF Pointed
<1>3. w = [v EXCEPT !.at = v.at, !.match = v.match, !.typing = FALSE]
  BY ONLY <1>2, w = [v EXCEPT !.typing = FALSE] DEF Views
<1>4. /\ v.at \in Nat /\ v.at <= Len(Display(v)) /\ (v.at = 0 <=> Len(Display(v)) = 0)
      /\ v.match \in Nat /\ v.match <= Len(v.matches)
  BY <1>1 DEF Pointed
<1> QED BY <1>3, <1>4, MovedIs

LEMMA ClickIs ==
  ASSUME AncestryIn(parents), NEW v, Good(parents, v), NEW i \in DOMAIN Display(v), NEW w, w = [v EXCEPT !.at = i]
  PROVE  Good(parents, w) /\ SameFilters(v, w)
<1>1. Pointed(v)
  BY PointedIs
<1>2. v \in Views
  BY <1>1 DEF Pointed
<1>3. w = [v EXCEPT !.at = i, !.match = v.match, !.typing = v.typing]
  BY ONLY <1>2, w = [v EXCEPT !.at = i] DEF Views
<1>4. /\ i \in Nat /\ i <= Len(Display(v)) /\ (i = 0 <=> Len(Display(v)) = 0)
      /\ v.match \in Nat /\ v.match <= Len(v.matches) /\ v.typing \in BOOLEAN
  BY <1>1 DEF Pointed
<1> QED BY <1>3, <1>4, MovedIs

(* A new query, under any search.                                          *)
LEMMA QueriedIs ==
  ASSUME AncestryIn(parents), NEW v, Good(parents, v), NEW q \in Authors \cup {None}, NEW typing \in BOOLEAN,
         NEW u, u = [v EXCEPT !.query = q, !.typing = typing], NEW w,
         w = [u EXCEPT !.matches = Matches(u), !.match = IF Matches(u) = <<>> THEN 0 ELSE 1]
  PROVE  Good(parents, w) /\ SameFilters(v, w)
<1>1. Pointed(v)
  BY PointedIs
<1>2. v \in Views /\ Filled(parents, v) /\ Projecting(v) /\ Offered(v) /\ Placed(v)
  BY DEF Good
<1>3. u \in Views /\ u.rows = v.rows /\ u.shown = v.shown /\ u.collapsed = v.collapsed /\ u.query = q
      /\ u.segments = v.segments /\ u.filters = v.filters /\ u.at = v.at
      /\ u.branches = v.branches /\ u.authors = v.authors /\ u.built = v.built
  BY <1>2 DEF Views
<1>4. PICK d : d = Display(v)
  OBVIOUS
<1>5. Display(u) = d /\ Len(d) \in Nat /\ DOMAIN d = 1..Len(d)
  BY <1>1, <1>3, <1>4 DEF Display, Pointed
<1>6. PICK m : m = Matches(u)
  OBVIOUS
<1>7. m \in Seq(Nat) /\ Len(m) \in Nat /\ (m = <<>> <=> Len(m) = 0)
  BY <1>5, <1>6, MatchesIs
<1>8. PICK match \in Nat : match = (IF m = <<>> THEN 0 ELSE 1) /\ match <= Len(m)
  BY <1>7
<1>9. w = [u EXCEPT !.matches = m, !.match = match]
  BY <1>6, <1>8
<1>10. /\ w \in Views /\ w.rows = u.rows /\ w.shown = u.shown /\ w.collapsed = u.collapsed /\ w.query = u.query
       /\ w.segments = u.segments /\ w.filters = u.filters /\ w.at = u.at
       /\ w.branches = u.branches /\ w.authors = u.authors /\ w.built = u.built /\ w.matches = m /\ w.match = match
  BY ONLY <1>3, <1>7, <1>9 DEF Views
<1>11. Filled(parents, w) /\ Projecting(w) /\ Offered(w)
  BY <1>2, <1>3, <1>10 DEF Filled, Projecting, Offered
<1>12. Display(w) = d
  BY <1>3, <1>4, <1>10 DEF Display
<1>13. Matches(w) = m
  <2>1. w.query = u.query /\ Display(w) = Display(u)
    BY <1>5, <1>10, <1>12
  <2> QED BY <1>6, <2>1 DEF Matches
<1>14. Marked(w)
  BY <1>8, <1>10, <1>13 DEF Marked
<1>15. Placed(w)
  BY <1>2, <1>3, <1>4, <1>10, <1>12 DEF Placed
<1> QED BY <1>3, <1>10, <1>11, <1>14, <1>15 DEF Good, SameFilters

LEMMA MatchedIs ==
  ASSUME AncestryIn(parents), NEW v, Good(parents, v), NEW q \in Authors \cup {None},
         NEW w, w = Matched([v EXCEPT !.query = q])
  PROVE  Good(parents, w) /\ SameFilters(v, w)
<1>1. v \in Views /\ v.typing \in BOOLEAN
  BY DEF Good, Views
<1>2. PICK u : u = [v EXCEPT !.query = q, !.typing = v.typing]
  OBVIOUS
<1>3. u = [v EXCEPT !.query = q]
  BY ONLY <1>1, <1>2 DEF Views
<1>4. w = [u EXCEPT !.matches = Matches(u), !.match = IF Matches(u) = <<>> THEN 0 ELSE 1]
  BY <1>3 DEF Matched
<1> QED BY <1>1, <1>2, <1>4, QueriedIs

LEMMA OpenSearchIs ==
  ASSUME AncestryIn(parents), NEW v, Good(parents, v), NEW w, w = OpenSearch(v)
  PROVE  Good(parents, w) /\ SameFilters(v, w)
<1>1. v \in Views
  BY DEF Good
<1>2. PICK u : u = [v EXCEPT !.query = None, !.typing = TRUE]
  OBVIOUS
<1>3. u.query = None
  BY <1>1, <1>2 DEF Views
<1>4. Matches(u) = <<>>
  BY <1>3 DEF Matches
<1>5. w = [v EXCEPT !.typing = TRUE, !.query = None, !.matches = <<>>, !.match = 0]
  BY DEF OpenSearch
<1>6. w = [u EXCEPT !.matches = <<>>, !.match = 0]
  BY ONLY <1>1, <1>2, <1>5 DEF Views
<1>7. w = [u EXCEPT !.matches = Matches(u), !.match = IF Matches(u) = <<>> THEN 0 ELSE 1]
  BY <1>4, <1>6
<1> QED BY <1>2, <1>7, QueriedIs

LEMMA ExpandAllIs ==
  ASSUME AncestryIn(parents), NEW v, Good(parents, v), NEW w, w = ExpandAll(v)
  PROVE  Good(parents, w) /\ SameFilters(v, w)
<1>1. v \in Views /\ Filled(parents, v) /\ Offered(v)
  BY DEF Good
<1>2. CASE v.collapsed = {}
  BY <1>2 DEF ExpandAll, SameFilters
<1>3. CASE v.collapsed # {}
  <2>1. PICK u : u = [v EXCEPT !.collapsed = {}]
    OBVIOUS
  <2>2. /\ u \in Views /\ u.rows = v.rows /\ u.segments = v.segments /\ u.filters = v.filters
        /\ u.branches = v.branches /\ u.authors = v.authors /\ u.built = v.built
    BY <1>1, <2>1 DEF Views
  <2>3. Filled(parents, u) /\ Offered(u)
    BY <1>1, <2>2 DEF Filled, Offered
  <2>4. w = Recompute(u)
    BY <1>3, <2>1 DEF ExpandAll
  <2>5. Recomputed(u, w)
    BY <2>2, <2>3, <2>4, RecomputeIs
  <2> QED BY <2>2, <2>5 DEF Recomputed, SameFilters
<1> QED BY <1>2, <1>3

(* DiffStatsLoaded.                                                        *)
LEMMA StatsIs ==
  ASSUME AncestryIn(parents), NEW v, Good(parents, v), NEW w, w = Recompute(v)
  PROVE  Good(parents, w) /\ SameFilters(v, w) /\ Stays(w, SelectedIn(v, v.at))
<1>1. v \in Views /\ Filled(parents, v) /\ Offered(v)
  BY DEF Good
<1>2. Recomputed(v, w)
  BY <1>1, RecomputeIs
<1> QED BY <1>2 DEF Recomputed, SameFilters

-----------------------------------------------------------------------------
(* New filters.                                                            *)

FirstParented(v, enabled, w) ==
  /\ Good(parents, w) /\ w.branches = v.branches /\ w.authors = v.authors
  /\ w.filters = [v.filters EXCEPT !.first = enabled]

LEMMA FirstParentIs ==
  ASSUME NEW v, Good(parents, v), NEW enabled \in BOOLEAN, NEW w, w = SetFirstParent(v, enabled)
  PROVE  FirstParented(v, enabled, w)
<1>1. v \in Views /\ Filled(parents, v) /\ Projecting(v) /\ Offered(v) /\ Placed(v) /\ Marked(v)
  BY DEF Good
<1>2. PICK f : f = [v.filters EXCEPT !.first = enabled]
  OBVIOUS
<1>3. v.filters \in Filters
  BY <1>1 DEF Views
<1>4. f \in Filters /\ f.branches = v.filters.branches /\ f.authors = v.filters.authors
  BY <1>2, <1>3 DEF Filters
<1>5. w = [v EXCEPT !.filters = f]
  BY <1>2 DEF SetFirstParent
<1>6. /\ w \in Views /\ w.rows = v.rows /\ w.segments = v.segments /\ w.filters = f /\ w.shown = v.shown
      /\ w.collapsed = v.collapsed /\ w.at = v.at /\ w.query = v.query /\ w.matches = v.matches /\ w.match = v.match
      /\ w.branches = v.branches /\ w.authors = v.authors /\ w.built = v.built
  BY ONLY <1>1, <1>4, <1>5 DEF Views
<1>7. Display(w) = Display(v)
  BY <1>6 DEF Display
<1>8. Matches(w) = Matches(v)
  BY <1>6, <1>7 DEF Matches
<1>9. Filled(parents, w) /\ Projecting(w)
  BY <1>1, <1>6 DEF Filled, Projecting
<1>10. Offered(w)
  BY <1>1, <1>4, <1>6 DEF Offered
<1>11. Marked(w) /\ Placed(w)
  BY <1>1, <1>6, <1>7, <1>8 DEF Marked, Placed
<1> QED BY <1>2, <1>6, <1>9, <1>10, <1>11 DEF Good, FirstParented

(* Filters that the picker of the view can make.                           *)
Choosable(v, f) ==
  /\ f \in Filters
  /\ f.branches # None => f.branches \subseteq v.branches
  /\ f.authors # None => f.authors \subseteq v.authors

LEMMA SetFiltersIs ==
  ASSUME AncestryIn(parents), NEW v, Good(parents, v), NEW f, Choosable(v, f), NEW w, w = SetFilters(v, f)
  PROVE  /\ Good(parents, w) /\ w.branches = v.branches /\ w.authors = v.authors
         /\ w.filters = [f EXCEPT !.first = v.filters.first]
<1>1. v \in Views /\ Filled(parents, v) /\ Projecting(v) /\ Offered(v) /\ Placed(v)
  BY DEF Good
<1>2. PICK new : new = [f EXCEPT !.first = v.filters.first]
  OBVIOUS
<1>3. f \in Filters /\ v.filters \in Filters
  BY <1>1 DEF Views, Choosable
<1>4. new \in Filters /\ new.branches = f.branches /\ new.authors = f.authors
  BY <1>2, <1>3 DEF Filters
<1>5. CASE new = v.filters
  BY <1>2, <1>5 DEF SetFilters
<1>6. CASE new # v.filters
  <2>1. PICK none : none = <<>>
    OBVIOUS
  <2>2. none \in Seq(Nat) /\ Len(none) = 0
    BY <2>1
  <2>3. w = [v EXCEPT !.filters = new, !.collapsed = {}, !.typing = FALSE, !.query = None,
                      !.matches = none, !.match = 0]
    BY <1>2, <1>6, <2>1 DEF SetFilters
  <2>4. /\ w \in Views /\ w.rows = v.rows /\ w.segments = v.segments /\ w.filters = new /\ w.shown = v.shown
        /\ w.collapsed = {} /\ w.at = v.at /\ w.query = None /\ w.matches = none /\ w.match = 0
        /\ w.branches = v.branches /\ w.authors = v.authors /\ w.built = v.built
    BY ONLY <1>1, <1>4, <2>2, <2>3 DEF Views
  <2>5. Filled(parents, w) /\ Projecting(w)
    BY <1>1, <2>4 DEF Filled, Projecting
  <2>6. Offered(w)
    BY <1>4, <2>4 DEF Offered, Choosable
  <2>7. Marked(w)
    <3>1. Matches(w) = none
      BY <2>1, <2>4 DEF Matches
    <3> QED BY <2>2, <2>4, <3>1 DEF Marked
  <2>8. Placed(w)
    <3>1. PICK d : d = Display(v)
      OBVIOUS
    <3>2. Displayed(v, d)
      BY <1>1, <3>1, DisplayIs
    <3>3. PICK e : e = Display(w)
      OBVIOUS
    <3>4. e = Plain(v.rows)
      BY <2>4, <3>3 DEF Display
    <3>5. Len(e) = Len(v.rows)
      BY <1>1, <3>4, FilledRows, PlainIs
    <3>6. Len(d) <= Len(v.rows) /\ (Len(d) = 0 <=> Len(v.rows) = 0) /\ Len(v.rows) \in Nat /\ Len(d) \in Nat
      BY <3>2 DEF Displayed, Distinct
    <3>7. v.at \in Nat /\ v.at <= Len(d) /\ (v.at = 0 <=> Len(d) = 0)
      BY <1>1, <3>1 DEF Placed, Views
    <3> QED BY <2>4, <3>3, <3>5, <3>6, <3>7 DEF Placed
  <2> QED BY <1>2, <2>4, <2>5, <2>6, <2>7, <2>8 DEF Good
<1> QED BY <1>5, <1>6

(* The picker's filters are those in force.                                *)
LEMMA AppliedIs ==
  ASSUME AncestryIn(parents), NEW v, Good(parents, v), NEW f, Choosable(v, f),
         NEW w, w = SetFirstParent(SetFilters(v, f), f.first)
  PROVE  Good(parents, w) /\ w.branches = v.branches /\ w.authors = v.authors /\ w.filters = f
<1>1. PICK u : u = SetFilters(v, f)
  OBVIOUS
<1>2. Good(parents, u) /\ u.branches = v.branches /\ u.authors = v.authors /\ u.filters = [f EXCEPT !.first = v.filters.first]
  BY <1>1, SetFiltersIs
<1>3. f \in Filters
  BY DEF Choosable
<1>4. PICK first \in BOOLEAN : first = f.first
  BY <1>3 DEF Filters
<1>5. w = SetFirstParent(u, first)
  BY <1>1, <1>4
<1>6. Good(parents, w) /\ w.branches = u.branches /\ w.authors = u.authors /\ w.filters = [u.filters EXCEPT !.first = first]
  <2>1. FirstParented(u, first, w)
    BY <1>2, <1>5, FirstParentIs
  <2> QED BY <2>1 DEF FirstParented
<1>7. w.filters = f
  <2>1. w.filters = [[f EXCEPT !.first = v.filters.first] EXCEPT !.first = f.first]
    BY <1>2, <1>4, <1>6
  <2> QED BY ONLY <1>3, <2>1 DEF Filters
<1> QED BY <1>2, <1>6, <1>7

-----------------------------------------------------------------------------
(* A commit: what was built stays the picture of the history.              *)

LEMMA CommitGrows ==
  ASSUME NEW P, AncestryIn(P), NEW ps, ps \in Seq(Nat), \A m \in 1..Len(ps) : ps[m] \in 1..Len(P), NEW Q, Q = Append(P, ps)
  PROVE  Grown(P, Q)
<1>1. P \in Seq(Seq(Nat)) /\ Len(P) \in Nat
  BY DEF AncestryIn
<1>2. PICK T : T = Seq(Nat)
  OBVIOUS
<1>3. Q \in Seq(T) /\ Len(Q) = Len(P) + 1 /\ (\A c \in 1..Len(P) : Q[c] = P[c]) /\ Q[Len(P) + 1] = ps
  <2>1. P \in Seq(T) /\ ps \in T
    BY <1>1, <1>2
  <2> QED BY <1>1, <2>1
<1>4. ASSUME NEW c \in 1..Len(Q) PROVE \A i \in 1..Len(Q[c]) : Q[c][i] \in 1..(c - 1)
  <2>1. CASE c \in 1..Len(P)
    <3>1. Q[c] = P[c]
      BY <1>3, <2>1
    <3> QED BY <2>1, <3>1 DEF AncestryIn
  <2>2. CASE c \notin 1..Len(P)
    <3>1. c = Len(P) + 1 /\ c - 1 = Len(P)
      BY <1>1, <1>3, <2>2
    <3>2. Q[c] = ps
      BY <1>3, <3>1
    <3> QED BY <3>1, <3>2
  <2> QED BY <2>1, <2>2
<1>5. AncestryIn(Q)
  BY <1>1, <1>2, <1>3, <1>4 DEF AncestryIn
<1> QED BY <1>3, <1>5 DEF Grown

LEMMA GoodGrows ==
  ASSUME NEW P, NEW Q, Grown(P, Q), NEW v, Good(P, v)
  PROVE  Good(Q, v)
<1>1. v \in Views /\ Filled(P, v)
  BY DEF Good
<1>2. AncestryIn(P) /\ Len(P) \in Nat /\ Len(Q) = Len(P) + 1 /\ \A c \in 1..Len(P) : Q[c] = P[c]
  BY DEF Grown, AncestryIn
<1>3. PICK rows : rows = v.rows
  OBVIOUS
<1>4. DescendsIn(P, rows)
  BY <1>1, <1>2, <1>3, FilledRows
<1>5. \A i \in DOMAIN rows : Q[rows[i].oid] = P[rows[i].oid]
  <2>1. DOMAIN rows = 1..Len(rows) /\ \A i \in 1..Len(rows) : rows[i].oid \in 1..Len(P)
    BY <1>4 DEF DescendsIn
  <2> QED BY <1>2, <2>1
<1>6. OntosIn(Q, rows) = OntosIn(P, rows)
  BY <1>5 DEF OntosIn
<1>7. SegmentsIn(Q, rows) = SegmentsIn(P, rows)
  BY <1>6 DEF SegmentsIn
<1>8. ASSUME v.built # None
      PROVE  v.built \in Builds /\ v.rows = BuildIn(Q, v.built.filters, v.built.revision) /\ Known(Q, v.built.revision)
  <2>1. PICK f : f = v.built.filters
    OBVIOUS
  <2>2. PICK rev : rev = v.built.revision
    OBVIOUS
  <2>3. v.built \in Builds /\ v.rows = BuildIn(P, f, rev) /\ Known(P, rev)
    BY <1>1, <1>8, <2>1, <2>2 DEF Filled
  <2>4. f \in Filters
    BY <2>1, <2>3 DEF Builds
  <2>5. BuildIn(Q, f, rev) = BuildIn(P, f, rev)
    BY <2>3, <2>4, BuildGrows
  <2>6. 1..Len(P) \subseteq 1..Len(Q)
    BY <1>2
  <2>7. Known(Q, rev)
    BY <2>3, <2>6 DEF Known, Within
  <2> QED BY <2>1, <2>2, <2>3, <2>5, <2>7
<1>9. Filled(Q, v)
  BY <1>1, <1>3, <1>7, <1>8 DEF Filled
<1> QED BY <1>9 DEF Good

-----------------------------------------------------------------------------
(* The picker.                                                             *)

Pickers == [filters : Filters, branches : SUBSET Names, authors : SUBSET Authors]

Picks(p, v) ==
  p # None => /\ p \in Pickers /\ p.filters = v.filters
              /\ p.branches \subseteq v.branches /\ p.authors \subseteq v.authors

LEMMA BranchesChosen ==
  ASSUME NEW v, v \in Views, NEW f, Choosable(v, f), NEW B, B = None \/ B \subseteq v.branches,
         NEW g, g = [f EXCEPT !.branches = B]
  PROVE  Choosable(v, g)
<1>1. f \in Filters /\ v.branches \subseteq Names
  BY DEF Choosable, Views
<1>2. B \in (SUBSET Names) \cup {None}
  BY <1>1
<1>3. g \in Filters /\ g.branches = B /\ g.authors = f.authors
  BY <1>1, <1>2 DEF Filters
<1> QED BY <1>3 DEF Choosable

LEMMA AuthorsChosen ==
  ASSUME NEW v, v \in Views, NEW f, Choosable(v, f), NEW B, B = None \/ B \subseteq v.authors,
         NEW g, g = [f EXCEPT !.authors = B]
  PROVE  Choosable(v, g)
<1>1. f \in Filters /\ v.authors \subseteq Authors
  BY DEF Choosable, Views
<1>2. B \in (SUBSET Authors) \cup {None}
  BY <1>1
<1>3. g \in Filters /\ g.authors = B /\ g.branches = f.branches
  BY <1>1, <1>2 DEF Filters
<1> QED BY <1>3 DEF Choosable

LEMMA KindsChosen ==
  ASSUME NEW v, v \in Views, NEW f, Choosable(v, f), NEW B, B \subseteq Kinds, NEW g, g = [f EXCEPT !.kinds = B]
  PROVE  Choosable(v, g)
<1>1. f \in Filters
  BY DEF Choosable
<1>2. g \in Filters /\ g.authors = f.authors /\ g.branches = f.branches
  BY <1>1 DEF Filters
<1> QED BY <1>2 DEF Choosable

LEMMA FirstChosen ==
  ASSUME NEW v, v \in Views, NEW f, Choosable(v, f), NEW B \in BOOLEAN, NEW g, g = [f EXCEPT !.first = B]
  PROVE  Choosable(v, g)
<1>1. f \in Filters
  BY DEF Choosable
<1>2. g \in Filters /\ g.authors = f.authors /\ g.branches = f.branches
  BY <1>1 DEF Filters
<1> QED BY <1>2 DEF Choosable

(* The inductive invariant.                                                *)
ViewInv == Historic /\ Good(parents, view) /\ Picks(picker, view) /\ ~jumped

LEMMA ApplyKeeps ==
  ASSUME ViewInv, NEW f, Choosable(view, f), Apply(f)
  PROVE  ViewInv'
<1>1. AncestryIn(parents) /\ Good(parents, view) /\ Picks(picker, view)
  BY DEF ViewInv, Historic
<1>2. /\ picker # None /\ picker' = [picker EXCEPT !.filters = f]
      /\ view' = SetFirstParent(SetFilters(view, f), f.first)
      /\ parents' = parents /\ refs' = refs /\ jumped' = jumped
  BY DEF Apply
<1>3. Good(parents, view') /\ view'.branches = view.branches /\ view'.authors = view.authors /\ view'.filters = f
  BY <1>1, <1>2, AppliedIs
<1>4. f \in Filters
  BY DEF Choosable
<1>5. Picks(picker', view')
  <2>1. picker \in Pickers /\ picker.branches \subseteq view.branches /\ picker.authors \subseteq view.authors
    BY <1>1, <1>2 DEF Picks
  <2>2. picker' \in Pickers /\ picker'.filters = f /\ picker'.branches = picker.branches /\ picker'.authors = picker.authors
    BY <1>2, <1>4, <2>1 DEF Pickers
  <2> QED BY <1>3, <2>1, <2>2 DEF Picks
<1> QED BY <1>2, <1>3, <1>5 DEF ViewInv, Historic

(* What the picker can make of its filters.                                *)
LEMMA PickerOffers ==
  ASSUME ViewInv, picker # None, NEW f, f = picker.filters
  PROVE  /\ view \in Views /\ Choosable(view, f) /\ f \in Filters
         /\ picker.branches \subseteq view.branches /\ picker.authors \subseteq view.authors
         /\ Chosen(f.branches, picker.branches) \subseteq view.branches
         /\ Chosen(f.authors, picker.authors) \subseteq view.authors
<1>1. Good(parents, view) /\ Picks(picker, view)
  BY DEF ViewInv
<1>2. view \in Views /\ Offered(view) /\ f = view.filters /\ picker.branches \subseteq view.branches /\ picker.authors \subseteq view.authors
  BY <1>1 DEF Good, Picks
<1>3. f \in Filters
  BY <1>2 DEF Views
<1>4. Choosable(view, f)
  BY <1>2, <1>3 DEF Offered, Choosable
<1>5. Chosen(f.branches, picker.branches) \subseteq view.branches /\ Chosen(f.authors, picker.authors) \subseteq view.authors
  BY <1>2, <1>4 DEF Chosen, Choosable
<1> QED BY <1>2, <1>3, <1>4, <1>5

LEMMA ToggleChoiceKeeps ==
  ASSUME ViewInv, ToggleChoice
  PROVE  ViewInv'
<1>1. PICK f : f = picker.filters
  OBVIOUS
<1>2. picker # None
  BY DEF ToggleChoice
<1>3. view \in Views /\ Choosable(view, f) /\ f \in Filters
  BY <1>1, <1>2, PickerOffers
<1>4. picker.branches \subseteq view.branches /\ picker.authors \subseteq view.authors
  BY <1>1, <1>2, PickerOffers
<1>5. Chosen(f.branches, picker.branches) \subseteq view.branches /\ Chosen(f.authors, picker.authors) \subseteq view.authors
  BY <1>1, <1>2, PickerOffers
<1>6. \/ \E n \in picker.branches : Apply([f EXCEPT !.branches = Flip(Chosen(@, picker.branches), n)])
      \/ \E a \in picker.authors : Apply([f EXCEPT !.authors = Flip(Chosen(@, picker.authors), a)])
      \/ \E k \in Kinds : Apply([f EXCEPT !.kinds = Flip(@, k)])
      \/ Apply([f EXCEPT !.first = ~@])
  BY <1>1 DEF ToggleChoice
<1>7. ASSUME NEW n \in picker.branches, Apply([f EXCEPT !.branches = Flip(Chosen(@, picker.branches), n)]) PROVE ViewInv'
  <2>1. PICK B : B = Flip(Chosen(f.branches, picker.branches), n)
    OBVIOUS
  <2>2. B \subseteq view.branches
    BY <1>4, <1>5, <2>1 DEF Flip
  <2>3. PICK g : g = [f EXCEPT !.branches = B]
    OBVIOUS
  <2>4. Choosable(view, g)
    BY <1>3, <2>2, <2>3, BranchesChosen
  <2>5. Apply(g)
    BY <1>7, <2>1, <2>3
  <2> QED BY <2>4, <2>5, ApplyKeeps
<1>8. ASSUME NEW a \in picker.authors, Apply([f EXCEPT !.authors = Flip(Chosen(@, picker.authors), a)]) PROVE ViewInv'
  <2>1. PICK B : B = Flip(Chosen(f.authors, picker.authors), a)
    OBVIOUS
  <2>2. B \subseteq view.authors
    BY <1>4, <1>5, <2>1 DEF Flip
  <2>3. PICK g : g = [f EXCEPT !.authors = B]
    OBVIOUS
  <2>4. Choosable(view, g)
    BY <1>3, <2>2, <2>3, AuthorsChosen
  <2>5. Apply(g)
    BY <1>8, <2>1, <2>3
  <2> QED BY <2>4, <2>5, ApplyKeeps
<1>9. ASSUME NEW k \in Kinds, Apply([f EXCEPT !.kinds = Flip(@, k)]) PROVE ViewInv'
  <2>1. PICK B : B = Flip(f.kinds, k)
    OBVIOUS
  <2>2. B \subseteq Kinds
    BY <1>3, <2>1 DEF Flip, Filters
  <2>3. PICK g : g = [f EXCEPT !.kinds = B]
    OBVIOUS
  <2>4. Choosable(view, g)
    BY <1>3, <2>2, <2>3, KindsChosen
  <2>5. Apply(g)
    BY <1>9, <2>1, <2>3
  <2> QED BY <2>4, <2>5, ApplyKeeps
<1>10. ASSUME Apply([f EXCEPT !.first = ~@]) PROVE ViewInv'
  <2>1. PICK g : g = [f EXCEPT !.first = ~f.first]
    OBVIOUS
  <2>2. (~f.first) \in BOOLEAN
    OBVIOUS
  <2>3. Choosable(view, g)
    BY <1>3, <2>1, <2>2, FirstChosen
  <2>4. Apply(g)
    BY <1>10, <2>1
  <2> QED BY <2>3, <2>4, ApplyKeeps
<1> QED BY <1>6, <1>7, <1>8, <1>9, <1>10

LEMMA SetAllKeeps ==
  ASSUME ViewInv, SetAll
  PROVE  ViewInv'
<1>1. PICK f : f = picker.filters
  OBVIOUS
<1>2. picker # None
  BY DEF SetAll
<1>3. view \in Views /\ Choosable(view, f) /\ f \in Filters
  BY <1>1, <1>2, PickerOffers
<1>4. \/ Apply([f EXCEPT !.branches = None])
      \/ Apply([f EXCEPT !.authors = None])
      \/ Apply([f EXCEPT !.kinds = Kinds])
      \/ Apply([f EXCEPT !.first = TRUE])
  BY <1>1 DEF SetAll
<1>5. \A g : g = [f EXCEPT !.branches = None] => Choosable(view, g)
  BY <1>3, BranchesChosen
<1>6. \A g : g = [f EXCEPT !.authors = None] => Choosable(view, g)
  BY <1>3, AuthorsChosen
<1>7. \A g : g = [f EXCEPT !.kinds = Kinds] => Choosable(view, g)
  BY <1>3, KindsChosen
<1>8. \A g : g = [f EXCEPT !.first = TRUE] => Choosable(view, g)
  BY <1>3, FirstChosen
<1>9. \E g : Choosable(view, g) /\ Apply(g)
  BY <1>4, <1>5, <1>6, <1>7, <1>8
<1> QED BY <1>9, ApplyKeeps

LEMMA SetNoneKeeps ==
  ASSUME ViewInv, SetNone
  PROVE  ViewInv'
<1>1. PICK f : f = picker.filters
  OBVIOUS
<1>2. picker # None
  BY DEF SetNone
<1>3. view \in Views /\ Choosable(view, f) /\ f \in Filters
  BY <1>1, <1>2, PickerOffers
<1>4. \/ Apply([f EXCEPT !.branches = {}])
      \/ Apply([f EXCEPT !.authors = {}])
      \/ Apply([f EXCEPT !.kinds = {}])
      \/ Apply([f EXCEPT !.first = FALSE])
  BY <1>1 DEF SetNone
<1>5. \A g : g = [f EXCEPT !.branches = {}] => Choosable(view, g)
  BY <1>3, BranchesChosen
<1>6. \A g : g = [f EXCEPT !.authors = {}] => Choosable(view, g)
  BY <1>3, AuthorsChosen
<1>7. \A g : g = [f EXCEPT !.kinds = {}] => Choosable(view, g)
  BY <1>3, KindsChosen
<1>8. \A g : g = [f EXCEPT !.first = FALSE] => Choosable(view, g)
  BY <1>3, FirstChosen
<1>9. \E g : Choosable(view, g) /\ Apply(g)
  BY <1>4, <1>5, <1>6, <1>7, <1>8
<1> QED BY <1>9, ApplyKeeps

LEMMA InvertKeeps ==
  ASSUME ViewInv, Invert
  PROVE  ViewInv'
<1>1. PICK f : f = picker.filters
  OBVIOUS
<1>2. picker # None
  BY DEF Invert
<1>3. view \in Views /\ Choosable(view, f) /\ f \in Filters
  BY <1>1, <1>2, PickerOffers
<1>4. picker.branches \subseteq view.branches /\ picker.authors \subseteq view.authors
  BY <1>1, <1>2, PickerOffers
<1>5. PICK B : B = picker.branches \ Chosen(f.branches, picker.branches)
  OBVIOUS
<1>6. PICK A : A = picker.authors \ Chosen(f.authors, picker.authors)
  OBVIOUS
<1>7. PICK K : K = Kinds \ f.kinds
  OBVIOUS
<1>8. PICK first : first = ~f.first
  OBVIOUS
<1>9. \/ Apply([f EXCEPT !.branches = B])
      \/ Apply([f EXCEPT !.authors = A])
      \/ Apply([f EXCEPT !.kinds = K])
      \/ Apply([f EXCEPT !.first = first])
  BY <1>1, <1>5, <1>6, <1>7, <1>8 DEF Invert
<1>10. \A g : g = [f EXCEPT !.branches = B] => Choosable(view, g)
  <2>1. B \subseteq view.branches
    BY <1>4, <1>5
  <2> QED BY <1>3, <2>1, BranchesChosen
<1>11. \A g : g = [f EXCEPT !.authors = A] => Choosable(view, g)
  <2>1. A \subseteq view.authors
    BY <1>4, <1>6
  <2> QED BY <1>3, <2>1, AuthorsChosen
<1>12. \A g : g = [f EXCEPT !.kinds = K] => Choosable(view, g)
  <2>1. K \subseteq Kinds
    BY <1>7
  <2> QED BY <1>3, <2>1, KindsChosen
<1>13. \A g : g = [f EXCEPT !.first = first] => Choosable(view, g)
  <2>1. first \in BOOLEAN
    BY <1>8
  <2> QED BY <1>3, <2>1, FirstChosen
<1>14. \E g : Choosable(view, g) /\ Apply(g)
  BY <1>9, <1>10, <1>11, <1>12, <1>13
<1> QED BY <1>14, ApplyKeeps

LEMMA ResetKeeps ==
  ASSUME ViewInv, ResetFilters
  PROVE  ViewInv'
<1>1. PICK f : f = NoFilters
  OBVIOUS
<1>2. f \in Filters /\ f.branches = None /\ f.authors = None
  BY <1>1 DEF NoFilters, Filters
<1>3. Choosable(view, f)
  BY <1>2 DEF Choosable
<1>4. Apply(f)
  BY <1>1 DEF ResetFilters
<1> QED BY <1>3, <1>4, ApplyKeeps

-----------------------------------------------------------------------------
(* The steps keep the invariant.                                           *)

(* A step of the view that leaves the filters.                             *)
LEMMA ViewKeeps ==
  ASSUME ViewInv, Good(parents, view'), SameFilters(view, view'), UNCHANGED <<parents, refs, picker>>, ~jumped'
  PROVE  ViewInv'
<1>1. Historic /\ Picks(picker, view)
  BY DEF ViewInv
<1>2. parents' = parents /\ refs' = refs /\ picker' = picker
  OBVIOUS
<1>3. Historic'
  BY <1>1, <1>2 DEF Historic
<1>4. Good(parents', view')
  BY <1>2
<1>5. Picks(picker', view')
  BY <1>1, <1>2 DEF Picks, SameFilters
<1> QED BY <1>3, <1>4, <1>5 DEF ViewInv

(* What stays does not leave.                                              *)
LEMMA StaysIs ==
  ASSUME NEW w, Stays(w, SelectedIn(view, view.at))
  PROVE  ~Leaves(w)
BY DEF Stays, Leaves

LEMMA LoadKeeps ==
  ASSUME ViewInv, Load
  PROVE  ViewInv'
<1>1. Historic /\ Good(parents, view) /\ Picks(picker, view) /\ ~jumped
  BY DEF ViewInv
<1>2. /\ view' = SetRows(view, Build(view.filters)) /\ jumped' = (jumped \/ Leaves(view'))
      /\ parents' = parents /\ refs' = refs /\ picker' = picker
  BY DEF Load
<1>3. Loaded(view, view')
  BY <1>1, <1>2, SetRowsIs
<1>4. /\ Good(parents, view') /\ Stays(view', SelectedIn(view, view.at))
      /\ view'.filters = view.filters /\ view.branches \subseteq view'.branches /\ view.authors \subseteq view'.authors
  BY <1>3 DEF Loaded
<1>5. ~Leaves(view')
  BY <1>4, StaysIs
<1>6. Picks(picker', view')
  BY <1>1, <1>2, <1>4 DEF Picks
<1> QED BY <1>1, <1>2, <1>4, <1>5, <1>6 DEF ViewInv, Historic

LEMMA StatsKeeps ==
  ASSUME ViewInv, StatsLoaded
  PROVE  ViewInv'
<1>1. AncestryIn(parents) /\ Good(parents, view) /\ ~jumped
  BY DEF ViewInv, Historic
<1>2. /\ view' = Recompute(view) /\ jumped' = (jumped \/ Leaves(view')) /\ UNCHANGED <<parents, refs, picker>>
  BY DEF StatsLoaded
<1>3. Good(parents, view') /\ SameFilters(view, view') /\ Stays(view', SelectedIn(view, view.at))
  BY <1>1, <1>2, StatsIs
<1>4. ~jumped'
  BY <1>1, <1>2, <1>3, StaysIs
<1> QED BY <1>2, <1>3, <1>4, ViewKeeps

LEMMA TogglesKeeps ==
  ASSUME ViewInv, Toggles
  PROVE  ViewInv'
<1>1. AncestryIn(parents) /\ Good(parents, view) /\ ~jumped
  BY DEF ViewInv, Historic
<1>2. /\ view' = ToggleCollapse(view) /\ UNCHANGED <<parents, refs, picker>>
      /\ jumped' = (jumped \/ ((view.collapsed = {} => view.shown = <<>>) /\ Leaves(view')))
  BY DEF Toggles
<1>3. Toggled(view, view')
  BY <1>1, <1>2, ToggleIs
<1>4. Good(parents, view') /\ SameFilters(view, view')
  BY <1>3 DEF Toggled, SameFilters
<1>5. (view.collapsed = {} => view.shown = <<>>) => Stays(view', SelectedIn(view, view.at))
  BY <1>3 DEF Toggled
<1>6. (view.collapsed = {} => view.shown = <<>>) => ~Leaves(view')
  BY <1>5, StaysIs
<1>7. ~jumped'
  BY <1>1, <1>2, <1>6
<1> QED BY <1>2, <1>4, <1>7, ViewKeeps

(* A key whose view is good and has the same filters.                      *)
LEMMA PressKeeps ==
  ASSUME ViewInv, NEW w, Good(parents, w), SameFilters(view, w), Press(w)
  PROVE  ViewInv'
<1>1. view' = w /\ UNCHANGED <<parents, refs, picker>> /\ jumped' = jumped
  BY DEF Press
<1>2. ~jumped'
  BY <1>1 DEF ViewInv
<1> QED BY <1>1, <1>2, ViewKeeps

LEMMA PressFirstKeeps ==
  ASSUME ViewInv, picker = None, Press(SetFirstParent(view, ~view.filters.first))
  PROVE  ViewInv'
<1>1. Historic /\ Good(parents, view) /\ ~jumped
  BY DEF ViewInv
<1>2. PICK enabled : enabled = ~view.filters.first
  OBVIOUS
<1>3. enabled \in BOOLEAN
  BY <1>2
<1>4. view' = SetFirstParent(view, enabled) /\ parents' = parents /\ refs' = refs /\ picker' = picker /\ jumped' = jumped
  BY <1>2 DEF Press
<1>5. FirstParented(view, enabled, view')
  BY <1>1, <1>3, <1>4, FirstParentIs
<1>6. Good(parents, view')
  BY <1>5 DEF FirstParented
<1>7. Picks(picker', view')
  BY <1>4 DEF Picks
<1> QED BY <1>1, <1>4, <1>6, <1>7 DEF ViewInv, Historic

LEMMA KeysKeep ==
  ASSUME ViewInv, Keys
  PROVE  ViewInv'
<1>1. AncestryIn(parents) /\ Good(parents, view)
  BY DEF ViewInv, Historic
<1>2. \A w : w = SelectNext(view) => Good(parents, w) /\ SameFilters(view, w)
  BY <1>1, SelectNextIs
<1>3. \A w : w = SelectPrev(view) => Good(parents, w) /\ SameFilters(view, w)
  BY <1>1, SelectPrevIs
<1>4. \A w : w = SearchNext(view) => Good(parents, w) /\ SameFilters(view, w)
  BY <1>1, SearchNextIs
<1>5. \A w : w = SearchPrev(view) => Good(parents, w) /\ SameFilters(view, w)
  BY <1>1, SearchPrevIs
<1>6. \A w : w = OpenSearch(view) => Good(parents, w) /\ SameFilters(view, w)
  BY <1>1, OpenSearchIs
<1>7. \A w : w = ExpandAll(view) => Good(parents, w) /\ SameFilters(view, w)
  BY <1>1, ExpandAllIs
<1>8. CASE Press(SetFirstParent(view, ~view.filters.first))
  <2>1. picker = None
    BY DEF Keys
  <2> QED BY <1>8, <2>1, PressFirstKeeps
<1>9. CASE \E w : Good(parents, w) /\ SameFilters(view, w) /\ Press(w)
  BY <1>9, PressKeeps
<1> QED BY <1>2, <1>3, <1>4, <1>5, <1>6, <1>7, <1>8, <1>9 DEF Keys

LEMMA SearchKeysKeep ==
  ASSUME ViewInv, SearchKeys
  PROVE  ViewInv'
<1>1. AncestryIn(parents) /\ Good(parents, view)
  BY DEF ViewInv, Historic
<1>2. \A w : w = [view EXCEPT !.typing = FALSE] => Good(parents, w) /\ SameFilters(view, w)
  BY <1>1, TypedIs
<1>3. \A w : w = FirstMatch(view) => Good(parents, w) /\ SameFilters(view, w)
  BY <1>1, FirstMatchIs
<1>4. \A q \in Authors \cup {None} : \A w : w = Matched([view EXCEPT !.query = q]) => Good(parents, w) /\ SameFilters(view, w)
  BY <1>1, MatchedIs
<1>5. \E w : Good(parents, w) /\ SameFilters(view, w) /\ Press(w)
  BY <1>2, <1>3, <1>4 DEF SearchKeys
<1> QED BY <1>5, PressKeeps

LEMMA ClickKeeps ==
  ASSUME ViewInv, Click
  PROVE  ViewInv'
<1>1. AncestryIn(parents) /\ Good(parents, view)
  BY DEF ViewInv, Historic
<1>2. PICK i \in DOMAIN Display(view) : Press([view EXCEPT !.at = i])
  BY DEF Click
<1>3. PICK w : w = [view EXCEPT !.at = i]
  OBVIOUS
<1>4. Good(parents, w) /\ SameFilters(view, w)
  BY <1>1, <1>3, ClickIs
<1>5. Press(w)
  BY <1>2, <1>3
<1> QED BY <1>4, <1>5, PressKeeps

LEMMA ShowPickerKeeps ==
  ASSUME ViewInv, ShowPicker
  PROVE  ViewInv'
<1>1. Historic /\ Good(parents, view) /\ ~jumped
  BY DEF ViewInv
<1>2. /\ picker' = [filters |-> view.filters, branches |-> view.branches, authors |-> view.authors]
      /\ parents' = parents /\ refs' = refs /\ view' = view /\ jumped' = jumped
  BY DEF ShowPicker
<1>3. view.filters \in Filters /\ view.branches \in SUBSET Names /\ view.authors \in SUBSET Authors
  BY <1>1 DEF Good, Views
<1>4. Picks(picker', view')
  BY <1>2, <1>3 DEF Picks, Pickers
<1> QED BY <1>1, <1>2, <1>4 DEF ViewInv, Historic

LEMMA HidePickerKeeps ==
  ASSUME ViewInv, HidePicker
  PROVE  ViewInv'
<1>1. Historic /\ Good(parents, view) /\ ~jumped
  BY DEF ViewInv
<1>2. /\ picker' = None
      /\ parents' = parents /\ refs' = refs /\ view' = view /\ jumped' = jumped
  BY DEF HidePicker
<1>3. Picks(picker', view')
  BY <1>2 DEF Picks
<1> QED BY <1>1, <1>2, <1>3 DEF ViewInv, Historic

LEMMA CommitKeeps ==
  ASSUME ViewInv, NEW n \in Names, CommitOn(n)
  PROVE  ViewInv'
<1>1. Historic /\ Good(parents, view) /\ Picks(picker, view) /\ ~jumped
  BY DEF ViewInv
<1>2. AncestryIn(parents) /\ Len(parents) \in Nat /\ refs \in [Names -> 0..Len(parents)] /\ MaxCommits \in Nat
  BY <1>1, RefsAssumption DEF Historic, AncestryIn
<1>3. refs[n] \in 1..Len(parents) /\ Len(parents) < MaxCommits
  BY <1>2 DEF CommitOn
<1>4. \E ps : ps \in Seq(Nat) /\ (\A m \in 1..Len(ps) : ps[m] \in 1..Len(parents)) /\ parents' = Append(parents, ps)
  <2>1. CASE parents' = Append(parents, <<refs[n]>>)
    <3>1. PICK ps : ps = <<refs[n]>>
      OBVIOUS
    <3>2. ps \in Seq(Nat) /\ Len(ps) = 1 /\ ps[1] = refs[n]
      BY <1>3, <3>1
    <3>3. \A m \in 1..Len(ps) : ps[m] \in 1..Len(parents)
      BY <1>3, <3>2
    <3> QED BY <2>1, <3>1, <3>2, <3>3
  <2>2. ASSUME NEW k \in BranchLabels, parents' = Append(parents, <<refs[n], refs[k]>>)
        PROVE  \E ps : ps \in Seq(Nat) /\ (\A m \in 1..Len(ps) : ps[m] \in 1..Len(parents)) /\ parents' = Append(parents, ps)
    <3>1. refs[k] \in 1..Len(parents)
      BY <1>2 DEF BranchLabels
    <3>2. PICK ps : ps = <<refs[n], refs[k]>>
      OBVIOUS
    <3>3. ps \in Seq(Nat) /\ Len(ps) = 2 /\ ps[1] = refs[n] /\ ps[2] = refs[k]
      BY <1>3, <3>1, <3>2
    <3>4. \A m \in 1..Len(ps) : ps[m] \in 1..Len(parents)
      BY <1>3, <3>1, <3>3
    <3> QED BY <2>2, <3>2, <3>3, <3>4
  <2> QED BY <2>1, <2>2 DEF CommitOn
<1>5. PICK ps : ps \in Seq(Nat) /\ (\A m \in 1..Len(ps) : ps[m] \in 1..Len(parents)) /\ parents' = Append(parents, ps)
  BY <1>4
<1>6. Grown(parents, parents')
  BY <1>2, <1>5, CommitGrows
<1>7. AncestryIn(parents') /\ Len(parents') = Len(parents) + 1
  BY <1>6 DEF Grown
<1>8. refs' = [refs EXCEPT ![n] = Len(parents')] /\ view' = view /\ picker' = picker /\ jumped' = jumped
  BY DEF CommitOn
<1>9. refs' \in [Names -> 0..Len(parents')]
  BY <1>2, <1>7, <1>8
<1>10. Len(parents') \in 1..MaxCommits
  BY <1>2, <1>3, <1>7
<1>11. Historic'
  BY <1>7, <1>9, <1>10 DEF Historic
<1>12. Good(parents', view)
  BY <1>1, <1>6, GoodGrows
<1> QED BY <1>1, <1>8, <1>11, <1>12 DEF ViewInv

LEMMA RefMovesKeeps ==
  ASSUME ViewInv, NEW n \in Names, RefMoves(n)
  PROVE  ViewInv'
<1>1. Historic /\ Good(parents, view) /\ Picks(picker, view) /\ ~jumped
  BY DEF ViewInv
<1>2. PICK c \in 0..Len(parents) : refs' = [refs EXCEPT ![n] = c]
  BY DEF RefMoves
<1>3. parents' = parents /\ view' = view /\ picker' = picker /\ jumped' = jumped
  BY DEF RefMoves
<1>4. refs' \in [Names -> 0..Len(parents)]
  BY <1>1, <1>2 DEF Historic
<1> QED BY <1>1, <1>3, <1>4 DEF ViewInv, Historic

LEMMA ViewInvKept ==
  ASSUME ViewInv, [ViewNext]_viewVars
  PROVE  ViewInv'
<1>1. CASE UNCHANGED viewVars
  BY <1>1 DEF ViewInv, Historic, viewVars
<1>2. CASE ViewNext
  BY <1>2, LoadKeeps, StatsKeeps, TogglesKeeps, KeysKeep, SearchKeysKeep, ClickKeeps, ShowPickerKeeps, HidePickerKeeps,
     ToggleChoiceKeeps, SetAllKeeps, SetNoneKeeps, InvertKeeps, ResetKeeps, CommitKeeps, RefMovesKeeps DEF ViewNext
<1> QED BY <1>1, <1>2

LEMMA ViewStarts ==
  ASSUME ViewInit
  PROVE  ViewInv
<1>1. PICK h \in Histories : parents = h.parents /\ refs = h.refs
  BY DEF ViewInit
<1>2. /\ h.parents \in Seq(Seq(AllCommits)) /\ Len(h.parents) \in AllCommits
      /\ \A c \in DOMAIN h.parents : \A i \in DOMAIN h.parents[c] : h.parents[c][i] < c
      /\ h.refs \in [Names -> 0..Len(h.parents)]
  BY HistoriesAssumption
<1>3. PICK P : P = parents
  OBVIOUS
<1>4. AncestryIn(P) /\ Len(P) \in 1..MaxCommits /\ refs \in [Names -> 0..Len(P)]
  <2>1. PICK T : T = Seq(AllCommits)
    OBVIOUS
  <2>2. P \in Seq(T) /\ Len(P) \in Nat /\ DOMAIN P = 1..Len(P)
    BY <1>1, <1>2, <1>3, <2>1
  <2>3. AllCommits \subseteq Nat
    BY RefsAssumption DEF AllCommits
  <2>4. \A c \in 1..Len(P) : P[c] \in Seq(AllCommits)
    BY <2>1, <2>2
  <2>5. T \subseteq Seq(Nat)
    <3>1. ASSUME NEW s \in Seq(AllCommits) PROVE s \in Seq(Nat)
      <4>1. Len(s) \in Nat /\ s \in [1..Len(s) -> AllCommits]
        OBVIOUS
      <4>2. s \in [1..Len(s) -> Nat]
        BY <2>3, <4>1
      <4> QED BY <4>1, <4>2
    <3> QED BY <2>1, <3>1
  <2>6. PICK U : U = Seq(Nat)
    OBVIOUS
  <2>7. P \in Seq(U)
    BY <2>2, <2>5, <2>6
  <2>8. ASSUME NEW c \in 1..Len(P), NEW i \in 1..Len(P[c]) PROVE P[c][i] \in 1..(c - 1)
    <3>1. P[c] \in Seq(AllCommits) /\ DOMAIN P[c] = 1..Len(P[c])
      BY <2>4
    <3>2. P[c][i] \in AllCommits /\ P[c][i] < c
      <4>1. h.parents = P /\ c \in DOMAIN P
        BY <1>1, <1>3, <2>2
      <4>2. \A j \in DOMAIN P[c] : P[c][j] < c
        BY <1>2, <4>1
      <4> QED BY <3>1, <4>2
    <3>3. P[c][i] \in Nat /\ 1 <= P[c][i]
      BY <3>2, RefsAssumption DEF AllCommits
    <3> QED BY <2>2, <3>2, <3>3
  <2>9. AncestryIn(P)
    BY <2>2, <2>6, <2>7, <2>8 DEF AncestryIn
  <2> QED BY <1>1, <1>2, <1>3, <2>9 DEF AllCommits
<1>5. Historic
  BY <1>3, <1>4 DEF Historic
<1>6. PICK none : none = <<>>
  OBVIOUS
<1>7. Len(none) = 0 /\ none \in Seq(Lines) /\ none \in Seq(Shown) /\ none \in Seq(Nat) /\ DOMAIN none = {}
  BY <1>6
<1>8. view = [rows |-> none, segments |-> {}, filters |-> NoFilters, collapsed |-> {}, shown |-> none, at |-> 0,
              typing |-> FALSE, query |-> None, matches |-> none, match |-> 0, branches |-> {}, authors |-> {}, built |-> None]
  BY <1>6 DEF ViewInit
<1>9. NoFilters \in Filters /\ NoFilters.branches = None /\ NoFilters.authors = None
  BY DEF NoFilters, Filters
<1>10. view \in Views
  BY <1>7, <1>8, <1>9 DEF Views
<1>11. DescendsIn(P, none)
  <2>1. 1..Len(none) = {}
    BY <1>7
  <2> QED BY <1>7, <2>1 DEF DescendsIn
<1>12. Filled(P, view)
  <2>1. PICK segs : segs = SegmentsIn(P, none)
    OBVIOUS
  <2>2. PICK S : S \subseteq 1..Len(none) /\ Partition(segs, S)
    BY <1>3, <1>4, <1>11, <2>1, SegmentsKnown
  <2>3. S = {}
    BY <1>7, <2>2
  <2>4. segs = {}
    BY <2>2, <2>3 DEF Partition
  <2> QED BY <1>6, <1>8, <2>1, <2>4 DEF Filled
<1>13. Projecting(view)
  BY <1>8 DEF Projecting
<1>14. Marked(view)
  <2>1. Matches(view) = none
    BY <1>6, <1>8 DEF Matches
  <2> QED BY <1>7, <1>8, <2>1 DEF Marked
<1>15. Placed(view)
  <2>1. PICK d : d = Plain(none)
    OBVIOUS
  <2>2. Len(d) = 0
    BY <1>3, <1>4, <1>7, <1>11, <2>1, PlainIs
  <2>3. Display(view) = d
    BY <1>8, <2>1 DEF Display
  <2> QED BY <1>8, <2>2, <2>3 DEF Placed
<1>16. Offered(view)
  BY <1>8, <1>9 DEF Offered
<1>17. Good(parents, view)
  BY <1>3, <1>10, <1>12, <1>13, <1>14, <1>15, <1>16 DEF Good
<1>18. Picks(picker, view) /\ ~jumped
  BY DEF ViewInit, Picks
<1> QED BY <1>5, <1>17, <1>18 DEF ViewInv

-----------------------------------------------------------------------------
(* What the invariant says of the graph.                                   *)

(* With nothing folded the projection is the rows.                         *)
LEMMA NoFold ==
  ASSUME NEW rows, Distinct(rows), NEW segs, NEW collapsed, collapsed = {}
  PROVE  Project(rows, segs, collapsed) = Plain(rows)
<1>1. PICK N \in Nat : N = Len(rows) /\ DOMAIN rows = 1..N
  BY DEF Distinct
<1>2. PICK folded : folded = FoldedOf(rows, segs, collapsed)
  OBVIOUS
<1>3. folded = {}
  BY <1>2 DEF FoldedOf
<1>4. PICK kept : kept = KeptList(rows, segs, collapsed)
  OBVIOUS
<1>5. kept = [i \in 1..N |-> i]
  <2>1. KeptOf(rows, segs, collapsed) = 1..N
    BY <1>1, <1>2, <1>3 DEF KeptOf
  <2>2. kept = InOrder(1..N, N)
    BY <1>1, <1>4, <2>1 DEF KeptList
  <2> QED BY <2>2, InOrderAll
<1>6. DOMAIN kept = 1..N /\ \A k \in 1..N : kept[k] = k
  BY <1>5
<1>7. PICK shown : shown = Project(rows, segs, collapsed)
  OBVIOUS
<1>8. PICK old : old = {s \in segs : rows[Min(s)].oid \in collapsed}
  OBVIOUS
<1>9. old = folded
  BY <1>2, <1>8 DEF FoldedOf
<1>10. kept = InOrder({i \in DOMAIN rows : \A s \in old : i \in s => i = Min(s)}, Len(rows))
  BY <1>1, <1>2, <1>4, <1>9 DEF KeptList, KeptOf
<1>11. shown = [k \in DOMAIN kept |-> [oid |-> rows[kept[k]].oid, hidden |-> Cardinality(SegmentAt(old, kept[k]))]]
  BY <1>7, <1>8, <1>10 DEF Project
<1>12. \A i : SegmentAt(old, i) = {}
  BY <1>3, <1>9 DEF SegmentAt
<1>13. Cardinality({}) = 0
  BY FS_EmptySet
<1>14. shown = [k \in 1..N |-> [oid |-> rows[k].oid, hidden |-> 0]]
  BY <1>6, <1>11, <1>12, <1>13
<1> QED BY <1>1, <1>7, <1>14 DEF Plain

LEMMA LinesFollow ==
  ASSUME ViewInv
  PROVE  LinesHold
<1>1. SUFFICES ASSUME view.built # None, view.built.filters.authors = None PROVE LinesHold
  BY DEF LinesHold
<1>2. AncestryIn(parents) /\ Filled(parents, view)
  BY DEF ViewInv, Historic, Good
<1>3. PICK rows : rows = view.rows
  OBVIOUS
<1>4. PICK f : f = view.built.filters
  OBVIOUS
<1>5. PICK rev : rev = view.built.revision
  OBVIOUS
<1>6. rows = BuildIn(parents, f, rev)
  BY <1>1, <1>2, <1>3, <1>4, <1>5 DEF Filled
<1>7. f.authors = None
  BY <1>1, <1>4
<1>8. DescendsIn(parents, rows) /\ Traced(parents, rows)
  BY <1>2, <1>6, <1>7, BuildIs
<1>9. LinesOf(parents, rows)
  BY <1>2, <1>8, LinesAre
<1>10. \A i : Awaited(rows, i) = AwaitedIn(parents, rows, i)
  BY DEF Awaited, AwaitedIn
<1> QED BY <1>3, <1>9, <1>10 DEF LinesOf, LinesHold

LEMMA FoldsFollow ==
  ASSUME ViewInv
  PROVE  FoldsHold
<1>1. AncestryIn(parents) /\ Filled(parents, view) /\ Projecting(view)
  BY DEF ViewInv, Historic, Good
<1>2. PICK rows : rows = view.rows
  OBVIOUS
<1>3. DescendsIn(parents, rows)
  BY <1>1, <1>2, FilledRows
<1>4. Descends(rows) /\ Ancestry
  BY <1>1, <1>3 DEF DescendsIn, Descends, AncestryIn, Ancestry
<1>5. view.segments = Segments(rows)
  <2>1. view.segments = SegmentsIn(parents, rows)
    BY <1>1, <1>2 DEF Filled
  <2> QED BY <1>1, <1>3, <2>1, SegmentsKnown
<1>6. PICK collapsed : collapsed = view.collapsed
  OBVIOUS
<1>7. PICK shown : shown = Display(view)
  OBVIOUS
<1>8. shown = Plain(rows) \/ shown = Project(rows, Segments(rows), collapsed)
  BY <1>1, <1>2, <1>5, <1>6, <1>7 DEF Display, Projecting
<1>9. FoldsAgree(rows, Ontos(rows), Trunk(Ontos(rows)), shown)
  BY <1>4, <1>5, <1>8, FoldsAre
<1> QED BY <1>2, <1>7, <1>9 DEF FoldsHold

LEMMA SelectionFollows ==
  ASSUME ViewInv
  PROVE  SelectionHolds
<1>1. AncestryIn(parents) /\ Good(parents, view) /\ ~jumped
  BY DEF ViewInv, Historic
<1>2. Filled(parents, view) /\ Projecting(view) /\ Marked(view) /\ Placed(view)
  BY <1>1 DEF Good
<1>3. PICK d : d = Display(view)
  OBVIOUS
<1>4. Displayed(view, d)
  BY <1>1, <1>2, <1>3, DisplayIs
<1>5. d = <<>> <=> Len(d) = 0
  BY <1>4 DEF Displayed
<1>6. view.built = None => Len(d) = 0
  <2>1. SUFFICES ASSUME view.built = None PROVE Len(d) = 0
    OBVIOUS
  <2>2. PICK none : none = <<>>
    OBVIOUS
  <2>3. view.rows = none /\ Len(none) = 0
    BY <1>2, <2>1, <2>2 DEF Filled
  <2> QED BY <1>4, <2>3 DEF Displayed
<1>7. view.at = 0 <=> Len(d) = 0
  BY <1>2, <1>3 DEF Placed
<1> QED BY <1>1, <1>2, <1>3, <1>5, <1>6, <1>7 DEF SelectionHolds, Marked

LEMMA StepFollows ==
  ASSUME ViewInv
  PROVE  InStep
<1>1. SUFFICES ASSUME view.built # None, view.built = [filters |-> view.filters, revision |-> Revision]
               PROVE  Display(view) = GraphQuery(view.filters, view.collapsed)
  BY DEF InStep
<1>2. AncestryIn(parents) /\ Filled(parents, view) /\ Projecting(view)
  BY DEF ViewInv, Historic, Good
<1>3. PICK f : f = view.filters
  OBVIOUS
<1>4. PICK rows : rows = view.rows
  OBVIOUS
<1>5. rows = Build(f)
  <2>1. view.built.filters = f /\ view.built.revision = Revision
    BY <1>1, <1>3
  <2>2. rows = BuildIn(parents, f, Revision)
    BY <1>1, <1>2, <1>4, <2>1 DEF Filled
  <2> QED BY <2>2, BuildNow
<1>6. DescendsIn(parents, rows)
  BY <1>2, <1>4, FilledRows
<1>7. PICK segs : segs = view.segments
  OBVIOUS
<1>8. segs = Segments(rows)
  <2>1. segs = SegmentsIn(parents, rows)
    BY <1>2, <1>4, <1>7 DEF Filled
  <2> QED BY <1>2, <1>6, <2>1, SegmentsKnown
<1>9. Distinct(rows)
  <2>1. Descends(rows) /\ Ancestry
    BY <1>2, <1>6 DEF DescendsIn, Descends, AncestryIn, Ancestry
  <2> QED BY <2>1, DescendsDistinct
<1>10. PICK collapsed : collapsed = view.collapsed
  OBVIOUS
<1>11. GraphQuery(f, collapsed) = Project(rows, segs, collapsed)
  BY <1>5, <1>8 DEF GraphQuery, Folded
<1>12. Display(view) = Project(rows, segs, collapsed)
  <2>1. CASE collapsed = {}
    <3>1. Project(rows, segs, collapsed) = Plain(rows)
      BY <1>9, <2>1, NoFold
    <3> QED BY <1>4, <1>10, <2>1, <3>1 DEF Display
  <2>2. CASE collapsed # {}
    BY <1>2, <1>4, <1>7, <1>10, <2>2 DEF Display, Projecting
  <2> QED BY <2>1, <2>2
<1> QED BY <1>3, <1>10, <1>11, <1>12

LEMMA PickerFollows ==
  ASSUME ViewInv
  PROVE  PickerAgrees
<1>1. Good(parents, view) /\ Picks(picker, view)
  BY DEF ViewInv
<1> QED BY <1>1 DEF Good, Offered, Picks, PickerAgrees

LEMMA DrawnFollows ==
  ASSUME ViewInv
  PROVE  GraphIsDrawn
BY LinesFollow, FoldsFollow, SelectionFollows, StepFollows, PickerFollows DEF GraphIsDrawn

(* The graph is drawn as the history is, folded, searched, selected and    *)
(* filtered as the panel says (src/git/graph, components/git_graph): rows  *)
(* carry one line for every commit that is awaited, folds hide what they   *)
(* say, the selection stays with its commit, and the bridge answers what   *)
(* the panel of the same revision shows.                                   *)
THEOREM GraphAlwaysDrawn == ViewSpec => []GraphIsDrawn
<1>1. ViewInit => ViewInv
  BY ViewStarts
<1>2. ViewInv /\ [ViewNext]_viewVars => ViewInv'
  BY ViewInvKept
<1>3. ViewInv => GraphIsDrawn
  BY DrawnFollows
<1> QED BY <1>1, <1>2, <1>3, PTL DEF ViewSpec

=============================================================================
