------------------------------ MODULE ViewProofs ------------------------------
(***************************************************************************)
(* Proofs about what the TUI draws.  A frame of a scrolled pane            *)
(* (ScrollPane) shows what wrapping the whole text would show, for any     *)
(* texts, sizes and chunk lengths, and any number of loads, resizes, keys, *)
(* presses and drags between frames.  The list of repositories (RepoRows)  *)
(* shows what is listed, in its groups, with the selection on what the     *)
(* user chose, for any repositories and reports.                           *)
(***************************************************************************)
EXTENDS ScrollPane, RepoRows, SequenceTheorems, FiniteSetTheorems, WellFoundedInduction, TLAPS

-----------------------------------------------------------------------------
(* Arithmetic.                                                             *)

(* A number with a property is the least one of some.                      *)
LEMMA LeastNumber ==
  ASSUME NEW T, T \subseteq Nat, T # {}
  PROVE  \E n \in T : \A m \in T : n <= m
<1>1. PICK n \in T : \A m \in T : ~ (<<m, n>> \in OpToRel(<, Nat))
  BY NatLessThanWellFounded, WFMin
<1>2. \A m \in T : ~(m < n)
  BY <1>1 DEF OpToRel
<1> QED BY <1>2

(* The least, the greatest and the difference of two numbers.              *)
LEMMA LeastIs ==
  \A a, b \in Nat : /\ Least(a, b) \in Nat /\ Least(a, b) <= a /\ Least(a, b) <= b
                    /\ (a <= b => Least(a, b) = a) /\ (b <= a => Least(a, b) = b)
BY DEF Least
LEMMA MostIs ==
  \A a, b \in Nat : /\ Most(a, b) \in Nat /\ Most(a, b) >= a /\ Most(a, b) >= b
                    /\ (a <= b => Most(a, b) = b) /\ (b <= a => Most(a, b) = a)
BY DEF Most
LEMMA LessIs ==
  \A a, b \in Nat : /\ Less(a, b) \in Nat /\ (b <= a => Less(a, b) = a - b) /\ (a <= b => Less(a, b) = 0)
BY DEF Less

(* What holds of 0 and of a number if of the one before holds up to N.     *)
LEMMA Upward ==
  ASSUME NEW N \in Nat, NEW G, 0 \in G, \A n \in 1..N : n - 1 \in G => n \in G
  PROVE  \A n \in 0..N : n \in G
<1>1. PICK T : T = {n \in 0..N : n \notin G}
  OBVIOUS
<1>2. SUFFICES ASSUME T # {} PROVE FALSE
  BY <1>1
<1>3. T \subseteq Nat
  BY <1>1
<1>4. PICK n \in T : \A m \in T : n <= m
  BY <1>2, <1>3, LeastNumber
<1>5. n \in 0..N /\ n # 0
  BY <1>1
<1>6. n - 1 \in 0..N /\ n \in 1..N /\ ~(n <= n - 1)
  BY <1>5
<1>7. n - 1 \in G
  BY <1>1, <1>4, <1>6
<1> QED BY <1>1, <1>6, <1>7

(* Division.                                                               *)
LEMMA DivIs ==
  ASSUME NEW a \in Nat, NEW b \in Nat, b > 0
  PROVE  /\ a \div b \in Nat /\ b * (a \div b) <= a /\ a < b * (a \div b) + b
OBVIOUS

LEMMA DivOf ==
  ASSUME NEW q \in Nat, NEW r \in Nat, NEW b \in Nat, r < b
  PROVE  (q * b + r) \div b = q
<1>1. PICK d : d = (q * b + r) \div b
  OBVIOUS
<1>2. q * b + r \in Nat /\ b > 0
  OBVIOUS
<1>3. d \in Nat /\ b * d <= q * b + r /\ q * b + r < b * d + b
  BY <1>1, <1>2, DivIs
<1>4. CASE d < q
  <2>1. b * (d + 1) <= b * q
    BY <1>3, <1>4
  <2> QED BY <1>3, <2>1
<1>5. CASE d > q
  <2>1. b * (q + 1) <= b * d
    BY <1>3, <1>5
  <2> QED BY <1>3, <2>1
<1> QED BY <1>1, <1>3, <1>4, <1>5

-----------------------------------------------------------------------------
(* Recursion.                                                              *)

(* Functions that go through the numbers up to N, one after the other.     *)
Recurs(f, N, base, op) == f = [n \in 0..N |-> IF n = 0 THEN base ELSE op[<<n, f[n - 1]>>]]

LEMMA RecursExist ==
  ASSUME NEW N, N \in Nat, NEW V, NEW base, base \in V, NEW op, op \in [(1..N) \X V -> V]
  PROVE  \E f \in [0..N -> V] : Recurs(f, N, base, op)
<1>1. PICK G : G = {m \in Nat : m <= N => \E f \in [0..m -> V] : Recurs(f, m, base, op)}
  OBVIOUS
<1>2. 0 \in G
  <2>1. PICK f : f = [n \in 0..0 |-> base]
    OBVIOUS
  <2>2. f \in [0..0 -> V] /\ Recurs(f, 0, base, op)
    BY <2>1 DEF Recurs
  <2> QED BY <1>1, <2>2
<1>3. ASSUME NEW m \in G PROVE m + 1 \in G
  <2>1. m \in Nat
    BY <1>1
  <2>2. SUFFICES ASSUME m + 1 <= N PROVE \E f \in [0..m + 1 -> V] : Recurs(f, m + 1, base, op)
    BY <1>1, <2>1
  <2>3. PICK f \in [0..m -> V] : Recurs(f, m, base, op)
    BY <1>1, <2>1, <2>2
  <2>4. PICK last : last = op[<<m + 1, f[m]>>]
    OBVIOUS
  <2>5. last \in V
    <3>1. f[m] \in V /\ m + 1 \in 1..N
      BY <2>1, <2>2
    <3> QED BY <2>4, <3>1
  <2>6. PICK h : h = [n \in 0..m + 1 |-> IF n = m + 1 THEN last ELSE f[n]]
    OBVIOUS
  <2>7. (\A n \in 0..m : h[n] = f[n]) /\ h[m + 1] = last
    BY <2>1, <2>6
  <2>8. ASSUME NEW n \in 0..m + 1
        PROVE  h[n] = IF n = 0 THEN base ELSE op[<<n, h[n - 1]>>]
    <3>1. CASE n = m + 1
      <4>1. h[n - 1] = f[m] /\ n # 0
        BY <2>1, <2>7, <3>1
      <4> QED BY <2>4, <2>7, <3>1, <4>1
    <3>2. CASE n \in 0..m
      <4>1. n # 0 => h[n - 1] = f[n - 1]
        BY <2>1, <2>7, <3>2
      <4>2. f[n] = IF n = 0 THEN base ELSE op[<<n, f[n - 1]>>]
        BY <2>3, <3>2 DEF Recurs
      <4> QED BY <2>7, <3>2, <4>1, <4>2
    <3> QED BY <2>1, <3>1, <3>2
  <2>9. Recurs(h, m + 1, base, op)
    BY <2>6, <2>8 DEF Recurs
  <2>10. \A n \in 0..m + 1 : h[n] \in V
    <3>1. \A n \in 0..m + 1 : n = m + 1 \/ n \in 0..m
      BY <2>1
    <3> QED BY <2>3, <2>5, <2>7, <3>1
  <2>11. h \in [0..m + 1 -> V]
    BY <2>6, <2>10
  <2> QED BY <2>9, <2>11
<1>4. N \in G
  <2>1. SUFFICES ASSUME Nat \ G # {} PROVE FALSE
    OBVIOUS
  <2>2. PICK n \in Nat \ G : \A m \in Nat \ G : n <= m
    BY <2>1, LeastNumber
  <2>3. n # 0 /\ n - 1 \in Nat
    BY <1>2, <2>2
  <2>4. n - 1 \in G
    BY <2>2, <2>3
  <2> QED BY <1>3, <2>2, <2>3, <2>4
<1> QED BY <1>1, <1>4

-----------------------------------------------------------------------------
(* The rows above a line.                                                  *)

LEMMA RowsOfIs ==
  ASSUME NEW length \in Nat, NEW width \in Nat
  PROVE  RowsOf(length, width) \in Nat /\ (width = 0 => RowsOf(length, width) = 0) /\ (width > 0 => RowsOf(length, width) > 0)
<1>1. CASE width = 0
  BY <1>1 DEF RowsOf
<1>2. CASE width > 0
  <2>1. PICK d : d = DivUp(length, width)
    OBVIOUS
  <2>2. length + width - 1 \in Nat
    BY <1>2
  <2>3. d \in Nat
    BY <1>2, <2>1, <2>2, DivIs DEF DivUp
  <2>4. RowsOf(length, width) = Most(d, 1)
    BY <1>2, <2>1 DEF RowsOf
  <2>5. Most(d, 1) \in Nat /\ Most(d, 1) >= 1
    BY <2>3, MostIs
  <2> QED BY <1>2, <2>4, <2>5
<1> QED BY <1>1, <1>2

(* A sum that grows line by line.                                          *)
Sums(f, lines, width) ==
  /\ f \in [0..Len(lines) -> Nat] /\ f[0] = 0
  /\ \A i \in 1..Len(lines) : f[i] = f[i - 1] + RowsOf(lines[i], width)

LEMMA RowsAboveSums ==
  ASSUME NEW lines \in Seq(Nat), NEW width \in Nat
  PROVE  Sums(RowsAbove(lines, width), lines, width)
<1>1. PICK N \in Nat : N = Len(lines) /\ DOMAIN lines = 1..N
  OBVIOUS
<1>2. ASSUME NEW n \in 1..N PROVE RowsOf(lines[n], width) \in Nat
  <2>1. lines[n] \in Nat
    BY <1>1
  <2> QED BY <2>1, RowsOfIs
<1>3. PICK op : op = [w \in (1..N) \X Nat |-> w[2] + RowsOf(lines[w[1]], width)]
  OBVIOUS
<1>4. op \in [(1..N) \X Nat -> Nat]
  BY <1>2, <1>3
<1>5. PICK f \in [0..N -> Nat] : Recurs(f, N, 0, op)
  BY <1>4, RecursExist
<1>6. ASSUME NEW n \in 0..N PROVE f[n] = IF n = 0 THEN 0 ELSE f[n - 1] + RowsOf(lines[n], width)
  <2>1. f[n] = IF n = 0 THEN 0 ELSE op[<<n, f[n - 1]>>]
    BY <1>5 DEF Recurs
  <2>2. CASE n # 0
    <3>1. n - 1 \in 0..N /\ n \in 1..N
      BY <2>2
    <3>2. f[n - 1] \in Nat
      BY <3>1
    <3> QED BY <1>3, <2>1, <2>2, <3>1, <3>2
  <2> QED BY <2>1, <2>2
<1>7. f = [n \in 0..Len(lines) |-> IF n = 0 THEN 0 ELSE f[n - 1] + RowsOf(lines[n], width)]
  BY <1>1, <1>5, <1>6 DEF Recurs
<1>8. PICK g : g = CHOOSE x : x = [n \in 0..Len(lines) |-> IF n = 0 THEN 0 ELSE x[n - 1] + RowsOf(lines[n], width)]
  OBVIOUS
<1>9. g = [n \in 0..Len(lines) |-> IF n = 0 THEN 0 ELSE g[n - 1] + RowsOf(lines[n], width)]
  BY <1>7, <1>8
<1>10. RowsAbove(lines, width) = g
  BY <1>8 DEF RowsAbove
<1>11. ASSUME NEW n \in 0..N PROVE g[n] = IF n = 0 THEN 0 ELSE g[n - 1] + RowsOf(lines[n], width)
  BY <1>1, <1>9
<1>12. \A n \in 0..N : g[n] \in Nat
  <2>1. PICK G : G = {n \in 0..N : g[n] \in Nat}
    OBVIOUS
  <2>2. 0 \in G
    BY <1>11, <2>1
  <2>3. ASSUME NEW n \in 1..N, n - 1 \in G PROVE n \in G
    <3>1. n \in 0..N /\ n # 0
      OBVIOUS
    <3>2. PICK a \in Nat, r \in Nat : a = g[n - 1] /\ r = RowsOf(lines[n], width)
      BY <1>2, <2>1, <2>3
    <3>5. g[n] = g[n - 1] + RowsOf(lines[n], width)
      BY <1>11, <3>1
    <3>3. g[n] = a + r
      BY <3>2, <3>5
    <3>6. a + r \in Nat
      BY ONLY a \in Nat, r \in Nat
    <3>4. g[n] \in Nat
      BY ONLY <3>3, <3>6
    <3> QED BY <2>1, <3>1, <3>4
  <2>4. \A n \in 0..N : n \in G
    BY <2>2, <2>3, Upward
  <2> QED BY <2>1, <2>4
<1>13. g \in [0..N -> Nat]
  BY <1>1, <1>9, <1>12
<1>14. g[0] = 0 /\ \A n \in 1..N : g[n] = g[n - 1] + RowsOf(lines[n], width)
  BY <1>1, <1>11
<1> QED BY <1>1, <1>10, <1>13, <1>14 DEF Sums

(* The sums grow, by a row at least when there is room.                    *)
LEMMA SumsGrow ==
  ASSUME NEW lines \in Seq(Nat), NEW width \in Nat, NEW f, Sums(f, lines, width)
  PROVE  /\ \A j \in 0..Len(lines) : \A i \in 0..j : f[i] <= f[j]
         /\ width > 0 => \A j \in 0..Len(lines) : \A i \in 0..(j - 1) : f[i] < f[j]
         /\ width = 0 => \A j \in 0..Len(lines) : f[j] = 0
<1>1. PICK N \in Nat : N = Len(lines) /\ DOMAIN lines = 1..N
  OBVIOUS
<1>2. f[0] = 0 /\ \A n \in 0..N : f[n] \in Nat
  BY <1>1 DEF Sums
<1>3. ASSUME NEW n \in 1..N
      PROVE  f[n - 1] <= f[n] /\ (width > 0 => f[n - 1] < f[n]) /\ (width = 0 => f[n] = f[n - 1])
  <2>0. lines[n] \in Nat
    BY <1>1
  <2>1. PICK r \in Nat : r = RowsOf(lines[n], width) /\ (width = 0 => r = 0) /\ (width > 0 => r > 0)
    BY <2>0, RowsOfIs
  <2>2. f[n] = f[n - 1] + r /\ f[n - 1] \in Nat
    BY <1>1, <1>2, <2>1 DEF Sums
  <2> QED BY <2>1, <2>2
<1>4. ASSUME NEW i \in 0..N
      PROVE  \A j \in i..N : f[i] <= f[j] /\ (width > 0 /\ i < j => f[i] < f[j]) /\ (width = 0 => f[j] = f[i])
  <2>1. PICK G : G = {j \in 0..N : j >= i => /\ f[i] <= f[j] /\ (width > 0 /\ i < j => f[i] < f[j])
                                           /\ (width = 0 => f[j] = f[i])}
    OBVIOUS
  <2>2. 0 \in G
    BY <1>2, <2>1
  <2>3. ASSUME NEW n \in 1..N, n - 1 \in G PROVE n \in G
    <3>1. f[i] \in Nat /\ f[n - 1] \in Nat /\ f[n] \in Nat /\ n \in 0..N
      BY <1>2
    <3>2. CASE n > i
      <4>1. f[i] <= f[n - 1] /\ (width = 0 => f[n - 1] = f[i])
        BY <2>1, <2>3, <3>2
      <4>2. f[i] <= f[n] /\ (width > 0 => f[i] < f[n]) /\ (width = 0 => f[n] = f[i])
        BY <1>3, <3>1, <4>1
      <4> QED BY <2>1, <3>1, <4>2
    <3>3. CASE ~(n > i)
      BY <2>1, <3>1, <3>3
    <3> QED BY <3>2, <3>3
  <2>4. \A n \in 0..N : n \in G
    BY <2>2, <2>3, Upward
  <2> QED BY <2>1, <2>4
<1>5. \A j \in 0..N : \A i \in 0..j : i \in 0..N /\ j \in i..N
  BY <1>1
<1> QED BY <1>1, <1>2, <1>4, <1>5

-----------------------------------------------------------------------------
(* The rows of a whole text.                                               *)

(* Every row stands below the rows of the lines above.                     *)
Wholes(whole, f, lines, width) ==
  /\ whole \in Seq(Nat \X Nat) /\ Len(whole) = f[Len(lines)]
  /\ \A i \in 1..Len(lines) : \A r \in 1..RowsOf(lines[i], width) : whole[f[i - 1] + r] = <<i, r>>

(* A sequence set below another keeps the places of both.                  *)
LEMMA Below ==
  ASSUME NEW S, NEW s \in Seq(S), NEW t \in Seq(S)
  PROVE  /\ s \o t \in Seq(S) /\ Len(s \o t) = Len(s) + Len(t)
         /\ \A k \in 1..Len(s) : (s \o t)[k] = s[k]
         /\ \A k \in 1..Len(t) : (s \o t)[Len(s) + k] = t[k]
OBVIOUS

LEMMA WholeIs ==
  ASSUME NEW lines \in Seq(Nat), lines # <<>>, NEW width \in Nat, width > 0,
         NEW f, Sums(f, lines, width)
  PROVE  Wholes(WholeText(lines, width), f, lines, width)
<1>1. PICK N \in Nat : N = Len(lines) /\ DOMAIN lines = 1..N /\ N > 0
  OBVIOUS
<1>2. PICK c : c = [i \in 1..N |-> RowsOf(lines[i], width)]
  OBVIOUS
<1>3. ASSUME NEW i \in 1..N PROVE c[i] \in Nat /\ c[i] = RowsOf(lines[i], width)
  <2>1. lines[i] \in Nat
    BY <1>1
  <2>2. RowsOf(lines[i], width) \in Nat
    BY <2>1, RowsOfIs
  <2> QED BY <1>2, <2>2
<1>4. PICK seqs : seqs = [i \in 1..N |-> [r \in 1..c[i] |-> <<i, r>>]]
  OBVIOUS
<1>5. ASSUME NEW i \in 1..N
      PROVE  seqs[i] \in Seq(Nat \X Nat) /\ Len(seqs[i]) = c[i] /\ \A r \in 1..c[i] : seqs[i][r] = <<i, r>>
  <2>1. PICK n \in Nat : n = c[i]
    BY <1>3
  <2>2. seqs[i] = [r \in 1..n |-> <<i, r>>]
    BY <1>4, <2>1
  <2>3. \A r \in 1..n : <<i, r>> \in Nat \X Nat
    OBVIOUS
  <2>4. seqs[i] \in [1..n -> Nat \X Nat]
    BY <2>2, <2>3
  <2>5. seqs[i] \in Seq(Nat \X Nat) /\ Len(seqs[i]) = n
    BY <2>2, <2>4
  <2>6. \A r \in 1..n : seqs[i][r] = <<i, r>>
    BY <2>2
  <2> QED BY <2>1, <2>5, <2>6
<1>6. PICK op : op = [w \in (1..N) \X Seq(Nat \X Nat) |-> w[2] \o seqs[w[1]]]
  OBVIOUS
<1>7. op \in [(1..N) \X Seq(Nat \X Nat) -> Seq(Nat \X Nat)]
  <2>1. \A w \in (1..N) \X Seq(Nat \X Nat) : w[2] \o seqs[w[1]] \in Seq(Nat \X Nat)
    BY <1>5
  <2> QED BY <1>6, <2>1
<1>8. <<>> \in Seq(Nat \X Nat)
  OBVIOUS
<1>9. PICK h \in [0..N -> Seq(Nat \X Nat)] : Recurs(h, N, <<>>, op)
  BY <1>7, <1>8, RecursExist
<1>10. PICK e : e = [i \in 1..N |-> h[i]]
  OBVIOUS
<1>11. ASSUME NEW i \in 1..N PROVE e[i] = IF i = 1 THEN seqs[i] ELSE e[i - 1] \o seqs[i]
  <2>1. i \in 0..N /\ i - 1 \in 0..N /\ i # 0
    OBVIOUS
  <2>2. h[i] = op[<<i, h[i - 1]>>]
    BY <1>9, <2>1 DEF Recurs
  <2>3. h[i - 1] \in Seq(Nat \X Nat)
    BY <1>9, <2>1
  <2>4. h[i] = h[i - 1] \o seqs[i]
    BY <1>6, <2>2, <2>3
  <2>5. CASE i = 1
    <3>1. h[0] = <<>>
      BY <1>9 DEF Recurs
    <3>2. seqs[i] \in Seq(Nat \X Nat)
      BY <1>5
    <3>3. <<>> \o seqs[i] = seqs[i]
      BY <3>2
    <3>4. h[i - 1] = <<>>
      BY <2>5, <3>1
    <3>5. h[i] = seqs[i]
      BY <2>4, <3>3, <3>4
    <3>6. e[i] = h[i]
      BY <1>10
    <3> QED BY <2>5, <3>5, <3>6
  <2>6. CASE i # 1
    <3>1. e[i - 1] = h[i - 1]
      BY <1>10, <2>6
    <3> QED BY <1>10, <2>4, <2>6, <3>1
  <2> QED BY <2>5, <2>6
<1>12. Len(seqs) = N /\ N # 0
  BY <1>1, <1>4
<1>13. e = [i \in 1..Len(seqs) |-> IF i = 1 THEN seqs[i] ELSE e[i - 1] \o seqs[i]]
  BY <1>10, <1>11, <1>12
<1>14. PICK g : g = CHOOSE x : x = [i \in 1..Len(seqs) |-> IF i = 1 THEN seqs[i] ELSE x[i - 1] \o seqs[i]]
  OBVIOUS
<1>15. g = [i \in 1..Len(seqs) |-> IF i = 1 THEN seqs[i] ELSE g[i - 1] \o seqs[i]]
  BY <1>13, <1>14
<1>16. ASSUME NEW i \in 1..N PROVE g[i] = IF i = 1 THEN seqs[i] ELSE g[i - 1] \o seqs[i]
  BY <1>12, <1>15
<1>17. FlattenSeq(seqs) = g[N]
  BY <1>12, <1>14 DEF FlattenSeq
<1>18. WholeText(lines, width) = g[N]
  <2>1. \A i \in 1..N : [r \in 1..RowsOf(lines[i], width) |-> <<i, r>>] = [r \in 1..c[i] |-> <<i, r>>]
    BY <1>3
  <2>2. [i \in DOMAIN lines |-> [r \in 1..RowsOf(lines[i], width) |-> <<i, r>>]] = seqs
    BY <1>1, <1>4, <2>1
  <2>3. width # 0
    OBVIOUS
  <2>4. WholeText(lines, width) = FlattenSeq([i \in DOMAIN lines |-> [r \in 1..RowsOf(lines[i], width) |-> <<i, r>>]])
    BY <2>3 DEF WholeText
  <2> QED BY <1>17, <2>2, <2>4
<1>19. f[0] = 0 /\ \A n \in 0..N : f[n] \in Nat
  BY <1>1 DEF Sums
<1>20. \A n \in 1..N : f[n] = f[n - 1] + c[n]
  BY <1>1, <1>3 DEF Sums
<1>21. PICK G : G = {n \in 0..N : n > 0 =>
                        /\ g[n] \in Seq(Nat \X Nat) /\ Len(g[n]) = f[n]
                        /\ \A i \in 1..n : \A r \in 1..c[i] : g[n][f[i - 1] + r] = <<i, r>>}
  OBVIOUS
<1>22. 0 \in G
  BY <1>21
<1>23. ASSUME NEW n \in 1..N, n - 1 \in G PROVE n \in G
  <2>0. n - 1 \in 0..N
    OBVIOUS
  <2>1. PICK a \in Nat, m \in Nat : a = f[n - 1] /\ m = c[n] /\ f[n] = a + m
    BY <1>3, <1>19, <1>20, <2>0
  <2>2. PICK t \in Seq(Nat \X Nat) : t = seqs[n] /\ Len(t) = m /\ \A r \in 1..m : t[r] = <<n, r>>
    BY <1>5, <2>1
  <2>3. CASE n = 1
    <3>1. g[n] = t /\ a = 0
      BY <1>16, <1>19, <2>1, <2>2, <2>3
    <3>2. \A i \in 1..n : i = n
      BY <2>3
    <3>3. ASSUME NEW i \in 1..n, NEW r \in 1..c[i] PROVE g[n][f[i - 1] + r] = <<i, r>>
      <4>1. i = n /\ c[i] = m /\ f[i - 1] = 0
        BY <2>1, <3>1, <3>2
      <4>2. f[i - 1] + r = r /\ r \in 1..m
        BY <4>1
      <4> QED BY <2>2, <3>1, <4>1, <4>2
    <3>4. g[n] \in Seq(Nat \X Nat) /\ Len(g[n]) = f[n]
      BY <2>1, <2>2, <3>1
    <3>5. n \in 0..N
      OBVIOUS
    <3> QED BY <1>21, <3>3, <3>4, <3>5
  <2>4. CASE n # 1
    <3>1. n - 1 > 0
      BY <2>4
    <3>2. PICK s \in Seq(Nat \X Nat) : s = g[n - 1] /\ Len(s) = a
      BY <1>21, <1>23, <2>1, <3>1
    <3>3. \A i \in 1..(n - 1) : \A r \in 1..c[i] : s[f[i - 1] + r] = <<i, r>>
      BY <1>21, <1>23, <3>1, <3>2
    <3>4. g[n] = s \o t
      BY <1>16, <2>2, <2>4, <3>2
    <3>5. /\ s \o t \in Seq(Nat \X Nat) /\ Len(s \o t) = a + m
          /\ \A k \in 1..a : (s \o t)[k] = s[k]
          /\ \A k \in 1..m : (s \o t)[a + k] = t[k]
      <4>1. /\ s \o t \in Seq(Nat \X Nat) /\ Len(s \o t) = Len(s) + Len(t)
            /\ \A k \in 1..Len(s) : (s \o t)[k] = s[k]
            /\ \A k \in 1..Len(t) : (s \o t)[Len(s) + k] = t[k]
        BY ONLY Below, s \in Seq(Nat \X Nat), t \in Seq(Nat \X Nat)
      <4> QED BY <2>2, <3>2, <4>1
    <3>6. ASSUME NEW i \in 1..n, NEW r \in 1..c[i] PROVE (s \o t)[f[i - 1] + r] = <<i, r>>
      <4>1. CASE i = n
        <5>1. r \in 1..m /\ f[i - 1] = a
          BY <2>1, <4>1
        <5> QED BY <2>2, <3>5, <4>1, <5>1
      <4>2. CASE i # n
        <5>1. i \in 1..(n - 1) /\ i \in 0..N /\ i - 1 \in 0..N /\ i \in 1..N /\ n - 1 \in 0..Len(lines) /\ i \in 0..(n - 1)
          BY <1>1, <4>2
        <5>2. f[i] <= a
          BY <2>1, <5>1, SumsGrow
        <5>3. PICK b \in Nat, k \in Nat : b = f[i - 1] /\ k = c[i] /\ f[i] = b + k
          BY <1>3, <1>19, <1>20, <5>1
        <5>4. b + r \in 1..a
          <6>1. r \in 1..k /\ b + k <= a
            BY <5>2, <5>3
          <6> QED BY <6>1
        <5>5. s[b + r] = <<i, r>>
          BY <3>3, <5>1, <5>3
        <5> QED BY <3>5, <5>3, <5>4, <5>5
      <4> QED BY <4>1, <4>2
    <3>7. g[n] \in Seq(Nat \X Nat) /\ Len(g[n]) = f[n]
      BY <2>1, <3>4, <3>5
    <3>8. \A i \in 1..n : \A r \in 1..c[i] : g[n][f[i - 1] + r] = <<i, r>>
      BY <3>4, <3>6
    <3>9. n \in 0..N
      OBVIOUS
    <3> QED BY <1>21, <3>7, <3>8, <3>9
  <2> QED BY <2>3, <2>4
<1>24. \A n \in 0..N : n \in G
  BY <1>22, <1>23, Upward
<1>25. N \in G
  BY <1>24
<1> QED BY <1>1, <1>3, <1>18, <1>21, <1>25 DEF Wholes

-----------------------------------------------------------------------------
(* The rows a chunked render collects.                                     *)

LEMMA RowsExactIs ==
  ASSUME PaneBounds, NEW count \in Nat, NEW wanted \in 0..count, NEW viewport \in Nat
  PROVE  RowsExact(count, wanted, viewport) = Least(wanted, U16Max + Most(viewport, ChunkRows))
<1>1. PICK deep \in Nat, chunk \in Nat : deep = U16Max /\ chunk = ChunkRows /\ 0 < chunk
  BY DEF PaneBounds
<1>2. PICK limit \in Nat : limit = Least(wanted, U16Max + Most(viewport, ChunkRows)) /\ limit <= wanted
  <2>1. Most(viewport, chunk) \in Nat
    BY <1>1, MostIs
  <2>2. deep + Most(viewport, chunk) \in Nat
    BY <2>1
  <2> QED BY <1>1, <2>2, LeastIs
<1>3. limit <= count
  BY <1>2
<1>4. ASSUME NEW n \in 0..limit
      PROVE  LET start == Least(n, U16Max)
                 take == IF start = U16Max THEN limit - start ELSE Least(limit - start, ChunkRows)
                 painted == Least(take, Less(count, start))
             IN n # limit => painted # 0 /\ start + painted \in (n + 1)..limit
  <2> DEFINE start == Least(n, U16Max)
             take == IF start = U16Max THEN limit - start ELSE Least(limit - start, ChunkRows)
             painted == Least(take, Less(count, start))
  <2> SUFFICES ASSUME n # limit PROVE painted # 0 /\ start + painted \in (n + 1)..limit
    OBVIOUS
  <2>1. PICK s \in Nat : s = start /\ s <= n /\ s <= deep /\ (n <= deep => s = n) /\ (deep <= n => s = deep)
    <3>1. n \in Nat
      OBVIOUS
    <3>2. /\ Least(n, deep) \in Nat /\ Least(n, deep) <= n /\ Least(n, deep) <= deep
          /\ (n <= deep => Least(n, deep) = n) /\ (deep <= n => Least(n, deep) = deep)
      BY ONLY LeastIs, <3>1, deep \in Nat
    <3> QED BY <1>1, <3>2
  <2>2. PICK u \in Nat : u = limit - s /\ u > 0
    BY <2>1
  <2>3. PICK v \in Nat : v = take /\ v > 0 /\ v <= u /\ (s = deep => v = u)
    <3>1. Least(u, chunk) \in Nat /\ Least(u, chunk) > 0 /\ Least(u, chunk) <= u
      BY <1>1, <2>2 DEF Least
    <3> QED BY <1>1, <2>1, <2>2, <3>1
  <2>4. PICK l \in Nat : l = Less(count, start) /\ l = count - s
    <3>1. s <= count
      BY <1>3, <2>1
    <3>2. Less(count, s) \in Nat /\ Less(count, s) = count - s
      BY <3>1, LessIs
    <3> QED BY <2>1, <3>2
  <2>5. u <= l
    BY <1>3, <2>2, <2>4
  <2>6. painted = v
    BY <2>3, <2>4, <2>5, LeastIs
  <2> HIDE DEF start, take, painted
  <2> QED BY <2>1, <2>2, <2>3, <2>6
<1>5. PICK full : full = [n \in 0..limit |-> limit]
  OBVIOUS
<1>6. \A n \in 0..limit :
         limit = LET start == Least(n, U16Max)
                     take == IF start = U16Max THEN limit - start ELSE Least(limit - start, ChunkRows)
                     painted == Least(take, Less(count, start))
                 IN IF n = limit THEN n ELSE IF painted = 0 THEN start ELSE full[start + painted]
  BY <1>4, <1>5
<1>7. full = [n \in 0..limit |->
                 LET start == Least(n, U16Max)
                     take == IF start = U16Max THEN limit - start ELSE Least(limit - start, ChunkRows)
                     painted == Least(take, Less(count, start))
                 IN IF n = limit THEN n ELSE IF painted = 0 THEN start ELSE full[start + painted]]
  BY <1>5, <1>6
<1>8. PICK g : g = CHOOSE x : x = [n \in 0..limit |->
                 LET start == Least(n, U16Max)
                     take == IF start = U16Max THEN limit - start ELSE Least(limit - start, ChunkRows)
                     painted == Least(take, Less(count, start))
                 IN IF n = limit THEN n ELSE IF painted = 0 THEN start ELSE x[start + painted]]
  OBVIOUS
<1>9. g = [n \in 0..limit |->
                 LET start == Least(n, U16Max)
                     take == IF start = U16Max THEN limit - start ELSE Least(limit - start, ChunkRows)
                     painted == Least(take, Less(count, start))
                 IN IF n = limit THEN n ELSE IF painted = 0 THEN start ELSE g[start + painted]]
  BY <1>7, <1>8
<1>10. RowsExact(count, wanted, viewport) = g[0]
  BY <1>2, <1>8 DEF RowsExact
<1>11. ASSUME NEW n \in 0..limit
       PROVE  (n = limit => g[n] = n) /\ (n # limit => \E m \in (n + 1)..limit : g[n] = g[m])
  BY <1>4, <1>9
<1>12. PICK T : T = {k \in 0..limit : g[limit - k] # limit}
  OBVIOUS
<1>13. T = {}
  <2>1. SUFFICES ASSUME T # {} PROVE FALSE
    OBVIOUS
  <2>2. T \subseteq Nat
    BY <1>12
  <2>3. PICK k \in T : \A m \in T : k <= m
    BY <2>1, <2>2, LeastNumber
  <2>4. k \in 0..limit /\ limit - k \in 0..limit /\ g[limit - k] # limit
    BY <1>12
  <2>5. limit - k # limit
    BY <1>11, <2>4
  <2>6. PICK m \in (limit - k + 1)..limit : g[limit - k] = g[m]
    BY <1>11, <2>4, <2>5
  <2>7. limit - m \in 0..limit /\ ~(k <= limit - m) /\ limit - (limit - m) = m
    BY <2>4
  <2>8. limit - m \notin T
    BY <2>3, <2>7
  <2> QED BY <1>12, <2>4, <2>6, <2>7, <2>8
<1>14. g[0] = limit
  <2>1. limit \in 0..limit /\ limit - limit = 0
    OBVIOUS
  <2> QED BY <1>12, <1>13, <2>1
<1> QED BY <1>2, <1>10, <1>14

-----------------------------------------------------------------------------
(* The index of a text.                                                    *)

Indexes(index, f, lines, width, viewport) ==
  /\ Len(index.cum) = Len(lines) + 1 /\ \A i \in 0..Len(lines) : index.cum[i + 1] = f[i]
  /\ index.width = width
  /\ \A i \in 1..Len(lines) :
        LET count == RowsOf(lines[i], width)
        IN index.kept[i] = IF count >= HugeLineRows THEN Least(count, U16Max + viewport) ELSE None

LEMMA IndexIs ==
  ASSUME PaneBounds, NEW lines \in Seq(Nat), lines # <<>>, NEW width \in Nat, NEW viewport \in Nat,
         viewport >= ChunkRows
  PROVE  /\ Indexes(RowIndex(lines, width, viewport), RowsAbove(lines, width), lines, width, viewport)
         /\ RowIndex(lines, width, viewport) \in [cum : Seq(Nat), kept : Seq(Nat \cup {None}), width : Nat]
         /\ Total(RowIndex(lines, width, viewport)) = RowsAbove(lines, width)[Len(lines)]
<1>1. PICK N \in Nat : N = Len(lines) /\ DOMAIN lines = 1..N
  OBVIOUS
<1>2. PICK f : f = RowsAbove(lines, width) /\ Sums(f, lines, width)
  BY RowsAboveSums
<1>3. \A i \in 0..N : f[i] \in Nat
  BY <1>1, <1>2 DEF Sums
<1>4. PICK c : c = [i \in 1..N |-> RowsOf(lines[i], width)]
  OBVIOUS
<1>5. ASSUME NEW i \in 1..N PROVE c[i] \in Nat /\ c[i] = RowsOf(lines[i], width)
  <2>1. lines[i] \in Nat
    BY <1>1
  <2>2. RowsOf(lines[i], width) \in Nat
    BY <2>1, RowsOfIs
  <2> QED BY <1>4, <2>2
<1>6. Most(viewport, ChunkRows) = viewport /\ U16Max + viewport \in Nat
  <2>1. ChunkRows \in Nat /\ U16Max \in Nat
    BY DEF PaneBounds
  <2> QED BY <2>1, MostIs
<1>7. ASSUME NEW i \in 1..N
      PROVE  /\ RowsExact(RowsOf(lines[i], width), RowsOf(lines[i], width), viewport) = Least(c[i], U16Max + viewport)
             /\ Least(c[i], U16Max + viewport) \in Nat
  <2>1. PICK n \in Nat : n = RowsOf(lines[i], width) /\ n = c[i]
    BY <1>5
  <2>2. n \in 0..n
    OBVIOUS
  <2>3. RowsExact(n, n, viewport) = Least(n, U16Max + Most(viewport, ChunkRows))
    BY <2>2, RowsExactIs
  <2> QED BY <1>6, <2>1, <2>3, LeastIs
<1>8. PICK cum, kept : /\ cum = [i \in 1..(N + 1) |-> f[i - 1]]
                       /\ kept = [i \in 1..N |-> IF c[i] >= HugeLineRows THEN Least(c[i], U16Max + viewport) ELSE None]
  OBVIOUS
<1>9. RowIndex(lines, width, viewport) = [cum |-> cum, kept |-> kept, width |-> width]
  <2>1. kept = [i \in DOMAIN lines |->
                  IF RowsOf(lines[i], width) >= HugeLineRows
                  THEN RowsExact(RowsOf(lines[i], width), RowsOf(lines[i], width), viewport) ELSE None]
    BY <1>1, <1>5, <1>7, <1>8
  <2>2. cum = [i \in 1..(Len(lines) + 1) |-> RowsAbove(lines, width)[i - 1]]
    BY <1>1, <1>2, <1>8
  <2> QED BY <2>1, <2>2 DEF RowIndex
<1>10. cum \in Seq(Nat) /\ Len(cum) = N + 1 /\ \A i \in 0..N : cum[i + 1] = f[i]
  <2>1. \A i \in 1..(N + 1) : f[i - 1] \in Nat
    BY <1>3
  <2>2. cum \in [1..(N + 1) -> Nat]
    BY <1>8, <2>1
  <2>3. \A i \in 0..N : i + 1 \in 1..(N + 1) /\ (i + 1) - 1 = i
    OBVIOUS
  <2> QED BY <1>8, <2>2, <2>3
<1>11. kept \in Seq(Nat \cup {None})
  <2>1. kept \in [1..N -> Nat \cup {None}]
    BY <1>7, <1>8
  <2> QED BY <2>1
<1>12. Last(cum) = f[N]
  BY <1>10 DEF Last
<1>13. PICK index : index = [cum |-> cum, kept |-> kept, width |-> width]
  OBVIOUS
<1>14. Indexes(index, f, lines, width, viewport)
  BY <1>1, <1>5, <1>8, <1>10, <1>13 DEF Indexes
<1>15. index \in [cum : Seq(Nat), kept : Seq(Nat \cup {None}), width : Nat]
  BY <1>10, <1>11, <1>13
<1>16. Total(index) = f[N]
  BY <1>12, <1>13 DEF Total
<1> QED BY <1>1, <1>2, <1>9, <1>13, <1>14, <1>15, <1>16

LEMMA EmptyIndex ==
  ASSUME NEW width \in Nat, NEW viewport
  PROVE  /\ RowIndex(<<>>, width, viewport) \in [cum : Seq(Nat), kept : Seq(Nat \cup {None}), width : Nat]
         /\ Total(RowIndex(<<>>, width, viewport)) = 1 /\ RowIndex(<<>>, width, viewport).width = width
<1>1. PICK kept : kept = RowIndex(<<>>, width, viewport).kept
  OBVIOUS
<1>2. kept = <<>>
  BY <1>1 DEF RowIndex
<1>3. RowIndex(<<>>, width, viewport) = [cum |-> <<0, 1>>, kept |-> kept, width |-> width]
  BY <1>1 DEF RowIndex
<1>4. <<0, 1>> \in Seq(Nat) /\ kept \in Seq(Nat \cup {None})
  BY <1>2
<1>5. Last(<<0, 1>>) = 1
  BY DEF Last
<1>6. PICK index : index = [cum |-> <<0, 1>>, kept |-> kept, width |-> width]
  OBVIOUS
<1>7. index \in [cum : Seq(Nat), kept : Seq(Nat \cup {None}), width : Nat] /\ index.width = width
  BY <1>4, <1>6
<1>8. Total(index) = 1
  BY <1>5, <1>6 DEF Total
<1> QED BY <1>3, <1>6, <1>7, <1>8

(* The numbers up to one have it as their count.                           *)
LEMMA UpTo ==
  ASSUME NEW n \in Nat, NEW S, S \subseteq 1..n, \A j \in S : \A i \in 1..j : i \in S
  PROVE  Cardinality(S) \in 0..n /\ S = 1..Cardinality(S)
<1>1. PICK T : T = {k \in 1..(n + 1) : k \notin S}
  OBVIOUS
<1>2. T \subseteq Nat /\ n + 1 \in T
  BY <1>1
<1>3. PICK k \in T : \A m \in T : k <= m
  BY <1>2, LeastNumber
<1>4. k \in 1..(n + 1) /\ k \notin S
  BY <1>1
<1>5. S = 1..(k - 1)
  <2>1. ASSUME NEW i \in S PROVE i \in 1..(k - 1)
    <3>1. i \in 1..n
      OBVIOUS
    <3>2. ~(k <= i)
      BY <1>4, <3>1
    <3> QED BY <1>4, <3>1, <3>2
  <2>2. ASSUME NEW i \in 1..(k - 1) PROVE i \in S
    <3>1. i \in 1..(n + 1) /\ ~(k <= i)
      BY <1>4
    <3> QED BY <1>1, <1>3, <3>1
  <2> QED BY <2>1, <2>2
<1>6. Cardinality(1..(k - 1)) = k - 1
  BY <1>4, FS_Interval
<1> QED BY <1>4, <1>5, <1>6

-----------------------------------------------------------------------------
(* The window of an index.                                                 *)

\* The lines start + 1 to end hold the rows row + 1 to row + rows.
Spans(window, f, lines, row, rows, start, end) ==
  /\ start \in 0..(Len(lines) - 1) /\ end \in (start + 1)..Len(lines)
  /\ f[start] <= row /\ row < f[start + 1]
  /\ end = Len(lines) \/ row + rows <= f[end]
  /\ window = [lines |-> [k \in 1..(end - start) |-> start + k], skip |-> row - f[start]]

LEMMA WindowSpans ==
  ASSUME NEW lines \in Seq(Nat), lines # <<>>, NEW width \in Nat, width > 0,
         NEW f, Sums(f, lines, width), NEW index, NEW viewport, Indexes(index, f, lines, width, viewport),
         NEW first \in Nat, NEW rows \in Nat
  PROVE  /\ f[Len(lines)] \in Nat /\ f[Len(lines)] > 0
         /\ \E start, end \in Nat :
               Spans(WindowRange(index, first, rows), f, lines, Least(first, f[Len(lines)] - 1), rows, start, end)
<1>1. PICK N \in Nat : N = Len(lines) /\ N > 0
  OBVIOUS
<1>2. f[0] = 0 /\ \A i \in 0..N : f[i] \in Nat
  BY <1>1 DEF Sums
<1>3. \A j \in 0..N : (\A i \in 0..j : f[i] <= f[j]) /\ (\A i \in 0..(j - 1) : f[i] < f[j])
  BY <1>1, SumsGrow
<1>4. PICK total \in Nat : total = f[N] /\ total > 0
  <2>1. N \in 0..N /\ 0 \in 0..(N - 1)
    BY <1>1
  <2>2. f[0] < f[N]
    BY <1>3, <2>1
  <2> QED BY <1>2, <2>1, <2>2
<1>5. PICK row \in Nat : row = Least(first, total - 1) /\ row < total
  <2>1. PICK u \in Nat : u = total - 1 /\ u < total
    BY <1>4
  <2> QED BY <2>1 DEF Least
<1>6. PICK cum : cum = index.cum
  OBVIOUS
<1>7. Len(cum) = N + 1 /\ \A i \in 0..N : cum[i + 1] = f[i]
  BY <1>1, <1>6 DEF Indexes
<1>8. \A i \in 1..(N + 1) : i - 1 \in 0..N /\ cum[i] = f[i - 1]
  <2>1. \A i \in 1..(N + 1) : i - 1 \in 0..N /\ (i - 1) + 1 = i
    OBVIOUS
  <2> QED BY <1>7, <2>1
<1>9. Total(index) = total
  BY <1>1, <1>4, <1>6, <1>7 DEF Total, Last
<1>10. PICK A : A = {i \in 1..(N + 1) : cum[i] <= row}
  OBVIOUS
<1>11. PICK m \in 0..(N + 1) : m = Cardinality(A) /\ \A i \in 1..(N + 1) : i \in A <=> i <= m
  <2>1. ASSUME NEW j \in A, NEW i \in 1..j PROVE i \in A
    <3>1. j \in 1..(N + 1) /\ cum[j] <= row
      BY <1>10
    <3>2. i \in 1..(N + 1) /\ i - 1 \in 0..(j - 1) /\ j - 1 \in 0..N /\ i - 1 \in 0..N
      BY <3>1
    <3>3. f[i - 1] <= f[j - 1] /\ f[i - 1] \in Nat /\ f[j - 1] \in Nat
      BY <1>2, <1>3, <3>2
    <3>4. cum[i] <= row
      BY <1>8, <3>1, <3>2, <3>3
    <3> QED BY <1>10, <3>2, <3>4
  <2>2. A \subseteq 1..(N + 1) /\ N + 1 \in Nat
    BY <1>10
  <2>3. Cardinality(A) \in 0..(N + 1) /\ A = 1..Cardinality(A)
    BY <2>1, <2>2, UpTo
  <2> QED BY <2>3
<1>12. m \in 1..N
  <2>1. 1 \in 1..(N + 1) /\ N + 1 \in 1..(N + 1)
    OBVIOUS
  <2>2. cum[1] = 0 /\ cum[N + 1] = total
    BY <1>2, <1>4, <1>8, <2>1
  <2>3. 1 \in A /\ N + 1 \notin A
    BY <1>5, <1>10, <2>1, <2>2
  <2> QED BY <1>11, <2>3
<1>13. PICK start \in 0..(N - 1) : start = m - 1
  BY <1>12
<1>14. f[start] <= row /\ row < f[start + 1]
  <2>0. m \in 1..(N + 1) /\ m + 1 \in 1..(N + 1) /\ m <= m /\ ~(m + 1 <= m)
    BY <1>12
  <2>1. m \in A /\ m + 1 \notin A /\ m \in 1..(N + 1) /\ m + 1 \in 1..(N + 1)
    BY <1>11, <2>0
  <2>2. cum[m] = f[start] /\ cum[m + 1] = f[start + 1]
    <3>1. m = start + 1 /\ start \in 0..N /\ start + 1 \in 0..N
      BY <1>13
    <3> QED BY <1>7, <3>1
  <2>3. f[start + 1] \in Nat
    BY <1>2, <1>13
  <2> QED BY <1>10, <2>1, <2>2, <2>3
<1>15. PICK B : B = {i \in 1..(N + 1) : cum[i] < row + rows}
  OBVIOUS
<1>16. PICK e \in 0..(N + 1) : e = Cardinality(B) /\ \A i \in 1..(N + 1) : i \in B <=> i <= e
  <2>1. ASSUME NEW j \in B, NEW i \in 1..j PROVE i \in B
    <3>1. j \in 1..(N + 1) /\ cum[j] < row + rows
      BY <1>15
    <3>2. i \in 1..(N + 1) /\ i - 1 \in 0..(j - 1) /\ j - 1 \in 0..N /\ i - 1 \in 0..N
      BY <3>1
    <3>3. f[i - 1] <= f[j - 1] /\ f[i - 1] \in Nat /\ f[j - 1] \in Nat
      BY <1>2, <1>3, <3>2
    <3>4. cum[i] < row + rows
      BY <1>8, <3>1, <3>2, <3>3
    <3> QED BY <1>15, <3>2, <3>4
  <2>2. B \subseteq 1..(N + 1) /\ N + 1 \in Nat
    BY <1>15
  <2>3. Cardinality(B) \in 0..(N + 1) /\ B = 1..Cardinality(B)
    BY <2>1, <2>2, UpTo
  <2> QED BY <2>3
<1>17. PICK end \in Nat : end = Least(Most(e, start + 1), N) /\ end <= N /\ end > start /\ (end < N => end >= e)
  <2>1. PICK t \in Nat : t = Most(e, start + 1) /\ t >= e /\ t >= start + 1
    BY DEF Most
  <2> QED BY <2>1 DEF Least
<1>18. end = N \/ row + rows <= f[end]
  <2>1. SUFFICES ASSUME end < N PROVE row + rows <= f[end]
    BY <1>17
  <2>2. end + 1 \in 1..(N + 1) /\ end \in 0..N /\ ~(end + 1 <= e)
    BY <1>17, <2>1
  <2>4. end + 1 \notin B
    BY <1>16, <2>2
  <2>3. cum[end + 1] = f[end] /\ f[end] \in Nat
    BY <1>2, <1>7, <2>2
  <2> QED BY <1>15, <2>2, <2>3, <2>4
<1>19. PICK window : window = [lines |-> [k \in 1..(end - start) |-> start + k], skip |-> row - f[start]]
  OBVIOUS
<1>20. WindowRange(index, first, rows) = window
  <2>1. DOMAIN cum = 1..(N + 1)
    BY <1>7
  <2>2. Less(Total(index), 1) = total - 1
    BY <1>4, <1>9 DEF Less
  <2>3. {i \in DOMAIN index.cum : index.cum[i] <= row} = A /\ {i \in DOMAIN index.cum : index.cum[i] < row + rows} = B
    BY <1>6, <1>10, <1>15, <2>1
  <2>4. Less(m, 1) = start
    BY <1>12, <1>13, LessIs
  <2>5. Len(index.cum) - 1 = N /\ index.cum[start + 1] = f[start]
    <3>1. start \in 0..N
      OBVIOUS
    <3>2. cum[start + 1] = f[start]
      BY <1>7, <3>1
    <3>3. Len(cum) - 1 = N
      BY <1>7
    <3> QED BY <1>6, <3>2, <3>3
  <2> QED BY <1>5, <1>11, <1>16, <1>17, <1>19, <2>2, <2>3, <2>4, <2>5 DEF WindowRange
<1>21. Spans(window, f, lines, row, rows, start, end)
  BY <1>1, <1>14, <1>17, <1>18, <1>19 DEF Spans
<1>22. row = Least(first, f[Len(lines)] - 1)
  BY <1>1, <1>4, <1>5
<1>23. Spans(WindowRange(index, first, rows), f, lines, Least(first, f[Len(lines)] - 1), rows, start, end)
  BY <1>20, <1>21, <1>22
<1>24. f[Len(lines)] \in Nat /\ f[Len(lines)] > 0
  BY <1>1, <1>4
<1> QED BY <1>23, <1>24

(* The rows from a + 1 to b and the next ones to c are those to c.         *)
Continues(more, whole, b, c) == more = [k \in 1..(c - b) |-> whole[b + k]]
Extends(more, whole, a, b, c) == SubSeq(whole, a + 1, b) \o more = SubSeq(whole, a + 1, c)
LEMMA Extended ==
  ASSUME NEW S, NEW whole \in Seq(S), NEW a \in Nat, NEW b \in a..Len(whole), NEW c \in b..Len(whole),
         NEW more, Continues(more, whole, b, c)
  PROVE  Extends(more, whole, a, b, c)
<1>0. more = [k \in 1..(c - b) |-> whole[b + k]]
  BY DEF Continues
<1>1. PICK s : s = SubSeq(whole, a + 1, b)
  OBVIOUS
<1>2. s \in Seq(S) /\ Len(s) = b - a /\ \A k \in 1..(b - a) : s[k] = whole[a + k]
  BY <1>1
<1>3. PICK t : t = SubSeq(whole, a + 1, c)
  OBVIOUS
<1>4. t \in Seq(S) /\ Len(t) = c - a /\ \A k \in 1..(c - a) : t[k] = whole[a + k]
  BY <1>3
<1>5. more \in Seq(S) /\ Len(more) = c - b /\ \A k \in 1..(c - b) : more[k] = whole[b + k]
  <2>1. \A k \in 1..(c - b) : whole[b + k] \in S
    OBVIOUS
  <2>2. c - b \in Nat
    OBVIOUS
  <2>3. more \in [1..(c - b) -> S]
    BY <1>0, <2>1
  <2>4. \A k \in 1..(c - b) : more[k] = whole[b + k]
    BY <1>0
  <2>5. PICK n \in Nat : n = c - b
    BY <2>2
  <2>6. more \in [1..n -> S]
    BY <2>3, <2>5
  <2>7. more \in Seq(S) /\ Len(more) = n
    BY ONLY <2>6, n \in Nat
  <2> QED BY <2>4, <2>5, <2>7
<1>6. /\ s \o more \in Seq(S) /\ Len(s \o more) = Len(s) + Len(more)
      /\ \A k \in 1..Len(s) : (s \o more)[k] = s[k]
      /\ \A k \in 1..Len(more) : (s \o more)[Len(s) + k] = more[k]
  <2>1. s \in Seq(S) /\ more \in Seq(S)
    BY <1>2, <1>5
  <2> QED BY ONLY <2>1, Below
<1>7. Len(s \o more) = Len(t)
  BY <1>2, <1>4, <1>5, <1>6
<1>8. ASSUME NEW k \in 1..Len(t) PROVE (s \o more)[k] = t[k]
  <2>1. CASE k <= b - a
    <3>1. k \in 1..Len(s) /\ k \in 1..(b - a) /\ k \in 1..(c - a)
      BY <1>2, <1>4, <2>1
    <3> QED BY <1>2, <1>4, <1>6, <3>1
  <2>2. CASE k > b - a
    <3>1. PICK n \in 1..(c - b) : k = (b - a) + n
      <4>1. k - (b - a) \in 1..(c - b) /\ k = (b - a) + (k - (b - a))
        BY <1>4, <2>2
      <4> QED BY <4>1
    <3>2. n \in 1..Len(more) /\ k = Len(s) + n /\ k \in 1..(c - a) /\ a + k = b + n
      BY <1>2, <1>4, <1>5, <3>1
    <3>3. (s \o more)[k] = whole[b + n]
      BY <1>5, <1>6, <3>1, <3>2
    <3> QED BY <1>4, <3>2, <3>3
  <2>3. k \in Nat /\ b - a \in Nat
    BY <1>4
  <2>4. k <= b - a \/ k > b - a
    BY <2>3
  <2> QED BY <2>1, <2>2, <2>4
<1>9. s \o more = t
  BY <1>4, <1>6, <1>7, <1>8, SeqEqual
<1> QED BY <1>1, <1>3, <1>9 DEF Extends

-----------------------------------------------------------------------------
(* The rows of a window, line by line.                                     *)

\* What the lines up to i gave of the rows row + 1 to row + rows.
Gives(acc, whole, f, row, rows, i) ==
  /\ acc.rows = SubSeq(whole, row + 1, Least(row + rows, Most(f[i], row)))
  /\ acc.budget = Less(row + rows, Most(f[i], row))
  /\ acc.budget = 0 \/ acc.skip = Less(row, f[i])
  /\ acc.sound = TRUE

LEMMA GivesLine ==
  ASSUME PaneBounds, NEW lines \in Seq(Nat), lines # <<>>, NEW width \in Nat, width > 0,
         NEW f, Sums(f, lines, width), NEW whole, Wholes(whole, f, lines, width),
         NEW viewport \in Nat, viewport >= ChunkRows,
         NEW index, Indexes(index, f, lines, width, viewport),
         NEW row \in 0..U16Max, NEW rows \in 0..viewport,
         NEW i \in 1..Len(lines), row < f[i],
         NEW acc, Gives(acc, whole, f, row, rows, i - 1)
  PROVE  Gives(AddLine(lines, index, acc, i), whole, f, row, rows, i)
<1>1. PICK N \in Nat : N = Len(lines) /\ DOMAIN lines = 1..N /\ N > 0
  OBVIOUS
<1>2. PICK c \in Nat : c = RowsOf(lines[i], width) /\ c > 0
  <2>1. lines[i] \in Nat
    BY <1>1
  <2> QED BY <2>1, RowsOfIs
<1>3. PICK a \in Nat, b \in Nat : a = f[i - 1] /\ b = f[i] /\ b = a + c
  <2>1. i - 1 \in 0..N /\ i \in 0..N
    BY <1>1
  <2> QED BY <1>1, <1>2, <2>1 DEF Sums
<1>4. PICK deep \in Nat, chunk \in Nat, huge \in Nat :
        deep = U16Max /\ chunk = ChunkRows /\ huge = HugeLineRows /\ 0 < huge /\ huge <= chunk /\ chunk <= deep
  BY DEF PaneBounds
<1>5. row \in Nat /\ row <= deep /\ rows \in Nat /\ rows <= viewport /\ chunk <= viewport /\ row < b
  BY <1>3, <1>4
<1>6. PICK h \in Nat : h = row + rows
  BY <1>5
<1>17. b = a + c /\ c > 0 /\ row \in Nat /\ row <= deep /\ rows \in Nat /\ rows <= viewport /\ chunk <= viewport /\ row < b /\ h = row + rows
  BY <1>2, <1>3, <1>5, <1>6
<1>7. PICK top \in Nat : top = Most(a, row) /\ top >= a /\ top >= row /\ top < b /\ (a <= row => top = row) /\ (row <= a => top = a)
  <2>1. Most(a, row) \in Nat
    BY <1>17 DEF Most
  <2> QED BY <1>17, <2>1 DEF Most
<1>18. top >= a /\ top >= row /\ top < b
  BY <1>7
<1>8. Most(b, row) = b
  BY <1>5 DEF Most
<1>9. PICK to \in Nat : to = Least(h, b) /\ to <= h /\ to <= b /\ (h <= b => to = h) /\ (b <= h => to = b)
  BY DEF Least
<1>19. to <= h /\ to <= b /\ (h <= b => to = h) /\ (b <= h => to = b)
  BY <1>9
<1>10. /\ acc.rows = SubSeq(whole, row + 1, Least(h, top)) /\ acc.budget = Less(h, top)
       /\ acc.budget = 0 \/ acc.skip = Less(row, a)
       /\ acc.sound = TRUE
  BY <1>3, <1>6, <1>7 DEF Gives
<1>11. SUFFICES /\ AddLine(lines, index, acc, i).rows = SubSeq(whole, row + 1, to)
                /\ AddLine(lines, index, acc, i).budget = Less(h, b)
                /\ AddLine(lines, index, acc, i).budget = 0 \/ AddLine(lines, index, acc, i).skip = 0
                /\ AddLine(lines, index, acc, i).sound = TRUE
  <2>1. Less(row, b) = 0
    BY <1>5 DEF Less
  <2> QED BY <1>3, <1>6, <1>8, <1>9, <2>1 DEF Gives
<1>12. CASE acc.budget = 0
  <2>1. AddLine(lines, index, acc, i) = acc
    BY <1>12 DEF AddLine
  <2>2. h <= top
    BY <1>10, <1>12 DEF Less
  <2>3. Least(h, top) = h /\ to = h /\ Less(h, b) = 0
    BY <1>7, <1>9, <2>2 DEF Least, Less
  <2> QED BY <1>10, <1>12, <2>1, <2>3
<1>13. CASE acc.budget # 0
  <2>1. top < h /\ acc.budget = h - top /\ Least(h, top) = top
    BY <1>10, <1>13 DEF Less, Least
  <2>2. PICK budget \in Nat : budget = acc.budget /\ budget = h - top /\ budget > 0
    BY <2>1
  <2>3. PICK skip \in Nat : skip = acc.skip /\ top = a + skip
    <3>1. a \in Nat /\ row \in Nat
      BY <1>17
    <3>2. acc.skip = Less(row, a) /\ top = Most(a, row)
      BY <1>7, <1>10, <1>13
    <3>3. Less(row, a) \in Nat /\ Most(a, row) = a + Less(row, a)
      BY <3>1 DEF Less, Most
    <3> QED BY <3>2, <3>3
  <2>10. top < h /\ budget = h - top /\ budget > 0 /\ top = a + skip
    BY <2>1, <2>2, <2>3
  <2>4. top < to
    BY <1>18, <1>19, <2>10
  <2>5. PICK d \in Nat : to = a + d /\ skip < d /\ d <= c
    <3>1. to - a \in Nat
      BY <1>17, <1>19, <2>10, <2>4
    <3>2. to = a + (to - a) /\ skip < to - a /\ to - a <= c
      BY <1>17, <1>19, <2>10, <2>4
    <3> QED BY <3>1, <3>2
  <2>6. SubSeq(whole, row + 1, top) \o Slice(i, skip, d) = SubSeq(whole, row + 1, to)
    <3>1. whole \in Seq(Nat \X Nat) /\ Len(whole) = f[N] /\ \A r \in 1..c : whole[a + r] = <<i, r>>
      BY <1>1, <1>2, <1>3 DEF Wholes
    <3>2. b <= f[N] /\ f[N] \in Nat
      <4>1. N \in 0..Len(lines) /\ i \in 0..N
        BY <1>1
      <4>2. \A j \in 0..Len(lines) : \A k \in 0..j : f[k] <= f[j]
        BY SumsGrow
      <4>3. f[N] \in Nat
        BY <4>1 DEF Sums
      <4> QED BY <1>3, <4>1, <4>2, <4>3
    <3>3. top \in row..Len(whole) /\ to \in top..Len(whole)
      <4>1. PICK n \in Nat : n = Len(whole) /\ b <= n
        BY <3>1, <3>2
      <4>2. top \in row..n /\ to \in top..n
        BY <1>17, <1>18, <1>19, <2>4, <4>1
      <4> QED BY <4>1, <4>2
    <3>4. Slice(i, skip, d) = [k \in 1..(d - skip) |-> <<i, skip + k>>]
      <4>1. Less(d, skip) = d - skip
        BY <2>5 DEF Less
      <4> QED BY <4>1 DEF Slice
    <3>5. to - top = d - skip
      BY <2>10, <2>5
    <3>6. ASSUME NEW k \in 1..(d - skip) PROVE whole[top + k] = <<i, skip + k>>
      <4>1. PICK r \in 1..c : r = skip + k
        <5>1. skip + k \in 1..c
          BY <2>5
        <5> QED BY <5>1
      <4>2. top + k = a + r
        BY <2>10, <4>1
      <4> QED BY <3>1, <4>1, <4>2
    <3>7. Slice(i, skip, d) = [k \in 1..(to - top) |-> whole[top + k]]
      BY <3>4, <3>5, <3>6
    <3>8. row \in Nat
      BY <1>17
    <3>9. PICK more : more = Slice(i, skip, d)
      OBVIOUS
    <3>10. more = [k \in 1..(to - top) |-> whole[top + k]]
      BY <3>7, <3>9
    <3>12. whole \in Seq(Nat \X Nat)
      BY <3>1
    <3>11. SubSeq(whole, row + 1, top) \o more = SubSeq(whole, row + 1, to)
      <4>1. Continues(more, whole, top, to)
        BY <3>10 DEF Continues
      <4>2. PICK P : P = Nat \X Nat
        OBVIOUS
      <4>3. whole \in Seq(P)
        BY <3>12, <4>2
      <4>4. Extends(more, whole, row, top, to)
        BY ONLY <3>3, <3>8, <4>1, <4>3, Extended
      <4> QED BY <4>4 DEF Extends
    <3> QED BY <3>9, <3>11
  <2>7. index.width = width /\ index.kept[i] = IF c >= huge THEN Least(c, deep + viewport) ELSE None
    BY <1>2, <1>4 DEF Indexes
  <2>8. CASE c >= huge
    <3>1. PICK kept \in Nat : kept = index.kept[i] /\ kept = Least(c, deep + viewport)
      BY <2>7, <2>8 DEF Least
    <3>2. kept <= c /\ (kept = c \/ (kept = deep + viewport /\ kept < c))
      BY <3>1 DEF Least
    <3>3. kept # None
      BY DEF PaneBounds
    <3>4. PICK line, rest : line = Slice(i, skip, Least(skip + budget, kept)) /\ rest = Less(budget, Less(kept, skip))
      OBVIOUS
    <3>9. AddLine(lines, index, acc, i) =
            [rows |-> acc.rows \o line, budget |-> rest, skip |-> 0, sound |-> acc.sound /\ skip <= kept]
      BY <1>13, <2>2, <2>3, <3>1, <3>3, <3>4 DEF AddLine
    <3>5. kept < c => h <= a + kept /\ h <= b
      BY <1>17, <3>2
    <3>6. Least(skip + budget, kept) = d
      <4>1. skip + budget = h - a
        BY <2>10
      <4>2. CASE kept = c
        BY <1>17, <1>19, <2>5, <4>1, <4>2 DEF Least
      <4>3. CASE kept < c
        BY <1>17, <1>19, <2>5, <3>5, <4>1, <4>3 DEF Least
      <4> QED BY <3>2, <4>2, <4>3
    <3>8. skip < kept
      BY <1>17, <1>18, <2>10, <3>2, <3>5
    <3>7. Less(budget, Less(kept, skip)) = Less(h, b)
      <4>1. kept - skip \in Nat /\ Less(kept, skip) = kept - skip
        BY <3>8 DEF Less
      <4>2. PICK left \in Nat : left = Less(kept, skip) /\ left = kept - skip
        BY <4>1
      <4>3. Less(budget, left) = Less(h, b)
        <5>1. CASE kept = c
          BY <1>17, <2>10, <4>2, <5>1 DEF Less
        <5>2. CASE kept < c
          BY <1>17, <2>10, <3>5, <4>2, <5>2 DEF Less
        <5> QED BY <3>2, <5>1, <5>2
      <4> QED BY <4>2, <4>3
    <3>10. line = Slice(i, skip, d) /\ rest = Less(h, b)
      BY <3>4, <3>6, <3>7
    <3>11. PICK next : next = AddLine(lines, index, acc, i)
      OBVIOUS
    <3>12. next.rows = acc.rows \o line /\ next.budget = rest /\ next.skip = 0
      BY <3>9, <3>11
    <3>13. next.sound = (acc.sound /\ skip <= kept)
      BY <3>9, <3>11
    <3>14. skip <= kept
      BY <3>8
    <3>15. next.sound = TRUE
      BY <1>10, <3>13, <3>14, Zenon
    <3> QED BY <1>10, <2>1, <2>6, <3>10, <3>11, <3>12, <3>15
  <2>9. CASE ~(c >= huge)
    <3>1. PICK take \in Nat : take = Least(Less(c, skip), budget) /\ take = d - skip
      <4>1. Less(c, skip) = c - skip /\ c - skip \in Nat
        BY <2>5 DEF Less
      <4>2. PICK left \in Nat : left = Less(c, skip) /\ left = c - skip
        BY <4>1
      <4>3. Least(left, budget) = d - skip /\ d - skip \in Nat
        BY <1>17, <1>19, <2>10, <2>5, <4>2 DEF Least
      <4> QED BY <4>2, <4>3
    <3>2. RowsExact(c, skip + take, ChunkRows) = d
      <4>1. skip + take = d /\ d \in 0..c /\ take = d - skip
        BY <2>5, <3>1
      <4>2. RowsExact(c, d, chunk) = Least(d, U16Max + Most(chunk, ChunkRows))
        BY <4>1, RowsExactIs
      <4>3. Most(chunk, ChunkRows) = chunk
        BY <1>4 DEF Most
      <4>4. d <= deep + chunk
        BY <1>4, <2>5, <2>9
      <4>5. Least(d, deep + chunk) = d
        BY <4>4 DEF Least
      <4> QED BY <1>4, <4>1, <4>2, <4>3, <4>5
    <3>8. PICK line, rest : line = Slice(i, skip, RowsExact(c, skip + take, ChunkRows)) /\ rest = budget - take
      OBVIOUS
    <3>3. AddLine(lines, index, acc, i) =
            [rows |-> acc.rows \o line, budget |-> rest, skip |-> 0, sound |-> acc.sound]
      BY <1>2, <1>13, <2>2, <2>3, <2>7, <2>9, <3>1, <3>8 DEF AddLine
    <3>4. budget - take = Less(h, b)
      <4>1. take = d - skip
        BY <3>1
      <4> QED BY <1>17, <1>19, <2>10, <2>5, <4>1 DEF Less
    <3>5. PICK next : next = AddLine(lines, index, acc, i)
      OBVIOUS
    <3>6. line = Slice(i, skip, d) /\ rest = Less(h, b)
      BY <3>2, <3>4, <3>8
    <3>7. next.rows = acc.rows \o line /\ next.budget = rest /\ next.skip = 0 /\ next.sound = acc.sound
      BY <3>3, <3>5
    <3> QED BY <1>10, <2>1, <2>6, <3>5, <3>6, <3>7
  <2> QED BY <2>8, <2>9
<1> QED BY <1>12, <1>13

\* A window holds the rows below row, as many as there is height for.
Windowed(window, whole, row, height) ==
  window.rows = SubSeq(whole, row + 1, Least(row + height, Len(whole))) /\ window.sound = TRUE

LEMMA WindowShows ==
  ASSUME PaneBounds, NEW lines \in Seq(Nat), lines # <<>>, NEW width \in Nat, width > 0,
         NEW f, Sums(f, lines, width), NEW whole, Wholes(whole, f, lines, width),
         NEW viewport \in Nat, viewport >= ChunkRows,
         NEW index, Indexes(index, f, lines, width, viewport),
         NEW offset \in 0..U16Max, NEW height \in 0..viewport, NEW row, row = Least(offset, f[Len(lines)] - 1)
  PROVE  Windowed(WindowLines(lines, index, offset, height), whole, row, height)
<1>1. PICK N \in Nat : N = Len(lines) /\ N > 0
  OBVIOUS
<1>2. \A i \in 0..N : f[i] \in Nat
  BY <1>1 DEF Sums
<1>3. PICK window : window = WindowRange(index, offset, height)
  OBVIOUS
<1>4. U16Max \in Nat
  BY DEF PaneBounds
<1>5. offset \in Nat /\ height \in Nat
  BY <1>4
<1>6. f[N] \in Nat /\ f[N] > 0 /\ \E start, end \in Nat : Spans(window, f, lines, row, height, start, end)
  BY <1>1, <1>3, <1>5, WindowSpans
<1>7. PICK start \in Nat, end \in Nat : Spans(window, f, lines, row, height, start, end)
  BY <1>6
<1>8. /\ start \in 0..(N - 1) /\ end \in (start + 1)..N
      /\ f[start] <= row /\ row < f[start + 1]
      /\ end = N \/ row + height <= f[end]
      /\ window = [lines |-> [k \in 1..(end - start) |-> start + k], skip |-> row - f[start]]
  BY <1>1, <1>7 DEF Spans
<1>9. row \in 0..U16Max
  <2>1. PICK total \in Nat : total = f[N] /\ total > 0
    BY <1>6
  <2>2. PICK u \in Nat : u = total - 1
    BY <2>1
  <2>3. row = Least(offset, u)
    BY <1>1, <2>1, <2>2
  <2> QED BY <1>4, <1>5, <2>3 DEF Least
<1>10. row \in Nat
  BY <1>4, <1>9
<1>11. PICK K \in Nat : K = end - start /\ K > 0 /\ \A k \in 1..K : start + k \in 1..N
  <2>1. end - start \in Nat /\ end - start > 0 /\ \A k \in 1..(end - start) : start + k \in 1..N
    BY <1>8
  <2> QED BY <2>1
<1>12. /\ \A k \in 1..K : window.lines[k] = start + k
       /\ window.skip = row - f[start] /\ row - f[start] \in Nat
  <2>1. start \in 0..N
    BY <1>8
  <2>2. f[start] \in Nat
    BY <1>2, <2>1
  <2>3. row - f[start] \in Nat
    BY <1>8, <1>10, <2>2
  <2>4. PICK lined, skip : lined = [k \in 1..(end - start) |-> start + k] /\ skip = row - f[start]
    OBVIOUS
  <2>5. window = [lines |-> lined, skip |-> skip]
    BY <1>8, <2>4
  <2>6. window.lines = lined /\ window.skip = skip
    BY <2>5
  <2>7. \A k \in 1..K : lined[k] = start + k
    BY <1>11, <2>4
  <2> QED BY <2>3, <2>4, <2>6, <2>7
<1>13. Len(window.lines) = K
  BY <1>8, <1>11
<1>14. whole \in Seq(Nat \X Nat) /\ Len(whole) = f[N]
  BY <1>1 DEF Wholes
<1>15. ASSUME NEW k \in 1..K PROVE row < f[start + k]
  <2>0. start + k \in 1..N
    BY <1>11
  <2>1. start + 1 \in 0..(start + k) /\ start + k \in 0..N /\ start + 1 \in 0..N
    BY <2>0
  <2>2. f[start + 1] <= f[start + k]
    BY <1>1, <2>1, SumsGrow
  <2>3. f[start + 1] \in Nat /\ f[start + k] \in Nat
    BY <1>2, <2>1
  <2> QED BY <1>8, <1>10, <2>2, <2>3
<1>16. PICK base : base = [rows |-> <<>>, budget |-> height, skip |-> row - f[start], sound |-> TRUE]
  OBVIOUS
<1>17. Gives(base, whole, f, row, height, start)
  <2>1. PICK a \in Nat : a = f[start] /\ a <= row
    <3>1. start \in 0..N
      BY <1>8
    <3> QED BY <1>2, <1>8, <3>1
  <2>2. Most(a, row) = row /\ Less(row, a) = row - a
    BY <1>10, <2>1 DEF Most, Less
  <2>3. Least(row + height, row) = row /\ Less(row + height, row) = height
    <3>4. height \in Nat
      BY <1>5
    <3>5. row + height \in Nat /\ row <= row + height /\ (row + height) - row = height
      BY ONLY <1>10, <3>4
    <3>1. PICK h \in Nat : h = row + height /\ row <= h /\ h - row = height
      BY <3>5
    <3>2. Least(h, row) = row
      BY <1>10, <3>1, LeastIs
    <3>3. Less(h, row) = height
      BY <1>10, <3>1, LessIs
    <3> QED BY <3>1, <3>2, <3>3
  <2>4. SubSeq(whole, row + 1, row) = <<>>
    BY <1>10, <1>14
  <2> QED BY <1>16, <2>1, <2>2, <2>3, <2>4 DEF Gives
<1>18. PICK V : V = [rows : Seq(Nat \X Nat), budget : Nat, skip : Nat, sound : BOOLEAN]
  OBVIOUS
<1>19. base \in V
  <2>1. <<>> \in Seq(Nat \X Nat)
    OBVIOUS
  <2> QED BY <1>5, <1>12, <1>16, <1>18, <2>1
<1>20. ASSUME NEW k \in 1..K, NEW acc, Gives(acc, whole, f, row, height, start + k - 1)
       PROVE  Gives(AddLine(lines, index, acc, start + k), whole, f, row, height, start + k)
  <2>1. PICK i \in 1..N : i = start + k
    BY <1>11
  <2>2. i \in 1..Len(lines) /\ row < f[i]
    BY <1>1, <1>15, <2>1
  <2>3. Gives(acc, whole, f, row, height, i - 1)
    BY <1>20, <2>1
  <2>4. Gives(AddLine(lines, index, acc, i), whole, f, row, height, i)
    BY <1>9, <2>2, <2>3, GivesLine
  <2> QED BY <2>1, <2>4
<1>21. ASSUME NEW k \in 1..K, NEW acc \in V, Gives(acc, whole, f, row, height, start + k - 1)
       PROVE  AddLine(lines, index, acc, start + k) \in V
  <2>1. PICK next : next = AddLine(lines, index, acc, start + k)
    OBVIOUS
  <2>2. Gives(next, whole, f, row, height, start + k)
    BY <1>20, <1>21, <2>1
  <2>3. next = acc \/ \E rows, budget, sane : next = [rows |-> rows, budget |-> budget, skip |-> 0, sound |-> sane]
    BY <2>1 DEF AddLine
  <2>4. CASE next # acc
    <3>1. PICK rows, budget, sane : next = [rows |-> rows, budget |-> budget, skip |-> 0, sound |-> sane]
      BY <2>3, <2>4
    <3>2. PICK b \in Nat : b = f[start + k]
      <4>1. start + k \in 1..N
        BY <1>11
      <4>2. start + k \in 0..N
        BY <4>1
      <4> QED BY <1>2, <4>2
    <3>3. PICK h \in Nat, m \in Nat, l \in Nat : h = row + height /\ m = Most(b, row) /\ l = Least(h, m)
      <4>1. row + height \in Nat /\ Most(b, row) \in Nat
        BY <1>5, <1>10 DEF Most
      <4> QED BY <4>1 DEF Least
    <3>4. next.rows = SubSeq(whole, row + 1, l) /\ next.budget = Less(h, m) /\ next.sound = TRUE
      BY <2>2, <3>2, <3>3 DEF Gives
    <3>5. Less(h, m) \in Nat
      BY DEF Less
    <3>6. l <= f[N]
      <4>1. end \in 0..N /\ start + k \in 0..N /\ N \in 0..Len(lines)
        BY <1>1, <1>8, <1>11
      <4>2. b <= f[N]
        BY <1>1, <3>2, <4>1, SumsGrow
      <4>3. row < b
        BY <1>15, <3>2
      <4>4. row \in Nat
        BY <1>10
      <4>5. m = b
        BY ONLY <3>3, <4>3, <4>4, b \in Nat DEF Most
      <4>6. l <= m
        BY ONLY <3>3, h \in Nat, m \in Nat DEF Least
      <4>7. f[N] \in Nat
        BY <1>2, <4>1
      <4> QED BY ONLY <4>2, <4>5, <4>6, <4>7, b \in Nat, l \in Nat
    <3>7. ASSUME NEW n \in (row + 1)..l PROVE whole[n] \in Nat \X Nat
      <4>2. Len(whole) \in Nat /\ l <= Len(whole) /\ row \in Nat
        BY <1>6, <1>10, <1>14, <3>6
      <4>1. n \in 1..Len(whole)
        BY ONLY <4>2, n \in (row + 1)..l, l \in Nat
      <4>3. PICK P : P = Nat \X Nat
        OBVIOUS
      <4>4. whole \in Seq(P)
        BY <1>14, <4>3
      <4>5. whole[n] \in P
        BY ONLY <4>1, <4>4, ElementOfSeq
      <4> QED BY <4>3, <4>5
    <3>8. SubSeq(whole, row + 1, l) \in Seq(Nat \X Nat)
      BY <1>10, <1>14, <3>6, <3>7, SubSeqProperties
    <3>9. rows \in Seq(Nat \X Nat) /\ budget \in Nat /\ sane = TRUE
      BY <3>1, <3>4, <3>5, <3>8
    <3>10. PICK P : P = Seq(Nat \X Nat)
      OBVIOUS
    <3>11. rows \in P /\ budget \in Nat /\ 0 \in Nat /\ sane \in BOOLEAN
      BY <3>9, <3>10
    <3>12. next \in [rows : P, budget : Nat, skip : Nat, sound : BOOLEAN]
      BY <3>1, <3>11
    <3> QED BY <1>18, <2>1, <3>10, <3>12
  <2> QED BY <2>1, <2>4
<1>22. PICK op : op = [w \in (1..K) \X V |->
                         IF Gives(w[2], whole, f, row, height, start + w[1] - 1)
                         THEN AddLine(lines, index, w[2], start + w[1]) ELSE w[2]]
  OBVIOUS
<1>23. op \in [(1..K) \X V -> V]
  BY <1>21, <1>22
<1>24. PICK r \in [0..K -> V] : Recurs(r, K, base, op)
  BY <1>19, <1>23, RecursExist
<1>25. ASSUME NEW k \in 1..K
       PROVE  r[k] = IF Gives(r[k - 1], whole, f, row, height, start + k - 1)
                     THEN AddLine(lines, index, r[k - 1], start + k) ELSE r[k - 1]
  <2>1. k \in 0..K /\ k - 1 \in 0..K /\ k # 0
    OBVIOUS
  <2>2. r[k] = op[<<k, r[k - 1]>>] /\ r[k - 1] \in V
    BY <1>24, <2>1 DEF Recurs
  <2> QED BY <1>22, <2>2
<1>26. r[0] = base
  BY <1>24 DEF Recurs
<1>27. \A k \in 0..K : Gives(r[k], whole, f, row, height, start + k)
  <2>1. PICK G : G = {k \in 0..K : Gives(r[k], whole, f, row, height, start + k)}
    OBVIOUS
  <2>2. 0 \in G
    BY <1>17, <1>26, <2>1
  <2>3. ASSUME NEW k \in 1..K, k - 1 \in G PROVE k \in G
    <3>1. start + (k - 1) = start + k - 1
      OBVIOUS
    <3>2. Gives(r[k - 1], whole, f, row, height, start + k - 1)
      BY <2>1, <2>3, <3>1
    <3>3. Gives(r[k], whole, f, row, height, start + k)
      BY <1>20, <1>25, <3>2
    <3> QED BY <2>1, <3>3
  <2>4. \A k \in 0..K : k \in G
    BY <2>2, <2>3, Upward
  <2> QED BY <2>1, <2>4
<1>28. ASSUME NEW k \in 0..K PROVE r[k] = IF k = 0 THEN base ELSE AddLine(lines, index, r[k - 1], window.lines[k])
  <2>1. CASE k = 0
    BY <1>26, <2>1
  <2>2. CASE k # 0
    <3>1. k \in 1..K /\ k - 1 \in 0..K /\ start + (k - 1) = start + k - 1
      BY <2>2
    <3>2. Gives(r[k - 1], whole, f, row, height, start + k - 1)
      BY <1>27, <3>1
    <3> QED BY <1>12, <1>25, <2>2, <3>1, <3>2
  <2> QED BY <2>1, <2>2
<1>29. r = [k \in 0..Len(window.lines) |-> IF k = 0 THEN base ELSE AddLine(lines, index, r[k - 1], window.lines[k])]
  BY <1>13, <1>24, <1>28 DEF Recurs
<1>30. PICK g : g = CHOOSE x : x = [k \in 0..Len(window.lines) |->
                                      IF k = 0 THEN base ELSE AddLine(lines, index, x[k - 1], window.lines[k])]
  OBVIOUS
<1>31. g = [k \in 0..Len(window.lines) |-> IF k = 0 THEN base ELSE AddLine(lines, index, g[k - 1], window.lines[k])]
  BY <1>29, <1>30
<1>32. WindowLines(lines, index, offset, height) = g[K]
  BY <1>3, <1>12, <1>13, <1>16, <1>30 DEF WindowLines
<1>33. \A k \in 0..K : Gives(g[k], whole, f, row, height, start + k)
  <2>1. PICK G : G = {k \in 0..K : Gives(g[k], whole, f, row, height, start + k)}
    OBVIOUS
  <2>2. 0 \in G
    <3>1. g[0] = base
      BY <1>13, <1>31
    <3> QED BY <1>17, <2>1, <3>1
  <2>3. ASSUME NEW k \in 1..K, k - 1 \in G PROVE k \in G
    <3>1. start + (k - 1) = start + k - 1 /\ k \in 0..K /\ k # 0
      OBVIOUS
    <3>2. Gives(g[k - 1], whole, f, row, height, start + k - 1)
      BY <2>1, <2>3, <3>1
    <3>3. g[k] = AddLine(lines, index, g[k - 1], start + k)
      BY <1>12, <1>13, <1>31, <3>1
    <3>4. Gives(g[k], whole, f, row, height, start + k)
      BY <1>20, <3>2, <3>3
    <3> QED BY <2>1, <3>1, <3>4
  <2>4. \A k \in 0..K : k \in G
    BY <2>2, <2>3, Upward
  <2> QED BY <2>1, <2>4
<1>34. Gives(g[K], whole, f, row, height, end)
  <2>1. K \in 0..K /\ start + K = end
    BY <1>8, <1>11
  <2> QED BY <1>33, <2>1
<1>35. Least(row + height, Most(f[end], row)) = Least(row + height, Len(whole))
  <2>1. PICK b \in Nat, total \in Nat, h \in Nat : b = f[end] /\ total = f[N] /\ h = row + height
    <3>1. end \in 0..N
      BY <1>8
    <3>2. row + height \in Nat
      BY <1>5, <1>10
    <3>3. f[end] \in Nat /\ f[N] \in Nat
      BY <1>2, <1>6, <3>1
    <3> QED BY <3>2, <3>3
  <2>2. b = total \/ h <= b
    BY <1>8, <2>1
  <2>3. row < b
    <3>1. K \in 1..K /\ start + K = end
      BY <1>8, <1>11
    <3> QED BY <1>15, <2>1, <3>1
  <2>4. b <= total
    <3>1. end \in 0..N /\ N \in 0..Len(lines)
      BY <1>1, <1>8
    <3> QED BY <1>1, <2>1, <3>1, SumsGrow
  <2>5. Most(b, row) = b
    BY <1>10, <2>3 DEF Most
  <2>6. Least(h, b) = Least(h, total)
    BY <2>2, <2>4 DEF Least
  <2> QED BY <1>14, <2>1, <2>5, <2>6
<1> QED BY <1>32, <1>34, <1>35 DEF Gives, Windowed

-----------------------------------------------------------------------------
(* The gauge.                                                              *)

\* How far a gauge goes.
Goes(g, total, visible) ==
  MaxOffset(g) \in Nat /\ (total <= visible => MaxOffset(g) = 0) /\ (total > visible => MaxOffset(g) > 0)

LEMMA GaugeIs ==
  ASSUME PaneBounds, NEW total \in Nat, NEW visible \in Nat, NEW offset \in Nat, NEW g, g = Gauge(total, visible, offset)
  PROVE  /\ g = [total |-> g.total, visible |-> visible, offset |-> g.offset]
         /\ g.total \in Nat /\ g.visible = visible /\ g.offset \in 0..U16Max /\ g.offset <= offset
         /\ MaxOffset(g) \in Nat /\ g.offset <= MaxOffset(g)
         /\ (total <= visible => MaxOffset(g) = 0)
         /\ (total > visible => MaxOffset(g) > 0 /\ MaxOffset(g) <= total - visible /\ g.total = visible + MaxOffset(g))
<1>1. PICK deep \in Nat : deep = U16Max /\ deep > 0
  BY DEF PaneBounds
<1>2. PICK bounded \in Nat : /\ bounded = Least(total, deep + visible) /\ bounded <= total /\ bounded <= deep + visible
                             /\ (bounded = total \/ bounded = deep + visible)
  BY DEF Least
<1>3. PICK rest \in Nat : rest = Less(bounded, visible) /\ (bounded <= visible => rest = 0) /\ (bounded > visible => bounded = visible + rest)
  <2>1. CASE bounded > visible
    <3>1. bounded - visible \in Nat /\ bounded = visible + (bounded - visible)
      BY <2>1
    <3>2. Less(bounded, visible) = bounded - visible
      BY <2>1 DEF Less
    <3> QED BY <2>1, <3>1, <3>2
  <2>2. CASE ~(bounded > visible)
    BY <2>2 DEF Less
  <2> QED BY <2>1, <2>2
<1>4. rest <= deep /\ (total <= visible => rest = 0) /\ (total > visible => rest > 0 /\ rest <= total - visible /\ bounded = visible + rest)
  BY <1>1, <1>2, <1>3
<1>5. Least(rest, deep) = rest
  BY <1>4 DEF Least
<1>6. PICK top \in Nat : top = Least(offset, rest) /\ top <= offset /\ top <= rest
  BY DEF Least
<1>7. g = [total |-> bounded, visible |-> visible, offset |-> top]
  BY <1>1, <1>2, <1>3, <1>5, <1>6 DEF Gauge
<1>8. g.total = bounded /\ g.visible = visible /\ g.offset = top
  BY <1>7
<1>9. MaxOffset(g) = rest
  BY <1>1, <1>3, <1>5, <1>8 DEF MaxOffset
<1>10. top \in 0..U16Max
  BY <1>1, <1>4, <1>6
<1> QED BY <1>4, <1>6, <1>7, <1>8, <1>9, <1>10

LEMMA GaugeGoes ==
  ASSUME PaneBounds, NEW total \in Nat, NEW visible \in Nat, NEW offset \in Nat
  PROVE  Goes(Gauge(total, visible, offset), total, visible)
<1>1. PICK g : g = Gauge(total, visible, offset)
  OBVIOUS
<1> QED BY <1>1, GaugeIs DEF Goes

(* A bar of more than a row ends where the text ends.                      *)
LEMMA ThumbIs ==
  ASSUME NEW g, NEW M \in Nat, M = MaxOffset(g), M > 0, g.offset \in 0..M, g.total \in Nat, g.visible \in Nat,
         NEW track \in Nat, track > 1
  PROVE  /\ TrackOffset(g, track, 0) = 0
         /\ TrackOffset(g, track, track - 1) = M
         /\ (ThumbRange(g, track).start = 0) = (g.offset = 0)
         /\ g.offset = M => ThumbRange(g, track).start + ThumbRange(g, track).len = track
<1>1. PICK last \in Nat : last = track - 1 /\ last > 0 /\ last < track
  OBVIOUS
<1>2. Less(track, 1) = last
  BY <1>1 DEF Less
<1>3. PICK half \in Nat : half = last \div 2 /\ half < last
  BY <1>1
<1>4. TrackOffset(g, track, 0) = 0
  <2>1. Least(0, last) = 0 /\ 0 * M + half = half
    BY <1>3 DEF Least
  <2>2. (0 * last + half) \div last = 0
    BY <1>3, DivOf
  <2>3. half \div last = 0
    BY <1>3, <2>2
  <2> QED BY <1>1, <1>2, <1>3, <2>1, <2>3 DEF TrackOffset
<1>5. TrackOffset(g, track, track - 1) = M
  <2>1. Least(last, last) = last /\ last * M = M * last
    BY DEF Least
  <2>2. (M * last + half) \div last = M
    BY <1>3, DivOf
  <2>3. TrackOffset(g, track, last) = (Least(last, last) * M + half) \div last
    BY <1>1, <1>2, <1>3 DEF TrackOffset
  <2> QED BY <1>1, <2>1, <2>2, <2>3
<1>6. PICK O \in Nat, V \in Nat, T \in Nat : O = g.offset /\ V = g.visible /\ T = g.total /\ O <= M
  OBVIOUS
<1>7. Most(last, 1) = last
  BY <1>1 DEF Most
<1>8. PICK size1 \in Nat : size1 = DivUp(V * track, Most(T, 1))
  <2>1. PICK t \in Nat : t = Most(T, 1) /\ t > 0
    BY DEF Most
  <2>2. V * track \in Nat
    OBVIOUS
  <2>3. PICK p \in Nat : p = V * track
    BY <2>2
  <2>4. p + t - 1 \in Nat
    BY <2>1
  <2>5. (p + t - 1) \div t \in Nat
    BY <2>1, <2>4, DivIs
  <2> QED BY <2>1, <2>3, <2>5 DEF DivUp
<1>9. PICK len \in Nat : len = Least(Most(size1, 1), last) /\ len <= last /\ len > 0
  BY <1>1 DEF Least, Most
<1>10. PICK room \in Nat : room = track - len /\ room > 0
  BY <1>1, <1>9
<1>11. PICK x \in Nat : x = O * room
  OBVIOUS
<1>12. PICK d \in Nat : d = DivUp(x, M) /\ M * d <= x + M - 1 /\ x + M - 1 < M * d + M
  <2>1. PICK y \in Nat : y = x + M - 1
    OBVIOUS
  <2>2. y \div M \in Nat /\ M * (y \div M) <= y /\ y < M * (y \div M) + M
    BY DivIs
  <2>3. PICK d \in Nat : d = y \div M
    BY <2>2
  <2>4. d = DivUp(x, M)
    BY <2>1, <2>3 DEF DivUp
  <2> QED BY <2>1, <2>2, <2>3, <2>4
<1>13. PICK start \in Nat : start = Least(d, room)
  BY DEF Least
<1>14. ThumbRange(g, track) = [start |-> start, len |-> len]
  <2>1. track # 0 /\ M # 0
    OBVIOUS
  <2>2. Least(Most(DivUp(g.visible * track, Most(g.total, 1)), 1), Most(Less(track, 1), 1)) = len
    BY <1>2, <1>6, <1>7, <1>8, <1>9
  <2>3. Least(DivUp(g.offset * (track - len), M), track - len) = start
    BY <1>6, <1>10, <1>11, <1>12, <1>13
  <2> QED BY <2>1, <2>2, <2>3 DEF ThumbRange
<1>15. O = 0 => d = 0
  <2>1. SUFFICES ASSUME O = 0 PROVE d = 0
    OBVIOUS
  <2>2. x = 0
    BY <1>11, <2>1
  <2>3. M * d < M
    BY <1>12, <2>2
  <2>4. d > 0 => M * d >= M
    OBVIOUS
  <2> QED BY <2>3, <2>4
<1>16. O # 0 => d > 0
  <2>1. SUFFICES ASSUME O # 0, d = 0 PROVE FALSE
    OBVIOUS
  <2>2. x > 0
    BY <1>10, <1>11, <2>1
  <2> QED BY <1>12, <2>1, <2>2
<1>17. O = M => d = room
  <2>1. SUFFICES ASSUME O = M PROVE d = room
    OBVIOUS
  <2>2. x = room * M /\ M - 1 \in Nat /\ M - 1 < M
    BY <1>11, <2>1
  <2>3. (room * M + (M - 1)) \div M = room
    BY <2>2, DivOf
  <2>4. d = (x + M - 1) \div M
    BY <1>12 DEF DivUp
  <2>5. x + M - 1 = room * M + (M - 1)
    BY <2>2
  <2> QED BY <2>3, <2>4, <2>5
<1>18. (start = 0) = (O = 0)
  BY <1>10, <1>13, <1>15, <1>16 DEF Least
<1>19. O = M => start + len = track
  BY <1>10, <1>13, <1>17 DEF Least
<1>20. ThumbRange(g, track).start = start /\ ThumbRange(g, track).len = len
  BY <1>14
<1> QED BY <1>4, <1>5, <1>6, <1>18, <1>19, <1>20

-----------------------------------------------------------------------------
(* The counts and the index of a pane.                                     *)

LEMMA Counted ==
  ASSUME PaneBounds, NEW lines \in Seq(Nat), NEW width \in Nat, NEW viewport \in Nat, viewport >= ChunkRows
  PROVE  /\ WrappedRows(lines, width) \in Nat /\ (width = 0 => WrappedRows(lines, width) = 0)
         /\ Total(RowIndex(lines, width, viewport)) \in Nat
         /\ RowIndex(lines, width, viewport).width = width /\ RowIndex(lines, width, viewport) # None
         /\ width > 0 => /\ WrappedRows(lines, width) > 0
                         /\ Total(RowIndex(lines, width, viewport)) = WrappedRows(lines, width)
                         /\ Len(WholeText(lines, width)) = WrappedRows(lines, width)
<1>1. None \notin [cum : Seq(Nat), kept : Seq(Nat \cup {None}), width : Nat]
  BY DEF PaneBounds
<1>2. CASE lines = <<>>
  <2>1. /\ RowIndex(lines, width, viewport) # None /\ RowIndex(lines, width, viewport).width = width
        /\ Total(RowIndex(lines, width, viewport)) = 1
    BY <1>1, <1>2, EmptyIndex
  <2>2. WrappedRows(lines, width) = IF width = 0 THEN 0 ELSE 1
    BY <1>2 DEF WrappedRows
  <2>3. width > 0 => Len(WholeText(lines, width)) = 1
    BY <1>2 DEF WholeText
  <2> QED BY <2>1, <2>2, <2>3
<1>3. CASE lines # <<>>
  <2>1. PICK N \in Nat : N = Len(lines) /\ N > 0
    BY <1>3
  <2>2. PICK f : f = RowsAbove(lines, width) /\ Sums(f, lines, width)
    BY RowsAboveSums
  <2>3. f[N] \in Nat /\ f[0] = 0 /\ N \in 0..N /\ 0 \in 0..(N - 1)
    BY <2>1, <2>2 DEF Sums
  <2>4. width > 0 => f[N] > 0
    BY <2>1, <2>2, <2>3, SumsGrow
  <2>9. /\ Indexes(RowIndex(lines, width, viewport), RowsAbove(lines, width), lines, width, viewport)
        /\ RowIndex(lines, width, viewport) \in [cum : Seq(Nat), kept : Seq(Nat \cup {None}), width : Nat]
        /\ Total(RowIndex(lines, width, viewport)) = RowsAbove(lines, width)[Len(lines)]
    BY <1>3, IndexIs
  <2>5. /\ RowIndex(lines, width, viewport) # None /\ Total(RowIndex(lines, width, viewport)) = f[N]
        /\ Indexes(RowIndex(lines, width, viewport), f, lines, width, viewport)
    BY <1>1, <2>1, <2>2, <2>9
  <2>6. RowIndex(lines, width, viewport).width = width
    BY <2>5 DEF Indexes
  <2>7. WrappedRows(lines, width) = IF width = 0 THEN 0 ELSE f[N]
    BY <1>3, <2>1, <2>2 DEF WrappedRows
  <2>8. width > 0 => Len(WholeText(lines, width)) = f[N]
    <3>1. SUFFICES ASSUME width > 0 PROVE Len(WholeText(lines, width)) = f[N]
      OBVIOUS
    <3>2. Wholes(WholeText(lines, width), f, lines, width)
      BY <1>3, <2>2, <3>1, WholeIs
    <3> QED BY <2>1, <3>2 DEF Wholes
  <2> QED BY <2>3, <2>4, <2>5, <2>6, <2>7, <2>8
<1> QED BY <1>2, <1>3

\* Whether a text overflows a pane, at both widths; and the width left.
Overflows(lines, inner) ==
  inner.w >= 2 /\ WrappedRows(lines, inner.w) > inner.h /\ WrappedRows(lines, inner.w - 1) > inner.h
Content(lines, inner) == IF Overflows(lines, inner) THEN inner.w - 1 ELSE inner.w

\* What is kept of a text at a width is right; at a width and a height it can be
\* drawn from.
Right(rows, lines, width) ==
  /\ rows = [index |-> rows.index, full |-> rows.full, narrow |-> rows.narrow, viewport |-> rows.viewport]
  /\ rows.viewport \in Nat /\ rows.viewport >= ChunkRows /\ rows.full = WrappedRows(lines, width)
  /\ rows.narrow = None \/ (width >= 2 /\ rows.narrow = WrappedRows(lines, width - 1))
  /\ \/ rows.index = RowIndex(lines, width, rows.viewport)
     \/ width >= 2 /\ rows.index = RowIndex(lines, width - 1, rows.viewport)
Ready(rows, lines, inner) ==
  /\ Right(rows, lines, inner.w) /\ rows.viewport >= inner.h
  /\ HasBar(rows, inner) = Overflows(lines, inner)
  /\ rows.full <= inner.h \/ inner.w < 2 \/ rows.narrow # None
  /\ rows.index = RowIndex(lines, Content(lines, inner), rows.viewport)

LEMMA PaneRowsReady ==
  ASSUME PaneBounds, NEW lines \in Seq(Nat), NEW inner \in [w : Nat, h : Nat]
  PROVE  Ready(PaneRows(lines, inner.w, inner.h), lines, inner)
<1>1. PICK W \in Nat, H \in Nat : W = inner.w /\ H = inner.h
  OBVIOUS
<1>2. ChunkRows \in Nat /\ None \notin Nat
  BY DEF PaneBounds
<1>3. PICK viewport \in Nat : viewport = Most(H, ChunkRows) /\ viewport >= ChunkRows /\ viewport >= H
  BY <1>2, MostIs
<1>4. PICK full \in Nat : full = WrappedRows(lines, W)
  BY <1>3, Counted
<1>5. PICK wide : wide = RowIndex(lines, W, viewport)
  OBVIOUS
<1>6. PICK rows : rows = PaneRows(lines, W, H)
  OBVIOUS
<1>7. CASE ~(full > H /\ W >= 2)
  <2>1. rows = [index |-> wide, full |-> full, narrow |-> None, viewport |-> viewport]
    BY <1>3, <1>4, <1>5, <1>6, <1>7 DEF PaneRows
  <2>2. rows.index = wide /\ rows.full = full /\ rows.narrow = None /\ rows.viewport = viewport
    BY <2>1
  <2>3. Right(rows, lines, W)
    BY <1>3, <1>4, <1>5, <2>1, <2>2 DEF Right
  <2>4. ~Overflows(lines, inner) /\ ~HasBar(rows, inner) /\ Content(lines, inner) = W
    BY <1>1, <1>4, <1>7, <2>2 DEF Overflows, HasBar, Content
  <2>5. rows.full <= H \/ W < 2 \/ rows.narrow # None
    BY <1>7, <2>2
  <2>6. rows.index = RowIndex(lines, W, rows.viewport) /\ rows.viewport >= H
    BY <1>3, <1>5, <2>2
  <2>7. HasBar(rows, inner) = Overflows(lines, inner)
    BY <2>4 DEF HasBar, Overflows
  <2> QED BY <1>1, <1>6, <2>3, <2>4, <2>5, <2>6, <2>7 DEF Ready
<1>8. CASE full > H /\ W >= 2
  <2>1. PICK less \in Nat : less = W - 1 /\ less > 0
    <3>1. W - 1 \in Nat /\ W - 1 > 0
      BY <1>8
    <3> QED BY <3>1
  <2>2. PICK narrow : narrow = RowIndex(lines, less, viewport)
    OBVIOUS
  <2>3. PICK total \in Nat : total = Total(narrow) /\ narrow # None /\ total = WrappedRows(lines, less)
    BY <1>3, <2>1, <2>2, Counted
  <2>4. rows = [index |-> IF total > H THEN narrow ELSE wide, full |-> full, narrow |-> total, viewport |-> viewport]
    BY <1>3, <1>4, <1>5, <1>6, <1>8, <2>1, <2>2, <2>3 DEF PaneRows
  <2>5. rows.index = (IF total > H THEN narrow ELSE wide) /\ rows.full = full /\ rows.narrow = total /\ rows.viewport = viewport
    BY <2>4
  <2>6. rows = [index |-> rows.index, full |-> rows.full, narrow |-> rows.narrow, viewport |-> rows.viewport]
    BY <2>4, <2>5
  <2>7. Right(rows, lines, W)
    BY <1>3, <1>4, <1>5, <1>8, <2>1, <2>2, <2>3, <2>5, <2>6 DEF Right
  <2>8. Overflows(lines, inner) <=> total > H
    BY <1>1, <1>4, <1>8, <2>1, <2>3 DEF Overflows
  <2>9. HasBar(rows, inner) <=> total > H
    BY <1>1, <1>2, <1>8, <2>3, <2>5 DEF HasBar
  <2>10. HasBar(rows, inner) = Overflows(lines, inner)
    BY <2>8, <2>9 DEF HasBar, Overflows
  <2>11. rows.index = RowIndex(lines, Content(lines, inner), rows.viewport)
    BY <1>1, <1>5, <2>1, <2>2, <2>5, <2>8 DEF Content
  <2>12. rows.narrow # None /\ rows.viewport >= H
    BY <1>2, <1>3, <2>5
  <2> QED BY <1>1, <1>6, <2>7, <2>10, <2>11, <2>12 DEF Ready
<1> QED BY <1>7, <1>8

LEMMA RetargetReady ==
  ASSUME PaneBounds, NEW lines \in Seq(Nat), NEW inner \in [w : Nat, h : Nat], NEW rows, Right(rows, lines, inner.w)
  PROVE  Ready(PaneRetarget(rows, lines, inner), lines, inner)
<1>1. PICK W \in Nat, H \in Nat : W = inner.w /\ H = inner.h
  OBVIOUS
<1>2. ChunkRows \in Nat /\ None \notin Nat
  BY DEF PaneBounds
<1>12. PICK old \in Nat : old = rows.viewport
  BY DEF Right
<1>13. PICK index, full, narrow : index = rows.index /\ full = rows.full /\ narrow = rows.narrow
  OBVIOUS
<1>3. /\ rows = [index |-> index, full |-> full, narrow |-> narrow, viewport |-> old]
      /\ old >= ChunkRows /\ full = WrappedRows(lines, W)
      /\ narrow = None \/ (W >= 2 /\ narrow = WrappedRows(lines, W - 1))
      /\ \/ index = RowIndex(lines, W, old)
         \/ W >= 2 /\ index = RowIndex(lines, W - 1, old)
  BY <1>1, <1>12, <1>13 DEF Right
<1>4. full \in Nat
  BY <1>3, Counted
<1>5. PICK viewport \in Nat : viewport = Most(old, H) /\ viewport >= old /\ viewport >= H /\ (H <= old => viewport = old)
  <2>1. Most(old, H) \in Nat
    BY DEF Most
  <2> QED BY <2>1 DEF Most
<1>6. viewport >= ChunkRows
  BY <1>2, <1>3, <1>5
<1>7. W >= 2 => W - 1 \in Nat /\ WrappedRows(lines, W - 1) \in Nat
  <2>1. SUFFICES ASSUME W >= 2 PROVE W - 1 \in Nat /\ WrappedRows(lines, W - 1) \in Nat
    OBVIOUS
  <2>2. PICK less \in Nat : less = W - 1
    BY <2>1
  <2> QED BY <1>3, <2>2, Counted
\* The index aimed at the width the bar leaves.
<1>8. ASSUME NEW count, count = None \/ (W >= 2 /\ count = WrappedRows(lines, W - 1)),
             full <= H \/ W < 2 \/ count # None,
             NEW counted, counted = [index |-> index, full |-> full, narrow |-> count, viewport |-> viewport],
             NEW content, content = (IF HasBar(counted, inner) THEN inner.w - 1 ELSE inner.w),
             NEW aimed, aimed = IF rows.index.width # content \/ inner.h > rows.viewport
                                THEN [counted EXCEPT !.index = RowIndex(lines, content, viewport)] ELSE counted
      PROVE  Ready(aimed, lines, inner)
  <2>1. PICK kept : aimed = [index |-> kept, full |-> full, narrow |-> count, viewport |-> viewport]
    BY <1>8
  <2>2. aimed.index = kept /\ aimed.full = full /\ aimed.narrow = count /\ aimed.viewport = viewport
    BY <2>1
  <2>3. HasBar(counted, inner) <=> full > H /\ count # None /\ count > H /\ W >= 2
    BY <1>1, <1>8 DEF HasBar
  <2>4. HasBar(aimed, inner) <=> full > H /\ count # None /\ count > H /\ W >= 2
    BY <1>1, <2>2 DEF HasBar
  <2>5. Overflows(lines, inner) <=> full > H /\ count # None /\ count > H /\ W >= 2
    <3>1. Overflows(lines, inner) <=> W >= 2 /\ full > H /\ WrappedRows(lines, W - 1) > H
      BY <1>1, <1>3 DEF Overflows
    <3>2. W >= 2 /\ full > H => count # None /\ count = WrappedRows(lines, W - 1)
      BY <1>1, <1>4, <1>8
    <3> QED BY <3>1, <3>2
  <2>6. content = Content(lines, inner) /\ content \in {W, W - 1} /\ (content # W => W >= 2)
    BY <1>1, <1>8, <2>3, <2>5 DEF Content
  <2>7. content \in Nat
    BY <1>7, <2>6
  <2>8. kept = RowIndex(lines, content, viewport)
    <3>1. CASE rows.index.width # content \/ inner.h > rows.viewport
      BY <1>8, <2>1, <3>1
    <3>2. CASE ~(rows.index.width # content \/ inner.h > rows.viewport)
      <4>1. index.width = content /\ viewport = old /\ kept = index
        BY <1>1, <1>3, <1>5, <1>8, <2>1, <3>2
      <4>2. index = RowIndex(lines, content, old)
        <5>1. RowIndex(lines, W, old).width = W
          BY <1>3, Counted
        <5>2. CASE W >= 2 /\ index = RowIndex(lines, W - 1, old)
          <6>1. PICK less \in Nat : less = W - 1
            BY <1>7, <5>2
          <6>2. RowIndex(lines, less, old).width = less
            BY <1>3, Counted
          <6> QED BY <4>1, <5>2, <6>1, <6>2
        <5> QED BY <1>3, <4>1, <5>1, <5>2
      <4> QED BY <4>1, <4>2
    <3> QED BY <3>1, <3>2
  <2>9. Right(aimed, lines, W)
    BY <1>3, <1>6, <1>8, <2>1, <2>2, <2>6, <2>8 DEF Right
  <2>10. HasBar(aimed, inner) = Overflows(lines, inner)
    BY <2>4, <2>5 DEF HasBar, Overflows
  <2>11. /\ aimed.full <= H \/ W < 2 \/ aimed.narrow # None
         /\ aimed.viewport >= H /\ aimed.index = RowIndex(lines, Content(lines, inner), aimed.viewport)
    BY <1>5, <1>8, <2>2, <2>6, <2>8
  <2> QED BY <1>1, <2>9, <2>10, <2>11 DEF Ready
<1>9. rows.full = full /\ rows.narrow = narrow /\ rows.viewport = old /\ rows.index = index
  BY <1>3
<1>10. CASE ~(full > H /\ W >= 2 /\ narrow = None)
  <2>1. PICK counted : counted = [index |-> index, full |-> full, narrow |-> narrow, viewport |-> viewport]
    OBVIOUS
  <2>9. rows = [index |-> index, full |-> full, narrow |-> narrow, viewport |-> old]
    BY <1>3
  <2>2. counted = [rows EXCEPT !.viewport = viewport]
    BY ONLY <2>1, <2>9
  <2>3. PICK content : content = IF HasBar(counted, inner) THEN inner.w - 1 ELSE inner.w
    OBVIOUS
  <2>4. PICK aimed : aimed = IF rows.index.width # content \/ inner.h > rows.viewport
                             THEN [counted EXCEPT !.index = RowIndex(lines, content, viewport)] ELSE counted
    OBVIOUS
  <2>5. PaneRetarget(rows, lines, inner) = aimed
    BY <1>1, <1>5, <1>9, <1>10, <2>2, <2>3, <2>4 DEF PaneRetarget
  <2>6. full <= H \/ W < 2 \/ narrow # None
    BY <1>4, <1>10
  <2>7. Ready(aimed, lines, inner)
    BY <1>3, <1>8, <2>1, <2>3, <2>4, <2>6
  <2> QED BY <2>5, <2>7
<1>11. CASE full > H /\ W >= 2 /\ narrow = None
  <2>1. PICK less \in Nat : less = W - 1 /\ less > 0
    <3>1. W - 1 > 0
      BY <1>11
    <3> QED BY <1>7, <1>11, <3>1
  <2>2. PICK idx : idx = RowIndex(lines, less, viewport)
    OBVIOUS
  <2>3. PICK count \in Nat : count = Total(idx) /\ count = WrappedRows(lines, W - 1)
    BY <1>6, <2>1, <2>2, Counted
  <2>4. CASE count > H
    <3>1. PICK next : next = [index |-> idx, full |-> full, narrow |-> count, viewport |-> viewport]
      OBVIOUS
    <3>2. next = [index |-> idx, full |-> rows.full, narrow |-> count, viewport |-> viewport]
      BY <1>9, <3>1
    <3>3. PaneRetarget(rows, lines, inner) = next
      BY <1>1, <1>5, <1>9, <1>11, <2>1, <2>2, <2>3, <2>4, <3>2 DEF PaneRetarget
    <3>4. next.index = idx /\ next.full = full /\ next.narrow = count /\ next.viewport = viewport /\ count # None
      BY <1>2, <3>1
    <3>5. Right(next, lines, W)
      BY <1>3, <1>6, <1>11, <2>1, <2>2, <2>3, <3>1, <3>4 DEF Right
    <3>6. Overflows(lines, inner) /\ HasBar(next, inner) /\ Content(lines, inner) = less
      BY <1>1, <1>3, <1>11, <2>1, <2>3, <2>4, <3>4 DEF Overflows, HasBar, Content
    <3>7. HasBar(next, inner) = Overflows(lines, inner)
      BY <3>6 DEF HasBar, Overflows
    <3>8. next.index = RowIndex(lines, Content(lines, inner), next.viewport) /\ next.viewport >= H
      BY <1>5, <2>2, <3>4, <3>6
    <3> QED BY <1>1, <3>3, <3>4, <3>5, <3>7, <3>8 DEF Ready
  <2>5. CASE ~(count > H)
    <3>1. PICK counted : counted = [index |-> index, full |-> full, narrow |-> count, viewport |-> viewport]
      OBVIOUS
    <3>2. counted = [index |-> rows.index, full |-> rows.full, narrow |-> count, viewport |-> viewport]
      BY <1>9, <3>1
    <3>3. PICK content : content = IF HasBar(counted, inner) THEN inner.w - 1 ELSE inner.w
      OBVIOUS
    <3>4. PICK aimed : aimed = IF rows.index.width # content \/ inner.h > rows.viewport
                               THEN [counted EXCEPT !.index = RowIndex(lines, content, viewport)] ELSE counted
      OBVIOUS
    <3>5. PaneRetarget(rows, lines, inner) = aimed
      BY <1>1, <1>5, <1>9, <1>11, <2>1, <2>2, <2>3, <2>5, <3>2, <3>3, <3>4 DEF PaneRetarget
    <3>6. count # None
      BY <1>2
    <3>7. Ready(aimed, lines, inner)
      BY <1>8, <1>11, <2>3, <3>1, <3>3, <3>4, <3>6
    <3> QED BY <3>5, <3>7
  <2> QED BY <2>4, <2>5
<1> QED BY <1>10, <1>11

-----------------------------------------------------------------------------
(* What is drawn.                                                          *)

(* Without a column no row is drawn, and no line of the index is asked for. *)
LEMMA NoWidth ==
  ASSUME PaneBounds, NEW lines \in Seq(Nat), NEW viewport \in Nat, viewport >= ChunkRows,
         NEW offset \in Nat, NEW height \in Nat
  PROVE  WindowLines(lines, RowIndex(lines, 0, viewport), offset, height).sound = TRUE
<1>1. CASE lines = <<>>
  BY <1>1 DEF WindowLines
<1>2. CASE lines # <<>>
  <2>1. PICK N \in Nat : N = Len(lines) /\ N > 0
    BY <1>2
  <2>2. PICK f : f = RowsAbove(lines, 0) /\ Sums(f, lines, 0)
    BY RowsAboveSums
  <2>3. \A i \in 0..N : f[i] = 0
    BY <2>1, <2>2, SumsGrow
  <2>4. PICK index : index = RowIndex(lines, 0, viewport) /\ Indexes(index, f, lines, 0, viewport) /\ Total(index) = f[N]
    BY <1>2, <2>1, <2>2, IndexIs
  <2>24. PICK cum : cum = index.cum
    OBVIOUS
  <2>25. Len(cum) = N + 1 /\ \A i \in 0..N : cum[i + 1] = f[i]
    BY <2>1, <2>4, <2>24 DEF Indexes
  <2>5. cum = index.cum /\ Len(cum) = N + 1 /\ \A i \in 0..N : cum[i + 1] = 0
    BY <2>3, <2>24, <2>25
  <2>6. DOMAIN cum = 1..(N + 1) /\ \A i \in 1..(N + 1) : cum[i] = 0
    <3>1. \A i \in 1..(N + 1) : i - 1 \in 0..N /\ (i - 1) + 1 = i
      OBVIOUS
    <3>2. DOMAIN cum = 1..(N + 1)
      BY <2>1, <2>4, <2>5, IndexIs, <1>2
    <3> QED BY <2>5, <3>1, <3>2
  <2>7. Total(index) = 0 /\ Less(0, 1) = 0 /\ Least(offset, 0) = 0
    <3>1. N \in 0..N
      OBVIOUS
    <3> QED BY <2>3, <2>4, <3>1 DEF Less, Least
  <2>8. PICK A, B : A = {i \in DOMAIN cum : cum[i] <= 0} /\ B = {i \in DOMAIN cum : cum[i] < 0 + height}
    OBVIOUS
  <2>9. A = 1..(N + 1)
    BY <2>6, <2>8
  <2>10. B = (IF height > 0 THEN 1..(N + 1) ELSE 1..0)
    BY <2>6, <2>8
  <2>11. Cardinality(A) = N + 1 /\ Cardinality(B) \in 0..(N + 1)
    <3>1. Cardinality(1..(N + 1)) = N + 1 /\ Cardinality(1..0) = 0
      BY FS_Interval
    <3> QED BY <2>9, <2>10, <3>1
  <2>12. Less(N + 1, 1) = N
    BY DEF Less
  <2>13. Least(Most(Cardinality(B), N + 1), N) = N
    <3>1. PICK e \in 0..(N + 1) : e = Cardinality(B)
      BY <2>11
    <3>2. Most(e, N + 1) = N + 1
      BY DEF Most
    <3>3. Least(N + 1, N) = N
      BY DEF Least
    <3> QED BY <3>1, <3>2, <3>3
  <2>14. PICK window : window = WindowRange(index, offset, height)
    OBVIOUS
  <2>15. window.lines = [k \in 1..(N - N) |-> N + k]
    <3>1. Len(cum) - 1 = N
      BY <2>5
    <3>2. {i \in DOMAIN index.cum : index.cum[i] <= 0} = A /\ {i \in DOMAIN index.cum : index.cum[i] < 0 + height} = B
      BY <2>5, <2>8
    <3>3. Least(offset, Less(Total(index), 1)) = 0
      BY <2>7
    <3>4. Less(Cardinality({i \in DOMAIN index.cum : index.cum[i] <= 0}), 1) = N
      BY <2>11, <2>12, <3>2
    <3>5. Least(Most(Cardinality({i \in DOMAIN index.cum : index.cum[i] < 0 + height}), N + 1), Len(index.cum) - 1) = N
      BY <2>5, <2>13, <3>1, <3>2
    <3> QED BY <2>14, <3>3, <3>4, <3>5 DEF WindowRange
  <2>16. Len(window.lines) = 0
    BY <2>15
  <2>17. PICK base : base = [rows |-> <<>>, budget |-> height, skip |-> window.skip, sound |-> TRUE]
    OBVIOUS
  <2>18. PICK r : r = [k \in 0..0 |-> base]
    OBVIOUS
  <2>19. r = [k \in 0..Len(window.lines) |-> IF k = 0 THEN base ELSE AddLine(lines, index, r[k - 1], window.lines[k])]
    BY <2>16, <2>18
  <2>20. PICK g : g = CHOOSE x : x = [k \in 0..Len(window.lines) |->
                                        IF k = 0 THEN base ELSE AddLine(lines, index, x[k - 1], window.lines[k])]
    OBVIOUS
  <2>21. g = [k \in 0..Len(window.lines) |-> IF k = 0 THEN base ELSE AddLine(lines, index, g[k - 1], window.lines[k])]
    BY <2>19, <2>20
  <2>22. WindowLines(lines, index, offset, height) = g[0]
    BY <1>2, <2>14, <2>16, <2>17, <2>20 DEF WindowLines
  <2>23. g[0] = base
    BY <2>16, <2>21
  <2> QED BY <2>4, <2>17, <2>22, <2>23
<1> QED BY <1>1, <1>2

LaysOut(layout, rows, lines, inner, offset) ==
  /\ inner \in [w : Nat, h : Nat]
  /\ layout.sound = TRUE /\ layout.height = inner.h /\ layout.bar = Overflows(lines, inner)
  /\ Content(lines, inner) \in Nat /\ (inner.w > 0 => Content(lines, inner) > 0)
  /\ Total(rows.index) \in Nat /\ layout.gauge = Gauge(Total(rows.index), inner.h, offset)
  /\ layout.gauge \in [total : Nat, visible : Nat, offset : Nat]

LEMMA LayoutIs ==
  ASSUME PaneBounds, NEW lines \in Seq(Nat), NEW pane \in [w : Nat, h : Nat],
         NEW rows, Ready(rows, lines, Inner(pane)), NEW offset \in Nat,
         NEW layout, layout = ScrollLayout(pane, rows, offset)
  PROVE  LaysOut(layout, rows, lines, Inner(pane), offset)
<1>1. PICK W \in Nat, H \in Nat : Inner(pane) = [w |-> W, h |-> H]
  <2>1. Less(pane.w, 2) \in Nat /\ Less(pane.h, 2) \in Nat
    BY DEF Less
  <2> QED BY <2>1 DEF Inner
<1>2. PICK inner : inner = Inner(pane) /\ inner \in [w : Nat, h : Nat] /\ inner.w = W /\ inner.h = H
  BY <1>1
<1>3. /\ HasBar(rows, inner) = Overflows(lines, inner)
      /\ rows.full <= H \/ W < 2 \/ rows.narrow # None
      /\ rows.index = RowIndex(lines, Content(lines, inner), rows.viewport)
      /\ rows.viewport \in Nat /\ rows.viewport >= ChunkRows
  BY <1>2 DEF Ready, Right
<1>4. PICK content : content = Content(lines, inner)
  OBVIOUS
<1>5. content \in Nat /\ (W > 0 => content > 0)
  BY <1>2, <1>4 DEF Content, Overflows
<1>6. Total(rows.index) \in Nat /\ rows.index.width = content
  <2>1. PICK viewport \in Nat : viewport = rows.viewport /\ viewport >= ChunkRows
    BY <1>3
  <2>2. rows.index = RowIndex(lines, content, viewport)
    BY <1>3, <1>4, <2>1
  <2>3. Total(RowIndex(lines, content, viewport)) \in Nat
    BY <1>5, <2>1, Counted
  <2>4. RowIndex(lines, content, viewport).width = content
    BY <1>5, <2>1, Counted
  <2> QED BY <2>2, <2>3, <2>4
<1>7. (IF HasBar(rows, inner) THEN inner.w - 1 ELSE inner.w) = content
  BY <1>3, <1>4 DEF Content
<1>8. PICK gauge : gauge = Gauge(Total(rows.index), H, offset)
  OBVIOUS
<1>9. gauge \in [total : Nat, visible : Nat, offset : Nat]
  <2>1. /\ gauge = [total |-> gauge.total, visible |-> H, offset |-> gauge.offset]
        /\ gauge.total \in Nat /\ gauge.offset \in 0..U16Max
    BY <1>6, <1>8, GaugeIs
  <2>2. gauge.offset \in Nat
    BY <2>1 DEF PaneBounds
  <2> QED BY <2>1, <2>2
<1>10. layout = [bar |-> HasBar(rows, inner), height |-> H, content |-> content, gauge |-> gauge,
                 sound |-> (rows.full <= H \/ W < 2 \/ rows.narrow # None) /\ rows.index.width = content]
  BY <1>2, <1>7, <1>8 DEF ScrollLayout
<1>11. layout.bar = HasBar(rows, inner) /\ layout.height = H /\ layout.gauge = gauge
  BY <1>10
<1>12. layout.sound = ((rows.full <= H \/ W < 2 \/ rows.narrow # None) /\ rows.index.width = content)
  BY <1>10
<1>13. layout.sound = TRUE
  BY <1>3, <1>6, <1>12
<1> QED BY <1>2, <1>3, <1>4, <1>5, <1>6, <1>8, <1>9, <1>11, <1>13 DEF LaysOut

\* What Frame puts in a frame; one of a fresh text was drawn from the top.
FrameOf(frame, lines, pane, offset, layout, window) ==
  /\ frame.text = lines /\ frame.inner = Inner(pane) /\ frame.asked = offset /\ (frame.fresh => offset = 0)
  /\ frame.bar = layout.bar /\ frame.gauge = layout.gauge /\ frame.label = Label(layout.gauge)
  /\ frame.thumb = ThumbRange(layout.gauge, layout.height)
  /\ frame.rows = SubSeq(window.rows, 1, Least(Len(window.rows), layout.height))

(* A frame of what is ready shows what wrapping the whole text shows.      *)
LEMMA DrawnShows ==
  ASSUME PaneBounds, NEW lines \in Seq(Nat), NEW pane \in [w : Nat, h : Nat],
         NEW rows, Ready(rows, lines, Inner(pane)), NEW offset \in Nat,
         NEW layout, layout = ScrollLayout(pane, rows, offset),
         NEW window, window = WindowLines(lines, rows.index, layout.gauge.offset, layout.height),
         NEW frame, FrameOf(frame, lines, pane, offset, layout, window)
  PROVE  window.sound = TRUE /\ FrameShows(frame)
<1>1. PICK inner : inner = Inner(pane)
  OBVIOUS
<1>2. /\ inner \in [w : Nat, h : Nat] /\ layout.sound = TRUE /\ layout.height = inner.h
      /\ layout.bar = Overflows(lines, inner)
      /\ Content(lines, inner) \in Nat /\ (inner.w > 0 => Content(lines, inner) > 0)
      /\ Total(rows.index) \in Nat /\ layout.gauge = Gauge(Total(rows.index), inner.h, offset)
  <2>1. LaysOut(layout, rows, lines, Inner(pane), offset)
    BY LayoutIs
  <2> QED BY <1>1, <2>1 DEF LaysOut
<1>3. PICK W \in Nat, H \in Nat : W = inner.w /\ H = inner.h
  BY <1>2
<1>4. PICK content \in Nat : content = Content(lines, inner) /\ (W > 0 => content > 0) /\ (W = 0 => content = 0)
  <2>1. W = 0 => Content(lines, inner) = 0
    BY <1>3 DEF Content, Overflows
  <2> QED BY <1>2, <1>3, <2>1
<1>21. PICK index : index = rows.index
  OBVIOUS
<1>22. PICK viewport \in Nat : viewport = rows.viewport
  BY DEF Ready, Right
<1>5. index = rows.index /\ index = RowIndex(lines, content, viewport) /\ viewport >= ChunkRows /\ viewport >= H
  BY <1>1, <1>3, <1>4, <1>21, <1>22 DEF Ready, Right
<1>23. PICK gauge : gauge = layout.gauge
  OBVIOUS
<1>24. PICK total \in Nat : total = Total(index)
  BY <1>2, <1>5
<1>6. total = Total(index) /\ gauge = layout.gauge /\ gauge = Gauge(total, H, offset)
  BY <1>2, <1>3, <1>5, <1>23, <1>24
<1>25. (H = 0 \/ H > 0) /\ (content = 0 \/ (content > 0 /\ lines = <<>>) \/ (content > 0 /\ lines # <<>>))
  OBVIOUS
<1>7. PICK top : top = gauge.offset
  OBVIOUS
<1>8. /\ gauge.total \in Nat /\ gauge.visible = H /\ top \in 0..U16Max /\ top <= offset
      /\ MaxOffset(gauge) \in Nat /\ top <= MaxOffset(gauge)
      /\ (total <= H => MaxOffset(gauge) = 0)
      /\ (total > H => MaxOffset(gauge) > 0 /\ MaxOffset(gauge) <= total - H /\ gauge.total = H + MaxOffset(gauge))
  BY <1>6, <1>7, GaugeIs
<1>9. top \in Nat /\ U16Max \in Nat
  BY <1>8 DEF PaneBounds
<1>10. window = WindowLines(lines, index, top, H)
  BY <1>2, <1>3, <1>5, <1>6, <1>7
<1>11. content > 0 => total > 0 /\ total = WrappedRows(lines, content) /\ Len(WholeText(lines, content)) = total
  BY <1>4, <1>5, <1>6, Counted
<1>12. /\ frame.text = lines /\ frame.inner = inner /\ frame.asked = offset /\ (frame.fresh => offset = 0)
       /\ frame.bar = layout.bar /\ frame.gauge = gauge /\ frame.label = Label(gauge)
       /\ frame.thumb = ThumbRange(gauge, H) /\ frame.rows = SubSeq(window.rows, 1, Least(Len(window.rows), H))
  BY <1>1, <1>2, <1>3, <1>6 DEF FrameOf
<1>13. PICK reference : reference = Reference(lines, inner, offset)
  OBVIOUS
<1>14. PICK whole : whole = WholeText(lines, content)
  OBVIOUS
\* The layout is that of the reference.
<1>15. W > 0 => /\ reference.bar = layout.bar /\ reference.gauge = gauge /\ reference.content = content
  <2>1. SUFFICES ASSUME W > 0 PROVE /\ reference.bar = layout.bar /\ reference.gauge = gauge /\ reference.content = content
    OBVIOUS
  <2>2. PICK less \in Nat : less = W - 1
    <3>1. W - 1 \in Nat
      BY <2>1
    <3> QED BY <3>1
  <2>3. PICK a \in Nat, b \in Nat : a = WrappedRows(lines, W) /\ b = WrappedRows(lines, less)
    BY <1>5, Counted
  <2>4. PICK wide, narrow : wide = Gauge(a, H, offset) /\ narrow = Gauge(b, H, offset)
    OBVIOUS
  <2>14. MaxOffset(wide) \in Nat /\ (a <= H => MaxOffset(wide) = 0) /\ (a > H => MaxOffset(wide) > 0)
    <3>1. Goes(wide, a, H)
      BY ONLY PaneBounds, a \in Nat, H \in Nat, offset \in Nat, <2>4, GaugeGoes
    <3> QED BY ONLY <3>1 DEF Goes
  <2>5. MaxOffset(wide) > 0 <=> a > H
    BY <2>14
  <2>15. MaxOffset(narrow) \in Nat /\ (b <= H => MaxOffset(narrow) = 0) /\ (b > H => MaxOffset(narrow) > 0)
    <3>1. Goes(narrow, b, H)
      BY ONLY PaneBounds, b \in Nat, H \in Nat, offset \in Nat, <2>4, GaugeGoes
    <3> QED BY ONLY <3>1 DEF Goes
  <2>6. MaxOffset(narrow) > 0 <=> b > H
    BY <2>15
  <2>7. PICK bar : bar = (W >= 2 /\ MaxOffset(wide) > 0 /\ MaxOffset(narrow) > 0)
    OBVIOUS
  <2>8. reference = [bar |-> bar, gauge |-> IF bar THEN narrow ELSE wide, content |-> IF bar THEN less ELSE W]
    BY <1>3, <1>13, <2>2, <2>3, <2>4, <2>7 DEF Reference
  <2>9. bar = Overflows(lines, inner)
    BY <1>3, <2>2, <2>3, <2>5, <2>6, <2>7 DEF Overflows
  <2>10. content = IF bar THEN less ELSE W
    BY <1>3, <1>4, <2>2, <2>9 DEF Content
  <2>11. total = IF bar THEN b ELSE a
    BY <1>4, <1>11, <2>1, <2>3, <2>10
  <2>12. gauge = IF bar THEN narrow ELSE wide
    BY <1>6, <2>4, <2>11
  <2>13. reference.bar = bar /\ reference.gauge = (IF bar THEN narrow ELSE wide) /\ reference.content = IF bar THEN less ELSE W
    BY <2>8
  <2> QED BY <1>2, <2>9, <2>10, <2>12, <2>13
\* The window is the text from the offset on.
<1>16. /\ window.sound = TRUE
       /\ W > 0 => frame.rows = SubSeq(whole, top + 1, Least(top + H, Len(whole)))
  <2>1. CASE content = 0
    <3>2. WindowLines(lines, RowIndex(lines, 0, viewport), top, H).sound = TRUE
      BY <1>5, <1>9, NoWidth
    <3>1. window.sound = TRUE
      BY <1>5, <1>10, <2>1, <3>2
    <3> QED BY <1>4, <2>1, <3>1
  <2>2. CASE content > 0 /\ lines = <<>>
    <3>1. whole = << <<0, 1>> >> /\ Len(whole) = 1 /\ total = 1
      BY <1>11, <1>14, <2>2 DEF WholeText
    <3>2. window.rows = << <<0, 1>> >> /\ window.sound = TRUE
      BY <1>10, <2>2 DEF WindowLines
    <3>3. CASE H = 0
      <4>1. Least(Len(window.rows), H) = 0 /\ Least(top + H, Len(whole)) <= top /\ Least(top + H, Len(whole)) \in Nat
        BY <1>9, <3>1, <3>2, <3>3 DEF Least
      <4>2. frame.rows = <<>>
        <5>1. frame.rows = SubSeq(window.rows, 1, 0)
          BY <1>12, <4>1
        <5>2. PICK q : q = window.rows
          OBVIOUS
        <5>3. 1 \in Int /\ 0 \in Int /\ 0 < 1
          OBVIOUS
        <5>4. SubSeq(q, 1, 0) = <<>>
          BY ONLY <5>3, SubSeqEmpty
        <5> QED BY <5>1, <5>2, <5>4
      <4>3. SubSeq(whole, top + 1, Least(top + H, Len(whole))) = <<>>
        BY <1>9, <4>1, SubSeqEmpty
      <4> QED BY <3>2, <4>2, <4>3
    <3>4. CASE H > 0
      <4>1. top = 0
        BY <1>8, <1>9, <3>1, <3>4
      <4>2. Least(1, H) = 1 /\ Least(0 + H, 1) = 1
        BY <3>4 DEF Least
      <4>3. frame.rows = SubSeq(<< <<0, 1>> >>, 1, 1)
        BY <1>12, <3>2, <4>2
      <4>4. SubSeq(whole, top + 1, Least(top + H, Len(whole))) = SubSeq(<< <<0, 1>> >>, 1, 1)
        BY <3>1, <4>1, <4>2
      <4> QED BY <3>2, <4>3, <4>4
    <3> QED BY <1>25, <3>3, <3>4
  <2>3. CASE content > 0 /\ lines # <<>>
    <3>1. PICK N \in Nat : N = Len(lines)
      OBVIOUS
    <3>2. PICK f : f = RowsAbove(lines, content) /\ Sums(f, lines, content)
      BY RowsAboveSums
    <3>3. Wholes(whole, f, lines, content) /\ Indexes(index, f, lines, content, viewport) /\ total = f[N]
      <4>1. Wholes(whole, f, lines, content)
        BY <1>14, <2>3, <3>2, WholeIs
      <4>2. Indexes(index, f, lines, content, viewport) /\ Total(index) = f[N]
        <5>1. /\ Indexes(RowIndex(lines, content, viewport), RowsAbove(lines, content), lines, content, viewport)
              /\ Total(RowIndex(lines, content, viewport)) = RowsAbove(lines, content)[Len(lines)]
          BY <1>5, <2>3, IndexIs
        <5> QED BY <1>5, <3>1, <3>2, <5>1
      <4> QED BY <1>6, <4>1, <4>2
    <3>4. Len(whole) = total /\ whole \in Seq(Nat \X Nat) /\ total > 0
      BY <1>11, <1>14, <2>3, <3>3 DEF Wholes
    <3>5. PICK u \in Nat : u = total - 1
      <4>1. total - 1 \in Nat
        BY <3>4
      <4> QED BY <4>1
    <3>6. PICK row \in Nat : row = Least(top, u) /\ row <= u /\ row <= top
      BY <1>9 DEF Least
    <3>7. row = Least(top, f[Len(lines)] - 1)
      BY <3>1, <3>3, <3>5, <3>6
    <3>8. H \in 0..viewport
      BY <1>5
    <3>9. /\ window.rows = SubSeq(whole, row + 1, Least(row + H, Len(whole)))
          /\ window.sound = TRUE
      <4>1. lines # <<>> /\ content > 0 /\ Sums(f, lines, content) /\ Wholes(whole, f, lines, content)
        BY <2>3, <3>2, <3>3
      <4>2. viewport >= ChunkRows /\ Indexes(index, f, lines, content, viewport) /\ top \in 0..U16Max
        BY <1>5, <1>8, <3>3
      <4>3. Windowed(WindowLines(lines, index, top, H), whole, row, H)
        BY <3>7, <3>8, <4>1, <4>2, WindowShows
      <4> QED BY <1>10, <4>3 DEF Windowed
    <3>10. PICK stop \in Nat : stop = Least(row + H, total) /\ stop <= row + H /\ stop <= total /\ (stop = total \/ stop = row + H)
      BY DEF Least
    <3>11. row < total /\ stop >= row
      <4>1. total > 0 /\ u = total - 1 /\ row <= u
        BY <3>4, <3>5, <3>6
      <4>2. stop = total \/ stop = row + H
        BY <3>10
      <4> QED BY <4>1, <4>2
    <3>12. window.rows \in Seq(Nat \X Nat) /\ Len(window.rows) = stop - row
      <4>1. window.rows = SubSeq(whole, row + 1, stop)
        BY <3>4, <3>9, <3>10
      <4>2. PICK n \in Nat : n = Len(whole) /\ stop <= n
        BY <3>4, <3>10
      <4>3. \A k \in (row + 1)..stop : whole[k] \in Nat \X Nat
        BY <3>4, <4>2
      <4>4. window.rows \in Seq(Nat \X Nat) /\ Len(window.rows) = IF row + 1 <= stop THEN stop - (row + 1) + 1 ELSE 0
        BY <4>1, <4>3, SubSeqProperties
      <4> QED BY <3>11, <4>4
    <3>13. stop - row \in Nat /\ stop - row <= H
      BY <3>10, <3>11
    <3>14. Least(stop - row, H) = stop - row
      BY <3>13 DEF Least
    <3>15. frame.rows = window.rows
      <4>1. SubSeq(window.rows, 1, Len(window.rows)) = window.rows
        BY <3>12
      <4> QED BY <1>12, <3>12, <3>14, <4>1
    <3>16. CASE H = 0
      <4>1. stop = row
        BY <3>10, <3>11, <3>16
      <4>2. frame.rows = <<>>
        BY <3>12, <3>15, <4>1
      <4>3. Least(top + H, Len(whole)) \in Nat /\ Least(top + H, Len(whole)) <= top
        BY <1>9, <3>4, <3>16 DEF Least
      <4>4. SubSeq(whole, top + 1, Least(top + H, Len(whole))) = <<>>
        BY <1>9, <4>3, SubSeqEmpty
      <4> QED BY <3>9, <4>2, <4>4
    <3>17. CASE H > 0
      <4>1. top <= u
        BY <1>8, <1>9, <3>4, <3>5, <3>17
      <4>2. row = top
        BY <1>9, <3>6, <4>1 DEF Least
      <4> QED BY <3>9, <3>15, <4>2
    <3> QED BY <1>25, <3>16, <3>17
  <2> QED BY <1>25, <2>1, <2>2, <2>3
<1>17. W > 0 => (Label(gauge) = None <=> Len(whole) <= H)
  <2>1. SUFFICES ASSUME W > 0 PROVE Label(gauge) = None <=> Len(whole) <= H
    OBVIOUS
  <2>2. Len(whole) = total
    BY <1>4, <1>11, <1>14, <2>1
  <2>3. None \notin [seen : Nat, total : Nat]
    BY DEF PaneBounds
  <2>4. Least(gauge.offset + gauge.visible, gauge.total) \in Nat
    BY <1>7, <1>8, <1>9 DEF Least
  <2>5. MaxOffset(gauge) > 0 => Label(gauge) # None
    BY <1>8, <2>3, <2>4 DEF Label
  <2>6. ~(MaxOffset(gauge) > 0) => Label(gauge) = None
    BY DEF Label
  <2> QED BY <1>8, <2>2, <2>5, <2>6
<1>18. frame.fresh => top = 0
  BY <1>8, <1>9, <1>12
<1>19. frame.bar /\ H > 1 =>
          /\ TrackOffset(gauge, H, 0) = 0
          /\ TrackOffset(gauge, H, H - 1) = MaxOffset(gauge)
          /\ (ThumbRange(gauge, H).start = 0) = (top = 0)
          /\ top = MaxOffset(gauge) => ThumbRange(gauge, H).start + ThumbRange(gauge, H).len = H
  <2>1. SUFFICES ASSUME frame.bar, H > 1
        PROVE  /\ TrackOffset(gauge, H, 0) = 0
               /\ TrackOffset(gauge, H, H - 1) = MaxOffset(gauge)
               /\ (ThumbRange(gauge, H).start = 0) = (top = 0)
               /\ top = MaxOffset(gauge) => ThumbRange(gauge, H).start + ThumbRange(gauge, H).len = H
    OBVIOUS
  <2>2. Overflows(lines, inner)
    BY <1>2, <1>12, <2>1
  <2>3. W > 0 /\ content = W - 1 /\ WrappedRows(lines, W - 1) > H
    BY <1>3, <1>4, <2>2 DEF Overflows, Content
  <2>4. total > H
    BY <1>4, <1>11, <2>3
  <2>5. PICK M \in Nat : M = MaxOffset(gauge) /\ M > 0
    BY <1>8, <2>4
  <2>6. gauge.offset \in 0..M
    BY <1>7, <1>8, <1>9, <2>5
  <2>7. gauge.visible \in Nat
    BY <1>8
  <2>8. gauge.total \in Nat
    BY <1>8
  <2>9. /\ TrackOffset(gauge, H, 0) = 0
        /\ TrackOffset(gauge, H, H - 1) = M
        /\ (ThumbRange(gauge, H).start = 0) = (gauge.offset = 0)
        /\ gauge.offset = M => ThumbRange(gauge, H).start + ThumbRange(gauge, H).len = H
    BY ONLY <2>1, <2>5, <2>6, <2>7, <2>8, M \in Nat, H \in Nat, ThumbIs
  <2> QED BY <1>7, <2>5, <2>9
<1>20. FrameShows(frame)
  BY <1>3, <1>7, <1>12, <1>13, <1>14, <1>15, <1>16, <1>17, <1>18, <1>19 DEF FrameShows
<1> QED BY <1>16, <1>20

-----------------------------------------------------------------------------
(* The panes.                                                              *)

\* What is cached of the text that is shown was counted of it: a diff's under
\* its version, a message's always.
CacheIsRight ==
  cache # None =>
    /\ cache.version \in Nat /\ cache.version <= version
    /\ text # None /\ (paneKind = "message" \/ cache.version = version) => Right(cache.rows, text, cache.width)
GrabIsGauge ==
  grab # None => grab.gauge \in [total : Nat, visible : Nat, offset : Nat] /\ grab.height \in Nat
PaneKnown ==
  /\ paneKind \in PaneKinds /\ text \in Texts \cup {None} /\ (paneKind = "message" => text \in Texts)
  /\ version \in Nat /\ scroll \in Nat /\ paneSize \in PaneSizes /\ area \in PaneSizes \cup {NoArea}
PaneInv ==
  /\ PaneKnown /\ CacheIsRight /\ GrabIsGauge
  /\ fresh => scroll = 0
  /\ PaneShowsText

LEMMA TextIs ==
  ASSUME PaneBounds, PaneKnown, text # None
  PROVE  text \in Texts /\ text \in Seq(Nat)
BY DEF PaneBounds, PaneKnown

LEMMA SizesAre ==
  ASSUME PaneBounds, PaneKnown
  PROVE  paneSize \in [w : Nat, h : Nat] /\ area \in [w : Nat, h : Nat]
<1>1. NoArea \in [w : Nat, h : Nat]
  BY DEF NoArea
<1> QED BY <1>1 DEF PaneBounds, PaneKnown

Ensures(kept, pane) == kept.version = version /\ kept.width = Inner(pane).w /\ Ready(kept.rows, text, Inner(pane))

LEMMA InnerIs ==
  ASSUME NEW pane \in [w : Nat, h : Nat]
  PROVE  Inner(pane) \in [w : Nat, h : Nat]
<1>1. Less(pane.w, 2) \in Nat /\ Less(pane.h, 2) \in Nat
  BY DEF Less
<1> QED BY <1>1 DEF Inner

(* ensure_diff_rows and ensure_msg_rows leave what can be drawn from.      *)
LEMMA EnsuredIs ==
  ASSUME PaneBounds, PaneKnown, CacheIsRight, text # None, NEW pane \in [w : Nat, h : Nat]
  PROVE  Ensures(EnsuredRows(pane), pane)
<1>1. PICK inner : inner = Inner(pane) /\ inner \in [w : Nat, h : Nat]
  BY InnerIs
<1>2. text \in Seq(Nat)
  BY TextIs
<1>3. PICK rows : rows = IF IF paneKind = "message" THEN MessageHit(pane) ELSE DiffHit(pane)
                         THEN PaneRetarget(cache.rows, text, inner) ELSE PaneRows(text, inner.w, inner.h)
  OBVIOUS
<1>4. EnsuredRows(pane) = [version |-> version, width |-> inner.w, rows |-> rows]
  BY <1>1, <1>3 DEF EnsuredRows
<1>5. Ready(rows, text, inner)
  <2>1. CASE IF paneKind = "message" THEN MessageHit(pane) ELSE DiffHit(pane)
    <3>1. cache # None /\ cache.width = inner.w /\ (paneKind = "message" \/ cache.version = version)
      BY <1>1, <2>1 DEF MessageHit, DiffHit
    <3>2. Right(cache.rows, text, inner.w)
      BY <3>1 DEF CacheIsRight
    <3>3. Ready(PaneRetarget(cache.rows, text, inner), text, inner)
      BY <1>1, <1>2, <3>2, RetargetReady
    <3> QED BY <1>3, <2>1, <3>3
  <2>2. CASE ~(IF paneKind = "message" THEN MessageHit(pane) ELSE DiffHit(pane))
    <3>1. Ready(PaneRows(text, inner.w, inner.h), text, inner)
      BY <1>1, <1>2, PaneRowsReady
    <3> QED BY <1>3, <2>2, <3>1
  <2> QED BY <2>1, <2>2
<1> QED BY <1>1, <1>4, <1>5 DEF Ensures

(* What was ensured is right until the text is another.                    *)
LEMMA EnsuredStays ==
  ASSUME PaneKnown, NEW kept, NEW pane, Ensures(kept, pane), cache' = kept, UNCHANGED <<paneKind, text, version>>
  PROVE  CacheIsRight'
<1>1. kept.version = version /\ version \in Nat /\ version <= version
  BY DEF Ensures, PaneKnown
<1>2. Right(kept.rows, text, kept.width)
  BY DEF Ensures, Ready
<1> QED BY <1>1, <1>2 DEF CacheIsRight

LEMMA ReplaceKeeps ==
  ASSUME PaneBounds, PaneInv, paneKind # "message", NEW next \in Texts, NEW offset, offset = 0 \/ offset = scroll, Replace(next, offset)
  PROVE  PaneInv'
<1>1. PaneKnown' /\ version' = version + 1 /\ version \in Nat
  BY DEF PaneInv, PaneKnown, Replace
<1>2. CacheIsRight'
  <2>1. SUFFICES ASSUME cache # None PROVE cache.version \in Nat /\ cache.version <= version' /\ cache.version # version'
    BY DEF Replace, CacheIsRight
  <2>2. cache.version \in Nat /\ cache.version <= version
    BY <2>1 DEF PaneInv, CacheIsRight
  <2> QED BY <1>1, <2>2
<1>3. GrabIsGauge' /\ (fresh' => scroll' = 0) /\ PaneShowsText'
  BY DEF PaneInv, Replace, GrabIsGauge, PaneShowsText
<1> QED BY <1>1, <1>2, <1>3 DEF PaneInv

LEMMA TopKeeps ==
  ASSUME PaneInv, paneKind # "message", NEW next, next = None \/ next = text, Top(next)
  PROVE  PaneInv'
<1>1. PaneKnown'
  BY DEF PaneInv, PaneKnown, Top
<1>2. CacheIsRight'
  <2>1. CASE next = None
    BY <2>1 DEF PaneInv, Top, CacheIsRight
  <2>2. CASE next = text
    BY <2>2 DEF PaneInv, Top, CacheIsRight
  <2> QED BY <2>1, <2>2
<1>3. GrabIsGauge' /\ (fresh' => scroll' = 0) /\ PaneShowsText'
  BY DEF PaneInv, Top, GrabIsGauge, PaneShowsText
<1> QED BY <1>1, <1>2, <1>3 DEF PaneInv

LEMMA OpenKeeps == ASSUME PaneInv, OpenCommit PROVE PaneInv'
<1>1. PaneKnown'
  BY DEF PaneInv, PaneKnown, OpenCommit
<1>2. CacheIsRight'
  BY DEF OpenCommit, CacheIsRight
<1>3. GrabIsGauge' /\ (fresh' => scroll' = 0) /\ PaneShowsText'
  BY DEF PaneInv, OpenCommit, GrabIsGauge, PaneShowsText
<1> QED BY <1>1, <1>2, <1>3 DEF PaneInv

LEMMA ResizeKeeps == ASSUME PaneInv, PaneResize PROVE PaneInv'
<1>1. PaneKnown'
  BY DEF PaneInv, PaneKnown, PaneResize
<1>2. CacheIsRight' /\ GrabIsGauge' /\ (fresh' => scroll' = 0) /\ PaneShowsText'
  BY DEF PaneInv, PaneResize, CacheIsRight, GrabIsGauge, PaneShowsText
<1> QED BY <1>1, <1>2 DEF PaneInv

LEMMA ScrolledKeeps ==
  ASSUME PaneBounds, PaneInv, text # None, Step, NEW next \in PaneMoves, Scrolled(next)
  PROVE  PaneInv'
<1>1. PaneKnown /\ CacheIsRight /\ text \in Seq(Nat) /\ area \in [w : Nat, h : Nat]
  BY TextIs, SizesAre DEF PaneInv
<1>2. next \in Nat
  BY DEF PaneBounds, PaneInv, PaneKnown, PaneMoves, Least, Less
<1>3. PICK kept : kept = EnsuredRows(area) /\ Ensures(kept, area)
  BY <1>1, EnsuredIs
<1>4. PICK layout : layout = ScrollLayout(area, kept.rows, next)
  OBVIOUS
<1>5. LaysOut(layout, kept.rows, text, Inner(area), next)
  BY <1>1, <1>2, <1>3, <1>4, LayoutIs DEF Ensures
<1>6. layout.sound = TRUE /\ layout.gauge \in [total : Nat, visible : Nat, offset : Nat]
  BY <1>5 DEF LaysOut
<1>7. scroll' = layout.gauge.offset /\ cache' = kept /\ sound' = (sound /\ layout.sound)
  BY <1>3, <1>4 DEF Scrolled
<1>8. scroll' \in Nat
  BY <1>6, <1>7
<1>9. UNCHANGED <<paneKind, text, version, paneSize, area, grab, lastFrame>> /\ fresh' = FALSE
  BY DEF Step
<1>10. PaneKnown'
  BY <1>1, <1>8, <1>9 DEF PaneKnown
<1>11. CacheIsRight'
  BY <1>1, <1>3, <1>7, <1>9, EnsuredStays
<1>12. GrabIsGauge' /\ PaneShowsText'
  BY <1>6, <1>7, <1>9 DEF PaneInv, GrabIsGauge, PaneShowsText
<1> QED BY <1>9, <1>10, <1>11, <1>12 DEF PaneInv

LEMMA EmptyStepKeeps ==
  ASSUME PaneInv, Step, scroll' = 0, UNCHANGED <<cache, sound>>
  PROVE  PaneInv'
<1>1. PaneKnown'
  BY DEF PaneInv, PaneKnown, Step
<1>2. CacheIsRight' /\ GrabIsGauge' /\ (fresh' => scroll' = 0) /\ PaneShowsText'
  BY DEF PaneInv, Step, CacheIsRight, GrabIsGauge, PaneShowsText
<1> QED BY <1>1, <1>2 DEF PaneInv

(* A place of the bar is a row of the text.                                *)
LEMMA TrackIs ==
  ASSUME PaneBounds, NEW gauge \in [total : Nat, visible : Nat, offset : Nat], NEW track \in Nat, NEW row \in Nat
  PROVE  TrackOffset(gauge, track, row) \in Nat
<1>1. PICK last \in Nat : last = Less(track, 1)
  BY DEF Less
<1>2. CASE last = 0
  BY <1>1, <1>2 DEF TrackOffset
<1>3. CASE last # 0
  <2>1. PICK r \in Nat : r = Least(row, last)
    BY DEF Least
  <2>2. MaxOffset(gauge) \in Nat
    <3>1. PICK deep \in Nat : deep = U16Max
      BY DEF PaneBounds
    <3>2. PICK t \in Nat, v \in Nat : t = gauge.total /\ v = gauge.visible
      OBVIOUS
    <3>3. Less(t, v) \in Nat
      BY DEF Less
    <3>4. Least(Less(t, v), deep) \in Nat
      BY <3>3 DEF Least
    <3> QED BY <3>1, <3>2, <3>4 DEF MaxOffset
  <2>3. PICK m \in Nat : m = MaxOffset(gauge)
    BY <2>2
  <2>4. PICK half \in Nat : half = last \div 2
    OBVIOUS
  <2>5. PICK p \in Nat : p = r * m + half
    OBVIOUS
  <2>6. p \div last \in Nat
    BY <1>3, DivIs
  <2> QED BY <1>1, <1>3, <2>1, <2>3, <2>4, <2>5, <2>6 DEF TrackOffset
<1> QED BY <1>2, <1>3

LEMMA PressKeeps ==
  ASSUME PaneBounds, PaneInv, NEW row \in Nat, Press(row)
  PROVE  PaneInv'
<1>1. text # None /\ UNCHANGED <<paneKind, text, version, paneSize, area, lastFrame>>
  BY DEF Press
<1>2. PaneKnown /\ CacheIsRight /\ text \in Seq(Nat) /\ area \in [w : Nat, h : Nat]
  BY <1>1, TextIs, SizesAre DEF PaneInv
<1>3. PICK kept : kept = EnsuredRows(area) /\ Ensures(kept, area)
  BY <1>1, <1>2, EnsuredIs
<1>4. PICK layout : layout = ScrollLayout(area, kept.rows, 0)
  OBVIOUS
<1>5. LaysOut(layout, kept.rows, text, Inner(area), 0)
  BY <1>2, <1>3, <1>4, LayoutIs DEF Ensures
<1>6. layout.sound = TRUE /\ layout.gauge \in [total : Nat, visible : Nat, offset : Nat] /\ layout.height \in Nat
  BY <1>5 DEF LaysOut
<1>7. PICK onBar \in BOOLEAN : onBar = (layout.bar /\ row < layout.height)
  OBVIOUS
<1>8. /\ cache' = kept /\ sound' = (sound /\ layout.sound)
      /\ grab' = IF onBar THEN layout ELSE None
      /\ scroll' = IF onBar THEN TrackOffset(layout.gauge, layout.height, row) ELSE scroll
      /\ fresh' = (fresh /\ ~onBar)
  BY <1>3, <1>4, <1>7 DEF Press, PaneLayout
<1>9. TrackOffset(layout.gauge, layout.height, row) \in Nat
  BY <1>6, TrackIs
<1>10. scroll' \in Nat /\ (fresh' => scroll' = 0)
  BY <1>8, <1>9 DEF PaneInv, PaneKnown
<1>11. PaneKnown'
  BY <1>1, <1>2, <1>10 DEF PaneKnown
<1>12. CacheIsRight'
  BY <1>1, <1>2, <1>3, <1>8, EnsuredStays
<1>13. GrabIsGauge'
  BY <1>6, <1>8 DEF GrabIsGauge
<1>14. PaneShowsText'
  BY <1>1, <1>6, <1>8 DEF PaneInv, PaneShowsText
<1> QED BY <1>10, <1>11, <1>12, <1>13, <1>14 DEF PaneInv

LEMMA DragKeeps ==
  ASSUME PaneBounds, PaneInv, NEW row \in Nat, PaneDrag(row)
  PROVE  PaneInv'
<1>1. grab # None /\ scroll' = TrackOffset(grab.gauge, grab.height, row) /\ fresh' = FALSE
      /\ UNCHANGED <<paneKind, text, version, paneSize, area, cache, grab, lastFrame, sound>>
  BY DEF PaneDrag
<1>2. scroll' \in Nat
  BY <1>1, TrackIs DEF PaneInv, GrabIsGauge
<1>3. PaneKnown'
  BY <1>1, <1>2 DEF PaneInv, PaneKnown
<1>4. CacheIsRight' /\ GrabIsGauge' /\ PaneShowsText'
  BY <1>1 DEF PaneInv, CacheIsRight, GrabIsGauge, PaneShowsText
<1> QED BY <1>1, <1>3, <1>4 DEF PaneInv

LEMMA ReleaseKeeps == ASSUME PaneInv, PaneRelease PROVE PaneInv'
<1>1. PaneKnown'
  BY DEF PaneInv, PaneKnown, PaneRelease
<1>2. CacheIsRight' /\ GrabIsGauge' /\ (fresh' => scroll' = 0) /\ PaneShowsText'
  BY DEF PaneInv, PaneRelease, CacheIsRight, GrabIsGauge, PaneShowsText
<1> QED BY <1>1, <1>2 DEF PaneInv

LEMMA DrawnKeeps ==
  ASSUME PaneBounds, PaneInv, text # None, PaneDrawn
  PROVE  PaneInv'
<1>1. PaneKnown /\ CacheIsRight /\ text \in Seq(Nat) /\ paneSize \in [w : Nat, h : Nat] /\ scroll \in Nat
  BY TextIs, SizesAre DEF PaneInv, PaneKnown
<1>2. PICK kept : kept = EnsuredRows(paneSize) /\ Ensures(kept, paneSize)
  BY <1>1, EnsuredIs
<1>3. PICK layout : layout = ScrollLayout(paneSize, kept.rows, scroll)
  OBVIOUS
<1>4. PICK window : window = WindowLines(text, kept.rows.index, layout.gauge.offset, layout.height)
  OBVIOUS
<1>5. Ready(kept.rows, text, Inner(paneSize))
  BY <1>2 DEF Ensures
<1>6. LaysOut(layout, kept.rows, text, Inner(paneSize), scroll)
  BY <1>1, <1>3, <1>5, LayoutIs
<1>7. layout.sound = TRUE /\ layout.gauge \in [total : Nat, visible : Nat, offset : Nat]
  BY <1>6 DEF LaysOut
<1>8. /\ cache' = kept /\ scroll' = layout.gauge.offset /\ sound' = (sound /\ layout.sound /\ window.sound)
      /\ lastFrame' = Frame(layout, window.rows) /\ area' = paneSize
      /\ UNCHANGED <<paneKind, text, version, paneSize, grab, fresh>>
  BY <1>2, <1>3, <1>4 DEF PaneDrawn
<1>9. PICK frame : frame = Frame(layout, window.rows)
  OBVIOUS
<1>10. fresh => scroll = 0
  BY DEF PaneInv
<1>11. window.sound = TRUE /\ FrameShows(frame)
  <2>1. frame = [text |-> text, inner |-> Inner(paneSize), asked |-> scroll, fresh |-> fresh,
                 bar |-> layout.bar, gauge |-> layout.gauge, label |-> Label(layout.gauge),
                 thumb |-> ThumbRange(layout.gauge, layout.height),
                 rows |-> SubSeq(window.rows, 1, Least(Len(window.rows), layout.height))]
    BY <1>9 DEF Frame
  <2>2. frame.fresh = fresh
    BY <2>1
  <2>3. FrameOf(frame, text, paneSize, scroll, layout, window)
    BY <1>10, <2>1, <2>2 DEF FrameOf
  <2> QED BY <1>1, <1>3, <1>4, <1>5, <2>3, DrawnShows
<1>12. scroll' \in Nat /\ (fresh' => scroll' = 0)
  <2>1. layout.gauge.offset <= scroll
    <3>1. PICK total \in Nat, h \in Nat : total = Total(kept.rows.index) /\ h = Inner(paneSize).h /\ layout.gauge = Gauge(total, h, scroll)
      BY <1>6 DEF LaysOut
    <3> QED BY <1>1, <3>1, GaugeIs
  <2> QED BY <1>1, <1>7, <1>8, <1>10, <2>1
<1>13. PaneKnown'
  BY <1>1, <1>8, <1>12 DEF PaneKnown
<1>14. CacheIsRight'
  BY <1>1, <1>2, <1>8, EnsuredStays
<1>15. GrabIsGauge'
  BY <1>8 DEF PaneInv, GrabIsGauge
<1>16. PaneShowsText'
  <2>1. sound'
    BY <1>7, <1>8, <1>11 DEF PaneInv, PaneShowsText
  <2>2. FrameShows(lastFrame')
    BY <1>8, <1>9, <1>11
  <2> QED BY <2>1, <2>2 DEF PaneShowsText, FrameShows
<1> QED BY <1>12, <1>13, <1>14, <1>15, <1>16 DEF PaneInv

LEMMA DrawNoneKeeps == ASSUME PaneInv, DrawNone PROVE PaneInv'
<1>1. PaneKnown'
  BY DEF PaneInv, PaneKnown, DrawNone
<1>2. CacheIsRight' /\ GrabIsGauge' /\ (fresh' => scroll' = 0) /\ PaneShowsText'
  BY DEF PaneInv, DrawNone, CacheIsRight, GrabIsGauge, PaneShowsText
<1> QED BY <1>1, <1>2 DEF PaneInv

LEMMA PaneInitInv == ASSUME PaneBounds PROVE PaneInit => PaneInv
<1> SUFFICES ASSUME PaneInit PROVE PaneInv
  OBVIOUS
<1>1. PaneKnown
  BY DEF PaneInit, PaneKnown
<1>2. CacheIsRight /\ GrabIsGauge /\ (fresh => scroll = 0) /\ PaneShowsText
  BY DEF PaneInit, CacheIsRight, GrabIsGauge, PaneShowsText
<1> QED BY <1>1, <1>2 DEF PaneInv

LEMMA PaneStepInv == ASSUME PaneBounds PROVE PaneInv /\ [PaneNext]_paneVars => PaneInv'
<1> SUFFICES ASSUME PaneInv, [PaneNext]_paneVars PROVE PaneInv'
  OBVIOUS
<1>1. paneKind = "message" => text # None
  BY DEF PaneInv, PaneKnown, PaneBounds
<1>2. CASE SetDiff
  BY <1>2, ReplaceKeeps DEF SetDiff
<1>3. CASE SetCommitDiff
  BY <1>3, ReplaceKeeps DEF SetCommitDiff
<1>4. CASE DropDiff
  BY <1>4, TopKeeps DEF DropDiff
<1>5. CASE SearchFiles
  BY <1>5, TopKeeps DEF SearchFiles
<1>6. CASE OpenFile
  BY <1>6, TopKeeps DEF OpenFile
<1>7. CASE OpenCommit
  BY <1>7, OpenKeeps
<1>8. CASE PaneResize
  BY <1>8, ResizeKeeps
<1>9. CASE ClampDiffScroll
  BY <1>9, ScrolledKeeps DEF ClampDiffScroll
<1>10. CASE StepDiffScroll
  BY <1>10, ScrolledKeeps, EmptyStepKeeps DEF StepDiffScroll
<1>11. CASE StepMsgScroll
  BY <1>1, <1>11, ScrolledKeeps DEF StepMsgScroll
<1>12. CASE PaneRelease
  BY <1>12, ReleaseKeeps
<1>13. CASE DrawDiff
  BY <1>13, DrawnKeeps DEF DrawDiff
<1>14. CASE DrawCommitDiff
  BY <1>14, DrawnKeeps DEF DrawCommitDiff
<1>15. CASE DrawMessage
  BY <1>1, <1>15, DrawnKeeps DEF DrawMessage
<1>16. CASE DrawNone
  BY <1>16, DrawNoneKeeps
<1>17. ASSUME NEW row \in TrackRows, PressDiff(row) \/ PressDetail(row) \/ PaneDrag(row) PROVE PaneInv'
  <2>1. row \in Nat
    BY DEF TrackRows, PaneBounds
  <2> QED BY <1>17, <2>1, PressKeeps, DragKeeps DEF PressDiff, PressDetail
<1>18. CASE UNCHANGED paneVars
  <2>1. UNCHANGED <<paneKind, text, version, scroll, paneSize, area, cache, grab, lastFrame, fresh, sound>>
    BY <1>18 DEF paneVars
  <2>2. PaneKnown'
    BY <2>1 DEF PaneInv, PaneKnown
  <2>3. CacheIsRight' /\ GrabIsGauge' /\ (fresh' => scroll' = 0) /\ PaneShowsText'
    BY <2>1 DEF PaneInv, CacheIsRight, GrabIsGauge, PaneShowsText
  <2> QED BY <2>2, <2>3 DEF PaneInv
<1> QED
  BY <1>2, <1>3, <1>4, <1>5, <1>6, <1>7, <1>8, <1>9, <1>10, <1>11, <1>12, <1>13, <1>14, <1>15, <1>16, <1>17, <1>18 DEF PaneNext

(* A frame of a pane shows the rows, the bar and the count that wrapping   *)
(* its whole text would give, and what is cached is never of another text  *)
(* or size (pane_scroll_layout, window_lines, ensure_diff_rows,            *)
(* ensure_msg_rows).                                                       *)
THEOREM PaneAlwaysShows == ASSUME PaneBounds PROVE PaneSpec => []PaneShowsText
<1>1. PaneInit => PaneInv
  BY PaneInitInv
<1>2. PaneInv /\ [PaneNext]_paneVars => PaneInv'
  BY PaneStepInv
<1>3. PaneInv => PaneShowsText
  BY DEF PaneInv
<1> QED BY <1>1, <1>2, <1>3, PTL DEF PaneSpec

-----------------------------------------------------------------------------
(* The rows of a list.                                                     *)

Row(i, kind, j) == [at |-> i, kind |-> kind, sub |-> j]
RowSet == [at : Nat, kind : RowKinds, sub : Nat]
Ids == [repo : Listed, kind : RowKinds, sub : Nat]
Lists == [repos : Seq(Listed), status : [Listed -> Statuses \cup {None}], rows : Seq(RowSet),
          at : Nat \cup {None}, byDefault : BOOLEAN, toggled : SUBSET Listed,
          stashes : SUBSET Listed, sorted : BOOLEAN]

In(s, x) == \E n \in DOMAIN s : s[n] = x

Wts(p, r) == IF p.status[r] # None /\ WorktreesShown(p, r) THEN p.status[r].worktrees ELSE 0
Sts(p, r) == IF p.status[r] # None /\ r \in p.stashes THEN p.status[r].stashes ELSE 0

\* The rows displayed for a repository, wherever it is.
Shows(p, r, kind, j) ==
  \/ kind = "repo" /\ j = 0
  \/ kind = "worktree" /\ j \in 1..Wts(p, r)
  \/ kind = "stash" /\ j \in 1..Sts(p, r)

(* What is in one sequence or another is in both together.                 *)
LEMMA InBoth ==
  ASSUME NEW S, NEW s \in Seq(S), NEW t \in Seq(S)
  PROVE  \A x : In(s \o t, x) <=> In(s, x) \/ In(t, x)
<1>1. DOMAIN s = 1..Len(s) /\ DOMAIN t = 1..Len(t) /\ Len(s) \in Nat /\ Len(t) \in Nat
  OBVIOUS
<1>2. DOMAIN (s \o t) = 1..(Len(s) + Len(t))
  BY Below
<1>3. ASSUME NEW x, In(s \o t, x) PROVE In(s, x) \/ In(t, x)
  <2>1. PICK n \in 1..(Len(s) + Len(t)) : (s \o t)[n] = x
    BY <1>2, <1>3 DEF In
  <2>2. CASE n \in 1..Len(s)
    BY <1>1, <2>1, <2>2, Below DEF In
  <2>3. CASE n \notin 1..Len(s)
    <3>1. PICK k : k = n - Len(s)
      OBVIOUS
    <3>2. k \in 1..Len(t) /\ n = Len(s) + k
      BY <1>1, <2>3, <3>1
    <3>3. (s \o t)[Len(s) + k] = t[k]
      BY <3>2, Below
    <3> QED BY <1>1, <2>1, <3>2, <3>3 DEF In
  <2> QED BY <2>2, <2>3
<1>4. ASSUME NEW x, In(s, x) PROVE In(s \o t, x)
  <2>1. PICK n \in 1..Len(s) : s[n] = x
    BY <1>1, <1>4 DEF In
  <2>2. n \in 1..(Len(s) + Len(t)) /\ (s \o t)[n] = x
    BY <1>1, <2>1, Below
  <2> QED BY <1>2, <2>2 DEF In
<1>5. ASSUME NEW x, In(t, x) PROVE In(s \o t, x)
  <2>1. PICK n \in 1..Len(t) : t[n] = x
    BY <1>1, <1>5 DEF In
  <2>2. Len(s) + n \in 1..(Len(s) + Len(t)) /\ (s \o t)[Len(s) + n] = x
    BY <1>1, <2>1, Below
  <2> QED BY <1>2, <2>2 DEF In
<1> QED BY <1>3, <1>4, <1>5

(* Sequences set below one another.                                        *)
Stack(G, B, S) ==
  /\ G \in [0..Len(B) -> Seq(S)] /\ G[0] = <<>>
  /\ \A n \in 1..Len(B) : G[n] = G[n - 1] \o B[n]

LEMMA FlattenIs ==
  ASSUME NEW S, NEW B \in Seq(Seq(S))
  PROVE  \E G : Stack(G, B, S) /\ FlattenSeq(B) = G[Len(B)]
<1>1. PICK N \in Nat : N = Len(B) /\ DOMAIN B = 1..N
  OBVIOUS
<1>2. \A n \in 1..N : B[n] \in Seq(S)
  BY <1>1
<1>3. PICK op : op = [x \in (1..N) \X Seq(S) |-> x[2] \o B[x[1]]]
  OBVIOUS
<1>4. op \in [(1..N) \X Seq(S) -> Seq(S)]
  <2>1. \A x \in (1..N) \X Seq(S) : x[2] \in Seq(S) /\ B[x[1]] \in Seq(S)
    BY <1>2
  <2>2. \A x \in (1..N) \X Seq(S) : x[2] \o B[x[1]] \in Seq(S)
    BY <2>1, Below
  <2> QED BY <1>3, <2>2
<1>5. <<>> \in Seq(S)
  OBVIOUS
<1>6. PICK G \in [0..N -> Seq(S)] : Recurs(G, N, <<>>, op)
  BY <1>4, <1>5, RecursExist
<1>7. G[0] = <<>>
  BY <1>6 DEF Recurs
<1>8. ASSUME NEW n \in 1..N PROVE G[n] = G[n - 1] \o B[n]
  <2>1. n \in 0..N /\ n - 1 \in 0..N /\ n # 0
    OBVIOUS
  <2>2. G[n - 1] \in Seq(S)
    BY <2>1
  <2>3. G[n] = op[<<n, G[n - 1]>>]
    BY <1>6, <2>1 DEF Recurs
  <2>4. <<n, G[n - 1]>> \in (1..N) \X Seq(S)
    BY <2>2
  <2> QED BY <1>3, <2>3, <2>4
<1>9. Stack(G, B, S)
  BY <1>1, <1>6, <1>7, <1>8 DEF Stack
<1>10. CASE N = 0
  <2>1. FlattenSeq(B) = B /\ B = <<>>
    BY <1>1, <1>10 DEF FlattenSeq
  <2> QED BY <1>1, <1>7, <1>9, <1>10, <2>1
<1>11. CASE N # 0
  <2>1. PICK g : g = [i \in 1..N |-> G[i]]
    OBVIOUS
  <2>2. g = [i \in 1..N |-> IF i = 1 THEN B[i] ELSE g[i - 1] \o B[i]]
    <3>1. ASSUME NEW i \in 1..N PROVE G[i] = IF i = 1 THEN B[i] ELSE g[i - 1] \o B[i]
      <4>1. CASE i = 1
        <5>1. 1 \in 1..N /\ 1 - 1 = 0
          BY <1>11
        <5>2. G[1] = G[1 - 1] \o B[1]
          BY <1>8, <5>1
        <5>3. <<>> \o B[1] = B[1]
          BY <1>2, <5>1
        <5> QED BY <1>7, <4>1, <5>1, <5>2, <5>3
      <4>2. CASE i # 1
        <5>1. i - 1 \in 1..N
          BY <4>2
        <5> QED BY <1>8, <2>1, <4>2, <5>1
      <4> QED BY <4>1, <4>2
    <3> QED BY <2>1, <3>1
  <2>3. PICK f : f = CHOOSE h : h = [i \in 1..N |-> IF i = 1 THEN B[i] ELSE h[i - 1] \o B[i]]
    OBVIOUS
  <2>4. f = [i \in 1..N |-> IF i = 1 THEN B[i] ELSE f[i - 1] \o B[i]]
    BY <2>2, <2>3
  <2>5. FlattenSeq(B) = f[N]
    BY <1>1, <1>11, <2>3 DEF FlattenSeq
  <2>6. PICK T : T = {n \in 0..N : n = 0 \/ f[n] = G[n]}
    OBVIOUS
  <2>7. ASSUME NEW n \in 1..N, n - 1 \in T PROVE n \in T
    <3>1. f[n] = IF n = 1 THEN B[n] ELSE f[n - 1] \o B[n]
      BY <2>4
    <3>2. g[n] = IF n = 1 THEN B[n] ELSE g[n - 1] \o B[n]
      BY <2>2
    <3>3. g[n] = G[n] /\ (n # 1 => g[n - 1] = G[n - 1])
      BY <2>1
    <3>4. n # 1 => f[n - 1] = G[n - 1]
      BY <2>6, <2>7
    <3>5. f[n] = G[n]
      BY <3>1, <3>2, <3>3, <3>4
    <3> QED BY <2>6, <3>5
  <2>8. 0 \in T
    BY <2>6
  <2>9. \A n \in 0..N : n \in T
    BY <2>7, <2>8, Upward
  <2>10. f[N] = G[N]
    BY <1>11, <2>6, <2>9
  <2> QED BY <1>1, <1>9, <2>5, <2>10
<1> QED BY <1>10, <1>11

LEMMA StackIn ==
  ASSUME NEW S, NEW B \in Seq(Seq(S)), NEW G, Stack(G, B, S)
  PROVE  \A x : In(G[Len(B)], x) <=> \E i \in 1..Len(B) : In(B[i], x)
<1>1. PICK N \in Nat : N = Len(B) /\ DOMAIN B = 1..N
  OBVIOUS
<1>2. \A n \in 1..N : B[n] \in Seq(S)
  BY <1>1
<1>9. G \in [0..N -> Seq(S)] /\ \A n \in 1..N : G[n] = G[n - 1] \o B[n]
  BY <1>1 DEF Stack
<1>3. SUFFICES ASSUME NEW x PROVE In(G[N], x) <=> \E i \in 1..N : In(B[i], x)
  BY <1>1
<1>4. PICK T : T = {n \in 0..N : In(G[n], x) <=> \E i \in 1..n : In(B[i], x)}
  OBVIOUS
<1>5. 0 \in T
  <2>1. ~In(G[0], x)
    BY DEF Stack, In
  <2> QED BY <1>4, <2>1
<1>6. ASSUME NEW n \in 1..N, n - 1 \in T PROVE n \in T
  <2>6. n - 1 \in 0..N
    OBVIOUS
  <2>1. G[n - 1] \in Seq(S) /\ B[n] \in Seq(S) /\ G[n] = G[n - 1] \o B[n]
    BY <1>2, <1>9, <2>6
  <2>2. In(G[n], x) <=> In(G[n - 1], x) \/ In(B[n], x)
    BY <2>1, InBoth
  <2>3. In(G[n - 1], x) <=> \E i \in 1..(n - 1) : In(B[i], x)
    BY <1>4, <1>6
  <2>4. \A i : i \in 1..n <=> i \in 1..(n - 1) \/ i = n
    OBVIOUS
  <2>5. In(G[n], x) <=> \E i \in 1..n : In(B[i], x)
    BY <2>2, <2>3, <2>4
  <2> QED BY <1>4, <2>5
<1>7. \A n \in 0..N : n \in T
  BY <1>5, <1>6, Upward
<1>8. N \in T
  BY <1>7
<1> QED BY <1>4, <1>8

LEMMA StackOn ==
  ASSUME NEW S, NEW B \in Seq(Seq(S)), NEW G, Stack(G, B, S), NEW n \in 0..Len(B)
  PROVE  /\ Len(G[n]) <= Len(G[Len(B)])
         /\ \A k \in 1..Len(G[n]) : G[Len(B)][k] = G[n][k]
<1>1. PICK N \in Nat : N = Len(B) /\ DOMAIN B = 1..N
  OBVIOUS
<1>2. PICK T : T = {m \in 0..N : n <= m => /\ Len(G[n]) <= Len(G[m])
                                           /\ \A k \in 1..Len(G[n]) : G[m][k] = G[n][k]}
  OBVIOUS
<1>8. G \in [0..N -> Seq(S)] /\ \A m \in 1..N : G[m] = G[m - 1] \o B[m]
  BY <1>1 DEF Stack
<1>3. \A m \in 0..N : G[m] \in Seq(S) /\ Len(G[m]) \in Nat
  BY <1>8
<1>4. 0 \in T
  <2>1. n <= 0 => n = 0
    BY <1>1
  <2> QED BY <1>1, <1>2, <1>3, <2>1
<1>5. ASSUME NEW m \in 1..N, m - 1 \in T PROVE m \in T
  <2>1. CASE n = m
    BY <1>1, <1>2, <1>3, <2>1
  <2>2. CASE n # m
    <3>1. SUFFICES ASSUME n <= m
                   PROVE Len(G[n]) <= Len(G[m]) /\ \A k \in 1..Len(G[n]) : G[m][k] = G[n][k]
      BY <1>2
    <3>2. n <= m - 1 /\ m - 1 \in 0..N /\ m \in 0..N /\ n \in 0..N
      BY <1>1, <2>2, <3>1
    <3>3. Len(G[n]) <= Len(G[m - 1]) /\ \A k \in 1..Len(G[n]) : G[m - 1][k] = G[n][k]
      BY <1>2, <1>5, <3>2
    <3>4. PICK s \in Seq(S) : s = G[m - 1]
      BY <1>3, <3>2
    <3>5. PICK t \in Seq(S) : t = B[m]
      BY <1>1
    <3>6. G[m] = s \o t
      BY <1>8, <3>4, <3>5
    <3>7. Len(G[m]) = Len(s) + Len(t) /\ \A k \in 1..Len(s) : G[m][k] = s[k]
      BY <3>6, Below
    <3>8. PICK v \in Nat : v = Len(G[n])
      BY <1>3, <3>2
    <3>9. v <= Len(s) /\ \A k \in 1..v : s[k] = G[n][k]
      BY <3>3, <3>4, <3>8
    <3>10. Len(s) \in Nat /\ Len(t) \in Nat
      OBVIOUS
    <3>11. v <= Len(G[m]) /\ \A k \in 1..v : k \in 1..Len(s)
      BY <3>7, <3>9, <3>10
    <3> QED BY <3>7, <3>8, <3>9, <3>11
  <2> QED BY <2>1, <2>2
<1>6. \A m \in 0..N : m \in T
  BY <1>4, <1>5, Upward
<1>7. N \in T /\ n <= N
  BY <1>1, <1>6
<1> QED BY <1>1, <1>2, <1>7

(* The rows of a list as they ought to be.                                 *)
RowsNow(p) == FlattenSeq([i \in DOMAIN p.repos |-> RowsAt(p, i)])

LEMMA RowsAtIs ==
  ASSUME NEW p \in Lists, NEW i \in DOMAIN p.repos
  PROVE  /\ RowsAt(p, i) \in Seq(RowSet) /\ Len(RowsAt(p, i)) > 0 /\ RowsAt(p, i)[1] = Row(i, "repo", 0)
         /\ \A x : In(RowsAt(p, i), x) <=> \E kind \in RowKinds, j \in Nat :
                                              x = Row(i, kind, j) /\ Shows(p, p.repos[i], kind, j)
<1>1. PICK r \in Listed : r = p.repos[i]
  BY DEF Lists
<1>2. i \in Nat
  BY DEF Lists
<1>3. p.status[r] \in Statuses \cup {None}
  BY DEF Lists
<1>4. PICK w \in Nat : w = Wts(p, r)
  BY <1>3 DEF Wts, Statuses
<1>5. PICK v \in Nat : v = Sts(p, r)
  BY <1>3 DEF Sts, Statuses
<1>6. PICK a : a = <<Row(i, "repo", 0)>>
  OBVIOUS
<1>7. PICK b : b = [j \in 1..w |-> Row(i, "worktree", j)]
  OBVIOUS
<1>8. PICK c : c = [j \in 1..v |-> Row(i, "stash", j)]
  OBVIOUS
<1>9. RowsAt(p, i) = (a \o b) \o c
  BY <1>1, <1>4, <1>5, <1>6, <1>7, <1>8 DEF RowsAt, Wts, Sts, Row
<1>10. a \in Seq(RowSet) /\ Len(a) = 1 /\ a[1] = Row(i, "repo", 0)
  BY <1>2, <1>6 DEF RowSet, Row, RowKinds
<1>11. b \in Seq(RowSet) /\ DOMAIN b = 1..w
  <2>1. \A j \in 1..w : Row(i, "worktree", j) \in RowSet
    BY <1>2 DEF RowSet, Row, RowKinds
  <2> QED BY <1>7, <2>1
<1>12. c \in Seq(RowSet) /\ DOMAIN c = 1..v
  <2>1. \A j \in 1..v : Row(i, "stash", j) \in RowSet
    BY <1>2 DEF RowSet, Row, RowKinds
  <2> QED BY <1>8, <2>1
<1>13. PICK ab \in Seq(RowSet) : ab = a \o b
  BY <1>10, <1>11, Below
<1>17. RowsAt(p, i) = ab \o c /\ b \in Seq(RowSet) /\ c \in Seq(RowSet)
  BY <1>9, <1>11, <1>12, <1>13
<1>18. ab \o c \in Seq(RowSet) /\ Len(ab \o c) = Len(ab) + Len(c)
  BY <1>17, Below
<1>20. a \in Seq(RowSet) /\ b \in Seq(RowSet)
  BY <1>10, <1>17
<1>21. Len(a \o b) = Len(a) + Len(b)
  BY <1>20, Below
<1>19. Len(ab) = 1 + Len(b)
  BY <1>10, <1>13, <1>21
<1>14. ab \o c \in Seq(RowSet) /\ Len(ab \o c) = Len(ab) + Len(c) /\ Len(ab) = 1 + Len(b) /\ Len(b) \in Nat /\ Len(c) \in Nat
  BY <1>17, <1>18, <1>19
<1>15. (ab \o c)[1] = Row(i, "repo", 0)
  <2>1. 1 \in 1..Len(ab) /\ 1 \in 1..Len(a)
    BY <1>10, <1>14
  <2>2. (ab \o c)[1] = ab[1]
    BY <1>12, <2>1, Below
  <2>3. (a \o b)[1] = a[1]
    BY <1>20, <2>1, Below
  <2> QED BY <1>10, <1>13, <2>2, <2>3
<1>16. ASSUME NEW x
       PROVE  In(RowsAt(p, i), x) <=> \E kind \in RowKinds, j \in Nat : x = Row(i, kind, j) /\ Shows(p, r, kind, j)
  <2>8. In(ab \o c, x) <=> In(ab, x) \/ In(c, x)
    BY <1>17, InBoth
  <2>1. In(RowsAt(p, i), x) <=> In(ab, x) \/ In(c, x)
    BY <1>17, <2>8
  <2>2. In(ab, x) <=> In(a, x) \/ In(b, x)
    BY <1>10, <1>11, <1>13, InBoth
  <2>3. In(a, x) <=> x = Row(i, "repo", 0)
    BY <1>6 DEF In
  <2>4. In(b, x) <=> \E j \in 1..w : x = Row(i, "worktree", j)
    BY <1>7 DEF In
  <2>5. In(c, x) <=> \E j \in 1..v : x = Row(i, "stash", j)
    BY <1>8 DEF In
  <2>6. ASSUME In(RowsAt(p, i), x)
        PROVE  \E kind \in RowKinds, j \in Nat : x = Row(i, kind, j) /\ Shows(p, r, kind, j)
    <3>1. CASE x = Row(i, "repo", 0)
      BY <3>1 DEF Shows, RowKinds
    <3>2. CASE \E j \in 1..w : x = Row(i, "worktree", j)
      BY <1>4, <3>2 DEF Shows, RowKinds
    <3>3. CASE \E j \in 1..v : x = Row(i, "stash", j)
      BY <1>5, <3>3 DEF Shows, RowKinds
    <3> QED BY <2>1, <2>2, <2>3, <2>4, <2>5, <2>6, <3>1, <3>2, <3>3
  <2>7. ASSUME NEW kind \in RowKinds, NEW j \in Nat, x = Row(i, kind, j), Shows(p, r, kind, j)
        PROVE  In(RowsAt(p, i), x)
    <3>1. CASE kind = "repo" /\ j = 0
      BY <2>1, <2>2, <2>3, <2>7, <3>1
    <3>2. CASE kind = "worktree" /\ j \in 1..w
      BY <2>1, <2>2, <2>4, <2>7, <3>2
    <3>3. CASE kind = "stash" /\ j \in 1..v
      BY <2>1, <2>5, <2>7, <3>3
    <3> QED BY <1>4, <1>5, <2>7, <3>1, <3>2, <3>3 DEF Shows
  <2> QED BY <2>6, <2>7
<1> QED BY <1>1, <1>9, <1>13, <1>14, <1>15, <1>16

\* The rows of p, one repository's below the other's.
Stacked(p, G) ==
  /\ G \in [0..Len(p.repos) -> Seq(RowSet)] /\ G[0] = <<>>
  /\ \A n \in 1..Len(p.repos) : G[n] = G[n - 1] \o RowsAt(p, n)
  /\ RowsNow(p) = G[Len(p.repos)]
  /\ \A n \in 0..Len(p.repos) : /\ Len(G[n]) <= Len(RowsNow(p))
                                /\ \A k \in 1..Len(G[n]) : RowsNow(p)[k] = G[n][k]

\* What is among them.
RowsAreListed(p) ==
  /\ RowsNow(p) \in Seq(RowSet)
  /\ \A i \in Nat, kind \in RowKinds, j \in Nat :
       In(RowsNow(p), Row(i, kind, j)) <=> i \in DOMAIN p.repos /\ Shows(p, p.repos[i], kind, j)
  /\ RowsNow(p) = <<>> <=> p.repos = <<>>

LEMMA RowsNowIs ==
  ASSUME NEW p \in Lists
  PROVE  RowsAreListed(p) /\ \E G : Stacked(p, G)
<1>1. PICK N \in Nat : N = Len(p.repos) /\ DOMAIN p.repos = 1..N
  BY DEF Lists
<1>2. PICK B : B = [i \in 1..N |-> RowsAt(p, i)]
  OBVIOUS
<1>3. B \in Seq(Seq(RowSet)) /\ Len(B) = N
  <2>1. \A i \in 1..N : RowsAt(p, i) \in Seq(RowSet)
    BY <1>1, RowsAtIs
  <2> QED BY <1>2, <2>1
<1>4. RowsNow(p) = FlattenSeq(B)
  BY <1>1, <1>2 DEF RowsNow
<1>5. PICK G : Stack(G, B, RowSet) /\ RowsNow(p) = G[N]
  BY <1>3, <1>4, FlattenIs
<1>6. \A n \in 0..N : Len(G[n]) <= Len(G[N]) /\ \A k \in 1..Len(G[n]) : G[N][k] = G[n][k]
  BY <1>3, <1>5, StackOn
<1>7. G \in [0..N -> Seq(RowSet)] /\ G[0] = <<>> /\ \A n \in 1..N : G[n] = G[n - 1] \o RowsAt(p, n)
  BY <1>2, <1>3, <1>5 DEF Stack
<1>8. Stacked(p, G)
  BY <1>1, <1>5, <1>6, <1>7 DEF Stacked
<1>9. \A x : In(G[N], x) <=> \E i \in 1..N : In(RowsAt(p, i), x)
  <2>1. \A x : In(G[N], x) <=> \E i \in 1..N : In(B[i], x)
    BY <1>3, <1>5, StackIn
  <2> QED BY <1>2, <2>1
<1>10. RowsNow(p) \in Seq(RowSet)
  BY <1>5, <1>7
<1>11. ASSUME NEW i \in Nat, NEW kind \in RowKinds, NEW j \in Nat
       PROVE  In(RowsNow(p), Row(i, kind, j)) <=> i \in DOMAIN p.repos /\ Shows(p, p.repos[i], kind, j)
  <2>1. ASSUME In(RowsNow(p), Row(i, kind, j)) PROVE i \in DOMAIN p.repos /\ Shows(p, p.repos[i], kind, j)
    <3>1. PICK n \in 1..N : In(RowsAt(p, n), Row(i, kind, j))
      BY <1>5, <1>9, <2>1
    <3>2. PICK k \in RowKinds, m \in Nat : Row(i, kind, j) = Row(n, k, m) /\ Shows(p, p.repos[n], k, m)
      BY <1>1, <3>1, RowsAtIs
    <3>3. i = n /\ kind = k /\ j = m
      BY <3>2 DEF Row
    <3> QED BY <1>1, <3>2, <3>3
  <2>2. ASSUME i \in DOMAIN p.repos, Shows(p, p.repos[i], kind, j) PROVE In(RowsNow(p), Row(i, kind, j))
    <3>1. In(RowsAt(p, i), Row(i, kind, j))
      BY <2>2, RowsAtIs
    <3> QED BY <1>1, <1>5, <1>9, <2>2, <3>1
  <2> QED BY <2>1, <2>2
<1>12. ASSUME p.repos # <<>> PROVE RowsNow(p) # <<>>
  <2>1. 1 \in DOMAIN p.repos
    BY <1>1, <1>12
  <2>2. "repo" \in RowKinds /\ Shows(p, p.repos[1], "repo", 0)
    BY DEF Shows, RowKinds
  <2>3. In(RowsNow(p), Row(1, "repo", 0))
    BY <1>11, <2>1, <2>2
  <2> QED BY <2>3 DEF In
<1>13. p.repos = <<>> => RowsNow(p) = <<>>
  BY <1>1, <1>5, <1>7
<1>14. RowsAreListed(p)
  BY <1>10, <1>11, <1>12, <1>13 DEF RowsAreListed
<1> QED BY <1>8, <1>14

-----------------------------------------------------------------------------
(* Lists whose rows are those of their repositories.                       *)

Distinct(repos) == \A i, j \in DOMAIN repos : repos[i] = repos[j] => i = j
Id(r, kind, j) == [repo |-> r, kind |-> kind, sub |-> j]

(* None is nothing else.                                                   *)
LEMMA NoneIs ==
  ASSUME RowsBounds
  PROVE  /\ None \notin Nat /\ None \notin Listed /\ None \notin Statuses /\ None \notin Ids
         /\ None # "click" /\ None # "moved"
BY DEF RowsBounds, Ids

\* The selection apart, and the rows, which follow from the rest.
Same(q, p) ==
  /\ q.repos = p.repos /\ q.status = p.status /\ q.byDefault = p.byDefault
  /\ q.toggled = p.toggled /\ q.stashes = p.stashes /\ q.sorted = p.sorted

Placed(p) == IF p.rows = <<>> THEN p.at = None ELSE p.at \in DOMAIN p.rows
Good(p) == p \in Lists /\ Distinct(p.repos) /\ p.rows = RowsNow(p) /\ Placed(p)

LEMMA SameIs ==
  ASSUME NEW p, NEW q, Same(q, p)
  PROVE  /\ RowsNow(q) = RowsNow(p)
         /\ \A r, kind, j : Shows(q, r, kind, j) <=> Shows(p, r, kind, j)
<1>1. \A i : RowsAt(q, i) = RowsAt(p, i)
  BY DEF Same, RowsAt, WorktreesShown
<1>2. q.repos = p.repos
  BY DEF Same
<1>3. RowsNow(q) = RowsNow(p)
  BY <1>1, <1>2 DEF RowsNow
<1>4. \A r : Wts(q, r) = Wts(p, r) /\ Sts(q, r) = Sts(p, r)
  BY DEF Same, Wts, Sts, WorktreesShown
<1> QED BY <1>3, <1>4 DEF Shows

\* q is p with other rows, or another selection.
Redrawn(q, p, rows, at) == q \in Lists /\ Same(q, p) /\ q.rows = rows /\ q.at = at

LEMMA RebuildIs ==
  ASSUME NEW p \in Lists
  PROVE  Redrawn(Rebuild(p), p, RowsNow(p), p.at)
<1>1. RowsNow(p) \in Seq(RowSet)
  BY RowsNowIs DEF RowsAreListed
<1>2. PICK rows \in Seq(RowSet) : rows = RowsNow(p)
  BY <1>1
<1>3. Rebuild(p) = [p EXCEPT !.rows = rows]
  BY <1>2 DEF Rebuild, RowsNow
<1>4. [p EXCEPT !.rows = rows] \in Lists
  BY DEF Lists
<1>5. Same([p EXCEPT !.rows = rows], p)
  BY DEF Lists, Same
<1>6. [p EXCEPT !.rows = rows].rows = rows /\ [p EXCEPT !.rows = rows].at = p.at
  BY DEF Lists
<1> QED BY <1>2, <1>3, <1>4, <1>5, <1>6 DEF Redrawn

LEMMA AtIs ==
  ASSUME NEW p \in Lists, NEW n \in Nat \cup {None}
  PROVE  Redrawn([p EXCEPT !.at = n], p, p.rows, n)
<1>4. [p EXCEPT !.at = n] \in Lists
  BY DEF Lists
<1>5. Same([p EXCEPT !.at = n], p)
  BY DEF Lists, Same
<1>6. [p EXCEPT !.at = n].rows = p.rows /\ [p EXCEPT !.at = n].at = n
  BY DEF Lists
<1> QED BY <1>4, <1>5, <1>6 DEF Redrawn

\* n is the first place of x in s, or 0.
Finds(n, s, x) ==
  /\ In(s, x) => n \in DOMAIN s /\ s[n] = x /\ \A m \in DOMAIN s : s[m] = x => n <= m
  /\ ~In(s, x) => n = 0

LEMMA FindIs ==
  ASSUME NEW p \in Lists, NEW x
  PROVE  Finds(Find(p, x), p.rows, x) /\ Find(p, x) \in Nat
<1>1. PICK rows \in Seq(RowSet) : rows = p.rows
  BY DEF Lists
<1>2. PICK T : T = {n \in DOMAIN rows : rows[n] = x}
  OBVIOUS
<1>3. Find(p, x) = IF T = {} THEN 0 ELSE Min(T)
  BY <1>1, <1>2 DEF Find
<1>4. T \subseteq Nat
  BY <1>2
<1>5. CASE T = {}
  BY <1>1, <1>2, <1>3, <1>5 DEF Finds, In
<1>6. CASE T # {}
  <2>1. \E n \in T : \A m \in T : n <= m
    BY <1>4, <1>6, LeastNumber
  <2>2. PICK n : n = Min(T)
    OBVIOUS
  <2>3. n \in T /\ \A m \in T : n <= m
    BY <2>1, <2>2 DEF Min
  <2> QED BY <1>1, <1>2, <1>3, <1>4, <1>6, <2>2, <2>3 DEF Finds, In
<1> QED BY <1>5, <1>6

LEMMA PlaceIs ==
  ASSUME NEW p \in Lists, NEW r
  PROVE  /\ r \in Range(p.repos) => IndexOf(p, r) \in DOMAIN p.repos /\ p.repos[IndexOf(p, r)] = r
         /\ r \notin Range(p.repos) => IndexOf(p, r) = 0
         /\ Distinct(p.repos) => \A i \in DOMAIN p.repos : p.repos[i] = r => IndexOf(p, r) = i
         /\ IndexOf(p, r) \in Nat
<1>1. DOMAIN p.repos \subseteq Nat
  BY DEF Lists
<1>2. r \in Range(p.repos) => IndexOf(p, r) \in DOMAIN p.repos /\ p.repos[IndexOf(p, r)] = r
  BY DEF IndexOf, Range
<1>3. r \notin Range(p.repos) => IndexOf(p, r) = 0
  BY DEF IndexOf
<1>4. Distinct(p.repos) => \A i \in DOMAIN p.repos : p.repos[i] = r => IndexOf(p, r) = i
  BY <1>2 DEF Distinct, Range
<1> QED BY <1>1, <1>2, <1>3, <1>4

(* The repository and the place of a row.                                  *)
LEMMA IdIs ==
  ASSUME RowsBounds, NEW p \in Lists, NEW i, NEW kind, NEW j, NEW n \in DOMAIN p.rows, p.rows[n] = Row(i, kind, j)
  PROVE  RowId(p, n) = Id(p.repos[i], kind, j) /\ (p.at = n => SelectedId(p) = Id(p.repos[i], kind, j))
<1>1. RowId(p, n) = Id(p.repos[i], kind, j)
  BY DEF RowId, Id, Row
<1>2. n # None
  BY NoneIs DEF Lists
<1> QED BY <1>1, <1>2 DEF SelectedId

\* q is p drawn anew, and what is selected is id if it is there, or its repository.
Keeps(q, p, id) ==
  /\ Good(q) /\ Same(q, p)
  /\ id # None /\ id.repo \in Range(p.repos) =>
       /\ SelectedId(q) \in Ids /\ SelectedId(q).repo = id.repo
       /\ Shows(p, id.repo, id.kind, id.sub) => SelectedId(q) = id

\* q is p with the row of r selected.
Chosen(q, p, r) == Good(q) /\ Same(q, p) /\ q.rows = p.rows /\ SelectedId(q) = Id(r, "repo", 0)

(* Another selection in a list that is drawn.                              *)
LEMMA MoveIs ==
  ASSUME RowsBounds, NEW p, p \in Lists, Distinct(p.repos), p.rows = RowsNow(p), NEW n \in DOMAIN p.rows,
         NEW q, q = [p EXCEPT !.at = n]
  PROVE  Good(q) /\ Same(q, p) /\ q.rows = p.rows /\ q.at = n /\ SelectedId(q) = RowId(p, n)
<1>1. n \in Nat
  BY DEF Lists
<1>2. Redrawn(q, p, p.rows, n)
  BY <1>1, AtIs
<1>3. q \in Lists /\ Same(q, p) /\ q.rows = p.rows /\ q.at = n
  BY <1>2 DEF Redrawn
<1>4. RowsNow(q) = RowsNow(p) /\ q.repos = p.repos
  BY <1>3, SameIs DEF Same
<1>5. p.rows # <<>> /\ n # None
  BY <1>1, NoneIs
<1>6. Good(q)
  BY <1>3, <1>4, <1>5 DEF Good, Placed
<1>7. SelectedId(q) = RowId(p, n)
  BY <1>3, <1>4, <1>5 DEF SelectedId, RowId
<1> QED BY <1>3, <1>6, <1>7

(* The selection of a repository's row.                                    *)
LEMMA SelectIs ==
  ASSUME RowsBounds, NEW p, p \in Lists, Distinct(p.repos), p.rows = RowsNow(p), NEW i \in DOMAIN p.repos
  PROVE  Chosen(SelectRepoRow(p, i), p, p.repos[i])
<1>1. i \in Nat /\ "repo" \in RowKinds /\ 0 \in Nat
  BY DEF Lists, RowKinds
<1>2. In(p.rows, Row(i, "repo", 0))
  <2>1. Shows(p, p.repos[i], "repo", 0)
    BY DEF Shows
  <2> QED BY <1>1, <2>1, RowsNowIs DEF RowsAreListed
<1>3. PICK n : n = Find(p, Row(i, "repo", 0))
  OBVIOUS
<1>4. n \in DOMAIN p.rows /\ p.rows[n] = Row(i, "repo", 0)
  <2>1. Finds(n, p.rows, Row(i, "repo", 0))
    BY <1>3, FindIs
  <2> QED BY <1>2, <2>1 DEF Finds
<1>5. n # 0
  BY <1>4 DEF Lists
<1>6. SelectRepoRow(p, i) = [p EXCEPT !.at = n]
  BY <1>3, <1>5 DEF SelectRepoRow, Row
<1>7. PICK q : q = [p EXCEPT !.at = n]
  OBVIOUS
<1>8. Good(q) /\ Same(q, p) /\ q.rows = p.rows /\ SelectedId(q) = RowId(p, n)
  BY <1>4, <1>7, MoveIs
<1>9. RowId(p, n) = Id(p.repos[i], "repo", 0)
  BY <1>4, IdIs
<1> QED BY <1>6, <1>7, <1>8, <1>9 DEF Chosen

(* Nothing is selected that is not listed.                                 *)
LEMMA SelectNone ==
  ASSUME NEW p, p \in Lists, p.rows = RowsNow(p), NEW i \in Nat, i \notin DOMAIN p.repos
  PROVE  SelectRepoRow(p, i) = p
<1>1. ~In(p.rows, Row(i, "repo", 0))
  BY RowsNowIs DEF RowsAreListed, RowKinds
<1>2. Finds(Find(p, Row(i, "repo", 0)), p.rows, Row(i, "repo", 0))
  BY FindIs
<1> QED BY <1>1, <1>2 DEF SelectRepoRow, Finds, Row

LEMMA SelectKeeps ==
  ASSUME RowsBounds, NEW p, Good(p), NEW i \in Nat
  PROVE  Good(SelectRepoRow(p, i)) /\ Same(SelectRepoRow(p, i), p) /\ SelectRepoRow(p, i).rows = p.rows
<1>1. p \in Lists /\ Distinct(p.repos) /\ p.rows = RowsNow(p)
  BY DEF Good
<1>2. CASE i \in DOMAIN p.repos
  BY <1>1, <1>2, SelectIs DEF Chosen
<1>3. CASE i \notin DOMAIN p.repos
  BY <1>1, <1>3, SelectNone DEF Same
<1> QED BY <1>2, <1>3

(* resync_rows.                                                            *)
LEMMA ResyncIs ==
  ASSUME RowsBounds, NEW p, p \in Lists, Distinct(p.repos), NEW id \in Ids \cup {None}
  PROVE  Keeps(Resync(p, id), p, id)
<1>1. PICK q : q = Rebuild(p)
  OBVIOUS
<1>2. q \in Lists /\ Same(q, p) /\ q.rows = RowsNow(p)
  BY <1>1, RebuildIs DEF Redrawn
<1>3. q.repos = p.repos /\ q.rows = RowsNow(q) /\ Distinct(q.repos)
  BY <1>2, SameIs DEF Same
<1>4. \A r, kind, j : Shows(q, r, kind, j) <=> Shows(p, r, kind, j)
  BY <1>2, SameIs
<1>5. q.rows = <<>> <=> p.repos = <<>>
  BY <1>2, <1>3, RowsNowIs DEF RowsAreListed
<1>6. PICK i : i = IF id = None THEN 0 ELSE IndexOf(q, id.repo)
  OBVIOUS
<1>7. i \in Nat /\ (id # None /\ id.repo \in Range(p.repos) => i \in DOMAIN p.repos /\ p.repos[i] = id.repo)
  BY <1>2, <1>3, <1>6, PlaceIs
<1>17. DOMAIN p.repos \subseteq Nat \ {0} /\ (p.repos # <<>> => 1 \in DOMAIN p.repos)
  BY DEF Lists
<1>18. i = 0 => id = None \/ id.repo \notin Range(p.repos)
  BY <1>7, <1>17
<1>8. i # 0 => i \in DOMAIN p.repos /\ p.repos[i] = id.repo /\ id \in Ids
  BY <1>2, <1>3, <1>6, PlaceIs
<1>9. PICK n : n = IF i = 0 THEN 0 ELSE Find(q, Row(i, id.kind, id.sub))
  OBVIOUS
<1>10. Resync(p, id) = IF q.rows = <<>> THEN [q EXCEPT !.at = None]
                       ELSE IF n # 0 THEN [q EXCEPT !.at = n]
                       ELSE IF i # 0 THEN SelectRepoRow(q, i)
                       ELSE SelectRepoRow(q, 1)
  BY <1>1, <1>6, <1>9 DEF Resync, Row
<1>11. \A u : Same(u, q) => Same(u, p)
  BY <1>2 DEF Same
<1>12. CASE q.rows = <<>>
  <2>1. PICK u : u = [q EXCEPT !.at = None]
    OBVIOUS
  <2>2. u \in Lists /\ Same(u, q) /\ u.rows = q.rows /\ u.at = None
    BY <1>2, <2>1, AtIs DEF Redrawn
  <2>3. RowsNow(u) = RowsNow(q) /\ u.repos = q.repos
    BY <2>2, SameIs DEF Same
  <2>4. Good(u)
    BY <1>3, <1>12, <2>2, <2>3 DEF Good, Placed
  <2>5. Range(p.repos) = {}
    BY <1>5, <1>12 DEF Range
  <2> QED BY <1>10, <1>11, <1>12, <2>1, <2>2, <2>4, <2>5 DEF Keeps
<1>13. CASE q.rows # <<>> /\ n # 0
  <2>1. i # 0 /\ n = Find(q, Row(i, id.kind, id.sub))
    BY <1>9, <1>13
  <2>2. i \in DOMAIN p.repos /\ p.repos[i] = id.repo /\ id \in Ids
    BY <1>8, <2>1
  <2>3. Finds(n, q.rows, Row(i, id.kind, id.sub))
    BY <1>2, <2>1, FindIs
  <2>4. n \in DOMAIN q.rows /\ q.rows[n] = Row(i, id.kind, id.sub)
    BY <1>13, <2>3 DEF Finds
  <2>5. PICK u : u = [q EXCEPT !.at = n]
    OBVIOUS
  <2>6. Good(u) /\ Same(u, q) /\ SelectedId(u) = RowId(q, n)
    BY <1>2, <1>3, <2>4, <2>5, MoveIs
  <2>7. RowId(q, n) = Id(id.repo, id.kind, id.sub)
    BY <1>2, <1>3, <2>2, <2>4, IdIs
  <2>8. Id(id.repo, id.kind, id.sub) = id
    BY <2>2 DEF Ids, Id
  <2> QED BY <1>10, <1>11, <1>13, <2>2, <2>5, <2>6, <2>7, <2>8 DEF Keeps
<1>14. CASE q.rows # <<>> /\ n = 0 /\ i # 0
  <2>1. i \in DOMAIN q.repos /\ q.repos[i] = id.repo /\ id \in Ids
    BY <1>3, <1>8, <1>14
  <2>2. PICK u : u = SelectRepoRow(q, i)
    OBVIOUS
  <2>3. Good(u) /\ Same(u, q) /\ SelectedId(u) = Id(id.repo, "repo", 0)
    BY <1>2, <1>3, <2>1, <2>2, SelectIs DEF Chosen
  <2>4. ~Shows(p, id.repo, id.kind, id.sub)
    <3>1. Finds(n, q.rows, Row(i, id.kind, id.sub))
      BY <1>2, <1>9, <1>14, FindIs
    <3>2. 0 \notin DOMAIN q.rows
      BY <1>2 DEF Lists
    <3>3. ~In(q.rows, Row(i, id.kind, id.sub))
      BY <1>14, <3>1, <3>2 DEF Finds
    <3>4. i \in Nat /\ id.kind \in RowKinds /\ id.sub \in Nat
      BY <1>7, <2>1 DEF Ids
    <3>5. ~Shows(q, q.repos[i], id.kind, id.sub)
      BY <1>2, <1>3, <2>1, <3>3, <3>4, RowsNowIs DEF RowsAreListed
    <3> QED BY <1>4, <2>1, <3>5
  <2>5. Id(id.repo, "repo", 0) \in Ids /\ Id(id.repo, "repo", 0).repo = id.repo
    BY <2>1 DEF Ids, Id, RowKinds
  <2> QED BY <1>10, <1>11, <1>14, <2>2, <2>3, <2>4, <2>5 DEF Keeps
<1>15. CASE q.rows # <<>> /\ n = 0 /\ i = 0
  <2>1. 1 \in DOMAIN q.repos
    BY <1>3, <1>5, <1>15, <1>17
  <2>2. PICK u : u = SelectRepoRow(q, 1)
    OBVIOUS
  <2>3. Good(u) /\ Same(u, q)
    BY <1>2, <1>3, <2>1, <2>2, SelectIs DEF Chosen
  <2> QED BY <1>10, <1>11, <1>15, <1>18, <2>2, <2>3 DEF Keeps
<1> QED BY <1>12, <1>13, <1>14, <1>15

(* Some row of some repository is selected, if there is one.               *)
LEMMA SelectedIs ==
  ASSUME RowsBounds, NEW p, Good(p)
  PROVE  /\ SelectedId(p) \in Ids \cup {None}
         /\ SelectedId(p) = None <=> p.rows = <<>>
         /\ SelectedId(p) # None => /\ p.at \in DOMAIN p.rows
                                    /\ p.rows[p.at].at \in DOMAIN p.repos
                                    /\ p.repos[p.rows[p.at].at] = SelectedId(p).repo
                                    /\ p.rows[p.at] = Row(p.rows[p.at].at, SelectedId(p).kind, SelectedId(p).sub)
                                    /\ SelectedId(p).repo \in Range(p.repos)
                                    /\ Shows(p, SelectedId(p).repo, SelectedId(p).kind, SelectedId(p).sub)
<1>1. p \in Lists /\ p.rows = RowsNow(p) /\ Placed(p)
  BY DEF Good
<1>2. CASE p.rows = <<>>
  BY <1>1, <1>2 DEF Placed, SelectedId
<1>3. CASE p.rows # <<>>
  <2>1. p.at \in DOMAIN p.rows
    BY <1>1, <1>3 DEF Placed
  <2>2. PICK i \in Nat, kind \in RowKinds, j \in Nat : p.rows[p.at] = Row(i, kind, j)
    <3>1. p.rows[p.at] \in RowSet
      BY <1>1, <2>1 DEF Lists
    <3> QED BY <3>1 DEF RowSet, Row
  <2>3. SelectedId(p) = Id(p.repos[i], kind, j)
    BY <1>1, <2>1, <2>2, IdIs
  <2>4. i \in DOMAIN p.repos /\ Shows(p, p.repos[i], kind, j)
    <3>1. In(p.rows, Row(i, kind, j))
      BY <2>1, <2>2 DEF In
    <3> QED BY <1>1, <3>1, RowsNowIs DEF RowsAreListed
  <2>5. p.repos[i] \in Listed
    BY <1>1, <2>4 DEF Lists
  <2>6. Id(p.repos[i], kind, j) \in Ids /\ SelectedId(p).repo = p.repos[i] /\ SelectedId(p).kind = kind /\ SelectedId(p).sub = j
    BY <2>3, <2>5 DEF Id, Ids
  <2>7. p.rows[p.at].at = i
    BY <2>2 DEF Row
  <2>8. SelectedId(p) # None
    BY <2>3, <2>6, NoneIs
  <2> QED BY <1>3, <2>1, <2>2, <2>3, <2>4, <2>6, <2>7, <2>8 DEF Range
<1> QED BY <1>2, <1>3

-----------------------------------------------------------------------------
(* Orders.                                                                 *)

(* Keys of one length are in a strict order.                               *)
LEMMA BeforeIs ==
  ASSUME NEW N \in Nat
  PROVE  /\ \A k \in [1..N -> Int] : ~Before(k, k)
         /\ \A k, l, m \in [1..N -> Int] : Before(k, l) /\ Before(l, m) => Before(k, m)
         /\ \A k, l \in [1..N -> Int] : k = l \/ Before(k, l) \/ Before(l, k)
<1>1. ASSUME NEW k \in [1..N -> Int] PROVE ~Before(k, k)
  <2>1. \A n \in 1..N : ~(k[n] < k[n])
    OBVIOUS
  <2> QED BY <2>1 DEF Before
<1>2. ASSUME NEW k \in [1..N -> Int], NEW l \in [1..N -> Int], NEW m \in [1..N -> Int],
             Before(k, l), Before(l, m)
      PROVE  Before(k, m)
  <2>1. PICK a \in 1..N : k[a] < l[a] /\ \A n \in 1..(a - 1) : k[n] = l[n]
    BY <1>2 DEF Before
  <2>2. PICK b \in 1..N : l[b] < m[b] /\ \A n \in 1..(b - 1) : l[n] = m[n]
    BY <1>2 DEF Before
  <2>3. CASE a <= b
    <3>1. a < b => l[a] = m[a]
      BY <2>2
    <3>2. k[a] < m[a]
      BY <2>1, <2>2, <2>3, <3>1
    <3>3. \A n \in 1..(a - 1) : n \in 1..(b - 1)
      BY <2>3
    <3>4. \A n \in 1..(a - 1) : k[n] = m[n]
      BY <2>1, <2>2, <3>3
    <3> QED BY <3>2, <3>4 DEF Before
  <2>4. CASE b < a
    <3>1. k[b] = l[b]
      BY <2>1, <2>4
    <3>2. k[b] < m[b]
      BY <2>2, <3>1
    <3>3. \A n \in 1..(b - 1) : n \in 1..(a - 1)
      BY <2>4
    <3>4. \A n \in 1..(b - 1) : k[n] = m[n]
      BY <2>1, <2>2, <3>3
    <3> QED BY <3>2, <3>4 DEF Before
  <2> QED BY <2>3, <2>4
<1>3. ASSUME NEW k \in [1..N -> Int], NEW l \in [1..N -> Int], k # l
      PROVE  Before(k, l) \/ Before(l, k)
  <2>1. PICK T : T = {n \in 1..N : k[n] # l[n]}
    OBVIOUS
  <2>2. T # {}
    BY <1>3, <2>1
  <2>3. T \subseteq Nat
    BY <2>1
  <2>4. PICK n \in T : \A m \in T : n <= m
    BY <2>2, <2>3, LeastNumber
  <2>5. n \in 1..N /\ k[n] # l[n]
    BY <2>1
  <2>6. ASSUME NEW m \in 1..(n - 1) PROVE k[m] = l[m]
    <3>1. m \in 1..N /\ ~(n <= m)
      BY <2>5
    <3> QED BY <2>1, <2>4, <3>1
  <2>7. k[n] < l[n] \/ l[n] < k[n]
    BY <2>5
  <2> QED BY <2>5, <2>6, <2>7 DEF Before
<1> QED BY <1>1, <1>2, <1>3

\* s lists S in the order of the keys K.
Arranges(s, S, K) ==
  /\ s \in Seq(Listed) /\ Distinct(s) /\ Range(s) = S
  /\ \A i, j \in DOMAIN s : i < j <=> Before(K[s[i]], K[s[j]])

\* What is listed of S, with its keys.
Entries(S, K) == {[repo |-> r, key |-> K[r]] : r \in S}

LEMMA OrderedIs ==
  ASSUME RowsBounds, NEW S, S \subseteq Listed, NEW N \in Nat, NEW K, K \in [S -> [1..N -> Int]],
         \A r, o \in S : K[r] = K[o] => r = o
  PROVE  Arranges(Ordered(Entries(S, K)), S, K)
<1>1. PICK E : E = Entries(S, K)
  OBVIOUS
<1>2. IsFiniteSet(S)
  BY FS_Subset DEF RowsBounds
<1>3. IsFiniteSet(E)
  <2>1. PICK f : f = [r \in S |-> [repo |-> r, key |-> K[r]]]
    OBVIOUS
  <2>2. f \in Surjection(S, E)
    BY <1>1, <2>1 DEF Entries, Surjection
  <2> QED BY <1>2, <2>2, FS_Surjection
<1>4. \A e \in E : e.repo \in S /\ e.key = K[e.repo] /\ e = [repo |-> e.repo, key |-> K[e.repo]]
  BY <1>1 DEF Entries
<1>5. \A r \in S : \E e \in E : e.repo = r /\ e.key = K[r]
  <2>1. SUFFICES ASSUME NEW r \in S PROVE \E e \in E : e.repo = r /\ e.key = K[r]
    OBVIOUS
  <2>2. PICK e : e = [repo |-> r, key |-> K[r]]
    OBVIOUS
  <2>3. e \in E /\ e.repo = r /\ e.key = K[r]
    BY <1>1, <2>2 DEF Entries
  <2> QED BY <2>3
<1>6. \A e \in E : e.key \in [1..N -> Int]
  BY <1>4
<1>7. \A e, o \in E : e = o \/ Before(e.key, o.key) \/ Before(o.key, e.key)
  <2>1. SUFFICES ASSUME NEW e \in E, NEW o \in E, e # o PROVE Before(e.key, o.key) \/ Before(o.key, e.key)
    OBVIOUS
  <2>2. e.repo # o.repo
    BY <1>4, <2>1
  <2>3. e.key # o.key
    BY <1>4, <2>2
  <2> QED BY <1>6, <2>3, BeforeIs
<1>8. PICK C \in Nat : C = Cardinality(E)
  BY <1>3, FS_CardinalityType
<1>9. PICK T : T = [e \in E |-> {o \in E : Before(o.key, e.key)}]
  OBVIOUS
<1>10. \A e \in E : e \notin T[e] /\ T[e] \subseteq E
  BY <1>6, <1>9, BeforeIs
<1>11. PICK rank : rank = [e \in E |-> Cardinality(T[e])]
  OBVIOUS
<1>12. \A e \in E : rank[e] \in 0..(C - 1)
  <2>1. SUFFICES ASSUME NEW e \in E PROVE rank[e] \in 0..(C - 1)
    OBVIOUS
  <2>2. T[e] \in SUBSET E /\ T[e] # E
    BY <1>10
  <2>3. IsFiniteSet(T[e]) /\ Cardinality(T[e]) <= C /\ Cardinality(T[e]) # C
    BY <1>3, <1>8, <2>2, FS_Subset
  <2>4. Cardinality(T[e]) \in Nat
    BY <2>3, FS_CardinalityType
  <2> QED BY <1>11, <2>3, <2>4
<1>13. \A e, o \in E : Before(e.key, o.key) => rank[e] < rank[o]
  <2>1. SUFFICES ASSUME NEW e \in E, NEW o \in E, Before(e.key, o.key) PROVE rank[e] < rank[o]
    OBVIOUS
  <2>2. e \in T[o] /\ e \notin T[e]
    BY <1>9, <1>10, <2>1
  <2>3. \A x \in E : Before(x.key, e.key) => Before(x.key, o.key)
    BY <1>6, <2>1, BeforeIs
  <2>4. T[e] \in SUBSET T[o] /\ T[e] # T[o]
    BY <1>9, <2>2, <2>3
  <2>5. IsFiniteSet(T[o])
    BY <1>3, <1>10, FS_Subset
  <2>6. IsFiniteSet(T[e]) /\ Cardinality(T[e]) <= Cardinality(T[o]) /\ Cardinality(T[e]) # Cardinality(T[o])
    BY <2>4, <2>5, FS_Subset
  <2>7. Cardinality(T[e]) \in Nat /\ Cardinality(T[o]) \in Nat
    BY <2>5, <2>6, FS_CardinalityType
  <2> QED BY <1>11, <2>6, <2>7
<1>14. \A e, o \in E : rank[e] < rank[o] => Before(e.key, o.key)
  <2>1. SUFFICES ASSUME NEW e \in E, NEW o \in E, rank[e] < rank[o], ~Before(e.key, o.key) PROVE FALSE
    OBVIOUS
  <2>2. rank[e] \in Int /\ rank[o] \in Int
    BY <1>12
  <2>3. e # o
    BY <2>1, <2>2
  <2>4. Before(o.key, e.key)
    BY <1>7, <2>1, <2>3
  <2>5. rank[o] < rank[e]
    BY <1>13, <2>4
  <2> QED BY <2>1, <2>2, <2>5
<1>15. \A e, o \in E : rank[e] = rank[o] => e = o
  <2>1. SUFFICES ASSUME NEW e \in E, NEW o \in E, rank[e] = rank[o], e # o PROVE FALSE
    OBVIOUS
  <2>2. rank[e] \in Int /\ rank[o] \in Int
    BY <1>12
  <2>3. rank[e] < rank[o] \/ rank[o] < rank[e]
    BY <1>7, <1>13, <2>1
  <2> QED BY <2>1, <2>2, <2>3
<1>16. \A n \in 0..(C - 1) : \E e \in E : rank[e] = n
  <2>1. rank \in [E -> 0..(C - 1)]
    BY <1>11, <1>12
  <2>2. rank \in Injection(E, 0..(C - 1))
    BY <1>11, <1>15, <2>1 DEF Injection, IsInjective
  <2>3. IsFiniteSet(0..(C - 1)) /\ Cardinality(0..(C - 1)) = C
    <3>1. 0 \in Int /\ C - 1 \in Int
      BY <1>8
    <3>2. IsFiniteSet(0..(C - 1)) /\ Cardinality(0..(C - 1)) = IF 0 > C - 1 THEN 0 ELSE (C - 1) - 0 + 1
      BY <3>1, FS_Interval
    <3> QED BY <1>8, <3>2
  <2>4. rank \in Surjection(E, 0..(C - 1))
    BY <1>8, <2>2, <2>3, FS_Injection
  <2> QED BY <2>4 DEF Surjection
<1>17. PICK at : at = [i \in 1..C |-> CHOOSE e \in E : rank[e] = i - 1]
  OBVIOUS
<1>18. \A i \in 1..C : at[i] \in E /\ rank[at[i]] = i - 1
  <2>1. SUFFICES ASSUME NEW i \in 1..C PROVE at[i] \in E /\ rank[at[i]] = i - 1
    OBVIOUS
  <2>2. i - 1 \in 0..(C - 1)
    OBVIOUS
  <2>3. \E e \in E : rank[e] = i - 1
    BY <1>16, <2>2
  <2> QED BY <1>17, <2>3
<1>19. \A e \in E : rank[e] + 1 \in 1..C /\ at[rank[e] + 1] = e
  <2>1. SUFFICES ASSUME NEW e \in E PROVE rank[e] + 1 \in 1..C /\ at[rank[e] + 1] = e
    OBVIOUS
  <2>2. rank[e] + 1 \in 1..C /\ (rank[e] + 1) - 1 = rank[e]
    BY <1>12
  <2>3. at[rank[e] + 1] \in E /\ rank[at[rank[e] + 1]] = rank[e]
    BY <1>18, <2>2
  <2> QED BY <1>15, <2>2, <2>3
<1>20. PICK s : s = Ordered(E)
  OBVIOUS
<1>21. s = [i \in 1..C |-> at[i].repo]
  <2>1. \A e \in E : Cardinality({o \in E : Before(o.key, e.key)}) = rank[e]
    BY <1>9, <1>11
  <2>2. \A i \in 1..C : (CHOOSE e \in E : Cardinality({o \in E : Before(o.key, e.key)}) = i - 1) = at[i]
    <3>1. SUFFICES ASSUME NEW i \in 1..C
                   PROVE (CHOOSE e \in E : Cardinality({o \in E : Before(o.key, e.key)}) = i - 1) = at[i]
      OBVIOUS
    <3>2. PICK c : c = CHOOSE e \in E : Cardinality({o \in E : Before(o.key, e.key)}) = i - 1
      OBVIOUS
    <3>3. at[i] \in E /\ Cardinality({o \in E : Before(o.key, at[i].key)}) = i - 1
      BY <1>18, <2>1
    <3>4. c \in E /\ Cardinality({o \in E : Before(o.key, c.key)}) = i - 1
      BY <3>2, <3>3
    <3>5. rank[c] = rank[at[i]]
      BY <1>18, <2>1, <3>4
    <3> QED BY <1>15, <1>18, <3>2, <3>4, <3>5
  <2>3. s = [i \in 1..C |-> (CHOOSE e \in E : Cardinality({o \in E : Before(o.key, e.key)}) = i - 1).repo]
    BY <1>8, <1>20 DEF Ordered
  <2>4. \A i \in 1..C : (CHOOSE e \in E : Cardinality({o \in E : Before(o.key, e.key)}) = i - 1).repo = at[i].repo
    BY <2>2
  <2> QED BY <2>3, <2>4
<1>22. s \in Seq(Listed) /\ DOMAIN s = 1..C
  <2>1. \A i \in 1..C : at[i].repo \in Listed
    BY <1>4, <1>18
  <2> QED BY <1>21, <2>1
<1>23. \A i \in 1..C : s[i] \in S /\ K[s[i]] = at[i].key
  BY <1>4, <1>18, <1>21
<1>24. Distinct(s)
  <2>1. SUFFICES ASSUME NEW i \in 1..C, NEW j \in 1..C, s[i] = s[j] PROVE i = j
    BY <1>22 DEF Distinct
  <2>2. at[i] = at[j]
    BY <1>4, <1>18, <1>21, <2>1
  <2>3. i - 1 = j - 1
    BY <1>18, <2>2
  <2> QED BY <2>3
<1>25. Range(s) = S
  <2>1. ASSUME NEW r \in S PROVE r \in Range(s)
    <3>1. PICK e \in E : e.repo = r
      BY <1>5
    <3>2. PICK i \in 1..C : at[i] = e
      BY <1>19
    <3> QED BY <1>21, <1>22, <3>1, <3>2 DEF Range
  <2> QED BY <1>22, <1>23, <2>1 DEF Range
<1>26. \A i, j \in 1..C : i < j <=> Before(K[s[i]], K[s[j]])
  <2>1. SUFFICES ASSUME NEW i \in 1..C, NEW j \in 1..C PROVE i < j <=> Before(K[s[i]], K[s[j]])
    OBVIOUS
  <2>2. i < j <=> rank[at[i]] < rank[at[j]]
    BY <1>18
  <2>3. rank[at[i]] < rank[at[j]] <=> Before(at[i].key, at[j].key)
    BY <1>13, <1>14, <1>18
  <2> QED BY <1>23, <2>2, <2>3
<1>27. Arranges(s, S, K)
  BY <1>22, <1>24, <1>25, <1>26 DEF Arranges
<1> QED BY <1>1, <1>20, <1>27

(* discover_repos.                                                         *)
LEMMA ByNameIs ==
  ASSUME RowsBounds, NEW S, S \subseteq Listed
  PROVE  ByName(S) \in Seq(Listed) /\ Distinct(ByName(S)) /\ Range(ByName(S)) = S
<1>1. PICK K : K = [r \in S |-> <<Found[r]>>]
  OBVIOUS
<1>2. \A r \in S : Found[r] \in Int
  BY DEF RowsBounds
<1>3. K \in [S -> [1..1 -> Int]]
  BY <1>1, <1>2
<1>4. \A r, o \in S : K[r] = K[o] => r = o
  <2>1. SUFFICES ASSUME NEW r \in S, NEW o \in S, K[r] = K[o] PROVE r = o
    OBVIOUS
  <2>2. K[r][1] = Found[r] /\ K[o][1] = Found[o]
    BY <1>1
  <2> QED BY <2>1, <2>2 DEF RowsBounds
<1>5. Entries(S, K) = {[repo |-> r, key |-> <<Found[r]>>] : r \in S}
  BY <1>1 DEF Entries
<1>6. ByName(S) = Ordered(Entries(S, K))
  BY <1>5 DEF ByName
<1>7. Arranges(Ordered(Entries(S, K)), S, K)
  BY <1>3, <1>4, OrderedIs
<1> QED BY <1>6, <1>7 DEF Arranges

-----------------------------------------------------------------------------
(* Groups.                                                                 *)

\* One step up to the parent.
Up(R, q) == IF Parents(R, q) = {} THEN q ELSE ParentOfRow(R, q)
Climbs(f, R, r) == f = [n \in 0..Cardinality(Listed) |-> IF n = 0 THEN r ELSE Up(R, f[n - 1])]

LEMMA DepthIs ==
  ASSUME RowsBounds, NEW q \in Listed
  PROVE  /\ Cardinality(Outer[q]) \in Nat /\ Cardinality(Outer[q]) <= Cardinality(Listed)
         /\ Cardinality(Outer[q]) = 0 => Outer[q] = {}
         /\ \A o \in Outer[q] : o \in Listed /\ Cardinality(Outer[o]) < Cardinality(Outer[q])
<1>1. IsFiniteSet(Listed) /\ Outer[q] \in SUBSET Listed
  BY DEF RowsBounds
<1>2. IsFiniteSet(Outer[q]) /\ Cardinality(Outer[q]) <= Cardinality(Listed)
  BY <1>1, FS_Subset
<1>3. Cardinality(Outer[q]) \in Nat
  BY <1>2, FS_CardinalityType
<1>4. Cardinality(Outer[q]) = 0 => Outer[q] = {}
  BY <1>2, FS_EmptySet
<1>5. ASSUME NEW o \in Outer[q] PROVE o \in Listed /\ Cardinality(Outer[o]) < Cardinality(Outer[q])
  <2>1. o \in Listed /\ Outer[o] \in SUBSET Outer[q] /\ o \notin Outer[o]
    BY <1>1 DEF RowsBounds
  <2>2. Outer[o] # Outer[q]
    BY <2>1
  <2>3. IsFiniteSet(Outer[o]) /\ Cardinality(Outer[o]) <= Cardinality(Outer[q]) /\ Cardinality(Outer[o]) # Cardinality(Outer[q])
    BY <1>2, <2>1, <2>2, FS_Subset
  <2>4. Cardinality(Outer[o]) \in Nat
    BY <2>3, FS_CardinalityType
  <2> QED BY <1>3, <2>1, <2>3, <2>4
<1> QED BY <1>2, <1>3, <1>4, <1>5

LEMMA ParentIs ==
  ASSUME RowsBounds, NEW R, R \subseteq Listed, NEW q \in Listed, Parents(R, q) # {}
  PROVE  ParentOfRow(R, q) \in Outer[q] \cap R
<1>1. PICK P : P = Parents(R, q)
  OBVIOUS
<1>2. P \subseteq Outer[q] \cap R
  BY <1>1 DEF Parents
<1>3. PICK M \in Nat : M = Cardinality(Listed)
  BY FS_CardinalityType DEF RowsBounds
<1>4. PICK depth : depth = [o \in Listed |-> Cardinality(Outer[o])]
  OBVIOUS
<1>5. \A o \in Listed : depth[o] \in Nat /\ depth[o] <= M
  BY <1>3, <1>4, DepthIs
<1>6. PICK T : T = {n \in Nat : \E o \in P : n = M - depth[o]}
  OBVIOUS
<1>7. P \subseteq Listed
  BY <1>2
<1>8. T # {} /\ T \subseteq Nat
  <2>1. PICK o \in P : TRUE
    BY <1>1
  <2>2. M - depth[o] \in T
    BY <1>5, <1>6, <1>7, <2>1
  <2> QED BY <1>6, <2>2
<1>9. PICK n \in T : \A m \in T : n <= m
  BY <1>8, LeastNumber
<1>10. PICK o \in P : n = M - depth[o]
  BY <1>6
<1>11. \A x \in P : depth[x] <= depth[o]
  <2>1. SUFFICES ASSUME NEW x \in P PROVE depth[x] <= depth[o]
    OBVIOUS
  <2>2. M - depth[x] \in T
    BY <1>5, <1>6, <1>7
  <2>3. n <= M - depth[x]
    BY <1>9, <2>2
  <2> QED BY <1>5, <1>7, <1>10, <2>3
<1>12. \A x \in P : x = o \/ x \in Outer[o]
  <2>1. SUFFICES ASSUME NEW x \in P, o \in Outer[x] PROVE FALSE
    BY <1>2 DEF RowsBounds
  <2>2. x \in Listed /\ o \in Listed
    BY <1>7
  <2>3. depth[o] < depth[x]
    BY <1>4, <2>1, <2>2, DepthIs
  <2> QED BY <1>5, <1>11, <2>2, <2>3
<1>13. ParentOfRow(R, q) \in P
  BY <1>1, <1>12 DEF ParentOfRow
<1> QED BY <1>2, <1>13

LEMMA UpIs ==
  ASSUME RowsBounds, NEW R, R \subseteq Listed, NEW q \in R
  PROVE  Up(R, q) \in R /\ (Parents(R, q) = {} \/ Cardinality(Outer[Up(R, q)]) < Cardinality(Outer[q]))
<1>1. q \in Listed
  OBVIOUS
<1>2. CASE Parents(R, q) = {}
  BY <1>2 DEF Up
<1>3. CASE Parents(R, q) # {}
  <2>1. Up(R, q) \in Outer[q] \cap R
    BY <1>1, <1>3, ParentIs DEF Up
  <2> QED BY <1>1, <2>1, DepthIs
<1> QED BY <1>2, <1>3

LEMMA AnchorClimbs ==
  ASSUME RowsBounds, NEW R, R \subseteq Listed, NEW r \in R
  PROVE  \E f : Climbs(f, R, r) /\ Anchor(R, r) = f[Cardinality(Listed)]
<1>1. PICK M \in Nat : M = Cardinality(Listed)
  BY FS_CardinalityType DEF RowsBounds
<1>2. PICK op : op = [x \in (1..M) \X R |-> Up(R, x[2])]
  OBVIOUS
<1>3. op \in [(1..M) \X R -> R]
  BY <1>2, UpIs
<1>4. PICK g \in [0..M -> R] : Recurs(g, M, r, op)
  BY <1>3, RecursExist
<1>5. Climbs(g, R, r)
  <2>1. ASSUME NEW n \in 0..M PROVE g[n] = IF n = 0 THEN r ELSE Up(R, g[n - 1])
    <3>1. CASE n = 0
      BY <1>4, <3>1 DEF Recurs
    <3>2. CASE n # 0
      <4>1. n \in 1..M /\ n - 1 \in 0..M
        BY <3>2
      <4>2. g[n - 1] \in R
        BY <4>1
      <4>3. g[n] = op[<<n, g[n - 1]>>]
        BY <1>4, <3>2 DEF Recurs
      <4> QED BY <1>2, <3>2, <4>1, <4>2, <4>3
    <3> QED BY <3>1, <3>2
  <2> QED BY <1>1, <1>4, <2>1 DEF Climbs, Recurs
<1>6. PICK f : f = CHOOSE h : Climbs(h, R, r)
  OBVIOUS
<1>7. Climbs(f, R, r)
  BY <1>5, <1>6
<1>8. f = CHOOSE h : h = [n \in 0..Cardinality(Listed) |->
                            IF n = 0 THEN r
                            ELSE IF Parents(R, h[n - 1]) = {} THEN h[n - 1] ELSE ParentOfRow(R, h[n - 1])]
  BY <1>6 DEF Climbs, Up
<1>9. Anchor(R, r) = f[Cardinality(Listed)]
  BY <1>8 DEF Anchor
<1> QED BY <1>7, <1>9

LEMMA AnchorIs ==
  ASSUME RowsBounds, NEW R, R \subseteq Listed, NEW r \in R
  PROVE  Anchor(R, r) \in R /\ Parents(R, Anchor(R, r)) = {}
<1>1. PICK M \in Nat : M = Cardinality(Listed)
  BY FS_CardinalityType DEF RowsBounds
<1>2. PICK f : Climbs(f, R, r) /\ Anchor(R, r) = f[M]
  BY <1>1, AnchorClimbs
<1>3. \A n \in 0..M : f[n] = IF n = 0 THEN r ELSE Up(R, f[n - 1])
  BY <1>1, <1>2 DEF Climbs
<1>4. PICK T : T = {n \in 0..M : f[n] \in R /\ (Parents(R, f[n]) = {} \/ Cardinality(Outer[f[n]]) <= M - n)}
  OBVIOUS
<1>5. 0 \in T
  <2>1. f[0] = r
    BY <1>3
  <2>2. Cardinality(Outer[r]) <= M /\ Cardinality(Outer[r]) \in Nat
    BY <1>1, DepthIs
  <2> QED BY <1>4, <2>1, <2>2
<1>6. ASSUME NEW n \in 1..M, n - 1 \in T PROVE n \in T
  <2>1. PICK q \in R : q = f[n - 1]
    BY <1>4, <1>6
  <2>2. f[n] = Up(R, q)
    BY <1>3, <2>1
  <2>3. Up(R, q) \in R
    BY UpIs
  <2>4. CASE Parents(R, q) = {}
    <3>1. f[n] = q
      BY <2>2, <2>4 DEF Up
    <3> QED BY <1>4, <2>4, <3>1
  <2>5. CASE Parents(R, q) # {}
    <3>1. PICK a \in Nat, b \in Nat : a = Cardinality(Outer[q]) /\ b = Cardinality(Outer[Up(R, q)])
      BY <2>3, DepthIs
    <3>2. b < a
      BY <2>5, <3>1, UpIs
    <3>3. a <= M - (n - 1)
      BY <1>4, <1>6, <2>1, <2>5, <3>1
    <3>4. b <= M - n
      BY <3>2, <3>3
    <3> QED BY <1>4, <2>2, <2>3, <3>1, <3>4
  <2> QED BY <2>4, <2>5
<1>7. \A n \in 0..M : n \in T
  BY <1>5, <1>6, Upward
<1>8. M \in T
  BY <1>7
<1>9. f[M] \in R /\ (Parents(R, f[M]) = {} \/ Cardinality(Outer[f[M]]) <= 0)
  BY <1>4, <1>8
<1>10. Cardinality(Outer[f[M]]) \in Nat /\ (Cardinality(Outer[f[M]]) = 0 => Outer[f[M]] = {})
  BY <1>9, DepthIs
<1>11. Outer[f[M]] = {} => Parents(R, f[M]) = {}
  BY DEF Parents
<1> QED BY <1>2, <1>9, <1>10, <1>11

LEMMA AnchorStays ==
  ASSUME RowsBounds, NEW R, R \subseteq Listed, NEW a \in R, Parents(R, a) = {}
  PROVE  Anchor(R, a) = a
<1>1. PICK M \in Nat : M = Cardinality(Listed)
  BY FS_CardinalityType DEF RowsBounds
<1>2. PICK f : Climbs(f, R, a) /\ Anchor(R, a) = f[M]
  BY <1>1, AnchorClimbs
<1>3. \A n \in 0..M : f[n] = IF n = 0 THEN a ELSE Up(R, f[n - 1])
  BY <1>1, <1>2 DEF Climbs
<1>4. PICK T : T = {n \in 0..M : f[n] = a}
  OBVIOUS
<1>5. 0 \in T
  BY <1>3, <1>4
<1>6. ASSUME NEW n \in 1..M, n - 1 \in T PROVE n \in T
  <2>1. f[n] = Up(R, f[n - 1]) /\ f[n - 1] = a
    BY <1>3, <1>4, <1>6
  <2>2. Up(R, a) = a
    BY DEF Up
  <2> QED BY <1>4, <2>1, <2>2
<1>7. \A n \in 0..M : n \in T
  BY <1>5, <1>6, Upward
<1> QED BY <1>2, <1>4, <1>7

\* K[r] is the key of r: by d and w of what its group is sorted by, that one first.
GroupKeys(K, R, d, w) ==
  /\ d \in [Listed -> Int] /\ w \in [Listed -> Int]
  /\ \A a, b \in Listed : w[a] = w[b] => a = b
  /\ \A r \in R : /\ K[r] \in [1..4 -> Int]
                  /\ K[r][1] = d[Anchor(R, r)] /\ K[r][2] = w[Anchor(R, r)]
                  /\ K[r][3] = (IF r = Anchor(R, r) THEN 0 ELSE 1) /\ K[r][4] = w[r]

LEMMA KeysAre ==
  ASSUME RowsBounds, NEW p \in Lists, NEW order, NEW R, R = Range(p.repos), R \subseteq Listed,
         NEW K, K = [r \in R |-> SortKey(p, r, order)]
  PROVE  \E d, w : GroupKeys(K, R, d, w)
<1>1. PICK d : d = [a \in Listed |-> IF order = "dirty" /\ (p.status[a] = None \/ ~p.status[a].dirty) THEN 1 ELSE 0]
  OBVIOUS
<1>2. PICK w : w = [a \in Listed |-> IF order = "reverse" THEN -Rank[a] ELSE Rank[a]]
  OBVIOUS
<1>3. \A a \in Listed : Rank[a] \in Nat
  BY DEF RowsBounds
<1>4. d \in [Listed -> Int] /\ w \in [Listed -> Int]
  BY <1>1, <1>2, <1>3
<1>5. ASSUME NEW a \in Listed, NEW b \in Listed, w[a] = w[b] PROVE a = b
  <2>1. Rank[a] = Rank[b]
    BY <1>2, <1>3, <1>5
  <2> QED BY <2>1 DEF RowsBounds
<1>6. ASSUME NEW r \in R
      PROVE  K[r] = <<d[Anchor(R, r)], w[Anchor(R, r)], IF r = Anchor(R, r) THEN 0 ELSE 1, w[r]>>
  <2>1. PICK a \in Listed : a = Anchor(R, r)
    BY AnchorIs
  <2>2. SortKey(p, r, order) =
          <<IF order = "dirty" /\ (p.status[a] = None \/ ~p.status[a].dirty) THEN 1 ELSE 0,
            IF order = "reverse" THEN -Rank[a] ELSE Rank[a], IF r = a THEN 0 ELSE 1,
            IF order = "reverse" THEN -Rank[r] ELSE Rank[r]>>
    BY <2>1 DEF SortKey
  <2>3. d[a] = (IF order = "dirty" /\ (p.status[a] = None \/ ~p.status[a].dirty) THEN 1 ELSE 0)
    BY <1>1
  <2>4. w[a] = (IF order = "reverse" THEN -Rank[a] ELSE Rank[a])
    BY <1>2
  <2>5. w[r] = (IF order = "reverse" THEN -Rank[r] ELSE Rank[r])
    BY <1>2
  <2> QED BY <2>1, <2>2, <2>3, <2>4, <2>5
<1>7. ASSUME NEW r \in R
      PROVE  /\ K[r] \in [1..4 -> Int]
             /\ K[r][1] = d[Anchor(R, r)] /\ K[r][2] = w[Anchor(R, r)]
             /\ K[r][3] = (IF r = Anchor(R, r) THEN 0 ELSE 1) /\ K[r][4] = w[r]
  <2>1. PICK a \in Listed : a = Anchor(R, r)
    BY AnchorIs
  <2>2. PICK x \in Int : x = d[a]
    BY <1>4
  <2>3. PICK y \in Int : y = w[a]
    BY <1>4
  <2>4. PICK z \in Int : z = IF r = a THEN 0 ELSE 1
    OBVIOUS
  <2>5. PICK v \in Int : v = w[r]
    BY <1>4
  <2>6. K[r] = <<x, y, z, v>>
    BY <1>6, <2>1, <2>2, <2>3, <2>4, <2>5
  <2>7. K[r] \in [1..4 -> Int] /\ K[r][1] = x /\ K[r][2] = y /\ K[r][3] = z /\ K[r][4] = v
    BY <2>6
  <2> QED BY <2>1, <2>2, <2>3, <2>4, <2>5, <2>7
<1> QED BY <1>4, <1>5, <1>7 DEF GroupKeys

(* An order of four numbers.                                               *)
LEMMA BeforeFour ==
  ASSUME NEW k \in [1..4 -> Int], NEW l \in [1..4 -> Int]
  PROVE  /\ Before(k, l) => k[1] < l[1] \/ (k[1] = l[1] /\ k[2] <= l[2])
         /\ k[1] = l[1] /\ k[2] = l[2] /\ k[3] < l[3] => Before(k, l)
<1>1. ASSUME Before(k, l) PROVE k[1] < l[1] \/ (k[1] = l[1] /\ k[2] <= l[2])
  <2>1. PICK n \in 1..4 : k[n] < l[n] /\ \A m \in 1..(n - 1) : k[m] = l[m]
    BY <1>1 DEF Before
  <2>2. n > 1 => k[1] = l[1]
    BY <2>1
  <2>3. n > 2 => k[2] = l[2]
    BY <2>1
  <2>4. n = 1 \/ n = 2 \/ n > 2
    OBVIOUS
  <2> QED BY <2>1, <2>2, <2>3, <2>4
<1>2. ASSUME k[1] = l[1] /\ k[2] = l[2] /\ k[3] < l[3] PROVE Before(k, l)
  <2>1. \A m \in 1..(3 - 1) : k[m] = l[m]
    <3>1. \A m \in 1..(3 - 1) : m = 1 \/ m = 2
      OBVIOUS
    <3> QED BY <1>2, <3>1
  <2>2. 3 \in DOMAIN k /\ k[3] < l[3]
    BY <1>2
  <2> QED BY <2>1, <2>2 DEF Before
<1> QED BY <1>1, <1>2

(* A list in the order of such keys is grouped.                            *)
LEMMA GroupedIs ==
  ASSUME RowsBounds, NEW R, R \subseteq Listed, NEW K, NEW d, NEW w, GroupKeys(K, R, d, w),
         NEW s, Arranges(s, R, K)
  PROVE  Grouped(s)
<1>1. s \in Seq(Listed) /\ Distinct(s) /\ Range(s) = R
  BY DEF Arranges
<1>2. \A i, j \in DOMAIN s : i < j <=> Before(K[s[i]], K[s[j]])
  BY DEF Arranges
<1>3. DOMAIN s \subseteq Nat \ {0} /\ \A i \in DOMAIN s : s[i] \in R
  BY <1>1 DEF Range
<1>4. \A r \in R : /\ Anchor(R, r) \in R /\ Anchor(R, Anchor(R, r)) = Anchor(R, r)
  BY AnchorIs, AnchorStays
<1>5. SUFFICES ASSUME NEW j \in DOMAIN s
               PROVE \E i \in 1..j : /\ s[i] = Anchor(R, s[j])
                                     /\ \A k \in i..j : Anchor(R, s[k]) = Anchor(R, s[j])
  BY <1>1 DEF Grouped
<1>6. PICK r \in R : r = s[j]
  BY <1>3
<1>7. PICK a \in R : a = Anchor(R, r) /\ Anchor(R, a) = a
  BY <1>4
<1>8. PICK i \in DOMAIN s : s[i] = a
  BY <1>1 DEF Range
<1>9. /\ K[a] \in [1..4 -> Int] /\ K[a][1] = d[a] /\ K[a][2] = w[a] /\ K[a][3] = 0
      /\ K[r] \in [1..4 -> Int] /\ K[r][1] = d[a] /\ K[r][2] = w[a] /\ (r # a => K[r][3] = 1)
  BY <1>7 DEF GroupKeys
<1>10. i \in Nat /\ j \in Nat /\ i > 0
  BY <1>3
<1>11. i <= j
  <2>1. CASE r = a
    <3>1. i = j
      BY <1>1, <1>6, <1>8, <2>1 DEF Distinct
    <3> QED BY <1>10, <3>1
  <2>2. CASE r # a
    <3>1. Before(K[a], K[r])
      BY <1>9, <2>2, BeforeFour
    <3>2. i < j
      BY <1>2, <1>6, <1>8, <3>1
    <3> QED BY <1>10, <3>2
  <2> QED BY <2>1, <2>2
<1>12. ASSUME NEW k \in i..j PROVE Anchor(R, s[k]) = a
  <2>1. k \in DOMAIN s
    BY <1>1, <1>8
  <2>2. PICK o \in R : o = s[k]
    BY <1>3, <2>1
  <2>3. PICK b \in R : b = Anchor(R, o)
    BY <1>4
  <2>4. K[o] \in [1..4 -> Int] /\ K[o][1] = d[b] /\ K[o][2] = w[b]
    BY <2>3 DEF GroupKeys
  <2>5. d[a] \in Int /\ d[b] \in Int /\ w[a] \in Int /\ w[b] \in Int
    BY DEF GroupKeys
  <2>6. i = k \/ d[a] < d[b] \/ (d[a] = d[b] /\ w[a] <= w[b])
    <3>1. SUFFICES ASSUME i # k PROVE d[a] < d[b] \/ (d[a] = d[b] /\ w[a] <= w[b])
      OBVIOUS
    <3>2. i < k
      BY <1>10, <3>1
    <3>3. Before(K[a], K[o])
      BY <1>2, <1>8, <2>1, <2>2, <3>2
    <3> QED BY <1>9, <2>4, <3>3, BeforeFour
  <2>7. k = j \/ d[b] < d[a] \/ (d[a] = d[b] /\ w[b] <= w[a])
    <3>1. SUFFICES ASSUME k # j PROVE d[b] < d[a] \/ (d[a] = d[b] /\ w[b] <= w[a])
      OBVIOUS
    <3>2. k < j
      BY <1>10, <3>1
    <3>3. Before(K[o], K[r])
      BY <1>2, <1>6, <2>1, <2>2, <3>2
    <3> QED BY <1>9, <2>4, <3>3, BeforeFour
  <2>8. CASE i = k
    BY <1>7, <1>8, <2>8
  <2>9. CASE k = j
    BY <1>6, <1>7, <2>9
  <2>10. CASE i # k /\ k # j
    <3>1. w[a] = w[b]
      BY <2>5, <2>6, <2>7, <2>10
    <3>2. a = b
      BY <3>1 DEF GroupKeys
    <3> QED BY <2>2, <2>3, <3>2
  <2> QED BY <2>8, <2>9, <2>10
<1>13. i \in 1..j
  BY <1>10, <1>11
<1> QED BY <1>6, <1>7, <1>8, <1>12, <1>13

-----------------------------------------------------------------------------
(* Other lists of repositories.                                            *)

\* q has the repositories and their entries, and what else p has.
Holds(q, p, repos, status, toggled, stashes, sorted) ==
  /\ q.repos = repos /\ q.status = status /\ q.byDefault = p.byDefault
  /\ q.toggled = toggled /\ q.stashes = stashes /\ q.sorted = sorted

LEMMA WithReposIs ==
  ASSUME NEW p \in Lists, NEW repos \in Seq(Listed), NEW status \in [Listed -> Statuses \cup {None}],
         NEW toggled \in SUBSET Listed, NEW stashes \in SUBSET Listed, NEW sorted \in BOOLEAN,
         NEW q, q = WithRepos(p, repos, status, toggled, stashes, sorted)
  PROVE  q \in Lists /\ Holds(q, p, repos, status, toggled, stashes, sorted) /\ q.rows = p.rows /\ q.at = p.at
<1>1. q \in Lists
  BY DEF Lists, WithRepos
<1>2. Holds(q, p, repos, status, toggled, stashes, sorted)
  BY DEF Holds, WithRepos
<1> QED BY <1>1, <1>2 DEF WithRepos

\* The rows of r are the same in p and q.
Alike(q, p, r) ==
  /\ q.status[r] = p.status[r] /\ q.byDefault = p.byDefault
  /\ r \in q.toggled <=> r \in p.toggled
  /\ r \in q.stashes <=> r \in p.stashes

LEMMA AlikeShows ==
  ASSUME NEW p \in Lists, NEW q \in Lists, NEW r, Alike(q, p, r)
  PROVE  \A kind, j : Shows(q, r, kind, j) <=> Shows(p, r, kind, j)
<1>1. WorktreesShown(q, r) <=> WorktreesShown(p, r)
  BY DEF Alike, WorktreesShown, Lists
<1>2. Wts(q, r) = Wts(p, r) /\ Sts(q, r) = Sts(p, r)
  BY <1>1 DEF Alike, Wts, Sts
<1> QED BY <1>2 DEF Shows

\* What id names in p is selected in q if it is still there, or its repository.
Kept(q, p, id) ==
  id # None /\ id.repo \in Range(q.repos) =>
    /\ SelectedId(q) \in Ids /\ SelectedId(q).repo = id.repo
    /\ Shows(p, id.repo, id.kind, id.sub) => SelectedId(q) = id

LEMMA ResyncKept ==
  ASSUME RowsBounds, NEW p, p \in Lists, Distinct(p.repos), NEW id \in Ids \cup {None}, NEW q, q = Resync(p, id)
  PROVE  Good(q) /\ Same(q, p) /\ Kept(q, p, id)
<1>1. Keeps(q, p, id)
  BY ResyncIs
<1>2. Good(q) /\ Same(q, p)
  BY <1>1 DEF Keeps
<1>3. q.repos = p.repos
  BY <1>2 DEF Same
<1>4. Kept(q, p, id)
  BY <1>1, <1>3 DEF Keeps, Kept
<1> QED BY <1>2, <1>4

(* sort_repos.                                                             *)
LEMMA SortIs ==
  ASSUME RowsBounds, NEW p, p \in Lists, SelectedId(p) \in Ids \cup {None}, NEW order,
         NEW q, q = Sort(p, order)
  PROVE  /\ Good(q) /\ Range(q.repos) = Range(p.repos) /\ Grouped(q.repos) /\ q.byDefault = p.byDefault
         /\ \A r : Alike(q, p, r)
         /\ Kept(q, p, SelectedId(p))
<1>1. PICK R : R = Range(p.repos)
  OBVIOUS
<1>2. R \subseteq Listed
  BY <1>1 DEF Lists, Range
<1>3. PICK K : K = [r \in R |-> SortKey(p, r, order)]
  OBVIOUS
<1>4. PICK d, w : GroupKeys(K, R, d, w)
  BY <1>1, <1>2, <1>3, KeysAre
<1>5. K \in [R -> [1..4 -> Int]]
  BY <1>3, <1>4 DEF GroupKeys
<1>6. \A r, o \in R : K[r] = K[o] => r = o
  <2>1. SUFFICES ASSUME NEW r \in R, NEW o \in R, K[r] = K[o] PROVE r = o
    OBVIOUS
  <2>2. w[r] = w[o]
    BY <1>4, <2>1 DEF GroupKeys
  <2> QED BY <1>2, <1>4, <2>2 DEF GroupKeys
<1>7. PICK s : s = Ordered(Entries(R, K))
  OBVIOUS
<1>8. Arranges(s, R, K)
  BY <1>2, <1>5, <1>6, <1>7, OrderedIs
<1>9. s \in Seq(Listed) /\ Distinct(s) /\ Range(s) = R
  BY <1>8 DEF Arranges
<1>10. Grouped(s)
  BY <1>2, <1>4, <1>8, GroupedIs
<1>11. Entries(R, K) = {[repo |-> r, key |-> SortKey(p, r, order)] : r \in R}
  BY <1>3 DEF Entries
<1>12. PICK u : u = WithRepos(p, s, p.status, p.toggled, p.stashes, TRUE)
  OBVIOUS
<1>13. q = Resync(u, SelectedId(p))
  BY <1>1, <1>7, <1>11, <1>12 DEF Sort
<1>14. p.status \in [Listed -> Statuses \cup {None}] /\ p.toggled \in SUBSET Listed /\ p.stashes \in SUBSET Listed
  BY DEF Lists
<1>15. u \in Lists /\ Holds(u, p, s, p.status, p.toggled, p.stashes, TRUE)
  BY <1>9, <1>12, <1>14, WithReposIs
<1>16. u.repos = s
  BY <1>15 DEF Holds
<1>17. Good(q) /\ Same(q, u) /\ Kept(q, u, SelectedId(p))
  BY <1>9, <1>13, <1>15, <1>16, ResyncKept
<1>18. q.repos = s /\ q.byDefault = p.byDefault
  BY <1>15, <1>17 DEF Same, Holds
<1>19. \A r : Alike(q, p, r) /\ Alike(u, p, r)
  BY <1>15, <1>17 DEF Same, Holds, Alike
<1>20. Kept(q, p, SelectedId(p))
  <2>1. \A r, kind, j : Shows(u, r, kind, j) <=> Shows(p, r, kind, j)
    BY <1>15, <1>19, AlikeShows
  <2> QED BY <1>17, <2>1 DEF Kept
<1> QED BY <1>1, <1>9, <1>10, <1>17, <1>18, <1>19, <1>20

(* sync_paths, when the set has changed.                                   *)
LEMMA SyncIs ==
  ASSUME RowsBounds, NEW p, p \in Lists, SelectedId(p) \in Ids \cup {None}, NEW S, S \subseteq Listed,
         Range(p.repos) # S, NEW q, q = SyncPaths(p, S)
  PROVE  Good(q) /\ Range(q.repos) = S /\ (\A r \in S : Alike(q, p, r)) /\ Kept(q, p, SelectedId(p))
<1>1. PICK s : s = ByName(S)
  OBVIOUS
<1>2. s \in Seq(Listed) /\ Distinct(s) /\ Range(s) = S
  BY <1>1, ByNameIs
<1>3. PICK status : status = [r \in Listed |-> IF r \in S THEN p.status[r] ELSE None]
  OBVIOUS
<1>4. status \in [Listed -> Statuses \cup {None}] /\ p.toggled \cap S \in SUBSET Listed
      /\ p.stashes \cap S \in SUBSET Listed /\ p.sorted \in BOOLEAN
  BY <1>3 DEF Lists
<1>5. PICK u : u = WithRepos(p, s, status, p.toggled \cap S, p.stashes \cap S, p.sorted)
  OBVIOUS
<1>6. q = Resync(u, SelectedId(p))
  BY <1>1, <1>3, <1>5 DEF SyncPaths
<1>7. u \in Lists /\ Holds(u, p, s, status, p.toggled \cap S, p.stashes \cap S, p.sorted)
  BY <1>2, <1>4, <1>5, WithReposIs
<1>8. u.repos = s
  BY <1>7 DEF Holds
<1>9. Good(q) /\ Same(q, u) /\ Kept(q, u, SelectedId(p))
  BY <1>2, <1>6, <1>7, <1>8, ResyncKept
<1>10. q.repos = s
  BY <1>8, <1>9 DEF Same
<1>11. \A r \in S : Alike(u, p, r)
  BY <1>3, <1>7 DEF Holds, Alike
<1>12. \A r \in S : Alike(q, p, r)
  BY <1>9, <1>11 DEF Same, Alike
<1>13. Kept(q, p, SelectedId(p))
  <2>1. \A r \in S : \A kind, j : Shows(u, r, kind, j) <=> Shows(p, r, kind, j)
    BY <1>7, <1>11, AlikeShows
  <2> QED BY <1>2, <1>9, <1>10, <2>1 DEF Kept
<1> QED BY <1>2, <1>9, <1>10, <1>12, <1>13

(* What was kept is still there to be kept.                                *)
LEMMA KeptIs ==
  ASSUME RowsBounds, NEW p, Good(p), NEW q, Good(q), Kept(q, p, SelectedId(p)),
         SelectedId(p) # None, SelectedId(p).repo \in Range(q.repos)
  PROVE  SelectedId(q) # None /\ SelectedId(q).repo = SelectedId(p).repo /\ SelectedId(q) = SelectedId(p)
BY SelectedIs, NoneIs DEF Kept

LEMMA KeptOn ==
  ASSUME RowsBounds, NEW p, NEW q, NEW u, NEW id, q \in Lists, p \in Lists, NEW S, Kept(q, p, id), Kept(u, q, SelectedId(q)),
         Good(q), Range(q.repos) = S, Range(u.repos) = S, \A r \in S : Alike(q, p, r)
  PROVE  Kept(u, p, id)
<1>1. SUFFICES ASSUME id # None, id.repo \in S
               PROVE /\ SelectedId(u) \in Ids /\ SelectedId(u).repo = id.repo
                     /\ Shows(p, id.repo, id.kind, id.sub) => SelectedId(u) = id
  BY DEF Kept
<1>2. /\ SelectedId(q) \in Ids /\ SelectedId(q).repo = id.repo
      /\ Shows(p, id.repo, id.kind, id.sub) => SelectedId(q) = id
  BY <1>1 DEF Kept
<1>3. SelectedId(q) # None
  BY <1>2, NoneIs
<1>4. Shows(q, SelectedId(q).repo, SelectedId(q).kind, SelectedId(q).sub)
  BY <1>3, SelectedIs
<1>5. SelectedId(u) = SelectedId(q)
  BY <1>1, <1>2, <1>3, <1>4 DEF Kept
<1> QED BY <1>2, <1>5

(* discover_repos and what follows it.                                     *)
LEMMA AfterDiscoveryIs ==
  ASSUME RowsBounds, NEW p, p \in Lists, SelectedId(p) \in Ids \cup {None}, NEW S, S \subseteq Listed,
         Range(p.repos) # S, NEW q, q = AfterDiscovery(p, S)
  PROVE  Good(q) /\ Range(q.repos) = S /\ Grouped(q.repos) /\ Kept(q, p, SelectedId(p))
<1>1. PICK u : u = SyncPaths(p, S)
  OBVIOUS
<1>2. q = Sort(u, Orders[sortOrder])
  BY <1>1 DEF AfterDiscovery
<1>3. Good(u) /\ Range(u.repos) = S /\ (\A r \in S : Alike(u, p, r)) /\ Kept(u, p, SelectedId(p))
  BY <1>1, SyncIs
<1>4. u \in Lists /\ SelectedId(u) \in Ids \cup {None}
  BY <1>3, SelectedIs DEF Good
<1>5. Good(q) /\ Range(q.repos) = S /\ Grouped(q.repos) /\ Kept(q, u, SelectedId(u))
  BY <1>2, <1>3, <1>4, SortIs
<1>6. Kept(q, p, SelectedId(p))
  BY <1>3, <1>4, <1>5, KeptOn
<1> QED BY <1>5, <1>6

-----------------------------------------------------------------------------
(* Folding.                                                                *)

\* The rows of every repository are shown in q if they are in p.
Grows(q, p) == \A r, kind, j : r \in Listed /\ Shows(p, r, kind, j) => Shows(q, r, kind, j)

\* q is p with other folds, drawn; the place of the selection is as it was.
Folded(q, p) ==
  /\ q \in Lists /\ q.repos = p.repos /\ q.sorted = p.sorted /\ q.rows = RowsNow(q) /\ q.at = p.at

LEMMA FoldIs ==
  ASSUME NEW p \in Lists, NEW toggled \in SUBSET Listed, NEW stashes \in SUBSET Listed,
         NEW u, u = [repos |-> p.repos, status |-> p.status, rows |-> p.rows, at |-> p.at, byDefault |-> p.byDefault,
                     toggled |-> toggled, stashes |-> stashes, sorted |-> p.sorted]
  PROVE  Folded(Rebuild(u), p) /\ Same(Rebuild(u), u) /\ u \in Lists
<1>1. u \in Lists
  BY DEF Lists
<1>2. Redrawn(Rebuild(u), u, RowsNow(u), u.at)
  BY <1>1, RebuildIs
<1>3. PICK q : q = Rebuild(u)
  OBVIOUS
<1>4. q \in Lists /\ Same(q, u) /\ q.rows = RowsNow(u) /\ q.at = u.at
  BY <1>2, <1>3 DEF Redrawn
<1>5. RowsNow(q) = RowsNow(u)
  BY <1>4, SameIs
<1>6. q.repos = p.repos /\ q.sorted = p.sorted /\ q.at = p.at
  BY <1>4 DEF Same
<1>7. Folded(q, p)
  BY <1>4, <1>5, <1>6 DEF Folded
<1> QED BY <1>1, <1>3, <1>4, <1>7

LEMMA WorktreesFold ==
  ASSUME NEW p \in Lists, NEW r \in Listed, NEW shown \in BOOLEAN, NEW q, q = ShowWorktrees(p, r, shown)
  PROVE  Folded(q, p) /\ (shown = TRUE /\ ~WorktreesShown(p, r) => Grows(q, p))
<1>1. PICK toggled : toggled = IF shown = p.byDefault THEN p.toggled \ {r} ELSE p.toggled \cup {r}
  OBVIOUS
<1>2. PICK u : u = [repos |-> p.repos, status |-> p.status, rows |-> p.rows, at |-> p.at, byDefault |-> p.byDefault,
                    toggled |-> toggled, stashes |-> p.stashes, sorted |-> p.sorted]
  OBVIOUS
<1>3. u = [p EXCEPT !.toggled = toggled]
  BY <1>2 DEF Lists
<1>4. [p EXCEPT !.toggled = IF shown = p.byDefault THEN @ \ {r} ELSE @ \cup {r}] = [p EXCEPT !.toggled = toggled]
  BY <1>1 DEF Lists
<1>5. q = Rebuild(u)
  BY <1>3, <1>4 DEF ShowWorktrees
<1>6. toggled \in SUBSET Listed /\ p.stashes \in SUBSET Listed
  BY <1>1 DEF Lists
<1>7. Folded(q, p) /\ Same(q, u)
  BY <1>2, <1>5, <1>6, FoldIs
<1>8. ASSUME shown = TRUE, ~WorktreesShown(p, r), NEW o \in Listed, NEW kind, NEW j, Shows(p, o, kind, j)
      PROVE  Shows(q, o, kind, j)
  <2>1. u.status = p.status /\ u.byDefault = p.byDefault /\ u.toggled = toggled /\ u.stashes = p.stashes
    BY <1>2
  <2>2. o # r => (WorktreesShown(u, o) <=> WorktreesShown(p, o))
    BY <1>1, <2>1 DEF WorktreesShown
  <2>3. o = r => Wts(p, o) = 0
    BY <1>8 DEF Wts
  <2>4. o # r => Wts(u, o) = Wts(p, o)
    BY <2>1, <2>2 DEF Wts
  <2>5. Sts(u, o) = Sts(p, o)
    BY <2>1 DEF Sts
  <2>6. ~(o = r /\ j \in 1..Wts(p, o))
    BY <2>3
  <2>7. Shows(u, o, kind, j)
    BY <1>8, <2>4, <2>5, <2>6 DEF Shows
  <2> QED BY <1>7, <2>7, SameIs
<1> QED BY <1>7, <1>8 DEF Grows

LEMMA StashesFold ==
  ASSUME NEW p \in Lists, NEW stashes, stashes \in SUBSET Listed, NEW q, q = Rebuild([p EXCEPT !.stashes = stashes])
  PROVE  Folded(q, p) /\ (p.stashes \subseteq stashes => Grows(q, p))
<1>2. PICK u : u = [repos |-> p.repos, status |-> p.status, rows |-> p.rows, at |-> p.at, byDefault |-> p.byDefault,
                    toggled |-> p.toggled, stashes |-> stashes, sorted |-> p.sorted]
  OBVIOUS
<1>3. u = [p EXCEPT !.stashes = stashes]
  BY <1>2 DEF Lists
<1>6. p.toggled \in SUBSET Listed
  BY DEF Lists
<1>7. Folded(q, p) /\ Same(q, u)
  BY <1>2, <1>3, <1>6, FoldIs
<1>8. ASSUME p.stashes \subseteq stashes, NEW o \in Listed, NEW kind, NEW j, Shows(p, o, kind, j)
      PROVE  Shows(q, o, kind, j)
  <2>1. u.status = p.status /\ u.byDefault = p.byDefault /\ u.toggled = p.toggled /\ u.stashes = stashes
    BY <1>2
  <2>2. Wts(u, o) = Wts(p, o)
    BY <2>1 DEF Wts, WorktreesShown
  <2>3. o \in p.stashes => Sts(u, o) = Sts(p, o)
    BY <1>8, <2>1 DEF Sts
  <2>4. o \notin p.stashes => Sts(p, o) = 0
    BY DEF Sts
  <2>5. ~(o \notin p.stashes /\ j \in 1..Sts(p, o))
    BY <2>4
  <2>6. Shows(u, o, kind, j)
    BY <1>8, <2>2, <2>3, <2>5 DEF Shows
  <2> QED BY <1>7, <2>6, SameIs
<1> QED BY <1>7, <1>8 DEF Grows

\* q is a list that was folded otherwise, with id selected.
Refolded(q, p, id) == Good(q) /\ q.repos = p.repos /\ q.sorted = p.sorted /\ SelectedId(q) = id

(* Folding selects the repository's own row.                               *)
LEMMA FoldedSelect ==
  ASSUME RowsBounds, NEW p, Good(p), NEW q, Folded(q, p), NEW r \in Range(p.repos)
  PROVE  Refolded(SelectRepoRow(q, IndexOf(p, r)), p, Id(r, "repo", 0))
<1>1. p \in Lists /\ Distinct(p.repos)
  BY DEF Good
<1>2. q \in Lists /\ q.repos = p.repos /\ q.sorted = p.sorted /\ q.rows = RowsNow(q) /\ Distinct(q.repos)
  BY <1>1 DEF Folded
<1>3. PICK i \in DOMAIN q.repos : i = IndexOf(p, r) /\ q.repos[i] = r
  BY <1>1, <1>2, PlaceIs
<1>4. PICK u : u = SelectRepoRow(q, i)
  OBVIOUS
<1>5. Chosen(u, q, r)
  BY <1>2, <1>3, <1>4, SelectIs
<1>6. Good(u) /\ u.repos = p.repos /\ u.sorted = p.sorted /\ SelectedId(u) = Id(r, "repo", 0)
  BY <1>2, <1>5 DEF Chosen, Same
<1> QED BY <1>3, <1>4, <1>6 DEF Refolded

(* Unfolding keeps the row that was selected.                              *)
LEMMA UnfoldedKeeps ==
  ASSUME RowsBounds, NEW p, Good(p), NEW q, Folded(q, p), Grows(q, p)
  PROVE  Refolded(Restored(p, q), p, SelectedId(p))
<1>1. p \in Lists /\ Distinct(p.repos) /\ p.rows = RowsNow(p)
  BY DEF Good
<1>2. q \in Lists /\ q.repos = p.repos /\ q.sorted = p.sorted /\ q.rows = RowsNow(q) /\ Distinct(q.repos) /\ q.at = p.at
  BY <1>1 DEF Folded
<1>3. CASE SelectedId(p) = None
  <2>1. p.rows = <<>>
    BY <1>3, SelectedIs
  <2>2. p.repos = <<>> /\ q.rows = <<>>
    BY <1>1, <1>2, <2>1, RowsNowIs DEF RowsAreListed
  <2>3. q.at = None
    BY <1>2, <2>1 DEF Good, Placed
  <2>4. Good(q) /\ SelectedId(q) = None
    BY <1>2, <2>2, <2>3 DEF Good, Placed, SelectedId
  <2>5. Restored(p, q) = q
    BY <1>3 DEF Restored
  <2> QED BY <1>2, <1>3, <2>4, <2>5 DEF Refolded
<1>4. CASE SelectedId(p) # None
  <2>1. PICK id \in Ids : id = SelectedId(p)
    BY <1>4, SelectedIs
  <2>2. PICK i \in DOMAIN p.repos : i = p.rows[p.at].at
    BY <1>4, SelectedIs
  <2>3. p.repos[i] = id.repo /\ p.rows[p.at] = Row(i, id.kind, id.sub) /\ Shows(p, id.repo, id.kind, id.sub)
    BY <1>4, <2>1, <2>2, SelectedIs
  <2>4. id.repo \in Listed /\ id.kind \in RowKinds /\ id.sub \in Nat /\ i \in Nat
    BY <1>1, <2>1, <2>2 DEF Ids, Lists
  <2>5. Shows(q, id.repo, id.kind, id.sub)
    BY <2>3, <2>4 DEF Grows
  <2>6. In(q.rows, Row(i, id.kind, id.sub))
    <3>1. i \in DOMAIN q.repos /\ q.repos[i] = id.repo
      BY <1>2, <2>3
    <3>2. In(RowsNow(q), Row(i, id.kind, id.sub))
      BY <1>2, <2>4, <2>5, <3>1, RowsNowIs DEF RowsAreListed
    <3> QED BY <1>2, <3>2
  <2>7. PICK n : n = Find(q, Row(i, id.kind, id.sub))
    OBVIOUS
  <2>8. Finds(n, q.rows, Row(i, id.kind, id.sub))
    BY <1>2, <2>7, FindIs
  <2>9. n \in DOMAIN q.rows /\ q.rows[n] = Row(i, id.kind, id.sub)
    BY <2>6, <2>8 DEF Finds
  <2>10. n # 0
    BY <1>2, <2>9 DEF Lists
  <2>11. PICK u : u = [q EXCEPT !.at = n]
    OBVIOUS
  <2>12. Restored(p, q) = u
    BY <1>4, <2>3, <2>7, <2>10, <2>11 DEF Restored
  <2>13. Good(u) /\ Same(u, q) /\ SelectedId(u) = RowId(q, n)
    BY <1>2, <2>9, <2>11, MoveIs
  <2>14. RowId(q, n) = Id(id.repo, id.kind, id.sub)
    BY <1>2, <2>3, <2>9, IdIs
  <2>15. Id(id.repo, id.kind, id.sub) = id
    BY DEF Id, Ids
  <2>16. u.repos = p.repos /\ u.sorted = p.sorted
    BY <1>2, <2>13 DEF Same
  <2> QED BY <2>1, <2>12, <2>13, <2>14, <2>15, <2>16 DEF Refolded
<1> QED BY <1>3, <1>4

(* toggle_expand, toggle_stash_expand: the selection stays on its row, or  *)
(* goes to its repository's.                                               *)
Toggled(q, p) ==
  \/ Refolded(q, p, SelectedId(p))
  \/ SelectedId(p) # None /\ Refolded(q, p, Id(SelectedId(p).repo, "repo", 0))

LEMMA SelfToggled ==
  ASSUME NEW p, Good(p)
  PROVE  Toggled(p, p)
BY DEF Toggled, Refolded

LEMMA ToggleExpandIs ==
  ASSUME RowsBounds, NEW p, Good(p)
  PROVE  Toggled(ToggleExpand(p), p)
<1>1. PICK r : r = SelectedRepo(p)
  OBVIOUS
<1>2. p \in Lists
  BY DEF Good
<1>3. CASE r = None \/ p.status[r] = None \/ p.status[r].worktrees = 0
  <2>1. ToggleExpand(p) = p
    BY <1>1, <1>3 DEF ToggleExpand
  <2> QED BY <2>1, SelfToggled
<1>4. CASE ~(r = None \/ p.status[r] = None \/ p.status[r].worktrees = 0)
  <2>1. SelectedId(p) # None /\ r = SelectedId(p).repo
    BY <1>1, <1>4 DEF SelectedRepo
  <2>2. r \in Range(p.repos) /\ r \in Listed
    BY <2>1, SelectedIs DEF Ids
  <2>3. CASE WorktreesShown(p, r)
    <3>1. PICK q : q = ShowWorktrees(p, r, FALSE)
      OBVIOUS
    <3>2. Folded(q, p)
      BY <1>2, <2>2, <3>1, WorktreesFold
    <3>3. ToggleExpand(p) = SelectRepoRow(q, IndexOf(p, r))
      BY <1>1, <1>4, <2>3, <3>1 DEF ToggleExpand
    <3>4. Refolded(SelectRepoRow(q, IndexOf(p, r)), p, Id(r, "repo", 0))
      BY <2>2, <3>2, FoldedSelect
    <3> QED BY <2>1, <3>3, <3>4 DEF Toggled
  <2>4. CASE ~WorktreesShown(p, r)
    <3>1. PICK q : q = ShowWorktrees(p, r, TRUE)
      OBVIOUS
    <3>2. Folded(q, p) /\ Grows(q, p)
      BY <1>2, <2>2, <2>4, <3>1, WorktreesFold
    <3>3. ToggleExpand(p) = Restored(p, q)
      BY <1>1, <1>4, <2>4, <3>1 DEF ToggleExpand
    <3>4. Refolded(Restored(p, q), p, SelectedId(p))
      BY <3>2, UnfoldedKeeps
    <3> QED BY <3>3, <3>4 DEF Toggled
  <2> QED BY <2>3, <2>4
<1> QED BY <1>3, <1>4

LEMMA ToggleStashesIs ==
  ASSUME RowsBounds, NEW p, Good(p)
  PROVE  Toggled(ToggleStashes(p), p)
<1>1. PICK r : r = SelectedRepo(p)
  OBVIOUS
<1>2. p \in Lists
  BY DEF Good
<1>3. CASE r = None \/ p.status[r] = None \/ p.status[r].stashes = 0
  <2>1. ToggleStashes(p) = p
    BY <1>1, <1>3 DEF ToggleStashes
  <2> QED BY <2>1, SelfToggled
<1>4. CASE ~(r = None \/ p.status[r] = None \/ p.status[r].stashes = 0)
  <2>1. SelectedId(p) # None /\ r = SelectedId(p).repo
    BY <1>1, <1>4 DEF SelectedRepo
  <2>2. r \in Range(p.repos) /\ r \in Listed
    BY <2>1, SelectedIs DEF Ids
  <2>3. CASE r \in p.stashes
    <3>1. PICK q : q = Rebuild([p EXCEPT !.stashes = p.stashes \ {r}])
      OBVIOUS
    <3>2. Folded(q, p)
      <4>1. p.stashes \ {r} \in SUBSET Listed
        BY <1>2 DEF Lists
      <4> QED BY <1>2, <3>1, <4>1, StashesFold
    <3>5. [p EXCEPT !.stashes = @ \ {r}] = [p EXCEPT !.stashes = p.stashes \ {r}]
      BY <1>2 DEF Lists
    <3>3. ToggleStashes(p) = SelectRepoRow(q, IndexOf(p, r))
      BY <1>1, <1>4, <2>3, <3>1, <3>5 DEF ToggleStashes
    <3>4. Refolded(SelectRepoRow(q, IndexOf(p, r)), p, Id(r, "repo", 0))
      BY <2>2, <3>2, FoldedSelect
    <3> QED BY <2>1, <3>3, <3>4 DEF Toggled
  <2>4. CASE r \notin p.stashes
    <3>1. PICK q : q = Rebuild([p EXCEPT !.stashes = p.stashes \cup {r}])
      OBVIOUS
    <3>2. Folded(q, p) /\ Grows(q, p)
      <4>1. p.stashes \cup {r} \in SUBSET Listed
        BY <1>2, <2>2 DEF Lists
      <4> QED BY <1>2, <3>1, <4>1, StashesFold
    <3>5. [p EXCEPT !.stashes = @ \cup {r}] = [p EXCEPT !.stashes = p.stashes \cup {r}]
      BY <1>2 DEF Lists
    <3>3. ToggleStashes(p) = Restored(p, q)
      BY <1>1, <1>4, <2>4, <3>1, <3>5 DEF ToggleStashes
    <3>4. Refolded(Restored(p, q), p, SelectedId(p))
      BY <3>2, UnfoldedKeeps
    <3> QED BY <3>3, <3>4 DEF Toggled
  <2> QED BY <2>3, <2>4
<1> QED BY <1>3, <1>4

(* expand_repo.                                                            *)
LEMMA ExpandIs ==
  ASSUME RowsBounds, NEW p, Good(p), NEW r \in Listed
  PROVE  Refolded(Expand(p, r), p, SelectedId(p))
<1>1. p \in Lists
  BY DEF Good
<1>2. CASE WorktreesShown(p, r)
  BY <1>2 DEF Expand, Refolded
<1>3. CASE ~WorktreesShown(p, r)
  <2>1. PICK q : q = ShowWorktrees(p, r, TRUE)
    OBVIOUS
  <2>2. Folded(q, p) /\ Grows(q, p)
    BY <1>1, <1>3, <2>1, WorktreesFold
  <2>3. Expand(p, r) = Restored(p, q)
    BY <1>3, <2>1 DEF Expand
  <2> QED BY <2>2, <2>3, UnfoldedKeeps
<1> QED BY <1>2, <1>3

-----------------------------------------------------------------------------
(* The actions.                                                            *)

\* Consistent and, when it is sorted, grouped.
Sound(p) == Good(p) /\ (p.sorted => Grouped(p.repos))

\* What is selected in p stays in q while it is listed, but for rows of `about'.
Steady(q, p, about) ==
  SelectedId(p) # None /\ SelectedId(p).repo \in Range(q.repos) =>
    /\ SelectedId(q).repo = SelectedId(p).repo
    /\ SelectedId(p).repo \notin about => SelectedId(q) = SelectedId(p)

RowsInv ==
  /\ Sound(listing)
  /\ sortOrder \in DOMAIN Orders /\ missing \in BOOLEAN /\ strayed \in {"click", "moved", None}
  /\ ClicksLand /\ SelectionStays

\* One that cannot be told from p but by its rows and its selection.
LEMMA SameSound ==
  ASSUME NEW p, Sound(p), NEW q, Good(q), q.repos = p.repos, q.sorted = p.sorted
  PROVE  Sound(q)
BY DEF Sound

LEMMA KeptSteady ==
  ASSUME RowsBounds, NEW p, Good(p), NEW q, Good(q), Kept(q, p, SelectedId(p)), NEW about
  PROVE  Steady(q, p, about)
BY KeptIs DEF Steady

LEMMA BehindIs ==
  ASSUME NEW about, Behind(about), Steady(listing', listing, about)
  PROVE  strayed' = None
BY DEF Behind, Steady

(* update_status.                                                          *)
LEMMA UpdateIs ==
  ASSUME RowsBounds, NEW p, Good(p), NEW r \in Listed, NEW s \in Statuses, NEW q, q = UpdateStatus(p, r, s)
  PROVE  Good(q) /\ q.repos = p.repos /\ q.sorted = p.sorted /\ Steady(q, p, {r})
<1>1. p \in Lists /\ Distinct(p.repos)
  BY DEF Good
<1>2. PICK status : status = [p.status EXCEPT ![r] = s]
  OBVIOUS
<1>3. p.status \in [Listed -> Statuses \cup {None}]
  BY <1>1 DEF Lists
<1>4. status \in [Listed -> Statuses \cup {None}] /\ \A o \in Listed : o # r => status[o] = p.status[o]
  BY <1>2, <1>3
<1>5. PICK u : u = [p EXCEPT !.status = status]
  OBVIOUS
<1>6. [p EXCEPT !.status = [@ EXCEPT ![r] = s]] = u
  BY <1>1, <1>2, <1>5 DEF Lists
<1>7. /\ u.repos = p.repos /\ u.sorted = p.sorted /\ u.byDefault = p.byDefault /\ u.status = status
      /\ u.toggled = p.toggled /\ u.stashes = p.stashes
  BY <1>1, <1>5 DEF Lists
<1>8. u \in Lists
  BY <1>1, <1>4, <1>5 DEF Lists
<1>9. q = Resync(u, SelectedId(p)) /\ Distinct(u.repos) /\ SelectedId(p) \in Ids \cup {None}
  BY <1>1, <1>6, <1>7, SelectedIs DEF UpdateStatus
<1>10. Good(q) /\ Same(q, u) /\ Kept(q, u, SelectedId(p))
  BY <1>8, <1>9, ResyncKept
<1>11. q.repos = p.repos /\ q.sorted = p.sorted
  BY <1>7, <1>10 DEF Same
<1>12. Steady(q, p, {r})
  <2>1. SUFFICES ASSUME SelectedId(p) # None, SelectedId(p).repo \in Range(q.repos)
                 PROVE /\ SelectedId(q).repo = SelectedId(p).repo
                       /\ SelectedId(p).repo # r => SelectedId(q) = SelectedId(p)
    BY DEF Steady
  <2>2. PICK id \in Ids : id = SelectedId(p)
    BY <2>1, SelectedIs
  <2>3. SelectedId(q).repo = id.repo /\ (Shows(u, id.repo, id.kind, id.sub) => SelectedId(q) = id)
    BY <1>10, <2>1, <2>2 DEF Kept
  <2>4. ASSUME id.repo # r PROVE SelectedId(q) = id
    <3>1. id.repo \in Listed
      BY <2>2 DEF Ids
    <3>2. Alike(u, p, id.repo)
      BY <1>4, <1>7, <2>4, <3>1 DEF Alike
    <3>3. Shows(p, id.repo, id.kind, id.sub)
      BY <2>1, <2>2, SelectedIs
    <3>4. Shows(u, id.repo, id.kind, id.sub)
      BY <1>1, <1>8, <3>2, <3>3, AlikeShows
    <3> QED BY <2>3, <3>4
  <2> QED BY <2>2, <2>3, <2>4
<1> QED BY <1>10, <1>11, <1>12

LEMMA StatusStep ==
  ASSUME RowsBounds, RowsInv, NEW r \in Listed, RowStatusUpdated(r)
  PROVE  Sound(listing') /\ strayed' = None /\ sortOrder' = sortOrder /\ missing' = missing
<1>1. Sound(listing) /\ Good(listing)
  BY DEF RowsInv, Sound
<1>2. PICK s \in Reported[r] : Put(UpdateStatus(listing, r, s))
  BY DEF RowStatusUpdated
<1>3. s \in Statuses
  BY <1>2 DEF RowsBounds
<1>4. listing' = UpdateStatus(listing, r, s) /\ sortOrder' = sortOrder /\ missing' = missing
  BY <1>2 DEF Put
<1>5. Good(listing') /\ listing'.repos = listing.repos /\ listing'.sorted = listing.sorted /\ Steady(listing', listing, {r})
  BY <1>1, <1>3, <1>4, UpdateIs
<1>6. Sound(listing')
  BY <1>1, <1>5, SameSound
<1>7. Behind({r})
  BY DEF RowStatusUpdated
<1>8. strayed' = None
  BY <1>5, <1>7, BehindIs
<1> QED BY <1>4, <1>6, <1>8

(* The selection moves to another row.                                     *)
LEMMA MoveStep ==
  ASSUME RowsBounds, NEW p, Sound(p), NEW n \in DOMAIN p.rows, NEW q, q = [p EXCEPT !.at = n]
  PROVE  Sound(q) /\ SelectedId(q) = RowId(p, n)
<1>1. Good(p) /\ p \in Lists /\ Distinct(p.repos) /\ p.rows = RowsNow(p)
  BY DEF Sound, Good
<1>2. Good(q) /\ Same(q, p) /\ SelectedId(q) = RowId(p, n)
  BY <1>1, MoveIs
<1> QED BY <1>2, SameSound DEF Same

(* The next row and the one before are rows.                               *)
LEMMA NextRow ==
  ASSUME NEW m \in Nat, NEW n \in 1..m
  PROVE  Min({n + 1, m}) \in 1..m /\ Max({n - 1, 1}) \in 1..m
<1>1. Min({n + 1, m}) \in {n + 1, m} /\ Min({n + 1, m}) <= n + 1 /\ Min({n + 1, m}) <= m
  <2>1. \E x \in {n + 1, m} : \A y \in {n + 1, m} : x <= y
    OBVIOUS
  <2> QED BY <2>1 DEF Min
<1>2. Max({n - 1, 1}) \in {n - 1, 1} /\ n - 1 <= Max({n - 1, 1}) /\ 1 <= Max({n - 1, 1})
  <2>1. \E x \in {n - 1, 1} : \A y \in {n - 1, 1} : y <= x
    OBVIOUS
  <2> QED BY <2>1 DEF Max
<1> QED BY <1>1, <1>2

LEMMA NextStep ==
  ASSUME RowsBounds, RowsInv, NEW d \in {0, 1}, SelectNext(d)
  PROVE  Sound(listing') /\ strayed' = None /\ sortOrder' = sortOrder /\ missing' = missing
<1>1. Sound(listing) /\ Good(listing) /\ listing \in Lists
  BY DEF RowsInv, Sound, Good
<1>2. PICK m \in Nat : m = Len(listing.rows) /\ DOMAIN listing.rows = 1..m
  BY <1>1 DEF Lists
<1>3. PICK n \in 1..m : n = listing.at
  BY <1>1, <1>2 DEF Good, Placed, SelectNext
<1>4. n # None
  BY NoneIs
<1>5. PICK k : k = IF d > 0 THEN Min({n + 1, m}) ELSE Max({n - 1, 1})
  OBVIOUS
<1>6. k \in DOMAIN listing.rows
  BY <1>2, <1>5, NextRow
<1>7. listing' = [listing EXCEPT !.at = k]
  <2>1. listing' = [listing EXCEPT !.at = IF listing.at = None THEN 1
                                ELSE IF d > 0 THEN Min({listing.at + 1, Len(listing.rows)}) ELSE Max({listing.at - 1, 1})]
    BY <1>1 DEF SelectNext, Put, Lists
  <2> QED BY <1>2, <1>3, <1>4, <1>5, <2>1
<1>8. Sound(listing')
  BY <1>1, <1>6, <1>7, MoveStep
<1> QED BY <1>8 DEF SelectNext, Put, Still

LEMMA FoldStep ==
  ASSUME RowsBounds, NEW p, Sound(p), NEW q, Toggled(q, p)
  PROVE  Sound(q)
BY SameSound DEF Toggled, Refolded

LEMMA KeyStep ==
  ASSUME RowsBounds, RowsInv, KeyToggle
  PROVE  Sound(listing') /\ strayed' = None /\ sortOrder' = sortOrder /\ missing' = missing
<1>1. Sound(listing) /\ Good(listing)
  BY DEF RowsInv, Sound
<1>2. listing' = ToggleExpand(listing) \/ listing' = ToggleStashes(listing)
  BY DEF KeyToggle, Put
<1>3. Toggled(listing', listing)
  BY <1>1, <1>2, ToggleExpandIs, ToggleStashesIs
<1>4. Sound(listing')
  BY <1>1, <1>3, FoldStep
<1> QED BY <1>4 DEF KeyToggle, Put, Still

(* A row is of a listed repository.                                        *)
LEMMA RowIs ==
  ASSUME RowsBounds, NEW p, Good(p), NEW n \in DOMAIN p.rows
  PROVE  \E i \in DOMAIN p.repos, kind \in RowKinds, j \in Nat :
           p.rows[n] = Row(i, kind, j) /\ Shows(p, p.repos[i], kind, j) /\ RowId(p, n) = Id(p.repos[i], kind, j)
<1>1. p \in Lists /\ p.rows = RowsNow(p)
  BY DEF Good
<1>2. p.rows[n] \in RowSet
  BY <1>1 DEF Lists
<1>3. PICK i \in Nat, kind \in RowKinds, j \in Nat : p.rows[n] = Row(i, kind, j)
  BY <1>2 DEF RowSet, Row
<1>4. In(p.rows, Row(i, kind, j))
  BY <1>3 DEF In
<1>5. i \in DOMAIN p.repos /\ Shows(p, p.repos[i], kind, j)
  BY <1>1, <1>4, RowsNowIs DEF RowsAreListed
<1>6. RowId(p, n) = Id(p.repos[i], kind, j)
  BY <1>1, <1>3, IdIs
<1> QED BY <1>3, <1>5, <1>6

(* A click on a repository's selected row leaves it selected.              *)
LEMMA OwnRow ==
  ASSUME RowsBounds, NEW p, Good(p), NEW n \in DOMAIN p.rows, p.at = n, p.rows[n].kind = "repo",
         NEW q, Toggled(q, p)
  PROVE  SelectedId(q) = RowId(p, n)
<1>1. PICK i \in DOMAIN p.repos, kind \in RowKinds, j \in Nat :
        p.rows[n] = Row(i, kind, j) /\ Shows(p, p.repos[i], kind, j) /\ RowId(p, n) = Id(p.repos[i], kind, j)
  BY RowIs
<1>2. kind = "repo" /\ j = 0
  BY <1>1 DEF Row, Shows
<1>3. SelectedId(p) = Id(p.repos[i], "repo", 0)
  BY <1>1, <1>2, IdIs DEF Good
<1>4. Id(SelectedId(p).repo, "repo", 0) = SelectedId(p)
  BY <1>3 DEF Id
<1>5. SelectedId(q) = SelectedId(p)
  BY <1>4 DEF Toggled, Refolded
<1> QED BY <1>1, <1>2, <1>3, <1>5

(* A click lands where it was aimed unless the hint has moved the rows.    *)
LEMMA AimedIs ==
  ASSUME RowsBounds, NEW n \in DOMAIN listing.rows, missing \in BOOLEAN, Aimed(Pointed(n)),
         SelectedId(listing') = RowId(listing, n)
  PROVE  strayed' \in {"click", None} /\ (strayed' = "click" => missing)
<1>1. strayed' \in {"click", None}
  BY DEF Aimed
<1>2. CASE ~missing
  BY <1>2, NoneIs DEF Aimed, Pointed
<1> QED BY <1>1, <1>2

LEMMA LeftStep ==
  ASSUME RowsBounds, RowsInv, NEW line \in DOMAIN listing.rows, NEW on, LeftClick(line, on)
  PROVE  /\ Sound(listing') /\ sortOrder' = sortOrder /\ missing' = missing
         /\ strayed' \in {"click", None} /\ (strayed' = "click" => missing)
<1>1. Sound(listing) /\ Good(listing) /\ missing \in BOOLEAN
  BY DEF RowsInv, Sound
<1>2. sortOrder' = sortOrder /\ missing' = missing /\ Aimed(Pointed(line))
  BY DEF LeftClick, Put
<1>3. PICK r : r = listing.rows[line]
  OBVIOUS
<1>4. PICK s : s = listing.status[listing.repos[r.at]]
  OBVIOUS
<1>5. PICK own \in BOOLEAN : own = (listing.at = line /\ r.kind = "repo" /\ s # None)
  OBVIOUS
<1>6. listing' = CASE own /\ on = "stash" /\ s.stashes > 0 -> ToggleStashes(listing)
                   [] own /\ ~(on = "stash" /\ s.stashes > 0) /\ s.worktrees > 0 -> ToggleExpand(listing)
                   [] own /\ on # "stash" /\ s.worktrees = 0 /\ s.stashes > 0 -> ToggleStashes(listing)
                   [] OTHER -> [listing EXCEPT !.at = line]
  BY <1>3, <1>4, <1>5 DEF LeftClick, Put
<1>7. \/ own /\ listing' = ToggleStashes(listing)
      \/ own /\ listing' = ToggleExpand(listing)
      \/ listing' = [listing EXCEPT !.at = line]
  BY <1>6
<1>8. CASE listing' = [listing EXCEPT !.at = line]
  <2>1. Sound(listing') /\ SelectedId(listing') = RowId(listing, line)
    BY <1>1, <1>8, MoveStep
  <2> QED BY <1>1, <1>2, <2>1, AimedIs
<1>9. CASE own /\ (listing' = ToggleStashes(listing) \/ listing' = ToggleExpand(listing))
  <2>1. Toggled(listing', listing)
    BY <1>1, <1>9, ToggleExpandIs, ToggleStashesIs
  <2>2. listing.at = line /\ listing.rows[line].kind = "repo"
    BY <1>3, <1>5, <1>9
  <2>3. SelectedId(listing') = RowId(listing, line)
    BY <1>1, <2>1, <2>2, OwnRow
  <2>4. Sound(listing')
    BY <1>1, <2>1, FoldStep
  <2> QED BY <1>1, <1>2, <2>3, <2>4, AimedIs
<1> QED BY <1>7, <1>8, <1>9

LEMMA RightStep ==
  ASSUME RowsBounds, RowsInv, NEW line \in DOMAIN listing.rows, RightClick(line)
  PROVE  /\ Sound(listing') /\ sortOrder' = sortOrder /\ missing' = missing
         /\ strayed' \in {"click", None} /\ (strayed' = "click" => missing)
<1>1. Sound(listing) /\ missing \in BOOLEAN
  BY DEF RowsInv
<1>2. sortOrder' = sortOrder /\ missing' = missing /\ Aimed(Pointed(line)) /\ listing' = [listing EXCEPT !.at = line]
  BY DEF RightClick, Put
<1>3. Sound(listing') /\ SelectedId(listing') = RowId(listing, line)
  BY <1>1, <1>2, MoveStep
<1> QED BY <1>1, <1>2, <1>3, AimedIs

(* sort_repos keeps what is selected.                                      *)
LEMMA SortSound ==
  ASSUME RowsBounds, NEW p, Good(p), NEW order, NEW q, q = Sort(p, order), NEW about
  PROVE  Sound(q) /\ Steady(q, p, about) /\ Range(q.repos) = Range(p.repos)
<1>1. p \in Lists /\ SelectedId(p) \in Ids \cup {None}
  BY SelectedIs DEF Good
<1>2. Good(q) /\ Range(q.repos) = Range(p.repos) /\ Grouped(q.repos) /\ Kept(q, p, SelectedId(p))
  BY <1>1, SortIs
<1> QED BY <1>2, KeptSteady DEF Sound

LEMMA CycleStep ==
  ASSUME RowsBounds, RowsInv, CycleSortOrder
  PROVE  Sound(listing') /\ strayed' = None /\ sortOrder' \in DOMAIN Orders /\ missing' = missing
<1>1. Good(listing)
  BY DEF RowsInv, Sound
<1>2. listing' = Sort(listing, Orders[sortOrder']) /\ missing' = missing /\ Behind({})
  BY DEF CycleSortOrder
<1>3. Sound(listing') /\ Steady(listing', listing, {})
  BY <1>1, <1>2, SortSound
<1>4. strayed' = None
  BY <1>2, <1>3, BehindIs
<1>5. DOMAIN Orders = 1..3 /\ Len(Orders) = 3
  BY DEF Orders
<1>6. sortOrder \in 1..3
  BY <1>5 DEF RowsInv
<1>7. sortOrder' = (sortOrder % 3) + 1
  BY <1>5 DEF CycleSortOrder
<1>8. sortOrder' \in 1..3
  BY <1>6, <1>7
<1> QED BY <1>2, <1>3, <1>4, <1>5, <1>8

(* A discovery that finds what is listed does nothing.                     *)
LEMMA DiscoverySound ==
  ASSUME RowsBounds, NEW p, Sound(p), NEW S, S \subseteq Listed, NEW q, q = AfterDiscovery(p, S), NEW about
  PROVE  Sound(q) /\ Steady(q, p, about) /\ Range(q.repos) = S
<1>1. Good(p) /\ p \in Lists /\ SelectedId(p) \in Ids \cup {None}
  BY SelectedIs DEF Sound, Good
<1>2. CASE Range(p.repos) = S
  BY <1>2 DEF AfterDiscovery, Steady
<1>3. CASE Range(p.repos) # S
  <2>1. Good(q) /\ Range(q.repos) = S /\ Grouped(q.repos) /\ Kept(q, p, SelectedId(p))
    BY <1>1, <1>3, AfterDiscoveryIs
  <2> QED BY <1>1, <2>1, KeptSteady DEF Sound
<1> QED BY <1>2, <1>3

LEMMA DiscoverStep ==
  ASSUME RowsBounds, RowsInv, NEW S \in Startups, DiscoverNewRepos(S)
  PROVE  Sound(listing') /\ strayed' = None /\ sortOrder' = sortOrder /\ missing' = missing
<1>1. Sound(listing) /\ S \subseteq Listed
  BY DEF RowsInv, RowsBounds
<1>2. listing' = AfterDiscovery(listing, S) /\ sortOrder' = sortOrder /\ missing' = missing /\ Behind({})
  BY DEF DiscoverNewRepos, Put
<1>3. Sound(listing') /\ Steady(listing', listing, {})
  BY <1>1, <1>2, DiscoverySound
<1> QED BY <1>2, <1>3, BehindIs

LEMMA WorktreeStep ==
  ASSUME RowsBounds, RowsInv, NEW r \in Listed, CreateWorktree(r)
  PROVE  Sound(listing') /\ strayed' = None /\ sortOrder' = sortOrder /\ missing' = missing
<1>1. Sound(listing) /\ Good(listing)
  BY DEF RowsInv, Sound
<1>2. listing' = Expand(listing, r) /\ sortOrder' = sortOrder /\ missing' = missing /\ Behind({})
  BY DEF CreateWorktree, Put
<1>3. Refolded(listing', listing, SelectedId(listing))
  BY <1>1, <1>2, ExpandIs
<1>4. Sound(listing')
  BY <1>1, <1>3, SameSound DEF Refolded
<1>5. Steady(listing', listing, {})
  BY <1>3 DEF Refolded, Steady
<1> QED BY <1>2, <1>4, <1>5, BehindIs

(* RepoList::new.                                                          *)
LEMMA FreshIs ==
  ASSUME RowsBounds, NEW S, S \subseteq Listed, NEW d \in BOOLEAN, NEW q, q = Fresh(ByName(S), d)
  PROVE  Good(q)
<1>1. PICK repos \in Seq(Listed) : repos = ByName(S) /\ Distinct(repos)
  BY ByNameIs
<1>2. PICK at \in Nat \cup {None} : at = IF repos = <<>> THEN None ELSE 1
  OBVIOUS
<1>3. PICK status \in [Listed -> Statuses \cup {None}] : status = [r \in Listed |-> None]
  OBVIOUS
<1>4. PICK u : u = [repos |-> repos, status |-> status, rows |-> <<>>, at |-> at, byDefault |-> d, toggled |-> {},
                    stashes |-> {}, sorted |-> FALSE]
  OBVIOUS
<1>5. q = Rebuild(u)
  BY <1>1, <1>2, <1>3, <1>4 DEF Fresh
<1>6. u \in Lists /\ u.repos = repos /\ u.at = at
  <2>1. <<>> \in Seq(RowSet)
    OBVIOUS
  <2> QED BY <1>4, <2>1 DEF Lists
<1>7. q \in Lists /\ Same(q, u) /\ q.rows = RowsNow(u) /\ q.at = at
  BY <1>5, <1>6, RebuildIs DEF Redrawn
<1>8. q.repos = repos /\ q.rows = RowsNow(q)
  BY <1>6, <1>7, SameIs DEF Same
<1>9. q.rows = <<>> <=> repos = <<>>
  BY <1>7, <1>8, RowsNowIs DEF RowsAreListed
<1>10. q.rows # <<>> => 1 \in DOMAIN q.rows
  BY <1>7 DEF Lists
<1>11. Placed(q)
  BY <1>2, <1>7, <1>9, <1>10 DEF Placed
<1> QED BY <1>1, <1>7, <1>8, <1>11 DEF Good

LEMMA RescanStep ==
  ASSUME RowsBounds, RowsInv, NEW S \in Startups, RescanRows(S)
  PROVE  Sound(listing') /\ strayed' = None /\ sortOrder' = sortOrder /\ missing' \in BOOLEAN
<1>1. Good(listing) /\ S \subseteq Listed /\ listing.byDefault \in BOOLEAN
  BY DEF RowsInv, Sound, RowsBounds, Good, Lists
<1>2. PICK p : p = Fresh(ByName(S), listing.byDefault)
  OBVIOUS
<1>3. Good(p)
  BY <1>1, <1>2, FreshIs
<1>4. PICK u : u = Sort(p, Orders[sortOrder])
  OBVIOUS
<1>5. Good(u) /\ Grouped(u.repos)
  BY <1>3, <1>4, SelectedIs, SortIs DEF Good
<1>6. PICK id \in Ids \cup {None} : id = SelectedId(listing)
  BY <1>1, SelectedIs
<1>7. listing' = Resync(u, id)
  BY <1>2, <1>4, <1>6 DEF RescanRows
<1>8. u \in Lists /\ Distinct(u.repos)
  BY <1>5 DEF Good
<1>9. Good(listing') /\ Same(listing', u) /\ Kept(listing', u, id)
  BY <1>7, <1>8, ResyncKept
<1>10. Sound(listing')
  BY <1>5, <1>9 DEF Sound, Same
<1>11. Steady(listing', listing, Listed)
  <2>1. SUFFICES ASSUME id # None, id.repo \in Range(listing'.repos)
                 PROVE SelectedId(listing').repo = id.repo /\ id.repo \in Listed
    BY <1>6 DEF Steady
  <2> QED BY <1>6, <1>9, <2>1 DEF Kept, Ids
<1>12. Behind(Listed) /\ missing' \in BOOLEAN /\ sortOrder' = sortOrder
  BY DEF RescanRows
<1> QED BY <1>10, <1>11, <1>12, BehindIs

(* A repository's row is selected.                                         *)
LEMMA SelectSound ==
  ASSUME RowsBounds, NEW p, Sound(p), NEW i \in Nat
  PROVE  Sound(SelectRepoRow(p, i))
<1>1. PICK q : q = SelectRepoRow(p, i)
  OBVIOUS
<1>2. Good(q) /\ Same(q, p)
  BY <1>1, SelectKeeps DEF Sound
<1>3. Sound(q)
  BY <1>2, SameSound DEF Same
<1> QED BY <1>1, <1>3

(* A list with one more repository is sorted.                              *)
LEMMA AddedIs ==
  ASSUME RowsBounds, NEW p, Good(p), NEW r \in Listed, NEW order, NEW q,
         q = Sort(WithRepos(p, Append(p.repos, r), p.status, p.toggled, p.stashes, p.sorted), order)
  PROVE  Sound(q)
<1>1. p \in Lists
  BY DEF Good
<1>2. Append(p.repos, r) \in Seq(Listed) /\ p.status \in [Listed -> Statuses \cup {None}] /\ p.toggled \in SUBSET Listed
      /\ p.stashes \in SUBSET Listed /\ p.sorted \in BOOLEAN
  BY <1>1 DEF Lists
<1>9. PICK repos \in Seq(Listed) : repos = Append(p.repos, r)
  BY <1>2
<1>3. PICK u : u = WithRepos(p, repos, p.status, p.toggled, p.stashes, p.sorted)
  OBVIOUS
<1>4. /\ u \in Lists /\ Holds(u, p, repos, p.status, p.toggled, p.stashes, p.sorted)
      /\ u.rows = p.rows /\ u.at = p.at
  BY <1>1, <1>2, <1>3, WithReposIs
<1>7. u.repos = repos
  BY <1>4 DEF Holds
<1>5. SelectedId(u) \in Ids \cup {None}
  <2>1. CASE p.at = None \/ p.at \notin DOMAIN p.rows
    BY <1>4, <2>1 DEF SelectedId
  <2>2. CASE p.at # None /\ p.at \in DOMAIN p.rows
    <3>1. PICK i \in DOMAIN p.repos, kind \in RowKinds, j \in Nat : p.rows[p.at] = Row(i, kind, j)
      BY <2>2, RowIs
    <3>2. repos[i] \in Listed
      BY <1>1, <1>9, <3>1 DEF Lists
    <3>3. PICK n \in DOMAIN u.rows : n = p.at /\ u.rows[n] = Row(i, kind, j) /\ u.at = n
      BY <1>4, <2>2, <3>1
    <3>4. u \in Lists
      BY <1>4
    <3>5. RowId(u, n) = Id(u.repos[i], kind, j)
      BY <3>3, <3>4, IdIs
    <3>6. SelectedId(u) = RowId(u, n)
      BY <2>2, <3>3 DEF SelectedId
    <3> QED BY <1>7, <3>2, <3>5, <3>6 DEF Id, Ids
  <2> QED BY <2>1, <2>2
<1>6. Good(q) /\ Grouped(q.repos)
  BY <1>3, <1>4, <1>5, <1>9, SortIs
<1> QED BY <1>6 DEF Sound

LEMMA AddStep ==
  ASSUME RowsBounds, RowsInv, NEW r \in Listed, AddRow(r)
  PROVE  Sound(listing') /\ strayed' = None /\ sortOrder' = sortOrder /\ missing' = missing
<1>1. Sound(listing) /\ Good(listing)
  BY DEF RowsInv, Sound
<1>2. PICK p : p = IF r \in Range(listing.repos) THEN listing
                   ELSE Sort(WithRepos(listing, Append(listing.repos, r), listing.status, listing.toggled,
                                       listing.stashes, listing.sorted), Orders[sortOrder])
  OBVIOUS
<1>3. Sound(p)
  BY <1>1, <1>2, AddedIs
<1>4. Range(p.repos) \subseteq Listed
  BY <1>3 DEF Sound, Good, Lists, Range
<1>5. PICK S \in Startups \cup {Range(p.repos)} :
        Put(SelectRepoRow(AfterDiscovery(p, S), IndexOf(AfterDiscovery(p, S), r)))
  BY <1>2 DEF AddRow
<1>6. S \subseteq Listed
  BY <1>4, <1>5 DEF RowsBounds
<1>7. PICK q : q = AfterDiscovery(p, S)
  OBVIOUS
<1>8. Sound(q)
  BY <1>3, <1>6, <1>7, DiscoverySound
<1>9. PICK i \in Nat : i = IndexOf(q, r)
  BY <1>8, PlaceIs DEF Sound, Good
<1>10. listing' = SelectRepoRow(q, i) /\ sortOrder' = sortOrder /\ missing' = missing
  BY <1>5, <1>7, <1>9 DEF Put
<1>11. Sound(listing')
  BY <1>8, <1>10, SelectSound
<1> QED BY <1>10, <1>11 DEF AddRow, Still

LEMMA RowsInitInv ==
  ASSUME RowsBounds, RowsInit
  PROVE  RowsInv
<1>1. PICK S \in Startups, d \in BOOLEAN : listing = SelectRepoRow(Sort(Fresh(ByName(S), d), "alphabetical"), 1)
  BY DEF RowsInit
<1>2. S \subseteq Listed
  BY DEF RowsBounds
<1>3. PICK p : p = Fresh(ByName(S), d)
  OBVIOUS
<1>4. Good(p)
  BY <1>2, <1>3, FreshIs
<1>5. PICK q : q = Sort(p, "alphabetical")
  OBVIOUS
<1>6. Sound(q)
  BY <1>4, <1>5, SortSound
<1>7. Sound(listing)
  BY <1>1, <1>3, <1>5, <1>6, SelectSound
<1>8. sortOrder \in DOMAIN Orders /\ missing \in BOOLEAN /\ strayed = None
  BY DEF RowsInit, Orders
<1> QED BY <1>7, <1>8, NoneIs DEF RowsInv, ClicksLand, SelectionStays

\* t is s without its member at i.
Without(t, s, i) ==
  /\ Len(t) = Len(s) - 1
  /\ \A k \in 1..Len(t) : (k < i => t[k] = s[k]) /\ (~(k < i) => t[k] = s[k + 1])

LEMMA RemovesOne ==
  ASSUME NEW S, NEW s \in Seq(S), NEW i \in 1..Len(s), NEW t, t = RemoveAt(s, i)
  PROVE  t \in Seq(S) /\ Without(t, s, i)
<1>1. PICK u, v : u = SubSeq(s, 1, i - 1) /\ v = SubSeq(s, i + 1, Len(s))
  OBVIOUS
<1>2. u \in Seq(S) /\ Len(u) = i - 1 /\ \A k \in 1..(i - 1) : u[k] = s[k]
  BY <1>1
<1>3. v \in Seq(S) /\ Len(v) = Len(s) - i /\ \A k \in 1..(Len(s) - i) : v[k] = s[i + k]
  BY <1>1
<1>4. t = u \o v
  BY <1>1 DEF RemoveAt
<1>8. u \o v \in Seq(S) /\ Len(u \o v) = Len(u) + Len(v)
      /\ (\A k \in 1..Len(u) : (u \o v)[k] = u[k]) /\ \A k \in 1..Len(v) : (u \o v)[Len(u) + k] = v[k]
  <2>1. u \in Seq(S) /\ v \in Seq(S)
    BY <1>2, <1>3
  <2> QED BY <2>1, Below
<1>5. t \in Seq(S) /\ Len(t) = Len(s) - 1
  BY <1>2, <1>3, <1>4, <1>8
<1>6. ASSUME NEW k \in 1..Len(t), k < i PROVE t[k] = s[k]
  <2>1. k \in 1..(i - 1)
    BY <1>5, <1>6
  <2>2. (u \o v)[k] = u[k]
    BY <1>2, <1>8, <2>1
  <2> QED BY <1>2, <1>4, <2>1, <2>2
<1>7. ASSUME NEW k \in 1..Len(t), ~(k < i) PROVE t[k] = s[k + 1]
  <2>1. PICK m \in 1..(Len(s) - i) : k = (i - 1) + m /\ k + 1 = i + m
    BY <1>5, <1>7
  <2>2. t[k] = v[m]
    BY <1>2, <1>3, <1>4, <1>8, <2>1
  <2> QED BY <1>3, <2>1, <2>2
<1> QED BY <1>5, <1>6, <1>7 DEF Without

(* What follows it is drawn in the same place or higher.                   *)
LEMMA AboveSame ==
  ASSUME NEW p \in Lists, NEW q \in Lists, NEW n \in Nat \ {0}, n \in DOMAIN p.repos, n \in DOMAIN q.repos,
         \A k \in 1..(n - 1) : RowsAt(q, k) = RowsAt(p, k)
  PROVE  \E m \in Nat : /\ m \in DOMAIN RowsNow(p) /\ RowsNow(p)[m] = Row(n, "repo", 0)
                        /\ m \in DOMAIN RowsNow(q)
<1>1. PICK N \in Nat : N = Len(p.repos) /\ n <= N
  <2>1. PICK s \in Seq(Listed) : s = p.repos
    BY DEF Lists
  <2>2. n \in 1..Len(s)
    BY <2>1
  <2> QED BY <2>1, <2>2
<1>2. PICK M \in Nat : M = Len(q.repos) /\ n <= M
  <2>1. PICK s \in Seq(Listed) : s = q.repos
    BY DEF Lists
  <2>2. n \in 1..Len(s)
    BY <2>1
  <2> QED BY <2>1, <2>2
<1>3. PICK G : Stacked(p, G)
  BY RowsNowIs
<1>4. PICK H : Stacked(q, H)
  BY RowsNowIs
<1>5. /\ G \in [0..N -> Seq(RowSet)] /\ G[0] = <<>> /\ \A k \in 1..N : G[k] = G[k - 1] \o RowsAt(p, k)
      /\ \A k \in 0..N : Len(G[k]) <= Len(RowsNow(p)) /\ \A l \in 1..Len(G[k]) : RowsNow(p)[l] = G[k][l]
  BY <1>1, <1>3 DEF Stacked
<1>6. /\ H \in [0..M -> Seq(RowSet)] /\ H[0] = <<>> /\ \A k \in 1..M : H[k] = H[k - 1] \o RowsAt(q, k)
      /\ \A k \in 0..M : Len(H[k]) <= Len(RowsNow(q))
  BY <1>2, <1>4 DEF Stacked
<1>7. PICK T : T = {k \in 0..(n - 1) : G[k] = H[k]}
  OBVIOUS
<1>8. 0 \in T
  BY <1>5, <1>6, <1>7
<1>9. ASSUME NEW k \in 1..(n - 1), k - 1 \in T PROVE k \in T
  <2>1. k \in 1..N /\ k \in 1..M
    BY <1>1, <1>2
  <2>2. G[k] = G[k - 1] \o RowsAt(p, k) /\ H[k] = H[k - 1] \o RowsAt(q, k) /\ G[k - 1] = H[k - 1]
    BY <1>5, <1>6, <1>7, <1>9, <2>1
  <2>3. RowsAt(q, k) = RowsAt(p, k) /\ k \in 0..(n - 1)
    OBVIOUS
  <2>4. G[k] = H[k]
    BY <2>2, <2>3
  <2> QED BY <1>7, <2>3, <2>4
<1>10. n - 1 \in T
  <2>1. n - 1 \in Nat /\ n - 1 \in 0..(n - 1)
    OBVIOUS
  <2> QED BY <1>8, <1>9, <2>1, Upward
<1>11. PICK s \in Seq(RowSet) : s = G[n - 1] /\ s = H[n - 1]
  <2>1. n - 1 \in 0..N
    BY <1>1
  <2> QED BY <1>5, <1>7, <1>10, <2>1
<1>12. PICK x \in Seq(RowSet) : x = RowsAt(p, n) /\ Len(x) > 0 /\ x[1] = Row(n, "repo", 0)
  BY RowsAtIs
<1>13. PICK y \in Seq(RowSet) : y = RowsAt(q, n) /\ Len(y) > 0
  BY RowsAtIs
<1>14. n \in 1..N /\ n \in 1..M /\ n \in 0..N /\ n \in 0..M
  BY <1>1, <1>2
<1>15. G[n] = s \o x /\ H[n] = s \o y
  BY <1>5, <1>6, <1>11, <1>12, <1>13, <1>14
<1>16. PICK m \in Nat : m = Len(s) + 1
  OBVIOUS
<1>17. m \in 1..Len(s \o x) /\ (s \o x)[m] = x[1] /\ m \in 1..Len(s \o y)
  BY <1>12, <1>13, <1>16
<1>18. RowsNow(p) \in Seq(RowSet) /\ RowsNow(q) \in Seq(RowSet)
  BY RowsNowIs DEF RowsAreListed
<1>19. m \in DOMAIN RowsNow(p) /\ RowsNow(p)[m] = Row(n, "repo", 0)
  <2>1. Len(G[n]) <= Len(RowsNow(p)) /\ RowsNow(p)[m] = G[n][m]
    BY <1>5, <1>14, <1>15, <1>17
  <2> QED BY <1>12, <1>15, <1>17, <1>18, <2>1
<1>20. m \in DOMAIN RowsNow(q)
  <2>1. Len(H[n]) <= Len(RowsNow(q))
    BY <1>6, <1>14
  <2> QED BY <1>15, <1>17, <1>18, <2>1
<1> QED BY <1>19, <1>20

(* A row is selected no lower than m, on rows that were drawn before.      *)
LEMMA SelectOld ==
  ASSUME RowsBounds, NEW q \in Lists, NEW n \in DOMAIN q.repos, NEW m \in DOMAIN q.rows, q.rows[m] = Row(n, "repo", 0),
         NEW u, u = SelectRepoRow(q, n)
  PROVE  /\ u \in Lists /\ Same(u, q) /\ u.rows = q.rows /\ u.at \in Nat \ {0} /\ u.at <= m
         /\ SelectedId(u) = Id(q.repos[n], "repo", 0)
<1>1. PICK f : f = Find(q, Row(n, "repo", 0))
  OBVIOUS
<1>2. Finds(f, q.rows, Row(n, "repo", 0)) /\ In(q.rows, Row(n, "repo", 0))
  BY <1>1, FindIs DEF In
<1>3. f \in DOMAIN q.rows /\ q.rows[f] = Row(n, "repo", 0) /\ f <= m
  BY <1>2 DEF Finds
<1>4. f \in Nat \ {0} /\ f # None
  BY <1>3, NoneIs DEF Lists
<1>5. u = [q EXCEPT !.at = f]
  BY <1>1, <1>4 DEF SelectRepoRow, Row
<1>6. u \in Lists /\ Same(u, q) /\ u.rows = q.rows /\ u.at = f
  BY <1>4, <1>5, AtIs DEF Redrawn
<1>7. RowId(q, f) = Id(q.repos[n], "repo", 0)
  BY <1>3, IdIs
<1>8. SelectedId(u) = RowId(u, f)
  BY <1>3, <1>4, <1>6 DEF SelectedId
<1>9. RowId(u, f) = RowId(q, f)
  BY <1>6 DEF RowId, Same
<1> QED BY <1>3, <1>4, <1>6, <1>7, <1>8, <1>9

(* A list is drawn in a frame.                                             *)
LEMMA DrawnSound ==
  ASSUME RowsBounds, NEW p, Sound(p), NEW q, q = Rebuild(p)
  PROVE  Sound(q)
<1>1. p \in Lists /\ p.rows = RowsNow(p) /\ Placed(p) /\ Distinct(p.repos)
  BY DEF Sound, Good
<1>2. q \in Lists /\ Same(q, p) /\ q.rows = RowsNow(p) /\ q.at = p.at
  BY <1>1, RebuildIs DEF Redrawn
<1>3. q.rows = RowsNow(q) /\ q.repos = p.repos /\ q.sorted = p.sorted
  BY <1>2, SameIs DEF Same
<1>4. Good(q)
  BY <1>1, <1>2, <1>3 DEF Good, Placed
<1> QED BY <1>3, <1>4, SameSound

(* remove_repo: the repositories above it, and the rows, are as before.    *)
Removed(q, p, i) ==
  /\ q \in Lists /\ Distinct(q.repos) /\ q.rows = p.rows /\ q.sorted = FALSE /\ i \in Nat \ {0}
  /\ DOMAIN q.repos \subseteq DOMAIN p.repos
  /\ \A k \in DOMAIN q.repos : k < i => RowsAt(q, k) = RowsAt(p, k)

LEMMA RemovedIs ==
  ASSUME RowsBounds, NEW p, Good(p), NEW i \in DOMAIN p.repos,
         NEW q, q = WithRepos(p, RemoveAt(p.repos, i), [p.status EXCEPT ![p.repos[i]] = None],
                              p.toggled, p.stashes, FALSE)
  PROVE  Removed(q, p, i)
<1>1. p \in Lists /\ Distinct(p.repos)
  BY DEF Good
<1>2. PICK s \in Seq(Listed) : s = p.repos
  BY <1>1 DEF Lists
<1>3. i \in 1..Len(s) /\ DOMAIN s = 1..Len(s) /\ i \in Nat \ {0}
  BY <1>2
<1>4. PICK t : t = RemoveAt(s, i)
  OBVIOUS
<1>16. t \in Seq(Listed) /\ Without(t, s, i)
  BY <1>3, <1>4, RemovesOne
<1>5. /\ t \in Seq(Listed) /\ Len(t) = Len(s) - 1
      /\ \A k \in 1..Len(t) : (k < i => t[k] = s[k]) /\ (~(k < i) => t[k] = s[k + 1])
  BY <1>16 DEF Without
<1>6. PICK status : status = [p.status EXCEPT ![p.repos[i]] = None]
  OBVIOUS
<1>7. p.status \in [Listed -> Statuses \cup {None}] /\ s[i] \in Listed /\ p.toggled \in SUBSET Listed
      /\ p.stashes \in SUBSET Listed
  BY <1>1, <1>2, <1>3 DEF Lists
<1>8. status \in [Listed -> Statuses \cup {None}] /\ \A o \in Listed : o # s[i] => status[o] = p.status[o]
  BY <1>2, <1>6, <1>7
<1>9. q = WithRepos(p, t, status, p.toggled, p.stashes, FALSE)
  BY <1>2, <1>4, <1>6
<1>10. q \in Lists /\ Holds(q, p, t, status, p.toggled, p.stashes, FALSE) /\ q.rows = p.rows
  <2>1. PICK sorted \in BOOLEAN : sorted = FALSE
    OBVIOUS
  <2>2. q = WithRepos(p, t, status, p.toggled, p.stashes, sorted)
    BY <1>9, <2>1
  <2>3. t \in Seq(Listed) /\ status \in [Listed -> Statuses \cup {None}] /\ p.toggled \in SUBSET Listed
        /\ p.stashes \in SUBSET Listed
    BY <1>7, <1>8, <1>16
  <2>4. PICK u : u = WithRepos(p, t, status, p.toggled, p.stashes, sorted)
    OBVIOUS
  <2>5. p \in Lists
    BY <1>1
  <2>6. u \in Lists /\ Holds(u, p, t, status, p.toggled, p.stashes, sorted) /\ u.rows = p.rows
    BY ONLY <2>3, <2>4, <2>5, WithReposIs
  <2> QED BY <2>1, <2>2, <2>4, <2>6
<1>11. /\ q.repos = t /\ q.status = status /\ q.byDefault = p.byDefault
       /\ q.toggled = p.toggled /\ q.stashes = p.stashes /\ q.sorted = FALSE
  BY <1>10 DEF Holds
<1>12. Distinct(s)
  BY <1>1, <1>2
<1>13. Distinct(t)
  <2>1. SUFFICES ASSUME NEW k \in 1..Len(t), NEW l \in 1..Len(t), t[k] = t[l] PROVE k = l
    BY <1>5 DEF Distinct
  <2>2. PICK a \in 1..Len(s) : a = IF k < i THEN k ELSE k + 1
    BY <1>3, <1>5
  <2>3. PICK b \in 1..Len(s) : b = IF l < i THEN l ELSE l + 1
    BY <1>3, <1>5
  <2>4. t[k] = s[a] /\ t[l] = s[b]
    BY <1>5, <2>2, <2>3
  <2>5. a = b
    BY <1>3, <1>12, <2>1, <2>4 DEF Distinct
  <2>6. k \in Nat /\ l \in Nat /\ i \in Nat
    BY <1>3
  <2> QED BY <2>2, <2>3, <2>5, <2>6
<1>14. DOMAIN t \subseteq DOMAIN s
  BY <1>3, <1>5
<1>15. ASSUME NEW k \in DOMAIN t, k < i PROVE RowsAt(q, k) = RowsAt(p, k)
  <2>1. t[k] = s[k] /\ k \in DOMAIN s /\ k # i /\ s[k] \in Listed
    BY <1>3, <1>5, <1>14, <1>15
  <2>2. s[k] # s[i]
    BY <1>3, <1>12, <2>1 DEF Distinct
  <2>3. q.repos[k] = p.repos[k] /\ q.status[q.repos[k]] = p.status[p.repos[k]]
    BY <1>2, <1>8, <1>11, <2>1, <2>2
  <2>4. WorktreesShown(q, q.repos[k]) = WorktreesShown(p, p.repos[k])
    BY <1>11, <2>3 DEF WorktreesShown
  <2> QED BY <1>11, <2>3, <2>4 DEF RowsAt
<1> QED BY <1>2, <1>3, <1>10, <1>11, <1>13, <1>14, <1>15 DEF Removed

LEMMA RemoveStep ==
  ASSUME RowsBounds, RowsInv, NEW r \in Listed, RemoveRow(r)
  PROVE  Sound(listing') /\ strayed' = None /\ sortOrder' = sortOrder /\ missing' = missing
<1>1. Good(listing) /\ listing \in Lists
  BY DEF RowsInv, Sound, Good
<1>2. PICK i \in DOMAIN listing.repos : i = IndexOf(listing, r) /\ listing.repos[i] = r
  BY <1>1, PlaceIs DEF RemoveRow
<1>3. PICK p : p = WithRepos(listing, RemoveAt(listing.repos, i), [listing.status EXCEPT ![listing.repos[i]] = None],
                             listing.toggled, listing.stashes, FALSE)
  OBVIOUS
<1>4. /\ p \in Lists /\ Distinct(p.repos) /\ p.rows = listing.rows /\ p.sorted = FALSE /\ i \in Nat \ {0}
      /\ DOMAIN p.repos \subseteq DOMAIN listing.repos
      /\ \A k \in DOMAIN p.repos : k < i => RowsAt(p, k) = RowsAt(listing, k)
  <2>1. Removed(p, listing, i)
    BY <1>1, <1>3, RemovedIs
  <2> QED BY <2>1 DEF Removed
<1>15. p = WithRepos(listing, RemoveAt(listing.repos, IndexOf(listing, r)), [listing.status EXCEPT ![r] = None],
                     listing.toggled, listing.stashes, FALSE)
  BY <1>2, <1>3
<1>5. PICK n : n = Min({i, Len(p.repos)})
  OBVIOUS
<1>6. PICK left : left = IF p.repos = <<>> THEN [p EXCEPT !.at = None] ELSE SelectRepoRow(p, n)
  OBVIOUS
<1>7. PICK S \in Startups \cup {Range(p.repos)} :
        Put(Rebuild(IF p.repos = <<>> THEN AfterDiscovery(left, S)
                    ELSE SelectRepoRow(AfterDiscovery(left, S), IndexOf(AfterDiscovery(left, S), p.repos[n]))))
  <2>1. n = Min({IndexOf(listing, r), Len(p.repos)})
    BY <1>2, <1>5
  <2> QED BY <1>15, <1>6, <2>1 DEF RemoveRow
<1>8. S \subseteq Listed
  BY <1>4, <1>7 DEF RowsBounds, Lists, Range
<1>9. PICK a : a = AfterDiscovery(left, S)
  OBVIOUS
<1>10. PICK b : b = IF p.repos = <<>> THEN a ELSE SelectRepoRow(a, IndexOf(a, p.repos[n]))
  OBVIOUS
<1>11. listing' = Rebuild(b) /\ sortOrder' = sortOrder /\ missing' = missing
  BY <1>7, <1>9, <1>10 DEF Put
<1>12. ASSUME Sound(a) PROVE Sound(Rebuild(b))
  <2>1. Sound(b)
    <3>1. CASE p.repos = <<>>
      BY <1>10, <1>12, <3>1
    <3>2. CASE p.repos # <<>>
      <4>1. PICK k \in Nat : k = IndexOf(a, p.repos[n])
        BY <1>12, PlaceIs DEF Sound, Good
      <4> QED BY <1>10, <1>12, <3>2, <4>1, SelectSound
    <3> QED BY <3>1, <3>2
  <2>2. PICK u : u = Rebuild(b)
    OBVIOUS
  <2> QED BY <2>1, <2>2, DrawnSound
<1>13. CASE p.repos = <<>>
  <2>1. left \in Lists /\ Same(left, p) /\ left.at = None
    BY <1>4, <1>6, <1>13, AtIs DEF Redrawn
  <2>2. SelectedId(left) = None /\ left.repos = <<>> /\ left.sorted = FALSE
    BY <1>4, <1>13, <2>1 DEF SelectedId, Same
  <2>3. CASE Range(left.repos) = S
    <3>1. b = left
      BY <1>9, <1>10, <1>13, <2>3 DEF AfterDiscovery
    <3>2. PICK u : u = Rebuild(left)
      OBVIOUS
    <3>3. u \in Lists /\ Same(u, left) /\ u.rows = RowsNow(left) /\ u.at = None
      BY <2>1, <3>2, RebuildIs DEF Redrawn
    <3>4. u.repos = <<>> /\ u.rows = RowsNow(u) /\ u.sorted = FALSE
      BY <2>2, <3>3, SameIs DEF Same
    <3>5. u.rows = <<>>
      BY <3>3, <3>4, RowsNowIs DEF RowsAreListed
    <3>6. Sound(u)
      BY <3>3, <3>4, <3>5 DEF Sound, Good, Placed, Distinct
    <3> QED BY <1>11, <3>1, <3>2, <3>6 DEF RemoveRow, Still
  <2>4. CASE Range(left.repos) # S
    <3>1. Sound(a)
      BY <1>8, <1>9, <2>1, <2>2, <2>4, AfterDiscoveryIs DEF Sound
    <3> QED BY <1>11, <1>12, <3>1 DEF RemoveRow, Still
  <2> QED BY <2>3, <2>4
<1>14. CASE p.repos # <<>>
  <2>1. PICK N \in Nat \ {0} : N = Len(p.repos) /\ DOMAIN p.repos = 1..N
    BY <1>4, <1>14 DEF Lists
  <2>2. n \in 1..N /\ n <= i
    <3>1. n \in {i, N} /\ n <= i /\ n <= N
      <4>1. \E x \in {i, N} : \A y \in {i, N} : x <= y
        BY <1>4
      <4> QED BY <1>5, <2>1, <4>1 DEF Min
    <3> QED BY <1>4, <3>1
  <2>3. n \in DOMAIN p.repos /\ n \in DOMAIN listing.repos /\ n \in Nat \ {0}
    BY <1>4, <2>1, <2>2
  <2>4. \A k \in 1..(n - 1) : RowsAt(p, k) = RowsAt(listing, k)
    <3>1. SUFFICES ASSUME NEW k \in 1..(n - 1) PROVE RowsAt(p, k) = RowsAt(listing, k)
      OBVIOUS
    <3>2. k \in DOMAIN p.repos /\ k < i
      BY <1>4, <2>1, <2>2, <2>3
    <3> QED BY <1>4, <3>2
  <2>5. PICK m \in Nat : m \in DOMAIN RowsNow(listing) /\ RowsNow(listing)[m] = Row(n, "repo", 0) /\ m \in DOMAIN RowsNow(p)
    BY <1>1, <1>4, <2>3, <2>4, AboveSame
  <2>6. m \in DOMAIN p.rows /\ p.rows[m] = Row(n, "repo", 0)
    BY <1>1, <1>4, <2>5 DEF Good
  <2>7. left = SelectRepoRow(p, n)
    BY <1>6, <1>14
  <2>8. left \in Lists /\ Same(left, p) /\ left.rows = p.rows /\ SelectedId(left) = Id(p.repos[n], "repo", 0)
    BY <1>4, <2>3, <2>6, <2>7, SelectOld
  <2>9. SelectedId(left) \in Ids
    <3>1. p.repos[n] \in Listed
      BY <1>4, <2>3 DEF Lists
    <3> QED BY <2>8, <3>1 DEF Id, Ids, RowKinds
  <2>10. left.repos = p.repos /\ left.sorted = FALSE
    BY <1>4, <2>8 DEF Same
  <2>11. CASE Range(left.repos) = S
    <3>1. b = SelectRepoRow(left, IndexOf(left, p.repos[n]))
      BY <1>9, <1>10, <1>14, <2>11 DEF AfterDiscovery
    <3>2. n \in DOMAIN left.repos /\ Distinct(left.repos) /\ left.repos[n] = p.repos[n]
      BY <1>4, <2>3, <2>10
    <3>3. IndexOf(left, p.repos[n]) = n
      BY <2>8, <3>2, PlaceIs
    <3>4. b = SelectRepoRow(left, n) /\ m \in DOMAIN left.rows /\ left.rows[m] = Row(n, "repo", 0)
      BY <2>6, <2>8, <3>1, <3>3
    <3>5. b \in Lists /\ Same(b, left) /\ b.at \in Nat \ {0} /\ b.at <= m
      BY <2>8, <3>2, <3>4, SelectOld
    <3>6. PICK u : u = Rebuild(b)
      OBVIOUS
    <3>7. u \in Lists /\ Same(u, b) /\ u.rows = RowsNow(b) /\ u.at = b.at
      BY <3>5, <3>6, RebuildIs DEF Redrawn
    <3>8. u.rows = RowsNow(u)
      BY <3>7, SameIs
    <3>9. RowsNow(b) = RowsNow(left) /\ RowsNow(left) = RowsNow(p)
      BY <2>8, <3>5, SameIs
    <3>10. u.repos = p.repos /\ u.sorted = FALSE
      BY <2>10, <3>5, <3>7 DEF Same
    <3>11. u.at \in DOMAIN u.rows
      <4>1. m \in DOMAIN u.rows
        BY <2>5, <3>7, <3>9
      <4>2. PICK rows \in Seq(RowSet) : rows = u.rows
        BY <3>7 DEF Lists
      <4>3. m \in 1..Len(rows) /\ u.at \in 1..m
        BY <3>5, <3>7, <4>1, <4>2
      <4> QED BY <4>2, <4>3
    <3>12. Placed(u)
      BY <3>11 DEF Placed
    <3>13. Sound(u)
      BY <1>4, <3>7, <3>8, <3>10, <3>12 DEF Sound, Good
    <3> QED BY <1>11, <3>6, <3>13 DEF RemoveRow, Still
  <2>12. CASE Range(left.repos) # S
    <3>1. Sound(a)
      BY <1>8, <1>9, <2>8, <2>9, <2>12, AfterDiscoveryIs DEF Sound
    <3> QED BY <1>11, <1>12, <3>1 DEF RemoveRow, Still
  <2> QED BY <2>11, <2>12
<1> QED BY <1>13, <1>14

(* Every step.                                                             *)
LEMMA RowsStepInv ==
  ASSUME RowsBounds, RowsInv, [RowsNext]_rowVars
  PROVE  RowsInv'
<1>1. /\ sortOrder \in DOMAIN Orders /\ missing \in BOOLEAN /\ strayed \in {"click", "moved", None}
      /\ Sound(listing) /\ ClicksLand /\ SelectionStays
  BY DEF RowsInv
<1>2. ASSUME Sound(listing'), strayed' = None, sortOrder' \in DOMAIN Orders, missing' \in BOOLEAN PROVE RowsInv'
  BY <1>2, NoneIs DEF RowsInv, ClicksLand, SelectionStays
<1>3. ASSUME Sound(listing'), strayed' \in {"click", None}, strayed' = "click" => missing,
             sortOrder' = sortOrder, missing' = missing
      PROVE  RowsInv'
  BY <1>1, <1>3, NoneIs DEF RowsInv, ClicksLand, SelectionStays
<1>4. CASE UNCHANGED rowVars
  BY <1>1, <1>4 DEF rowVars, RowsInv, ClicksLand, SelectionStays
<1>5. ASSUME NEW r \in Listed, RowStatusUpdated(r) PROVE RowsInv'
  BY <1>1, <1>2, <1>5, StatusStep
<1>6. ASSUME NEW r \in Listed, AddRow(r) PROVE RowsInv'
  BY <1>1, <1>2, <1>6, AddStep
<1>7. ASSUME NEW r \in Listed, RemoveRow(r) PROVE RowsInv'
  BY <1>1, <1>2, <1>7, RemoveStep
<1>8. ASSUME NEW r \in Listed, CreateWorktree(r) PROVE RowsInv'
  BY <1>1, <1>2, <1>8, WorktreeStep
<1>9. ASSUME NEW S \in Startups, DiscoverNewRepos(S) PROVE RowsInv'
  BY <1>1, <1>2, <1>9, DiscoverStep
<1>10. ASSUME NEW S \in Startups, RescanRows(S) PROVE RowsInv'
  BY <1>1, <1>2, <1>10, RescanStep
<1>11. ASSUME NEW line \in DOMAIN listing.rows, RightClick(line) PROVE RowsInv'
  BY <1>3, <1>11, RightStep
<1>12. ASSUME NEW line \in DOMAIN listing.rows, NEW on \in {"stash", "elsewhere"}, LeftClick(line, on) PROVE RowsInv'
  BY <1>3, <1>12, LeftStep
<1>13. CASE SelectNext(1) \/ SelectNext(0)
  BY <1>1, <1>2, <1>13, NextStep
<1>14. CASE KeyToggle
  BY <1>1, <1>2, <1>14, KeyStep
<1>15. CASE CycleSortOrder
  BY <1>1, <1>2, <1>15, CycleStep
<1> QED BY <1>4, <1>5, <1>6, <1>7, <1>8, <1>9, <1>10, <1>11, <1>12, <1>13, <1>14, <1>15 DEF RowsNext

(* What the invariant is for.                                              *)
LEMMA RowsInvHolds ==
  ASSUME RowsBounds, RowsInv
  PROVE  RowsHold /\ RowsTypeOK
<1>1. PICK p : p = listing
  OBVIOUS
<1>2. p \in Lists /\ p.rows = RowsNow(p) /\ Placed(p) /\ (p.sorted => Grouped(p.repos))
  BY <1>1 DEF RowsInv, Sound, Good
<1>3. PICK rows \in Seq(RowSet) : rows = p.rows
  BY <1>2 DEF Lists
<1>4. Rebuild(p) = [p EXCEPT !.rows = rows]
  BY <1>2, <1>3 DEF Rebuild, RowsNow
<1>5. p = Rebuild(p)
  BY <1>2, <1>3, <1>4 DEF Lists
<1>6. RowsAreDrawn
  BY <1>1, <1>2, <1>5 DEF RowsAreDrawn, Placed
<1>7. GroupsStayTogether
  BY <1>1, <1>2 DEF GroupsStayTogether
<1>8. RowsTypeOK
  BY <1>1, <1>2 DEF RowsTypeOK, RowsInv, Lists, Range
<1> QED BY <1>6, <1>7, <1>8 DEF RowsHold, RowsInv

\* Whatever happens to the list of repositories, its rows are those of what is
\* listed, a sorted list keeps its groups together, and the selection stays on
\* what the user chose (RepoList, App::sort_repos).
THEOREM RowsAlwaysHold == ASSUME RowsBounds PROVE RowsSpec => [](RowsHold /\ RowsTypeOK)
<1>1. RowsInit => RowsInv
  BY RowsInitInv
<1>2. RowsInv /\ [RowsNext]_rowVars => RowsInv'
  BY RowsStepInv
<1>3. RowsInv => RowsHold /\ RowsTypeOK
  BY RowsInvHolds
<1> QED BY <1>1, <1>2, <1>3, PTL DEF RowsSpec
=============================================================================
