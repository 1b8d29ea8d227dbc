------------------------- MODULE VendorImportsProofs -------------------------
(***************************************************************************)
(* Proofs about modules VendorTables and VendorImports: the CSV text and   *)
(* the workbook of a table give the same rows, for every set of words and  *)
(* every set of tables of any width and length.                            *)
(***************************************************************************)
EXTENDS VendorImports, WellFoundedInduction, TLAPS

\* A set of naturals that is not empty has a least member.
LEMMA Smallest ==
  ASSUME NEW U \in SUBSET Nat, U # {}
  PROVE  \E x \in U : \A y \in U : x <= y
<1> DEFINE Less == OpToRel(<, Nat)
<1>1. \A x, y \in Nat : x < y => <<x, y>> \in Less
  BY DEF OpToRel
<1>2. IsWellFoundedOn(Less, Nat)
  BY NatLessThanWellFounded
<1> HIDE DEF Less
<1>3. PICK x \in U : \A y \in U : ~(<<y, x>> \in Less)
  BY <1>2, WFMin
<1>4. \A y \in U : ~(y < x)
  BY <1>1, <1>3
<1>5. QED
  BY <1>4

\* Induction over the naturals, for a set that holds 0 and with each number the next.
LEMMA Induction ==
  ASSUME NEW T, 0 \in T, \A n \in Nat : n \in T => n + 1 \in T
  PROVE  Nat \subseteq T
<1>1. SUFFICES ASSUME ~(Nat \subseteq T) PROVE FALSE
  OBVIOUS
<1>2. PICK x \in Nat \ T : \A y \in Nat \ T : x <= y
  BY <1>1, Smallest
<1>3. x - 1 \in Nat /\ x = (x - 1) + 1 /\ ~(x <= x - 1)
  BY <1>2
<1>4. QED
  BY <1>2, <1>3

(***************************************************************************)
(* Trimming.                                                               *)
(***************************************************************************)
LEMMA Extremes ==
  ASSUME NEW n \in Nat, NEW U \in SUBSET (1..n), U # {}
  PROVE  /\ Min(U) \in U /\ Max(U) \in U
         /\ \A x \in U : Min(U) <= x /\ x <= Max(U)
<1>1. \E x \in U : \A y \in U : x <= y
  BY Smallest
<1>2. \E x \in U : \A y \in U : x >= y
  <2> DEFINE V == {n - x : x \in U}
  <2>1. V \in SUBSET Nat /\ V # {}
    <3>1. \A x \in U : x \in 1..n
      OBVIOUS
    <3>2. \A x \in U : n - x \in Nat
      BY <3>1
    <3>3. QED
      BY <3>2
  <2>2. PICK v \in V : \A w \in V : v <= w
    BY <2>1, Smallest
  <2>3. PICK x \in U : v = n - x
    OBVIOUS
  <2>4. \A y \in U : n - x <= n - y
    BY <2>2, <2>3
  <2>5. \A y \in U : x >= y
    BY <2>4
  <2>6. QED
    BY <2>5
<1>3. QED
  BY <1>1, <1>2 DEF Min, Max

Solid(text) == {i \in DOMAIN text : text[i] \notin {Blank, Newline}}

\* Trimming a text twice is trimming it once, and leaves nothing exactly if nothing shows.
LEMMA Trimmed ==
  ASSUME NEW T, NEW text \in Seq(T)
  PROVE  /\ Trim(text) \in Seq(T)
         /\ Trim(Trim(text)) = Trim(text)
         /\ Trim(text) = <<>> <=> Solid(text) = {}
<1>1. \A t : Trim(t) = IF Solid(t) = {} THEN <<>> ELSE SubSeq(t, Min(Solid(t)), Max(Solid(t)))
  BY DEF Trim, Solid
<1>2. CASE Solid(text) = {}
  <2>1. Solid(<<>>) = {}
    BY DEF Solid
  <2>2. Trim(text) = <<>> /\ Trim(<<>>) = <<>>
    BY <1>1, <1>2, <2>1
  <2>3. <<>> \in Seq(T)
    OBVIOUS
  <2>4. QED
    BY <1>2, <2>2, <2>3
<1>3. CASE Solid(text) # {}
  <2> DEFINE a == Min(Solid(text))
             b == Max(Solid(text))
             y == SubSeq(text, a, b)
  <2>1. Solid(text) \in SUBSET (1..Len(text)) /\ Len(text) \in Nat
    BY DEF Solid
  <2>2. a \in Solid(text) /\ b \in Solid(text) /\ a <= b
    BY <1>3, <2>1, Extremes
  <2> HIDE DEF a, b
  <2>3. /\ a \in 1..Len(text) /\ b \in 1..Len(text)
        /\ text[a] \notin {Blank, Newline} /\ text[b] \notin {Blank, Newline}
    BY <2>2 DEF Solid
  <2>4. y \in Seq(T) /\ Len(y) = b - a + 1 /\ Len(y) \in Nat /\ Len(y) >= 1
    BY <2>2, <2>3
  <2>5. y[1] = text[a] /\ y[Len(y)] = text[b]
    BY <2>2, <2>3, <2>4
  <2> HIDE DEF y
  <2>6. Solid(y) \in SUBSET (1..Len(y)) /\ 1 \in Solid(y) /\ Len(y) \in Solid(y)
    BY <2>3, <2>4, <2>5 DEF Solid
  <2>7. Min(Solid(y)) = 1 /\ Max(Solid(y)) = Len(y)
    <3>1. /\ Min(Solid(y)) \in Solid(y) /\ Max(Solid(y)) \in Solid(y)
          /\ \A x \in Solid(y) : Min(Solid(y)) <= x /\ x <= Max(Solid(y))
      BY <2>4, <2>6, Extremes
    <3>2. QED
      BY <2>4, <2>6, <3>1
  <2>8. SubSeq(y, 1, Len(y)) = y
    BY <2>4
  <2>9. Trim(text) = y
    BY <1>1, <1>3 DEF y, a, b
  <2>10. Trim(y) = y
    BY <1>1, <2>6, <2>7, <2>8
  <2>11. y # <<>>
    BY <2>4
  <2>12. QED
    BY <1>3, <2>4, <2>9, <2>10, <2>11
<1>4. QED
  BY <1>2, <1>3

(***************************************************************************)
(* Where the pieces of a text stand in it.                                 *)
(***************************************************************************)
\* f is what flatten computes in FlattenSeq for the first k of the sequences.
Flattens(f, seqs, k) ==
  f = [i \in 1..k |-> IF i = 1 THEN seqs[i] ELSE f[i - 1] \o seqs[i]]

\* The recursive function of FlattenSeq exists.
LEMMA FlattenExists ==
  ASSUME NEW seqs, Len(seqs) \in Nat, Len(seqs) # 0
  PROVE  \E f : Flattens(f, seqs, Len(seqs)) /\ FlattenSeq(seqs) = f[Len(seqs)]
<1> DEFINE K == {k \in Nat : \E f : Flattens(f, seqs, k)}
<1>1. 0 \in K
  <2>1. Flattens([i \in 1..0 |-> <<>>], seqs, 0)
    BY DEF Flattens
  <2>2. QED
    BY <2>1
<1>2. ASSUME NEW k \in Nat, k \in K
      PROVE  k + 1 \in K
  <2>1. PICK f : Flattens(f, seqs, k)
    BY <1>2
  <2> DEFINE g == [i \in 1..(k + 1) |-> IF i = 1 THEN seqs[i] ELSE f[i - 1] \o seqs[i]]
  <2>2. \A i \in 1..k : g[i] = f[i]
    <3>1. \A i \in 1..k : f[i] = IF i = 1 THEN seqs[i] ELSE f[i - 1] \o seqs[i]
      BY <2>1 DEF Flattens
    <3>2. \A i \in 1..(k + 1) : g[i] = IF i = 1 THEN seqs[i] ELSE f[i - 1] \o seqs[i]
      OBVIOUS
    <3>3. \A i \in 1..k : i \in 1..(k + 1)
      OBVIOUS
    <3> HIDE DEF g
    <3>4. QED
      BY <3>1, <3>2, <3>3
  <2>3. \A i \in 1..(k + 1) : i # 1 => i - 1 \in 1..k
    OBVIOUS
  <2>4. g = [i \in 1..(k + 1) |-> IF i = 1 THEN seqs[i] ELSE g[i - 1] \o seqs[i]]
    BY <2>2, <2>3
  <2> HIDE DEF g
  <2>5. Flattens(g, seqs, k + 1)
    BY <2>4 DEF Flattens
  <2>6. QED
    BY <2>5
<1>3. Len(seqs) \in K
  <2> HIDE DEF K
  <2>1. QED
    BY <1>1, <1>2, Induction
<1>4. Flattens(CHOOSE f : Flattens(f, seqs, Len(seqs)), seqs, Len(seqs))
  BY <1>3
<1>5. FlattenSeq(seqs) = (CHOOSE f : Flattens(f, seqs, Len(seqs)))[Len(seqs)]
  BY DEF FlattenSeq, Flattens
<1>6. QED
  BY <1>4, <1>5

\* The text holds the piece from behind the place at.
StandsAt(text, at, piece) ==
  /\ at + Len(piece) <= Len(text)
  /\ \A p \in 1..Len(piece) : text[at + p] = piece[p]

\* What stands in the front of a text stands there whatever comes behind.
LEMMA StandsInFront ==
  ASSUME NEW T, NEW u \in Seq(T), NEW v \in Seq(T), NEW at \in Nat, NEW w \in Seq(T),
         StandsAt(u, at, w)
  PROVE  StandsAt(u \o v, at, w)
<1>1. /\ Len(u) \in Nat /\ Len(v) \in Nat /\ Len(w) \in Nat /\ Len(u \o v) = Len(u) + Len(v)
      /\ \A p \in 1..Len(u) : (u \o v)[p] = u[p]
  OBVIOUS
<1>2. at + Len(w) <= Len(u \o v)
  BY <1>1 DEF StandsAt
<1>3. ASSUME NEW p \in 1..Len(w)
      PROVE  (u \o v)[at + p] = w[p]
  <2>1. at + p \in 1..Len(u) /\ u[at + p] = w[p]
    BY <1>1 DEF StandsAt
  <2>2. QED
    BY <1>1, <2>1
<1>4. QED
  BY <1>2, <1>3 DEF StandsAt

\* The second of two texts stands behind the first.
LEMMA StandsBehind ==
  ASSUME NEW T, NEW u \in Seq(T), NEW v \in Seq(T)
  PROVE  StandsAt(u \o v, Len(u), v) /\ StandsAt(u, 0, u)
<1>1. /\ Len(u) \in Nat /\ Len(v) \in Nat /\ Len(u \o v) = Len(u) + Len(v)
      /\ \A p \in 1..Len(v) : (u \o v)[Len(u) + p] = v[p]
  OBVIOUS
<1>2. QED
  BY <1>1 DEF StandsAt

\* start[i] is the place behind which the i-th of the sequences stands in what they make
\* together.
StartsAt(whole, seqs, start) ==
  /\ start \in [1..(Len(seqs) + 1) -> Nat]
  /\ start[1] = 0 /\ start[Len(seqs) + 1] = Len(whole)
  /\ \A i \in 1..Len(seqs) : /\ start[i + 1] = start[i] + Len(seqs[i])
                             /\ StandsAt(whole, start[i], seqs[i])

\* Each of the sequences stands in what they make together, behind the ones before it.
LEMMA Flattened ==
  ASSUME NEW T, NEW seqs \in Seq(Seq(T)), Len(seqs) # 0
  PROVE  /\ FlattenSeq(seqs) \in Seq(T)
         /\ \E start : StartsAt(FlattenSeq(seqs), seqs, start)
<1> DEFINE n == Len(seqs)
<1>1. PICK f : Flattens(f, seqs, n) /\ FlattenSeq(seqs) = f[n]
  BY FlattenExists
<1>2. n \in Nat /\ n >= 1 /\ \A i \in 1..n : seqs[i] \in Seq(T)
  OBVIOUS
<1> HIDE DEF n
<1>3. f[1] = seqs[1] /\ \A i \in 1..n : i # 1 => f[i] = f[i - 1] \o seqs[i]
  <2>1. \A i \in 1..n : f[i] = IF i = 1 THEN seqs[i] ELSE f[i - 1] \o seqs[i]
    BY <1>1 DEF Flattens
  <2>2. 1 \in 1..n
    BY <1>2
  <2>3. f[1] = seqs[1]
    BY <2>1, <2>2
  <2>4. \A i \in 1..n : i # 1 => f[i] = f[i - 1] \o seqs[i]
    BY <2>1
  <2>5. QED
    BY <2>3, <2>4
<1> DEFINE start == [i \in 1..(n + 1) |-> IF i = 1 THEN 0 ELSE Len(f[i - 1])]
           Standing(k) == /\ f[k] \in Seq(T)
                          /\ start[k + 1] = start[k] + Len(seqs[k])
                          /\ \A i \in 1..k : start[i] \in Nat /\ StandsAt(f[k], start[i], seqs[i])
           K == {k \in Nat : k + 1 \in 1..n => Standing(k + 1)}
<1>4. start[1] = 0 /\ \A i \in 1..n : start[i + 1] = Len(f[i])
  <2>1. 1 \in 1..(n + 1)
    BY <1>2
  <2>2. \A i \in 1..n : i + 1 \in 1..(n + 1) /\ i + 1 # 1 /\ i + 1 - 1 = i
    BY <1>2
  <2>3. QED
    BY <2>1, <2>2
<1>5. DOMAIN start = 1..(n + 1)
  OBVIOUS
<1> HIDE DEF start
<1>6. 0 \in K
  <2>1. 1 \in 1..n
    BY <1>2
  <2>2. f[1] \in Seq(T) /\ Len(f[1]) \in Nat /\ start[1 + 1] = Len(f[1])
    BY <1>2, <1>3, <1>4, <2>1
  <2>3. StandsAt(f[1], 0, seqs[1])
    BY <1>2, <1>3, <2>1, StandsBehind
  <2>4. \A i \in 1..1 : start[i] \in Nat /\ StandsAt(f[1], start[i], seqs[i])
    BY <1>4, <2>3
  <2>5. Standing(1)
    BY <1>3, <1>4, <2>2, <2>4
  <2> HIDE DEF Standing
  <2>6. QED
    BY <2>5
<1>7. ASSUME NEW k \in Nat, k \in K, k + 2 \in 1..n
      PROVE  Standing(k + 2)
  <2>1. k + 1 \in 1..n /\ k + 2 # 1 /\ k + 2 - 1 = k + 1
    BY <1>2, <1>7
  <2>2. Standing(k + 1)
    BY <1>7, <2>1
  <2>3. f[k + 2] = f[k + 1] \o seqs[k + 2] /\ seqs[k + 2] \in Seq(T) /\ f[k + 1] \in Seq(T)
    <3> DEFINE m == k + 2
    <3>1. m \in 1..n /\ m # 1 /\ m - 1 = k + 1
      BY <1>7, <2>1
    <3> HIDE DEF m
    <3>2. f[m] = f[m - 1] \o seqs[m]
      BY <1>3, <3>1
    <3>3. f[k + 2] = f[k + 1] \o seqs[k + 2]
      BY <3>1, <3>2 DEF m
    <3>4. QED
      BY <1>2, <1>7, <2>2, <3>3
  <2>4. f[k + 2] \in Seq(T) /\ Len(f[k + 2]) = Len(f[k + 1]) + Len(seqs[k + 2])
        /\ Len(f[k + 1]) \in Nat
    BY <2>3
  <2>5. start[k + 2] = Len(f[k + 1]) /\ start[k + 2 + 1] = Len(f[k + 2])
    <3>1. k + 1 + 1 = k + 2
      OBVIOUS
    <3>2. start[k + 1 + 1] = Len(f[k + 1])
      BY <1>4, <2>1
    <3>3. QED
      BY <1>4, <1>7, <3>1, <3>2
  <2>6. \A i \in 1..(k + 1) : start[i] \in Nat /\ StandsAt(f[k + 2], start[i], seqs[i])
    <3>1. ASSUME NEW i \in 1..(k + 1)
          PROVE  start[i] \in Nat /\ StandsAt(f[k + 2], start[i], seqs[i])
      <4>1. i \in 1..n
        BY <1>2, <2>1
      <4>2. start[i] \in Nat /\ StandsAt(f[k + 1], start[i], seqs[i])
        BY <2>2
      <4>3. QED
        BY <1>2, <2>3, <4>1, <4>2, StandsInFront
    <3>2. QED
      BY <3>1
  <2>7. StandsAt(f[k + 2], start[k + 2], seqs[k + 2]) /\ start[k + 2] \in Nat
    BY <2>3, <2>4, <2>5, StandsBehind
  <2>8. \A i \in 1..(k + 2) : i = k + 2 \/ i \in 1..(k + 1)
    OBVIOUS
  <2>9. \A i \in 1..(k + 2) : start[i] \in Nat /\ StandsAt(f[k + 2], start[i], seqs[i])
    BY <2>6, <2>7, <2>8
  <2>10. QED
    BY <2>4, <2>5, <2>9
<1>8. Nat \subseteq K
  <2>1. ASSUME NEW k \in Nat, k \in K
        PROVE  k + 1 \in K
    <3>1. k + 1 + 1 = k + 2 /\ k + 1 \in Nat
      OBVIOUS
    <3> HIDE DEF Standing
    <3>2. k + 2 \in 1..n => Standing(k + 2)
      BY <1>7, <2>1
    <3>3. QED
      BY <3>1, <3>2
  <2> HIDE DEF K
  <2>2. QED
    BY <1>6, <2>1, Induction
<1>9. \A k \in 1..n : Standing(k)
  <2> HIDE DEF Standing
  <2>1. ASSUME NEW k \in 1..n
        PROVE  Standing(k)
    <3>1. k - 1 \in Nat /\ k - 1 + 1 = k
      BY <1>2
    <3>2. QED
      BY <1>8, <3>1
  <2>2. QED
    BY <2>1
<1>10. n \in 1..n
  BY <1>2
<1>11. /\ f[n] \in Seq(T) /\ start[n + 1] = Len(f[n]) /\ Len(f[n]) \in Nat
       /\ \A i \in 1..n : start[i] \in Nat /\ StandsAt(f[n], start[i], seqs[i])
  BY <1>4, <1>9, <1>10
<1>12. \A i \in 1..n : start[i + 1] = start[i] + Len(seqs[i])
  BY <1>9
<1>13. start \in [1..(n + 1) -> Nat]
  <2>1. \A i \in 1..(n + 1) : i \in 1..n \/ i = n + 1
    BY <1>2
  <2>2. \A i \in 1..(n + 1) : start[i] \in Nat
    BY <1>11, <2>1
  <2>3. start = [i \in 1..(n + 1) |-> start[i]]
    BY DEF start
  <2>4. QED
    BY <2>2, <2>3
<1>14. StartsAt(f[n], seqs, start)
  BY <1>4, <1>11, <1>12, <1>13 DEF StartsAt, n
<1>15. QED
  BY <1>1, <1>11, <1>14

\* Where two texts stand together, each stands by itself.
LEMMA StandsInParts ==
  ASSUME NEW T, NEW u \in Seq(T), NEW v \in Seq(T), NEW at \in Nat, NEW text,
         Len(text) \in Nat, StandsAt(text, at, u \o v)
  PROVE  StandsAt(text, at, u) /\ StandsAt(text, at + Len(u), v)
<1>1. /\ Len(u) \in Nat /\ Len(v) \in Nat /\ Len(u \o v) = Len(u) + Len(v)
      /\ \A p \in 1..Len(u) : (u \o v)[p] = u[p]
      /\ \A p \in 1..Len(v) : (u \o v)[Len(u) + p] = v[p]
  OBVIOUS
<1> DEFINE w == u \o v
<1>2. at + Len(w) <= Len(text) /\ \A p \in 1..Len(w) : text[at + p] = w[p]
  BY DEF StandsAt
<1> HIDE DEF w
<1>3. Len(w) = Len(u) + Len(v) /\ (\A p \in 1..Len(u) : w[p] = u[p])
      /\ \A p \in 1..Len(v) : w[Len(u) + p] = v[p]
  BY <1>1 DEF w
<1>4. \A p \in 1..Len(u) : text[at + p] = u[p]
  <2>1. \A p \in 1..Len(u) : p \in 1..Len(w)
    BY <1>1, <1>3
  <2>2. QED
    BY <1>2, <1>3, <2>1
<1>5. \A p \in 1..Len(v) : text[at + Len(u) + p] = v[p]
  <2>1. ASSUME NEW p \in 1..Len(v)
        PROVE  text[at + Len(u) + p] = v[p]
    <3>1. Len(u) + p \in 1..Len(w) /\ at + Len(u) + p = at + (Len(u) + p)
      BY <1>1, <1>3
    <3>2. text[at + (Len(u) + p)] = w[Len(u) + p]
      BY <1>2, <3>1
    <3>3. QED
      BY <1>3, <3>1, <3>2
  <2>2. QED
    BY <2>1
<1>6. at + Len(u) <= Len(text) /\ at + Len(u) + Len(v) <= Len(text)
  BY <1>1, <1>2, <1>3
<1>7. QED
  BY <1>4, <1>5, <1>6 DEF StandsAt

\* The same for a text of one character.
LEMMA StandsAlone ==
  ASSUME NEW c, NEW at \in Nat, NEW text
  PROVE  /\ Len(<<c>>) = 1
         /\ StandsAt(text, at, <<c>>) => at + 1 <= Len(text) /\ text[at + 1] = c
<1>1. Len(<<c>>) = 1 /\ <<c>>[1] = c
  OBVIOUS
<1>2. QED
  BY <1>1 DEF StandsAt

\* Behind start[i] stands the i-th of the texts, and between two of them the separator.
Separates(whole, texts, separator, start) ==
  /\ start \in [1..Len(texts) -> Nat]
  /\ start[1] = 0
  /\ start[Len(texts)] + Len(texts[Len(texts)]) = Len(whole)
  /\ \A i \in 1..Len(texts) : StandsAt(whole, start[i], texts[i])
  /\ \A i \in 1..(Len(texts) - 1) :
       /\ start[i + 1] = start[i] + Len(texts[i]) + 1
       /\ whole[start[i] + Len(texts[i]) + 1] = separator

\* Joined texts stand in the whole in turn, with the separator between.
LEMMA JoinedIs ==
  ASSUME NEW T, NEW texts \in Seq(Seq(T)), NEW separator \in T, Len(texts) # 0
  PROVE  /\ Joined(texts, separator) \in Seq(T)
         /\ \E start : Separates(Joined(texts, separator), texts, separator, start)
<1> DEFINE n == Len(texts)
           whole == Joined(texts, separator)
           piece(i) == IF i = 1 THEN texts[i] ELSE <<separator>> \o texts[i]
           pieces == [i \in 1..n |-> piece(i)]
<1>1. n \in Nat /\ n >= 1 /\ DOMAIN texts = 1..n /\ \A i \in 1..n : texts[i] \in Seq(T)
  OBVIOUS
<1>2. whole = FlattenSeq(pieces)
  BY <1>1 DEF Joined
<1>3. ASSUME NEW i \in 1..n, i # 1
      PROVE  /\ piece(i) = <<separator>> \o texts[i] /\ piece(i) \in Seq(T)
             /\ Len(piece(i)) = Len(texts[i]) + 1
  <2>1. <<separator>> \in Seq(T) /\ texts[i] \in Seq(T) /\ Len(<<separator>>) = 1
    BY <1>1
  <2>2. <<separator>> \o texts[i] \in Seq(T)
        /\ Len(<<separator>> \o texts[i]) = Len(texts[i]) + 1
    BY <2>1
  <2>3. QED
    BY <1>3, <2>2
<1> HIDE DEF n
<1>4. piece(1) = texts[1]
  OBVIOUS
<1> HIDE DEF piece
<1>5. pieces \in Seq(Seq(T)) /\ Len(pieces) = n /\ \A i \in 1..n : pieces[i] = piece(i)
  <2>1. \A i \in 1..n : piece(i) \in Seq(T)
    BY <1>1, <1>3, <1>4
  <2>2. QED
    BY <1>1, <2>1
<1> HIDE DEF pieces, whole
<1>6. PICK at : StartsAt(whole, pieces, at)
  BY <1>1, <1>2, <1>5, Flattened
<1>7. whole \in Seq(T) /\ Len(whole) \in Nat
  BY <1>1, <1>2, <1>5, Flattened
<1> DEFINE start == [i \in 1..n |-> IF i = 1 THEN 0 ELSE at[i] + 1]
<1>8. /\ at[1] = 0 /\ at[n + 1] = Len(whole)
      /\ \A i \in 1..(n + 1) : at[i] \in Nat
      /\ \A i \in 1..n : at[i + 1] = at[i] + Len(piece(i)) /\ StandsAt(whole, at[i], piece(i))
  BY <1>5, <1>6 DEF StartsAt
<1>9. ASSUME NEW i \in 1..n
      PROVE  /\ start[i] \in Nat
             /\ StandsAt(whole, start[i], texts[i])
             /\ at[i + 1] = start[i] + Len(texts[i])
             /\ i # 1 => whole[at[i] + 1] = separator
  <2>1. CASE i = 1
    <3>1. start[i] = 0 /\ piece(i) = texts[i] /\ at[i] = 0
      BY <1>4, <1>8, <2>1
    <3> HIDE DEF start
    <3>2. QED
      BY <1>8, <2>1, <3>1
  <2>2. CASE i # 1
    <3>1. start[i] = at[i] + 1 /\ at[i] \in Nat
      BY <1>1, <1>8, <2>2
    <3> HIDE DEF start
    <3>2. piece(i) = <<separator>> \o texts[i] /\ Len(piece(i)) = Len(texts[i]) + 1
      BY <1>3, <2>2
    <3>3. <<separator>> \in Seq(T) /\ texts[i] \in Seq(T) /\ Len(<<separator>>) = 1
      BY <1>1
    <3>4. StandsAt(whole, at[i], <<separator>> \o texts[i])
      BY <1>8, <3>2
    <3>5. StandsAt(whole, at[i], <<separator>>) /\ StandsAt(whole, at[i] + 1, texts[i])
      BY <1>7, <3>1, <3>3, <3>4, StandsInParts
    <3>6. whole[at[i] + 1] = separator
      BY <3>1, <3>5, StandsAlone
    <3>7. Len(texts[i]) \in Nat
      BY <3>3
    <3>8. at[i + 1] = start[i] + Len(texts[i])
      <4>1. at[i + 1] = at[i] + Len(piece(i))
        BY <1>8
      <4>2. Len(piece(i)) = Len(texts[i]) + 1
        BY <3>2
      <4> DEFINE a == at[i]
                 l == Len(texts[i])
                 b == at[i + 1]
                 s == start[i]
      <4>3. a \in Nat /\ l \in Nat /\ b = a + (l + 1) /\ s = a + 1
        BY <3>1, <3>7, <4>1, <4>2
      <4> HIDE DEF a, l, b, s
      <4>4. b = s + l
        BY <4>3
      <4>5. QED
        BY <4>4 DEF a, l, b, s
    <3>9. QED
      BY <3>1, <3>5, <3>6, <3>8
  <2>3. QED
    BY <2>1, <2>2
<1>10. ASSUME NEW i \in 1..(n - 1)
       PROVE  /\ start[i + 1] = start[i] + Len(texts[i]) + 1
              /\ whole[start[i] + Len(texts[i]) + 1] = separator
  <2>1. i \in 1..n /\ i + 1 \in 1..n /\ i + 1 # 1
    BY <1>1
  <2>2. start[i + 1] = at[i + 1] + 1
    BY <2>1
  <2> HIDE DEF start
  <2>3. at[i + 1] = start[i] + Len(texts[i]) /\ whole[at[i + 1] + 1] = separator
    BY <1>9, <2>1
  <2>4. QED
    BY <2>2, <2>3
<1>11. start[1] = 0
  BY <1>1
<1>12. start \in [1..n -> Nat]
  <2>1. \A i \in 1..n : start[i] \in Nat
    BY <1>9
  <2>2. start = [i \in 1..n |-> start[i]]
    OBVIOUS
  <2> HIDE DEF start
  <2>3. QED
    BY <2>1, <2>2
<1> HIDE DEF start
<1>13. start[n] + Len(texts[n]) = Len(whole)
  BY <1>1, <1>8, <1>9
<1>14. Separates(whole, texts, separator, start)
  BY <1>9, <1>10, <1>11, <1>12, <1>13 DEF Separates, n
<1>15. QED
  BY <1>7, <1>14 DEF whole

(***************************************************************************)
(* Reading a line.                                                         *)
(***************************************************************************)
\* The state of the loop of parseCsvLine, outside quotes and inside.
Outside(cells, cell) == [cells |-> cells, cell |-> cell, quoted |-> FALSE, skip |-> FALSE]
Inside(cells, cell) == [cells |-> cells, cell |-> cell, quoted |-> TRUE, skip |-> FALSE]

\* after[i] is the state after the i-th character, for the first k of them.
Reads(after, line, k) ==
  after = [i \in 0..k |-> IF i = 0 THEN Outside(<<>>, <<>>)
                          ELSE ReadChar(line, i, after[i - 1])]

\* What the loop holds after a character follows from what it held before.
LEMMA ReadsOn ==
  ASSUME NEW after, NEW line, NEW k \in Nat, Reads(after, line, k)
  PROVE  /\ after[0] = Outside(<<>>, <<>>)
         /\ \A i \in 1..k : after[i] = ReadChar(line, i, after[i - 1])
<1>1. \A i \in 0..k : after[i] = IF i = 0 THEN Outside(<<>>, <<>>)
                                 ELSE ReadChar(line, i, after[i - 1])
  BY DEF Reads
<1>2. 0 \in 0..k /\ \A i \in 1..k : i \in 0..k /\ i # 0
  OBVIOUS
<1>3. QED
  BY <1>1, <1>2

\* The loop of parseCsvLine has a run over every line, and its end is what is returned.
LEMMA ReadsExist ==
  ASSUME NEW line, Len(line) \in Nat
  PROVE  \E after : /\ Reads(after, line, Len(line))
                    /\ LET end == after[Len(line)]
                       IN  ParseCsvLine(line) = Append(end.cells, Trim(end.cell))
<1> DEFINE K == {k \in Nat : \E after : Reads(after, line, k)}
<1>1. 0 \in K
  <2>1. Reads([i \in 0..0 |-> Outside(<<>>, <<>>)], line, 0)
    BY DEF Reads
  <2>2. QED
    BY <2>1
<1>2. ASSUME NEW k \in Nat, k \in K
      PROVE  k + 1 \in K
  <2>1. PICK f : Reads(f, line, k)
    BY <1>2
  <2> DEFINE g == [i \in 0..(k + 1) |-> IF i = 0 THEN Outside(<<>>, <<>>)
                                        ELSE ReadChar(line, i, f[i - 1])]
  <2>2. \A i \in 0..k : g[i] = f[i]
    <3>1. \A i \in 0..k : f[i] = IF i = 0 THEN Outside(<<>>, <<>>)
                                 ELSE ReadChar(line, i, f[i - 1])
      BY <2>1 DEF Reads
    <3>2. \A i \in 0..(k + 1) : g[i] = IF i = 0 THEN Outside(<<>>, <<>>)
                                       ELSE ReadChar(line, i, f[i - 1])
      OBVIOUS
    <3>3. \A i \in 0..k : i \in 0..(k + 1)
      OBVIOUS
    <3> HIDE DEF g
    <3>4. QED
      BY <3>1, <3>2, <3>3
  <2>3. \A i \in 0..(k + 1) : i # 0 => i - 1 \in 0..k
    OBVIOUS
  <2>4. g = [i \in 0..(k + 1) |-> IF i = 0 THEN Outside(<<>>, <<>>)
                                  ELSE ReadChar(line, i, g[i - 1])]
    BY <2>2, <2>3
  <2> HIDE DEF g
  <2>5. Reads(g, line, k + 1)
    BY <2>4 DEF Reads
  <2>6. QED
    BY <2>5
<1>3. Len(line) \in K
  <2> HIDE DEF K
  <2>1. QED
    BY <1>1, <1>2, Induction
<1> DEFINE after == CHOOSE f : Reads(f, line, Len(line))
<1>4. Reads(after, line, Len(line))
  BY <1>3
<1>5. LET end == after[Len(line)]
      IN  ParseCsvLine(line) = Append(end.cells, Trim(end.cell))
  BY DEF ParseCsvLine, Reads, Outside
<1> HIDE DEF after
<1>6. QED
  BY <1>4, <1>5

\* Two quotes inside quotes are one of the text.
LEMMA TwoQuotesRead ==
  ASSUME NEW line, NEW i \in Nat, NEW cells, NEW cell,
         line[i] = Quote, i < Len(line), line[i + 1] = Quote
  PROVE  ReadChar(line, i + 1, ReadChar(line, i, Inside(cells, cell)))
           = Inside(cells, Append(cell, Quote))
<1> DEFINE s == [cells |-> cells, cell |-> Append(cell, Quote), quoted |-> TRUE, skip |-> TRUE]
<1>1. ReadChar(line, i, Inside(cells, cell)) = s
  BY DEF ReadChar, Inside, Outside
<1>2. ReadChar(line, i + 1, s) = Inside(cells, Append(cell, Quote))
  BY DEF ReadChar, Inside, Outside
<1> HIDE DEF s
<1>3. QED
  BY <1>1, <1>2

\* A text is read from its front by appending one character after the other.
LEMMA PrefixGrows ==
  ASSUME NEW T, NEW c \in Seq(T)
  PROVE  /\ SubSeq(c, 1, 0) = <<>> /\ SubSeq(c, 1, Len(c)) = c
         /\ \A k \in Nat : k < Len(c) => Append(SubSeq(c, 1, k), c[k + 1]) = SubSeq(c, 1, k + 1)
<1>1. SubSeq(c, 1, 0) = <<>> /\ SubSeq(c, 1, Len(c)) = c
  OBVIOUS
<1>2. ASSUME NEW k \in Nat, k < Len(c)
      PROVE  Append(SubSeq(c, 1, k), c[k + 1]) = SubSeq(c, 1, k + 1)
  <2> DEFINE u == SubSeq(c, 1, k)
             v == SubSeq(c, 1, k + 1)
             w == Append(u, c[k + 1])
  <2>1. /\ u \in Seq(T) /\ Len(u) = k /\ v \in Seq(T) /\ Len(v) = k + 1 /\ c[k + 1] \in T
        /\ (\A i \in 1..k : u[i] = c[i]) /\ (\A i \in 1..(k + 1) : v[i] = c[i])
    BY <1>2
  <2> HIDE DEF u, v
  <2>2. w \in Seq(T) /\ Len(w) = k + 1 /\ w[k + 1] = c[k + 1] /\ \A i \in 1..k : w[i] = u[i]
    BY <2>1
  <2> HIDE DEF w
  <2>3. \A i \in 1..(k + 1) : i = k + 1 \/ i \in 1..k
    OBVIOUS
  <2>4. \A i \in 1..(k + 1) : w[i] = v[i]
    BY <2>1, <2>2, <2>3
  <2>5. w = v
    BY <2>1, <2>2, <2>4
  <2>6. QED
    BY <2>5 DEF u, v, w
<1>3. QED
  BY <1>1, <1>2

\* What stands in a text that stands in another stands in that one.
LEMMA StandsWithin ==
  ASSUME NEW text, Len(text) \in Nat, NEW whole, Len(whole) \in Nat, NEW piece,
         Len(piece) \in Nat, NEW at \in Nat, NEW start \in Nat,
         StandsAt(text, at, whole), StandsAt(whole, start, piece)
  PROVE  StandsAt(text, at + start, piece)
<1>1. /\ at + Len(whole) <= Len(text) /\ start + Len(piece) <= Len(whole)
      /\ (\A p \in 1..Len(whole) : text[at + p] = whole[p])
      /\ \A p \in 1..Len(piece) : whole[start + p] = piece[p]
  BY DEF StandsAt
<1>2. ASSUME NEW p \in 1..Len(piece)
      PROVE  text[at + start + p] = piece[p]
  <2>1. start + p \in 1..Len(whole) /\ at + start + p = at + (start + p)
    BY <1>1
  <2>2. text[at + (start + p)] = whole[start + p]
    BY <1>1, <2>1
  <2>3. QED
    BY <1>1, <2>1, <2>2
<1>3. at + start + Len(piece) <= Len(text)
  BY <1>1
<1>4. QED
  BY <1>2, <1>3 DEF StandsAt

\* A cell without quotes and commas is read as it is.
LEMMA PlainRead ==
  ASSUME NEW c \in Seq(Words), NEW line, Len(line) \in Nat, NEW after,
         Reads(after, line, Len(line)), NEW o \in Nat, NEW cells, StandsAt(line, o, c),
         after[o] = Outside(cells, <<>>), \A i \in DOMAIN c : c[i] \notin {Quote, Comma}
  PROVE  after[o + Len(c)] = Outside(cells, c)
<1> DEFINE n == Len(c)
           Known(k) == k <= n => after[o + k] = Outside(cells, SubSeq(c, 1, k))
           K == {k \in Nat : Known(k)}
<1>1. n \in Nat /\ DOMAIN c = 1..n
  OBVIOUS
<1>2. 0 \in K
  <2>1. o + 0 = o /\ SubSeq(c, 1, 0) = <<>>
    BY PrefixGrows
  <2>2. QED
    BY <2>1
<1> HIDE DEF n
<1>3. ASSUME NEW k \in Nat, Known(k)
      PROVE  Known(k + 1)
  <2>1. SUFFICES ASSUME k + 1 <= n
                 PROVE  after[o + (k + 1)] = Outside(cells, SubSeq(c, 1, k + 1))
    OBVIOUS
  <2> DEFINE m == o + (k + 1)
             sofar == SubSeq(c, 1, k)
  <2>2. k + 1 \in 1..n /\ k < n /\ k <= n
    BY <1>1, <2>1
  <2>3. m <= Len(line) /\ line[m] = c[k + 1]
    BY <2>2 DEF StandsAt, n
  <2>4. m \in 1..Len(line) /\ m - 1 = o + k
    BY <2>3
  <2> HIDE DEF m
  <2>5. after[m] = ReadChar(line, m, after[m - 1])
    BY <2>4, ReadsOn
  <2>6. after[m - 1] = Outside(cells, sofar)
    BY <1>3, <2>2, <2>4
  <2>7. line[m] \notin {Quote, Comma}
    BY <1>1, <2>2, <2>3
  <2>8. Append(sofar, c[k + 1]) = SubSeq(c, 1, k + 1)
    BY <2>2, PrefixGrows DEF n
  <2> HIDE DEF sofar
  <2>9. ReadChar(line, m, Outside(cells, sofar)) = Outside(cells, Append(sofar, line[m]))
    BY <2>7 DEF ReadChar, Inside, Outside
  <2>10. after[m] = Outside(cells, SubSeq(c, 1, k + 1))
    BY <2>3, <2>5, <2>6, <2>8, <2>9
  <2>11. QED
    BY <2>10 DEF m
<1>4. n \in K
  <2> HIDE DEF Known
  <2>1. \A k \in Nat : k \in K => k + 1 \in K
    BY <1>3
  <2> HIDE DEF K
  <2>2. QED
    BY <1>1, <1>2, <2>1, Induction
<1>5. after[o + n] = Outside(cells, SubSeq(c, 1, n))
  <2>1. n <= n
    BY <1>1
  <2>2. Known(n)
    BY <1>4
  <2>3. QED
    BY <2>1, <2>2
<1>6. SubSeq(c, 1, n) = c
  BY PrefixGrows DEF n
<1>7. QED
  BY <1>5, <1>6 DEF n

Twice(c) == IF c = Quote THEN <<Quote, Quote>> ELSE <<c>>

Doubles(c) == [i \in DOMAIN c |-> Twice(c[i])]

\* Where each character of a cell stands once its quotes are doubled.
LEMMA Doubled ==
  ASSUME NEW c \in Seq(Words), c # <<>>
  PROVE  /\ Doubles(c) \in Seq(Seq(Words \cup {Quote})) /\ Len(Doubles(c)) = Len(c)
         /\ FlattenSeq(Doubles(c)) \in Seq(Words \cup {Quote})
         /\ \E start : StartsAt(FlattenSeq(Doubles(c)), Doubles(c), start)
<1> DEFINE n == Len(c)
           T == Words \cup {Quote}
           seqs == [i \in 1..n |-> Twice(c[i])]
<1>1. n \in Nat /\ n >= 1 /\ DOMAIN c = 1..n /\ \A i \in 1..n : c[i] \in Words
  OBVIOUS
<1>2. \A i \in 1..n : Twice(c[i]) \in Seq(T)
  <2>1. Quote \in T /\ Words \subseteq T
    OBVIOUS
  <2> HIDE DEF T, n
  <2>2. \A x \in T : Twice(x) \in Seq(T)
    BY <2>1 DEF Twice
  <2>3. QED
    BY <1>1, <2>1, <2>2
<1> HIDE DEF T
<1>3. seqs \in Seq(Seq(T)) /\ Len(seqs) = n
  BY <1>1, <1>2
<1>4. Doubles(c) = seqs
  BY <1>1 DEF Doubles
<1> HIDE DEF seqs
<1>5. Len(seqs) # 0
  BY <1>1, <1>3
<1>6. FlattenSeq(seqs) \in Seq(T) /\ \E start : StartsAt(FlattenSeq(seqs), seqs, start)
  BY <1>3, <1>5, Flattened
<1>7. QED
  BY <1>3, <1>4, <1>6 DEF T

\* Inside quotes a cell with its quotes doubled is read as the cell.
LEMMA QuotedRead ==
  ASSUME NEW c \in Seq(Words), c # <<>>, NEW whole, whole = FlattenSeq(Doubles(c)),
         NEW line, Len(line) \in Nat, NEW after, Reads(after, line, Len(line)), NEW o \in Nat,
         NEW cells, StandsAt(line, o, whole), after[o] = Inside(cells, <<>>)
  PROVE  after[o + Len(whole)] = Inside(cells, c)
<1> DEFINE n == Len(c)
           T == Words \cup {Quote}
           seqs == Doubles(c)
<1>1. n \in Nat /\ n >= 1 /\ DOMAIN c = 1..n
  OBVIOUS
<1>2. /\ seqs \in Seq(Seq(T)) /\ Len(seqs) = n /\ whole \in Seq(T)
      /\ \E start : StartsAt(whole, seqs, start)
  BY Doubled
<1>3. \A i \in 1..n : seqs[i] = Twice(c[i]) /\ seqs[i] \in Seq(T)
  <2>1. \A i \in 1..n : seqs[i] = Twice(c[i])
    BY <1>1 DEF Doubles
  <2> HIDE DEF T, seqs, n
  <2>2. \A i \in 1..n : seqs[i] \in Seq(T)
    BY <1>2
  <2>3. QED
    BY <2>1, <2>2
<1> HIDE DEF n, seqs, T
<1>4. \A i \in 1..n : Twice(c[i]) \in Seq(T)
  BY <1>3
<1>5. \A i \in 1..Len(line) : after[i] = ReadChar(line, i, after[i - 1])
  BY ReadsOn
<1>6. PICK start : StartsAt(whole, seqs, start)
  BY <1>2
<1>7. /\ start[1] = 0 /\ start[n + 1] = Len(whole) /\ Len(whole) \in Nat
      /\ \A i \in 1..(n + 1) : start[i] \in Nat
      /\ \A i \in 1..n : /\ start[i + 1] = start[i] + Len(Twice(c[i]))
                         /\ StandsAt(whole, start[i], Twice(c[i]))
  <2>1. /\ start \in [1..(n + 1) -> Nat] /\ start[1] = 0 /\ start[n + 1] = Len(whole)
        /\ \A i \in 1..n : /\ start[i + 1] = start[i] + Len(seqs[i])
                           /\ StandsAt(whole, start[i], seqs[i])
    BY <1>2, <1>6 DEF StartsAt
  <2>2. n + 1 \in 1..(n + 1)
    BY <1>1
  <2>3. QED
    BY <1>2, <1>3, <2>1, <2>2
<1> DEFINE Known(k) == k <= n => after[o + start[k + 1]] = Inside(cells, SubSeq(c, 1, k))
           K == {k \in Nat : Known(k)}
<1>8. 0 \in K
  <2>1. start[0 + 1] = 0 /\ o + 0 = o /\ SubSeq(c, 1, 0) = <<>>
    BY <1>7, PrefixGrows
  <2>2. QED
    BY <2>1
<1>9. ASSUME NEW k \in Nat, Known(k)
      PROVE  Known(k + 1)
  <2>1. SUFFICES ASSUME k + 1 <= n
                 PROVE  after[o + start[k + 1 + 1]] = Inside(cells, SubSeq(c, 1, k + 1))
    OBVIOUS
  <2> DEFINE i == k + 1
             m == o + start[i]
             sofar == SubSeq(c, 1, k)
  <2>2. i \in 1..n /\ k < n /\ k <= n /\ i \in 1..(n + 1) /\ i + 1 \in 1..(n + 1)
    BY <1>1, <2>1
  <2>3. Append(sofar, c[i]) = SubSeq(c, 1, k + 1)
    BY <2>2, PrefixGrows DEF n
  <2>4. after[o + start[i]] = Inside(cells, sofar)
    BY <1>9, <2>2
  <2> HIDE DEF i, sofar
  <2>5. start[i] \in Nat /\ start[i + 1] \in Nat /\ start[i + 1] = start[i] + Len(Twice(c[i]))
    BY <1>7, <2>2
  <2>6. Len(Twice(c[i])) \in Nat
    BY <1>4, <2>2
  <2>7. StandsAt(line, m, Twice(c[i]))
    BY <1>7, <2>2, <2>5, <2>6, StandsWithin
  <2>8. m \in Nat /\ after[m] = Inside(cells, sofar)
    BY <2>4, <2>5
  <2>9. after[m + Len(Twice(c[i]))] = Inside(cells, Append(sofar, c[i]))
    <3> HIDE DEF m
    <3>1. CASE c[i] = Quote
      <4>1. Twice(c[i]) = <<Quote, Quote>> /\ Len(<<Quote, Quote>>) = 2
        BY <3>1 DEF Twice
      <4> DEFINE p == m + 1
                 q == m + 2
      <4>2. /\ q <= Len(line) /\ line[p] = Quote /\ line[q] = Quote
            /\ q = m + Len(Twice(c[i]))
        <5>1. StandsAt(line, m, <<Quote, Quote>>)
          BY <2>7, <4>1
        <5>2. /\ 1 \in 1..2 /\ 2 \in 1..2
              /\ <<Quote, Quote>>[1] = Quote /\ <<Quote, Quote>>[2] = Quote
          OBVIOUS
        <5>3. m + 2 <= Len(line) /\ line[m + 1] = Quote /\ line[m + 2] = Quote
          BY <4>1, <5>1, <5>2 DEF StandsAt
        <5>4. QED
          BY <4>1, <5>3
      <4>3. /\ p \in 1..Len(line) /\ p - 1 = m /\ p < Len(line)
            /\ q \in 1..Len(line) /\ q - 1 = p /\ p + 1 = q
        BY <2>8, <4>2
      <4> HIDE DEF p, q
      <4>4. after[p] = ReadChar(line, p, after[m]) /\ after[q] = ReadChar(line, q, after[p])
        BY <1>5, <4>3
      <4>5. ReadChar(line, p + 1, ReadChar(line, p, Inside(cells, sofar)))
              = Inside(cells, Append(sofar, Quote))
        <5>1. p \in Nat /\ p < Len(line) /\ line[p] = Quote /\ line[p + 1] = Quote
          BY <4>2, <4>3
        <5>2. QED
          BY <5>1, TwoQuotesRead
      <4>6. QED
        BY <2>8, <3>1, <4>2, <4>3, <4>4, <4>5
    <3>2. CASE c[i] # Quote
      <4>1. Twice(c[i]) = <<c[i]>> /\ Len(<<c[i]>>) = 1
        BY <3>2 DEF Twice
      <4> DEFINE p == m + 1
      <4>2. p <= Len(line) /\ line[p] = c[i] /\ p = m + Len(Twice(c[i]))
        BY <2>7, <4>1 DEF StandsAt
      <4>3. p \in 1..Len(line) /\ p - 1 = m
        BY <2>8, <4>2
      <4> HIDE DEF p
      <4>4. after[p] = ReadChar(line, p, after[m])
        BY <1>5, <4>3
      <4>5. ReadChar(line, p, Inside(cells, sofar))
              = Inside(cells, Append(sofar, line[p]))
        BY <3>2, <4>2 DEF ReadChar, Inside, Outside
      <4>6. QED
        BY <2>8, <4>2, <4>4, <4>5
    <3>3. QED
      BY <3>1, <3>2
  <2>10. m + Len(Twice(c[i])) = o + start[i + 1]
    BY <2>5, <2>6
  <2>11. QED
    BY <2>3, <2>9, <2>10 DEF i
<1>10. n \in K
  <2> HIDE DEF Known
  <2>1. \A k \in Nat : k \in K => k + 1 \in K
    BY <1>9
  <2> HIDE DEF K
  <2>2. QED
    BY <1>1, <1>8, <2>1, Induction
<1>11. after[o + start[n + 1]] = Inside(cells, SubSeq(c, 1, n))
  <2>1. n <= n
    BY <1>1
  <2>2. Known(n)
    BY <1>10
  <2>3. QED
    BY <2>1, <2>2
<1>12. SubSeq(c, 1, n) = c
  BY PrefixGrows DEF n
<1>13. QED
  BY <1>7, <1>11, <1>12

\* A cell is written as it is or in quotes, and shows something if it did before.
LEMMA WrittenCellIs ==
  ASSUME NEW c \in Seq(Words)
  PROVE  /\ WrittenCell(c) \in Seq(Words \cup {Quote})
         /\ \/ WrittenCell(c) = c /\ \A i \in DOMAIN c : c[i] \notin {Quote, Comma}
            \/ c # <<>> /\ WrittenCell(c) = (<<Quote>> \o FlattenSeq(Doubles(c))) \o <<Quote>>
         /\ Solid(c) # {} => Solid(WrittenCell(c)) # {}
<1> DEFINE T == Words \cup {Quote}
<1>1. WrittenCell(c) = IF ToSet(c) \cap {Quote, Comma, Newline} = {} THEN c
                       ELSE (<<Quote>> \o FlattenSeq(Doubles(c))) \o <<Quote>>
  BY DEF WrittenCell, Doubles, Twice
<1>2. CASE ToSet(c) \cap {Quote, Comma, Newline} = {}
  <2>1. WrittenCell(c) = c
    BY <1>1, <1>2
  <2>2. \A i \in DOMAIN c : c[i] \in ToSet(c)
    BY DEF ToSet
  <2>3. c \in Seq(T)
    OBVIOUS
  <2>4. QED
    BY <1>2, <2>1, <2>2, <2>3
<1>3. CASE ToSet(c) \cap {Quote, Comma, Newline} # {}
  <2>1. c # <<>>
    BY <1>3 DEF ToSet
  <2> DEFINE D == FlattenSeq(Doubles(c))
             W == (<<Quote>> \o D) \o <<Quote>>
  <2>2. WrittenCell(c) = W
    BY <1>1, <1>3
  <2>3. D \in Seq(T) /\ <<Quote>> \in Seq(T)
    BY <2>1, Doubled
  <2> HIDE DEF D, T
  <2>4. W \in Seq(T) /\ 1 \in DOMAIN W /\ W[1] = Quote
    BY <2>3
  <2>5. Quote \notin {Blank, Newline}
    BY DEF Quote, Blank, Newline
  <2> HIDE DEF W
  <2>6. Solid(W) # {}
    BY <2>4, <2>5 DEF Solid
  <2>7. QED
    BY <2>1, <2>2, <2>4, <2>6 DEF T, D, W
<1>4. QED
  BY <1>2, <1>3

\* A written cell that a comma or the end of the line follows is read as the cell.
LEMMA CellRead ==
  ASSUME NEW c \in Seq(Words), NEW line, Len(line) \in Nat, NEW after,
         Reads(after, line, Len(line)), NEW o \in Nat, NEW cells, StandsAt(line, o, WrittenCell(c)),
         after[o] = Outside(cells, <<>>), NEW e, e = o + Len(WrittenCell(c)),
         e = Len(line) \/ line[e + 1] = Comma
  PROVE  after[e] = Outside(cells, c)
<1>1. CASE WrittenCell(c) = c /\ \A i \in DOMAIN c : c[i] \notin {Quote, Comma}
  <2>1. StandsAt(line, o, c)
    BY <1>1
  <2>2. after[o + Len(c)] = Outside(cells, c)
    BY <1>1, <2>1, PlainRead
  <2>3. QED
    BY <1>1, <2>2
<1>2. CASE c # <<>> /\ WrittenCell(c) = (<<Quote>> \o FlattenSeq(Doubles(c))) \o <<Quote>>
  <2> DEFINE T == Words \cup {Quote}
             D == FlattenSeq(Doubles(c))
             q == o + 1 + Len(D)
  <2>1. D \in Seq(T) /\ <<Quote>> \in Seq(T) /\ Len(<<Quote>>) = 1
    BY <1>2, Doubled
  <2> HIDE DEF T, D
  <2>2. Len(D) \in Nat /\ <<Quote>> \o D \in Seq(T) /\ Len(<<Quote>> \o D) = 1 + Len(D)
        /\ Len((<<Quote>> \o D) \o <<Quote>>) = 2 + Len(D)
    BY <2>1
  <2>3. StandsAt(line, o, (<<Quote>> \o D) \o <<Quote>>)
    BY <1>2 DEF D
  <2>4. StandsAt(line, o, <<Quote>> \o D) /\ StandsAt(line, o + Len(<<Quote>> \o D), <<Quote>>)
    BY <2>1, <2>2, <2>3, StandsInParts
  <2>5. StandsAt(line, o, <<Quote>>) /\ StandsAt(line, o + Len(<<Quote>>), D)
    BY <2>1, <2>2, <2>4, StandsInParts
  <2>6. q \in Nat /\ q = o + Len(<<Quote>> \o D) /\ o + 1 \in Nat /\ o + 1 - 1 = o
        /\ e = q + 1 /\ e - 1 = q /\ e \in Nat
    BY <1>2, <2>2 DEF D
  <2> HIDE DEF q
  <2>7. line[o + 1] = Quote /\ o + 1 <= Len(line) /\ line[e] = Quote /\ e <= Len(line)
    BY <2>4, <2>5, <2>6, StandsAlone
  <2>8. \A i \in 1..Len(line) : after[i] = ReadChar(line, i, after[i - 1])
    BY ReadsOn
  <2>9. after[o + 1] = Inside(cells, <<>>)
    <3> DEFINE p == o + 1
    <3>1. p \in 1..Len(line) /\ p - 1 = o /\ line[p] = Quote
      BY <2>6, <2>7
    <3> HIDE DEF p
    <3>2. after[p] = ReadChar(line, p, after[o])
      BY <2>8, <3>1
    <3>3. ReadChar(line, p, Outside(cells, <<>>)) = Inside(cells, <<>>)
      BY <3>1 DEF ReadChar, Inside, Outside
    <3>4. QED
      BY <3>2, <3>3 DEF p
  <2>10. after[q] = Inside(cells, c)
    <3>1. StandsAt(line, o + 1, D)
      BY <2>1, <2>5
    <3>2. after[o + 1 + Len(D)] = Inside(cells, c)
      BY <1>2, <2>6, <2>9, <3>1, QuotedRead DEF D
    <3>3. QED
      BY <3>2 DEF q
  <2>11. e \in 1..Len(line)
    BY <2>6, <2>7
  <2>12. after[e] = ReadChar(line, e, after[q])
    BY <2>6, <2>8, <2>11
  <2>13. ~(e < Len(line) /\ line[e + 1] = Quote)
    <3>1. Quote # Comma
      BY DEF Quote, Comma
    <3>2. QED
      BY <2>6, <3>1
  <2>14. ReadChar(line, e, Inside(cells, c)) = Outside(cells, c)
    BY <2>7, <2>13 DEF ReadChar, Inside, Outside
  <2>15. QED
    BY <2>10, <2>12, <2>14
<1>3. QED
  BY <1>1, <1>2, WrittenCellIs

CellTexts(row) == [i \in DOMAIN row |-> WrittenCell(row[i])]

\* The cells of a row stand in its line in turn, with commas between.
LEMMA WrittenRowIs ==
  ASSUME NEW row \in Seq(Seq(Words)), row # <<>>
  PROVE  /\ CellTexts(row) \in Seq(Seq(Words \cup {Quote, Comma}))
         /\ Len(CellTexts(row)) = Len(row)
         /\ WrittenRow(row) \in Seq(Words \cup {Quote, Comma})
         /\ \E start : Separates(WrittenRow(row), CellTexts(row), Comma, start)
<1> DEFINE n == Len(row)
           T == Words \cup {Quote, Comma}
           texts == [i \in 1..n |-> WrittenCell(row[i])]
<1>1. n \in Nat /\ n # 0 /\ DOMAIN row = 1..n /\ \A i \in 1..n : row[i] \in Seq(Words)
  OBVIOUS
<1>2. \A c \in Seq(Words) : WrittenCell(c) \in Seq(T)
  <2>1. \A c \in Seq(Words) : WrittenCell(c) \in Seq(Words \cup {Quote})
    BY WrittenCellIs
  <2>2. Words \cup {Quote} \subseteq T
    OBVIOUS
  <2> HIDE DEF T
  <2>3. \A s \in Seq(Words \cup {Quote}) : s \in Seq(T)
    BY <2>2
  <2>4. QED
    BY <2>1, <2>3
<1>3. Comma \in T
  OBVIOUS
<1> HIDE DEF T
<1>4. texts \in Seq(Seq(T)) /\ Len(texts) = n
  BY <1>1, <1>2
<1>5. CellTexts(row) = texts
  BY <1>1 DEF CellTexts
<1>6. WrittenRow(row) = Joined(texts, Comma)
  BY <1>5 DEF WrittenRow, CellTexts
<1> HIDE DEF texts, n
<1>7. /\ Joined(texts, Comma) \in Seq(T)
      /\ \E start : Separates(Joined(texts, Comma), texts, Comma, start)
  <2>1. Len(texts) # 0
    BY <1>1, <1>4
  <2>2. QED
    BY <1>3, <1>4, <2>1, JoinedIs
<1>8. QED
  BY <1>4, <1>5, <1>6, <1>7 DEF T, n

\* What is read of the line of a row are its cells.
LEMMA RowRead ==
  ASSUME NEW row \in Seq(Seq(Words)), row # <<>>
  PROVE  ParseCsvLine(WrittenRow(row)) = [i \in DOMAIN row |-> Trim(row[i])]
<1> DEFINE n == Len(row)
           T == Words \cup {Quote, Comma}
           texts == CellTexts(row)
           line == WrittenRow(row)
           trims == [i \in 1..n |-> Trim(row[i])]
<1>1. n \in Nat /\ n >= 1 /\ DOMAIN row = 1..n /\ \A i \in 1..n : row[i] \in Seq(Words)
  OBVIOUS
<1>2. \A i \in 1..n : texts[i] = WrittenCell(row[i])
  BY <1>1 DEF CellTexts
<1>3. trims \in Seq(Seq(Words)) /\ Len(trims) = n
  <2>1. \A i \in 1..n : Trim(row[i]) \in Seq(Words)
    BY <1>1, Trimmed
  <2>2. QED
    BY <1>1, <2>1
<1>4. \A i \in 1..n : trims[i] = Trim(row[i])
  OBVIOUS
<1>5. trims = [i \in DOMAIN row |-> Trim(row[i])]
  BY <1>1
<1>6. texts \in Seq(Seq(T)) /\ Len(texts) = n /\ line \in Seq(T)
      /\ \E start : Separates(line, texts, Comma, start)
  BY WrittenRowIs
<1> HIDE DEF n, T, texts, line, trims
<1>7. Len(line) \in Nat /\ \A i \in 1..n : Len(texts[i]) \in Nat
  BY <1>6
<1>8. PICK after : /\ Reads(after, line, Len(line))
                   /\ ParseCsvLine(line) = Append(after[Len(line)].cells,
                                                  Trim(after[Len(line)].cell))
  BY <1>7, ReadsExist
<1>9. after[0] = Outside(<<>>, <<>>)
      /\ \A i \in 1..Len(line) : after[i] = ReadChar(line, i, after[i - 1])
  BY <1>7, <1>8, ReadsOn
<1>10. PICK start : Separates(line, texts, Comma, start)
  BY <1>6
<1>11. /\ start[1] = 0
       /\ start[n] + Len(texts[n]) = Len(line)
       /\ \A i \in 1..n : start[i] \in Nat /\ StandsAt(line, start[i], texts[i])
       /\ \A i \in 1..(n - 1) : /\ start[i + 1] = start[i] + Len(texts[i]) + 1
                                /\ line[start[i] + Len(texts[i]) + 1] = Comma
  BY <1>6, <1>10 DEF Separates
<1> DEFINE Known(k) == k + 1 <= n => after[start[k + 1]] = Outside(SubSeq(trims, 1, k), <<>>)
           K == {k \in Nat : Known(k)}
<1>12. 0 \in K
  <2>1. start[0 + 1] = 0 /\ SubSeq(trims, 1, 0) = <<>>
    BY <1>3, <1>11, PrefixGrows
  <2>2. QED
    BY <1>9, <2>1
<1>13. ASSUME NEW k \in Nat, Known(k), k + 1 <= n, NEW e,
              e = start[k + 1] + Len(texts[k + 1]), e = Len(line) \/ line[e + 1] = Comma
       PROVE  e \in Nat /\ after[e] = Outside(SubSeq(trims, 1, k), row[k + 1])
  <2> DEFINE j == k + 1
             o == start[j]
             c == row[j]
             sofar == SubSeq(trims, 1, k)
  <2>1. after[o] = Outside(sofar, <<>>)
    BY <1>13
  <2>2. e = o + Len(texts[j]) /\ j \in 1..n
    BY <1>1, <1>13
  <2> HIDE DEF j, sofar
  <2>3. o \in Nat /\ StandsAt(line, o, WrittenCell(c)) /\ c \in Seq(Words)
        /\ e = o + Len(WrittenCell(c)) /\ Len(texts[j]) \in Nat
    BY <1>1, <1>2, <1>7, <1>11, <2>2
  <2> HIDE DEF o, c
  <2>4. after[e] = Outside(sofar, c)
    <3>1. Len(line) \in Nat /\ Reads(after, line, Len(line))
      BY <1>7, <1>8
    <3>2. e = Len(line) \/ line[e + 1] = Comma
      BY <1>13
    <3>3. QED
      BY <2>1, <2>3, <3>1, <3>2, CellRead
  <2>5. QED
    BY <2>2, <2>3, <2>4 DEF c, j, sofar
<1>14. ASSUME NEW k \in Nat, Known(k)
       PROVE  Known(k + 1)
  <2>1. SUFFICES ASSUME k + 1 + 1 <= n
                 PROVE  after[start[k + 1 + 1]] = Outside(SubSeq(trims, 1, k + 1), <<>>)
    OBVIOUS
  <2> DEFINE j == k + 1
             e == start[j] + Len(texts[j])
             f == e + 1
             sofar == SubSeq(trims, 1, k)
  <2>2. j \in 1..(n - 1) /\ j + 1 \in 1..n /\ j \in 1..n /\ k + 1 <= n
    BY <1>1, <2>1
  <2>3. start[j + 1] = f /\ line[f] = Comma
    BY <1>11, <2>2
  <2>4. e \in Nat /\ after[e] = Outside(sofar, row[j])
    <3> HIDE DEF Known
    <3>1. QED
      BY <1>13, <1>14, <2>2, <2>3
  <2>5. Append(sofar, trims[j]) = SubSeq(trims, 1, j)
    <3>1. k < Len(trims)
      BY <1>3, <2>2
    <3>2. QED
      BY <1>3, <3>1, PrefixGrows
  <2>6. trims[j] = Trim(row[j])
    BY <1>4, <2>2
  <2>7. f \in 1..Len(line)
    <3>1. start[j + 1] + Len(texts[j + 1]) <= Len(line) /\ Len(texts[j + 1]) \in Nat
      BY <1>7, <1>11, <2>2 DEF StandsAt
    <3>2. QED
      BY <1>7, <2>3, <2>4, <3>1
  <2>8. f - 1 = e
    BY <2>4
  <2> HIDE DEF e, f, j, sofar
  <2>9. after[f] = ReadChar(line, f, after[e])
    BY <1>9, <2>7, <2>8
  <2>10. ReadChar(line, f, Outside(sofar, row[j])) = Outside(Append(sofar, Trim(row[j])), <<>>)
    <3>1. Comma # Quote
      BY DEF Quote, Comma
    <3>2. QED
      BY <2>3, <3>1 DEF ReadChar, Inside, Outside
  <2>11. after[start[j + 1]] = Outside(SubSeq(trims, 1, j), <<>>)
    BY <2>3, <2>4, <2>5, <2>6, <2>9, <2>10
  <2>12. QED
    BY <2>11 DEF j
<1>15. n - 1 \in K
  <2> HIDE DEF Known
  <2>1. \A k \in Nat : k \in K => k + 1 \in K
    BY <1>14
  <2>2. n - 1 \in Nat
    BY <1>1
  <2> HIDE DEF K
  <2>3. QED
    BY <1>12, <2>1, <2>2, Induction
<1>16. after[Len(line)] = Outside(SubSeq(trims, 1, n - 1), row[n])
  <2> DEFINE k == n - 1
  <2>1. k \in Nat /\ k + 1 = n /\ k + 1 <= n
    BY <1>1
  <2>2. Known(k)
    BY <1>15
  <2> HIDE DEF k, Known
  <2>3. after[Len(line)] = Outside(SubSeq(trims, 1, k), row[k + 1])
    BY <1>11, <1>13, <2>1, <2>2
  <2>4. QED
    BY <2>1, <2>3 DEF k
<1>17. Append(SubSeq(trims, 1, n - 1), trims[n]) = trims
  <2> DEFINE k == n - 1
  <2>1. k \in Nat /\ k + 1 = n /\ k < Len(trims)
    BY <1>1, <1>3
  <2> HIDE DEF k
  <2>2. Append(SubSeq(trims, 1, k), trims[k + 1]) = SubSeq(trims, 1, k + 1)
        /\ SubSeq(trims, 1, Len(trims)) = trims
    BY <1>3, <2>1, PrefixGrows
  <2>3. QED
    BY <1>3, <2>1, <2>2 DEF k
<1>18. trims[n] = Trim(row[n])
  BY <1>1, <1>4
<1>19. ParseCsvLine(line) = trims
  <2> DEFINE end == after[Len(line)]
             cells == SubSeq(trims, 1, n - 1)
             cell == row[n]
  <2>1. end.cells = cells /\ end.cell = cell
    <3>1. end = Outside(cells, cell)
      BY <1>16
    <3> HIDE DEF end, cells, cell
    <3>2. QED
      BY <3>1 DEF Outside
  <2>2. ParseCsvLine(line) = Append(SubSeq(trims, 1, n - 1), Trim(row[n]))
    BY <1>8, <2>1
  <2>3. QED
    BY <1>17, <1>18, <2>2
<1>20. QED
  BY <1>5, <1>19 DEF line

\* The line of a row that is not empty is not blank.
LEMMA RowShows ==
  ASSUME NEW row \in Seq(Seq(Words)), ~IsEmpty(row)
  PROVE  Trim(WrittenRow(row)) # <<>>
<1> DEFINE T == Words \cup {Quote, Comma}
           texts == CellTexts(row)
           line == WrittenRow(row)
<1>1. PICK i \in DOMAIN row : Trim(row[i]) # <<>>
  BY DEF IsEmpty
<1>2. row # <<>> /\ i \in 1..Len(row) /\ row[i] \in Seq(Words)
  BY <1>1
<1>3. Solid(row[i]) # {}
  BY <1>1, <1>2, Trimmed
<1>4. /\ texts \in Seq(Seq(T)) /\ Len(texts) = Len(row) /\ line \in Seq(T)
      /\ \E start : Separates(line, texts, Comma, start)
  BY <1>2, WrittenRowIs
<1>5. texts[i] = WrittenCell(row[i])
  BY <1>1 DEF CellTexts
<1> DEFINE t == texts[i]
<1>6. Solid(t) # {}
  BY <1>2, <1>3, <1>5, WrittenCellIs
<1> HIDE DEF T, texts, line
<1>7. t \in Seq(T)
  BY <1>2, <1>4
<1>8. PICK start : Separates(line, texts, Comma, start)
  BY <1>4
<1>9. start[i] \in Nat /\ StandsAt(line, start[i], t)
  BY <1>2, <1>4, <1>8 DEF Separates
<1> HIDE DEF t
<1>10. PICK p \in 1..Len(t) : t[p] \notin {Blank, Newline}
  BY <1>6, <1>7 DEF Solid
<1>11. start[i] + p \in 1..Len(line) /\ line[start[i] + p] = t[p]
  <2>1. Len(line) \in Nat /\ Len(t) \in Nat
    BY <1>4, <1>7
  <2>2. start[i] + Len(t) <= Len(line) /\ line[start[i] + p] = t[p]
    BY <1>9 DEF StandsAt
  <2>3. QED
    BY <1>9, <2>1, <2>2
<1>12. Solid(line) # {}
  BY <1>4, <1>10, <1>11 DEF Solid
<1>13. Trim(line) # <<>>
  BY <1>4, <1>12, Trimmed
<1>14. QED
  BY <1>13 DEF line

\* A row without cells, and a table without rows, are written as nothing.
LEMMA EmptyRow ==
  WrittenRow(<<>>) = <<>> /\ Written(<<>>) = <<>>
<1>1. FlattenSeq(<<>>) = <<>>
  BY DEF FlattenSeq
<1>2. \A f : [i \in DOMAIN <<>> |-> f[i]] = <<>>
  OBVIOUS
<1>3. \A s : Joined(<<>>, s) = <<>>
  <2>1. ASSUME NEW s
        PROVE  [i \in DOMAIN <<>> |-> IF i = 1 THEN <<>>[i] ELSE <<s>> \o <<>>[i]] = <<>>
    OBVIOUS
  <2>2. QED
    BY <1>1, <2>1 DEF Joined
<1>4. /\ [i \in DOMAIN <<>> |-> WrittenCell(<<>>[i])] = <<>>
      /\ [n \in DOMAIN <<>> |-> WrittenRow(<<>>[n])] = <<>>
  OBVIOUS
<1>5. QED
  BY <1>3, <1>4 DEF WrittenRow, Written

(***************************************************************************)
(* Splitting a text into its lines.                                        *)
(***************************************************************************)
\* The state of the loop of Lines, and what it is after each character.
Splitting(done, line) == [done |-> done, line |-> line]

Splits(after, text, k) ==
  after = [i \in 0..k |-> IF i = 0 THEN Splitting(<<>>, <<>>)
                          ELSE SplitAt(text[i], after[i - 1])]

\* What the split into lines holds after a character follows from what it held before.
LEMMA SplitsOn ==
  ASSUME NEW after, NEW text, NEW k \in Nat, Splits(after, text, k)
  PROVE  /\ after[0] = Splitting(<<>>, <<>>)
         /\ \A i \in 1..k : after[i] = SplitAt(text[i], after[i - 1])
<1>1. \A i \in 0..k : after[i] = IF i = 0 THEN Splitting(<<>>, <<>>)
                                 ELSE SplitAt(text[i], after[i - 1])
  BY DEF Splits
<1>2. 0 \in 0..k /\ \A i \in 1..k : i \in 0..k /\ i # 0
  OBVIOUS
<1>3. QED
  BY <1>1, <1>2

\* The split has a run over every text, and its end is what Lines returns.
LEMMA SplitsExist ==
  ASSUME NEW text, Len(text) \in Nat
  PROVE  \E after : /\ Splits(after, text, Len(text))
                    /\ LET end == after[Len(text)]
                       IN  Lines(text) = Append(end.done, end.line)
<1> DEFINE K == {k \in Nat : \E after : Splits(after, text, k)}
<1>1. 0 \in K
  <2>1. Splits([i \in 0..0 |-> Splitting(<<>>, <<>>)], text, 0)
    BY DEF Splits
  <2>2. QED
    BY <2>1
<1>2. ASSUME NEW k \in Nat, k \in K
      PROVE  k + 1 \in K
  <2>1. PICK f : Splits(f, text, k)
    BY <1>2
  <2> DEFINE g == [i \in 0..(k + 1) |-> IF i = 0 THEN Splitting(<<>>, <<>>)
                                        ELSE SplitAt(text[i], f[i - 1])]
  <2>2. \A i \in 0..k : g[i] = f[i]
    <3>1. \A i \in 0..k : f[i] = IF i = 0 THEN Splitting(<<>>, <<>>)
                                 ELSE SplitAt(text[i], f[i - 1])
      BY <2>1 DEF Splits
    <3>2. \A i \in 0..(k + 1) : g[i] = IF i = 0 THEN Splitting(<<>>, <<>>)
                                       ELSE SplitAt(text[i], f[i - 1])
      OBVIOUS
    <3>3. \A i \in 0..k : i \in 0..(k + 1)
      OBVIOUS
    <3> HIDE DEF g
    <3>4. QED
      BY <3>1, <3>2, <3>3
  <2>3. \A i \in 0..(k + 1) : i # 0 => i - 1 \in 0..k
    OBVIOUS
  <2>4. g = [i \in 0..(k + 1) |-> IF i = 0 THEN Splitting(<<>>, <<>>)
                                  ELSE SplitAt(text[i], g[i - 1])]
    BY <2>2, <2>3
  <2> HIDE DEF g
  <2>5. Splits(g, text, k + 1)
    BY <2>4 DEF Splits
  <2>6. QED
    BY <2>5
<1>3. Len(text) \in K
  <2> HIDE DEF K
  <2>1. QED
    BY <1>1, <1>2, Induction
<1> DEFINE after == CHOOSE f : Splits(f, text, Len(text))
<1>4. Splits(after, text, Len(text))
  BY <1>3
<1>5. LET end == after[Len(text)]
      IN  Lines(text) = Append(end.done, end.line)
  BY DEF Lines, Splits, Splitting
<1> HIDE DEF after
<1>6. QED
  BY <1>4, <1>5

\* A line without a line break in it is taken as it is.
LEMMA LineSplit ==
  ASSUME NEW T, Newline \notin T, NEW line \in Seq(T), NEW text, Len(text) \in Nat, NEW after,
         Splits(after, text, Len(text)), NEW o \in Nat, NEW done, StandsAt(text, o, line),
         after[o] = Splitting(done, <<>>)
  PROVE  after[o + Len(line)] = Splitting(done, line)
<1> DEFINE n == Len(line)
           Known(k) == k <= n => after[o + k] = Splitting(done, SubSeq(line, 1, k))
           K == {k \in Nat : Known(k)}
<1>1. n \in Nat /\ \A i \in 1..n : line[i] # Newline
  OBVIOUS
<1>2. 0 \in K
  <2>1. o + 0 = o /\ SubSeq(line, 1, 0) = <<>>
    BY PrefixGrows
  <2>2. QED
    BY <2>1
<1> HIDE DEF n
<1>3. ASSUME NEW k \in Nat, Known(k)
      PROVE  Known(k + 1)
  <2>1. SUFFICES ASSUME k + 1 <= n
                 PROVE  after[o + (k + 1)] = Splitting(done, SubSeq(line, 1, k + 1))
    OBVIOUS
  <2> DEFINE m == o + (k + 1)
             sofar == SubSeq(line, 1, k)
  <2>2. k + 1 \in 1..n /\ k < n /\ k <= n
    BY <1>1, <2>1
  <2>3. m <= Len(text) /\ text[m] = line[k + 1]
    BY <2>2 DEF StandsAt, n
  <2>4. m \in 1..Len(text) /\ m - 1 = o + k
    BY <2>3
  <2> HIDE DEF m
  <2>5. after[m] = SplitAt(text[m], after[m - 1])
    BY <2>4, SplitsOn
  <2>6. after[m - 1] = Splitting(done, sofar)
    BY <1>3, <2>2, <2>4
  <2>7. text[m] # Newline
    BY <1>1, <2>2, <2>3
  <2>8. Append(sofar, line[k + 1]) = SubSeq(line, 1, k + 1)
    BY <2>2, PrefixGrows DEF n
  <2> HIDE DEF sofar
  <2>9. SplitAt(text[m], Splitting(done, sofar)) = Splitting(done, Append(sofar, text[m]))
    BY <2>7 DEF SplitAt, Splitting
  <2>10. after[m] = Splitting(done, SubSeq(line, 1, k + 1))
    BY <2>3, <2>5, <2>6, <2>8, <2>9
  <2>11. QED
    BY <2>10 DEF m
<1>4. n \in K
  <2> HIDE DEF Known
  <2>1. \A k \in Nat : k \in K => k + 1 \in K
    BY <1>3
  <2> HIDE DEF K
  <2>2. QED
    BY <1>1, <1>2, <2>1, Induction
<1>5. after[o + n] = Splitting(done, SubSeq(line, 1, n))
  <2>1. n <= n
    BY <1>1
  <2>2. Known(n)
    BY <1>4
  <2>3. QED
    BY <2>1, <2>2
<1>6. SubSeq(line, 1, n) = line
  BY PrefixGrows DEF n
<1>7. QED
  BY <1>5, <1>6 DEF n

LineTexts(table) == [n \in DOMAIN table |-> WrittenRow(table[n])]

\* The lines of a table are its rows, since no cell holds a line break.
LEMMA LinesRead ==
  ASSUME NEW table \in Seq(Seq(Seq(Words))), table # <<>>, Newline \notin Words
  PROVE  Lines(Written(table)) = LineTexts(table)
<1> DEFINE n == Len(table)
           T == Words \cup {Quote, Comma}
           U == T \cup {Newline}
           texts == LineTexts(table)
           text == Written(table)
<1>1. n \in Nat /\ n >= 1 /\ DOMAIN table = 1..n /\ \A i \in 1..n : table[i] \in Seq(Seq(Words))
  OBVIOUS
<1>2. Newline \notin T
  BY DEF Newline, Quote, Comma
<1>3. \A row \in Seq(Seq(Words)) : WrittenRow(row) \in Seq(T)
  <2>1. ASSUME NEW row \in Seq(Seq(Words))
        PROVE  WrittenRow(row) \in Seq(T)
    <3>1. <<>> \in Seq(T)
      OBVIOUS
    <3>2. QED
      BY <3>1, WrittenRowIs, EmptyRow
  <2>2. QED
    BY <2>1
<1> HIDE DEF T
<1>4. T \subseteq U /\ Newline \in U
  OBVIOUS
<1> HIDE DEF U
<1>5. texts \in Seq(Seq(T)) /\ Len(texts) = n
  <2> DEFINE lines == [i \in 1..n |-> WrittenRow(table[i])]
  <2>1. lines \in Seq(Seq(T)) /\ Len(lines) = n
    BY <1>1, <1>3
  <2>2. texts = lines
    BY <1>1 DEF LineTexts
  <2>3. QED
    BY <2>1, <2>2
<1>6. text = Joined(texts, Newline)
  BY DEF Written, LineTexts
<1> HIDE DEF n, texts, text
<1>7. texts \in Seq(Seq(U)) /\ Len(texts) # 0 /\ \A i \in 1..n : texts[i] \in Seq(T)
  <2>1. \A i \in 1..n : texts[i] \in Seq(T)
    BY <1>5
  <2>2. \A s \in Seq(T) : s \in Seq(U)
    BY <1>4
  <2>3. texts \in Seq(Seq(U))
    BY <1>5, <2>1, <2>2
  <2>4. Len(texts) # 0
    BY <1>1, <1>5
  <2>5. QED
    BY <2>1, <2>3, <2>4
<1>8. text \in Seq(U) /\ \E start : Separates(text, texts, Newline, start)
  BY <1>4, <1>6, <1>7, JoinedIs
<1>9. Len(text) \in Nat /\ \A i \in 1..n : Len(texts[i]) \in Nat
  BY <1>5, <1>8
<1>10. PICK after : /\ Splits(after, text, Len(text))
                    /\ Lines(text) = Append(after[Len(text)].done, after[Len(text)].line)
  BY <1>9, SplitsExist
<1>11. after[0] = Splitting(<<>>, <<>>)
       /\ \A i \in 1..Len(text) : after[i] = SplitAt(text[i], after[i - 1])
  BY <1>9, <1>10, SplitsOn
<1>12. PICK start : Separates(text, texts, Newline, start)
  BY <1>8
<1>13. /\ start[1] = 0
       /\ start[n] + Len(texts[n]) = Len(text)
       /\ \A i \in 1..n : start[i] \in Nat /\ StandsAt(text, start[i], texts[i])
       /\ \A i \in 1..(n - 1) : /\ start[i + 1] = start[i] + Len(texts[i]) + 1
                                /\ text[start[i] + Len(texts[i]) + 1] = Newline
  BY <1>5, <1>12 DEF Separates
<1> DEFINE Known(k) == k + 1 <= n => after[start[k + 1]] = Splitting(SubSeq(texts, 1, k), <<>>)
           K == {k \in Nat : Known(k)}
<1>14. 0 \in K
  <2>1. start[0 + 1] = 0 /\ SubSeq(texts, 1, 0) = <<>>
    BY <1>5, <1>13, PrefixGrows
  <2>2. QED
    BY <1>11, <2>1
<1>15. ASSUME NEW k \in Nat, Known(k), k + 1 <= n, NEW e, e = start[k + 1] + Len(texts[k + 1])
       PROVE  e \in Nat /\ after[e] = Splitting(SubSeq(texts, 1, k), texts[k + 1])
  <2> DEFINE j == k + 1
             o == start[j]
             line == texts[j]
             sofar == SubSeq(texts, 1, k)
  <2>1. after[o] = Splitting(sofar, <<>>)
    BY <1>15
  <2>2. e = o + Len(line) /\ j \in 1..n
    BY <1>1, <1>15
  <2> HIDE DEF j, sofar
  <2>3. o \in Nat /\ StandsAt(text, o, line) /\ line \in Seq(T) /\ Len(line) \in Nat
    BY <1>7, <1>9, <1>13, <2>2
  <2> HIDE DEF o, line
  <2>4. after[e] = Splitting(sofar, line)
    BY <1>2, <1>9, <1>10, <2>1, <2>2, <2>3, LineSplit
  <2>5. QED
    BY <2>2, <2>3, <2>4 DEF line, j, sofar
<1>16. ASSUME NEW k \in Nat, Known(k)
       PROVE  Known(k + 1)
  <2>1. SUFFICES ASSUME k + 1 + 1 <= n
                 PROVE  after[start[k + 1 + 1]] = Splitting(SubSeq(texts, 1, k + 1), <<>>)
    OBVIOUS
  <2> DEFINE j == k + 1
             e == start[j] + Len(texts[j])
             f == e + 1
             sofar == SubSeq(texts, 1, k)
  <2>2. j \in 1..(n - 1) /\ j + 1 \in 1..n /\ j \in 1..n /\ k + 1 <= n
    BY <1>1, <2>1
  <2>3. start[j + 1] = f /\ text[f] = Newline
    BY <1>13, <2>2
  <2>4. e \in Nat /\ after[e] = Splitting(sofar, texts[j])
    <3> HIDE DEF Known
    <3>1. QED
      BY <1>15, <1>16, <2>2
  <2>5. Append(sofar, texts[j]) = SubSeq(texts, 1, j)
    <3>1. k < Len(texts)
      BY <1>5, <2>2
    <3>2. QED
      BY <1>5, <3>1, PrefixGrows
  <2>6. f \in 1..Len(text)
    <3>1. start[j + 1] + Len(texts[j + 1]) <= Len(text) /\ Len(texts[j + 1]) \in Nat
      BY <1>9, <1>13, <2>2 DEF StandsAt
    <3>2. QED
      BY <1>9, <2>3, <2>4, <3>1
  <2>7. f - 1 = e
    BY <2>4
  <2> HIDE DEF e, f, j, sofar
  <2>8. after[f] = SplitAt(text[f], after[e])
    BY <1>11, <2>6, <2>7
  <2>9. SplitAt(text[f], Splitting(sofar, texts[j])) = Splitting(Append(sofar, texts[j]), <<>>)
    BY <2>3 DEF SplitAt, Splitting
  <2>10. after[start[j + 1]] = Splitting(SubSeq(texts, 1, j), <<>>)
    BY <2>3, <2>4, <2>5, <2>8, <2>9
  <2>11. QED
    BY <2>10 DEF j
<1>17. n - 1 \in K
  <2> HIDE DEF Known
  <2>1. \A k \in Nat : k \in K => k + 1 \in K
    BY <1>16
  <2>2. n - 1 \in Nat
    BY <1>1
  <2> HIDE DEF K
  <2>3. QED
    BY <1>14, <2>1, <2>2, Induction
<1> DEFINE k == n - 1
           end == after[Len(text)]
           done == SubSeq(texts, 1, k)
           last == texts[k + 1]
<1>18. k \in Nat /\ k + 1 = n /\ k + 1 <= n /\ k < Len(texts)
  BY <1>1, <1>5
<1>19. Known(k)
  BY <1>17
<1> HIDE DEF k, Known
<1>20. end = Splitting(done, last)
  BY <1>13, <1>15, <1>18, <1>19
<1>21. Append(done, last) = SubSeq(texts, 1, k + 1) /\ SubSeq(texts, 1, Len(texts)) = texts
  BY <1>5, <1>18, PrefixGrows
<1> HIDE DEF end, done, last
<1>22. end.done = done /\ end.line = last
  BY <1>20 DEF Splitting
<1>23. Lines(text) = Append(done, last)
  BY <1>10, <1>22 DEF end
<1>24. QED
  BY <1>5, <1>18, <1>21, <1>23 DEF text, texts

(***************************************************************************)
(* The rows of the two kinds of file.                                      *)
(***************************************************************************)
Trims(row) == [i \in DOMAIN row |-> Trim(row[i])]

Columns(header) ==
  [f \in DOMAIN HeaderAliases |->
     FindHeaderIndex([i \in DOMAIN header |-> NormalizeHeader(header[i])], HeaderAliases[f])]

RowOf(column, cells) == [f \in DOMAIN column |-> CellAt(cells, column[f])]

\* RowsUnder, with its local definitions by name.
LEMMA RowsAre ==
  ASSUME NEW header, NEW matrix, NEW numbers
  PROVE  RowsUnder(header, matrix, numbers) =
           IF 0 \in {Columns(header).code, Columns(header).name} THEN {}
           ELSE {[n \in numbers |-> RowOf(Columns(header), matrix[n])]}
BY DEF RowsUnder, Columns, RowOf

\* Of an empty text trimming leaves nothing.
LEMMA NothingTrimmed ==
  Trim(<<>>) = <<>>
<1>1. <<>> \in Seq({}) /\ Solid(<<>>) = {}
  BY DEF Solid
<1>2. QED
  BY <1>1, Trimmed

\* CellAt does not tell a trimmed row from the row.
LEMMA TrimmedCell ==
  ASSUME NEW row \in Seq(Seq(Words)), NEW i
  PROVE  CellAt(Trims(row), i) = CellAt(row, i)
<1>1. \A j \in DOMAIN row : Trim(Trim(row[j])) = Trim(row[j])
  <2>1. \A j \in DOMAIN row : row[j] \in Seq(Words)
    OBVIOUS
  <2>2. QED
    BY <2>1, Trimmed
<1>2. DOMAIN Trims(row) = DOMAIN row /\ \A j \in DOMAIN row : Trims(row)[j] = Trim(row[j])
  BY DEF Trims
<1>3. QED
  BY <1>1, <1>2 DEF CellAt

\* A row whose cells are all empty has no code.
LEMMA EmptyRowInvalid ==
  ASSUME NEW row \in Seq(Seq(Words)), IsEmpty(row), NEW header
  PROVE  ~Valid(RowOf(Columns(header), Trims(row)))
<1>1. \A i : CellAt(Trims(row), i) = <<>>
  <2>1. \A i : CellAt(row, i) = <<>>
    BY DEF CellAt, IsEmpty
  <2>2. QED
    BY <2>1, TrimmedCell
<1>2. "code" \in DOMAIN Columns(header)
  BY DEF Columns, HeaderAliases
<1>3. RowOf(Columns(header), Trims(row)).code = <<>>
  BY <1>1, <1>2 DEF RowOf
<1>4. QED
  BY <1>3 DEF Valid

\* A trimmed header has the columns of the header.
LEMMA TrimmedHeader ==
  ASSUME NEW row \in Seq(Seq(Words))
  PROVE  Columns(Trims(row)) = Columns(row)
<1>1. \A j \in DOMAIN row : NormalizeHeader(Trims(row)[j]) = NormalizeHeader(row[j])
  <2>1. ASSUME NEW j \in DOMAIN row
        PROVE  NormalizeHeader(Trims(row)[j]) = NormalizeHeader(row[j])
    <3>1. row[j] \in Seq(Words) /\ Trims(row)[j] = Trim(row[j])
      BY DEF Trims
    <3>2. Trim(Trim(row[j])) = Trim(row[j])
      BY <3>1, Trimmed
    <3>3. QED
      BY <3>1, <3>2 DEF NormalizeHeader
  <2>2. QED
    BY <2>1
<1>2. DOMAIN Trims(row) = DOMAIN row
  BY DEF Trims
<1>3. [i \in DOMAIN Trims(row) |-> NormalizeHeader(Trims(row)[i])]
        = [i \in DOMAIN row |-> NormalizeHeader(row[i])]
  BY <1>1, <1>2
<1>4. QED
  BY <1>3 DEF Columns

\* A header of empty cells has no column for the code.
LEMMA EmptyHeaderRefused ==
  ASSUME NEW row, \A i \in DOMAIN row : Trim(row[i]) = <<>>
  PROVE  Columns(row).code = 0
<1>1. \A cell : Trim(cell) = <<>> => NormalizeHeader(cell) = <<>>
  <2>1. ASSUME NEW cell, Trim(cell) = <<>>
        PROVE  NormalizeHeader(cell) = <<>>
    <3>1. Cased(LowerCase, <<>>) = <<>>
      BY DEF Cased
    <3> DEFINE piece(i) == IF <<>>[i] # Blank THEN << <<>>[i] >>
                           ELSE IF <<>>[i - 1] = Blank THEN <<>> ELSE <<"_">>
    <3>2. NormalizeHeader(cell) = FlattenSeq([i \in DOMAIN <<>> |-> piece(i)])
      BY <2>1, <3>1 DEF NormalizeHeader
    <3> HIDE DEF piece
    <3>3. [i \in DOMAIN <<>> |-> piece(i)] = <<>>
      OBVIOUS
    <3>4. FlattenSeq(<<>>) = <<>>
      BY DEF FlattenSeq
    <3>5. QED
      BY <3>2, <3>3, <3>4
  <2>2. QED
    BY <2>1
<1> DEFINE headers == [i \in DOMAIN row |-> NormalizeHeader(row[i])]
<1>2. \A i \in DOMAIN headers : headers[i] = <<>>
  BY <1>1
<1> HIDE DEF headers
<1>3. "code" \in DOMAIN HeaderAliases /\ <<>> \notin HeaderAliases["code"]
  BY DEF HeaderAliases
<1>4. FindHeaderIndex(headers, HeaderAliases["code"]) = 0
  BY <1>2, <1>3 DEF FindHeaderIndex
<1>5. QED
  BY <1>3, <1>4 DEF Columns, headers

\* An empty line has one empty cell, an empty text one empty line.
LEMMA NothingRead ==
  ParseCsvLine(<<>>) = << <<>> >> /\ Lines(<<>>) = << <<>> >>
<1>1. Len(<<>>) = 0 /\ 0 \in Nat
  OBVIOUS
<1>2. ParseCsvLine(<<>>) = << <<>> >>
  <2>1. PICK after : /\ Reads(after, <<>>, 0)
                     /\ ParseCsvLine(<<>>) = Append(after[0].cells, Trim(after[0].cell))
    BY <1>1, ReadsExist
  <2>2. after[0].cells = <<>> /\ after[0].cell = <<>>
    BY <1>1, <2>1, ReadsOn DEF Outside
  <2>3. QED
    BY <2>1, <2>2, NothingTrimmed
<1>3. Lines(<<>>) = << <<>> >>
  <2>1. PICK after : /\ Splits(after, <<>>, 0)
                     /\ Lines(<<>>) = Append(after[0].done, after[0].line)
    BY <1>1, SplitsExist
  <2>2. after[0].done = <<>> /\ after[0].line = <<>>
    BY <1>1, <2>1, SplitsOn DEF Splitting
  <2>3. QED
    BY <2>1, <2>2
<1>4. QED
  BY <1>2, <1>3

\* The CSV text of a table and its workbook are read alike.
LEMMA TableReadAlike ==
  ASSUME NEW table \in Seq(Seq(Seq(Words))), Newline \notin Words
  PROVE  ReadAlike(table)
<1> DEFINE csv == ParseVendorRowsFromCsv(Written(table))
           xlsx == ParseVendorRowsFromXlsx(table)
<1>1. ASSUME csv = {}, xlsx = {}
      PROVE  ReadAlike(table)
  BY <1>1 DEF ReadAlike
<1>2. CASE table = <<>>
  <2>1. Lines(Written(table)) = << <<>> >>
    BY <1>2, EmptyRow, NothingRead
  <2>2. csv = {}
    BY <2>1 DEF ParseVendorRowsFromCsv
  <2>3. xlsx = {}
    BY <1>2 DEF ParseVendorRowsFromXlsx
  <2>4. QED
    BY <1>1, <2>2, <2>3
<1>3. CASE table # <<>>
  <2> DEFINE N == Len(table)
             header == table[1]
             lines == LineTexts(table)
             matrix == [n \in DOMAIN lines |-> ParseCsvLine(lines[n])]
             shown == {n \in 2..Len(lines) : Trim(lines[n]) # <<>>}
             filled == {n \in 2..N : ~IsEmpty(table[n])}
  <2>1. /\ N \in Nat /\ N >= 1 /\ 1 \in 1..N /\ DOMAIN table = 1..N
        /\ (\A n \in 1..N : table[n] \in Seq(Seq(Words))) /\ Head(table) = header
    BY <1>3
  <2>2. /\ DOMAIN lines = 1..N /\ Len(lines) = N
        /\ \A n \in 1..N : lines[n] = WrittenRow(table[n])
    BY <2>1 DEF LineTexts
  <2>3. csv = IF lines[1] = <<>> THEN {} ELSE RowsUnder(matrix[1], matrix, shown)
    <3>1. Lines(Written(table)) = lines
      BY <1>3, LinesRead
    <3> HIDE DEF lines
    <3>2. QED
      BY <3>1 DEF ParseVendorRowsFromCsv
  <2>4. xlsx = IF header = <<>> THEN {} ELSE RowsUnder(header, table, filled)
    BY <1>3, <2>1 DEF ParseVendorRowsFromXlsx
  <2>5. \A n \in 1..N : matrix[n] = ParseCsvLine(lines[n])
    BY <2>2
  <2>6. /\ shown = {n \in 2..N : Trim(lines[n]) # <<>>}
        /\ \A n \in 2..N : n \in 1..N
    BY <2>1, <2>2
  <2> HIDE DEF N, header, lines, matrix, shown, csv, xlsx
  <2>7. \A n \in 1..N : table[n] # <<>> => matrix[n] = Trims(table[n])
    BY <2>1, <2>2, <2>5, RowRead DEF Trims
  <2>8. CASE lines[1] = <<>>
    <3>1. csv = {}
      BY <2>3, <2>8
    <3>2. CASE header = <<>>
      BY <1>1, <2>4, <3>1, <3>2 DEF csv, xlsx
    <3>3. CASE header # <<>>
      <4>1. Trims(header) = << <<>> >>
        BY <2>1, <2>5, <2>7, <2>8, <3>3, NothingRead DEF header
      <4>2. \A i \in DOMAIN header : Trim(header[i]) = <<>>
        <5>1. DOMAIN Trims(header) = {1} /\ Trims(header)[1] = <<>>
          BY <4>1
        <5>2. QED
          BY <5>1 DEF Trims
      <4>3. Columns(header).code = 0
        BY <4>2, EmptyHeaderRefused
      <4>4. xlsx = {}
        BY <2>4, <4>3, RowsAre
      <4>5. QED
        BY <1>1, <3>1, <4>4 DEF csv, xlsx
    <3>4. QED
      BY <3>2, <3>3
  <2>9. CASE lines[1] # <<>>
    <3> DEFINE column == Columns(header)
               c == [n \in shown |-> RowOf(column, matrix[n])]
               x == [n \in filled |-> RowOf(column, table[n])]
    <3>1. header # <<>> /\ header \in Seq(Seq(Words))
      BY <2>1, <2>2, <2>9, EmptyRow DEF header
    <3>2. Columns(matrix[1]) = column
      BY <2>1, <2>7, <3>1, TrimmedHeader DEF header
    <3>3. csv = RowsUnder(matrix[1], matrix, shown) /\ xlsx = RowsUnder(header, table, filled)
      BY <2>3, <2>4, <2>9, <3>1
    <3>4. CASE 0 \in {column.code, column.name}
      <4>1. csv = {} /\ xlsx = {}
        BY <3>2, <3>3, <3>4, RowsAre
      <4>2. QED
        BY <1>1, <4>1 DEF csv, xlsx
    <3>5. CASE 0 \notin {column.code, column.name}
      <4>1. csv = {c} /\ xlsx = {x}
        BY <3>2, <3>3, <3>5, RowsAre
      <4>2. filled = {n \in shown : ~IsEmpty(table[n])}
        <5>1. \A n \in filled : n \in shown
          BY <2>1, <2>2, <2>6, RowShows
        <5>2. QED
          BY <2>6, <5>1
      <4>3. ASSUME NEW n \in filled
            PROVE  x[n] = c[n]
        <5>1. n \in shown /\ n \in 1..N /\ table[n] \in Seq(Seq(Words)) /\ ~IsEmpty(table[n])
          BY <2>1, <2>6, <4>2
        <5>2. table[n] # <<>>
          BY <5>1 DEF IsEmpty
        <5>3. matrix[n] = Trims(table[n])
          BY <2>7, <5>1, <5>2
        <5>4. RowOf(column, matrix[n]) = RowOf(column, table[n])
          BY <5>1, <5>3, TrimmedCell DEF RowOf
        <5>5. QED
          BY <5>1, <5>4
      <4>4. ASSUME NEW n \in shown, n \notin filled
            PROVE  ~Valid(c[n])
        <5>1. n \in 1..N /\ table[n] \in Seq(Seq(Words)) /\ IsEmpty(table[n])
          BY <2>1, <2>6, <4>2, <4>4
        <5>2. table[n] # <<>>
          BY <2>2, <2>6, <5>1, EmptyRow, NothingTrimmed
        <5>3. matrix[n] = Trims(table[n])
          BY <2>7, <5>1, <5>2
        <5>4. ~Valid(RowOf(column, Trims(table[n])))
          BY <5>1, EmptyRowInvalid
        <5>5. QED
          BY <5>3, <5>4
      <4>5. DOMAIN x = filled /\ DOMAIN c = shown
        OBVIOUS
      <4> HIDE DEF x, c, filled
      <4>6. QED
        BY <4>1, <4>2, <4>3, <4>4, <4>5 DEF ReadAlike, csv, xlsx
    <3>6. QED
      BY <3>4, <3>5
  <2>10. QED
    BY <2>8, <2>9
<1>4. QED
  BY <1>2, <1>3

\* Whatever tables there are, their CSV files and their workbooks import the same vendors
\* and report their rows under the same numbers (parseCsvLine, parseVendorRowsFromCsv,
\* parseVendorRowsFromXlsx), as long as no cell holds a line break.
THEOREM TablesReadTheSame == WorkerSpec => []TablesAreReadAlike
<1>1. \A table \in Tables : ReadAlike(table)
  <2>1. \A table \in Tables : table \in Seq(Seq(Seq(Words))) /\ Newline \notin Words
    BY VendorTablesAssumption
  <2>2. QED
    BY <2>1, TableReadAlike
<1>2. TablesAreReadAlike
  BY <1>1 DEF TablesAreReadAlike
<1>3. QED
  BY <1>2, PTL
=============================================================================
