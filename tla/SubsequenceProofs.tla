--------------------------- MODULE SubsequenceProofs ---------------------------
(***************************************************************************)
(* What taking entries out of a sequence does, for every sequence.  The    *)
(* induction principle is stated over a SET of naturals and follows from   *)
(* the library's least-element theorem WFMin: no operator parameter has to *)
(* be instantiated.                                                        *)
(***************************************************************************)
EXTENDS Subsequences, WellFoundedInduction, TLAPS

\* r is what is left of q at the positions h names, in their order.
LeftBy(r, q, h) ==
  /\ h \in [DOMAIN r -> DOMAIN q]
  /\ \A i, j \in DOMAIN r : i < j => h[i] < h[j]
  /\ \A i \in DOMAIN r : r[i] = q[h[i]]

\* The step of the recursive function inside Keeping.
Keep(q, P, prev, i) == IF i \in P THEN Append(prev, q[i]) ELSE prev

\* A function that satisfies the recursion of Keeping up to n.
Keeps(g, q, P, n) ==
  g = [i \in 0..n |-> IF i = 0 THEN << >> ELSE Keep(q, P, g[i - 1], i)]

\* A set that holds 0 and is closed under successor holds every natural.
LEMMA NatSetInduction ==
  ASSUME NEW S, 0 \in S, \A n \in Nat : n \in S => n + 1 \in S
  PROVE  Nat \subseteq S
<1> DEFINE T == Nat \ S
<1> SUFFICES ASSUME T # {} PROVE FALSE
  OBVIOUS
<1>1. IsWellFoundedOn(OpToRel(<, Nat), Nat)
  BY NatLessThanWellFounded
<1>2. \E x \in T : \A y \in T : ~ (<<y, x>> \in OpToRel(<, Nat))
  <2>1. T \subseteq Nat
    OBVIOUS
  <2> HIDE DEF T
  <2> QED BY <1>1, <2>1, WFMin
<1>3. PICK x \in T : \A y \in T : ~ (y < x)
  BY <1>2 DEF OpToRel
<1>4. x # 0 /\ x - 1 \in Nat
  OBVIOUS
<1>5. x - 1 \in S
  BY <1>3, <1>4
<1> QED BY <1>4, <1>5

\* A non-empty set of naturals has a least element.
LEMMA LeastNatural ==
  ASSUME NEW S, S \subseteq Nat, S # {}
  PROVE  \E m \in S : \A n \in S : m <= n
<1>1. IsWellFoundedOn(OpToRel(<, Nat), Nat)
  BY NatLessThanWellFounded
<1>2. PICK m \in S : \A n \in S : ~ (<<n, m>> \in OpToRel(<, Nat))
  BY <1>1, WFMin
<1>3. \A n \in S : ~ (n < m)
  BY <1>2 DEF OpToRel
<1> QED BY <1>3

\* The recursion of Keeping has a solution on every prefix of the sequence.
LEMMA KeptExists ==
  ASSUME NEW q, NEW P
  PROVE  \A n \in Nat : \E g : Keeps(g, q, P, n)
<1> DEFINE S == {n \in Nat : \E g : Keeps(g, q, P, n)}
<1>1. 0 \in S
  <2> DEFINE g == [i \in 0..0 |-> << >>]
  <2>1. Keeps(g, q, P, 0)
    BY DEF Keeps
  <2> QED BY <2>1
<1>2. ASSUME NEW n \in Nat, n \in S PROVE n + 1 \in S
  <2>1. PICK g : Keeps(g, q, P, n)
    BY <1>2
  <2> DEFINE h == [i \in 0..(n + 1) |-> IF i = n + 1 THEN Keep(q, P, g[n], n + 1) ELSE g[i]]
  <2>2. \A i \in 0..n : h[i] = g[i]
    OBVIOUS
  <2>3. \A i \in 0..n : g[i] = IF i = 0 THEN << >> ELSE Keep(q, P, g[i - 1], i)
    BY <2>1 DEF Keeps
  <2>4. ASSUME NEW i \in 0..(n + 1)
        PROVE  h[i] = IF i = 0 THEN << >> ELSE Keep(q, P, h[i - 1], i)
    <3>1. CASE i = n + 1
      <4>1. h[i] = Keep(q, P, g[n], n + 1)
        BY <3>1
      <4>2. h[i - 1] = g[n]
        BY <3>1, <2>2
      <4> QED BY <4>1, <4>2, <3>1
    <3>2. CASE i \in 1..n
      <4>1. h[i] = Keep(q, P, g[i - 1], i)
        BY <3>2, <2>2, <2>3
      <4>2. h[i - 1] = g[i - 1]
        BY <3>2, <2>2
      <4> QED BY <4>1, <4>2, <3>2
    <3>3. CASE i = 0
      BY <3>3, <2>2, <2>3
    <3> QED BY <3>1, <3>2, <3>3
  <2>5. Keeps(h, q, P, n + 1)
    BY <2>4 DEF Keeps
  <2> QED BY <2>5
<1>3. Nat \subseteq S
  <2> HIDE DEF S
  <2> QED BY <1>1, <1>2, NatSetInduction
<1> QED BY <1>3

\* Keeping is the last value of a function that satisfies its recursion.
LEMMA KeepingUnfolds ==
  ASSUME NEW q, NEW P, Len(q) \in Nat
  PROVE  \E g : Keeps(g, q, P, Len(q)) /\ Keeping(q, P) = g[Len(q)]
<1> DEFINE step(g) == [i \in 0..Len(q) |->
                     IF i = 0 THEN << >>
                     ELSE IF i \in P THEN Append(g[i - 1], q[i]) ELSE g[i - 1]]
           kept == CHOOSE g : g = step(g)
<1>1. \A g : Keeps(g, q, P, Len(q)) <=> g = step(g)
  BY DEF Keeps, Keep
<1>2. kept = step(kept)
  <2>1. \E g : g = step(g)
    BY <1>1, KeptExists
  <2> HIDE DEF step
  <2> QED BY <2>1
<1>3. Keeping(q, P) = kept[Len(q)]
  BY DEF Keeping
<1> HIDE DEF kept, step
<1>4. Keeps(kept, q, P, Len(q))
  BY <1>1, <1>2
<1> QED BY <1>3, <1>4

\* r is what the recursion made of the first n entries of q, at the positions h names.
Partly(r, S, q, P, n, h) ==
  /\ r \in Seq(S) /\ h \in [1..Len(r) -> 1..n]
  /\ \A i, j \in 1..Len(r) : i < j => h[i] < h[j]
  /\ \A i \in 1..Len(r) : r[i] = q[h[i]] /\ h[i] \in P
  /\ \A k \in 1..n : k \in P => \E i \in 1..Len(r) : h[i] = k

\* One step of the recursion extends the part by one entry or by none.
LEMMA PartlyStep ==
  ASSUME NEW S, NEW q \in Seq(S), NEW P, NEW n \in Nat, n + 1 <= Len(q),
         NEW r, NEW h, Partly(r, S, q, P, n, h)
  PROVE  \E f : Partly(Keep(q, P, r, n + 1), S, q, P, n + 1, f)
<1>0. /\ r \in Seq(S) /\ Len(r) \in Nat /\ h \in [1..Len(r) -> 1..n] /\ q[n + 1] \in S
      /\ \A i, j \in 1..Len(r) : i < j => h[i] < h[j]
      /\ \A i \in 1..Len(r) : r[i] = q[h[i]] /\ h[i] \in P /\ h[i] \in 1..n
      /\ \A k \in 1..n : k \in P => \E i \in 1..Len(r) : h[i] = k
  <2>1. /\ r \in Seq(S) /\ h \in [1..Len(r) -> 1..n]
        /\ \A i, j \in 1..Len(r) : i < j => h[i] < h[j]
        /\ \A i \in 1..Len(r) : r[i] = q[h[i]] /\ h[i] \in P
        /\ \A k \in 1..n : k \in P => \E i \in 1..Len(r) : h[i] = k
    BY ZenonT(30) DEF Partly
  <2>2. n + 1 \in 1..Len(q)
    OBVIOUS
  <2>3. q[n + 1] \in S
    BY <2>2
  <2>4. \A i \in 1..Len(r) : h[i] \in 1..n
    BY <2>1
  <2>5. Len(r) \in Nat
    BY <2>1
  <2> QED BY <2>1, <2>3, <2>4, <2>5
<1>1. CASE n + 1 \notin P
  <2>1. Keep(q, P, r, n + 1) = r
    BY <1>1 DEF Keep
  <2>2. h \in [1..Len(r) -> 1..(n + 1)]
    BY <1>0
  <2>3. \A k \in 1..(n + 1) : k \in P => \E i \in 1..Len(r) : h[i] = k
    <3>1. \A k \in 1..(n + 1) : k = n + 1 \/ k \in 1..n
      OBVIOUS
    <3> QED BY <1>0, <1>1, <3>1
  <2>4. Partly(r, S, q, P, n + 1, h)
    BY <1>0, <2>2, <2>3 DEF Partly
  <2> QED BY <2>1, <2>4
<1>2. CASE n + 1 \in P
  <2>1. PICK s : s = Append(r, q[n + 1])
    OBVIOUS
  <2>2. /\ s \in Seq(S) /\ Len(s) = Len(r) + 1 /\ s[Len(r) + 1] = q[n + 1]
        /\ \A i \in 1..Len(r) : s[i] = r[i]
    BY <1>0, <2>1
  <2>3. Keep(q, P, r, n + 1) = s
    BY <1>2, <2>1 DEF Keep
  <2>4. PICK f : f = [i \in 1..(Len(r) + 1) |-> IF i = Len(r) + 1 THEN n + 1 ELSE h[i]]
    OBVIOUS
  <2>5. /\ f[Len(r) + 1] = n + 1 /\ \A i \in 1..Len(r) : f[i] = h[i]
        /\ \A i \in 1..(Len(r) + 1) : i = Len(r) + 1 \/ i \in 1..Len(r)
    BY <1>0, <2>4
  <2>6. f \in [1..Len(s) -> 1..(n + 1)]
    BY <1>0, <2>2, <2>4, <2>5
  <2>7. ASSUME NEW i \in 1..Len(s), NEW j \in 1..Len(s), i < j PROVE f[i] < f[j]
    <3>1. i \in 1..Len(r) /\ h[i] \in 1..n
      BY <1>0, <2>2, <2>7
    <3>2. CASE j = Len(r) + 1
      BY <2>5, <3>1, <3>2
    <3>3. CASE j \in 1..Len(r)
      BY <1>0, <2>5, <2>7, <3>1, <3>3
    <3> QED BY <2>2, <2>5, <3>2, <3>3
  <2>8. \A i \in 1..Len(s) : s[i] = q[f[i]] /\ f[i] \in P
    BY <1>0, <1>2, <2>2, <2>5
  <2>9. ASSUME NEW k \in 1..(n + 1), k \in P PROVE \E i \in 1..Len(s) : f[i] = k
    <3>1. CASE k = n + 1
      BY <1>0, <2>2, <2>5, <3>1
    <3>2. CASE k # n + 1
      <4>1. k \in 1..n
        BY <3>2
      <4>2. PICK i \in 1..Len(r) : h[i] = k
        BY <1>0, <2>9, <4>1
      <4>3. i \in 1..Len(s) /\ f[i] = k
        BY <1>0, <2>2, <2>5, <4>2
      <4> QED BY <4>3
    <3> QED BY <3>1, <3>2
  <2>10. Partly(s, S, q, P, n + 1, f)
    BY <2>2, <2>6, <2>7, <2>8, <2>9 DEF Partly
  <2> QED BY <2>3, <2>10
<1> QED BY <1>1, <1>2

\* What is kept are the entries at the positions named, all of them, in their order.
LEMMA KeepingProperties ==
  ASSUME NEW S, NEW q \in Seq(S), NEW P
  PROVE  /\ Keeping(q, P) \in Seq(S)
         /\ \E h : /\ LeftBy(Keeping(q, P), q, h)
                   /\ \A k \in DOMAIN q : k \in P <=> \E i \in DOMAIN Keeping(q, P) : h[i] = k
<1>0. Len(q) \in Nat /\ DOMAIN q = 1..Len(q)
  OBVIOUS
<1>1. PICK g : Keeps(g, q, P, Len(q)) /\ Keeping(q, P) = g[Len(q)]
  BY <1>0, KeepingUnfolds
<1> DEFINE T == {n \in Nat : n <= Len(q) => \E h : Partly(g[n], S, q, P, n, h)}
<1>2. g[0] = << >>
  BY <1>0, <1>1 DEF Keeps
<1>3. \A i \in 1..Len(q) : g[i] = Keep(q, P, g[i - 1], i)
  BY <1>0, <1>1 DEF Keeps
<1>4. 0 \in T
  <2>1. Partly(<< >>, S, q, P, 0, << >>)
    BY DEF Partly
  <2> QED BY <1>2, <2>1
<1>5. ASSUME NEW n \in Nat, n \in T PROVE n + 1 \in T
  <2> SUFFICES ASSUME n + 1 <= Len(q) PROVE \E h : Partly(g[n + 1], S, q, P, n + 1, h)
    OBVIOUS
  <2>1. PICK h : Partly(g[n], S, q, P, n, h)
    BY <1>0, <1>5
  <2>2. g[n + 1] = Keep(q, P, g[n], n + 1)
    BY <1>0, <1>3
  <2> QED BY <2>1, <2>2, PartlyStep
<1>6. Nat \subseteq T
  <2> HIDE DEF T
  <2> QED BY <1>4, <1>5, NatSetInduction
<1>7. PICK h : Partly(Keeping(q, P), S, q, P, Len(q), h)
  BY <1>0, <1>1, <1>6
<1>8. PICK r : r = Keeping(q, P)
  OBVIOUS
<1>9. r \in Seq(S) /\ DOMAIN r = 1..Len(r)
  BY <1>7, <1>8 DEF Partly
<1>10. LeftBy(r, q, h)
  BY <1>0, <1>7, <1>8, <1>9 DEF Partly, LeftBy
<1>11. \A k \in DOMAIN q : k \in P <=> \E i \in DOMAIN r : h[i] = k
  BY <1>0, <1>7, <1>8, <1>9 DEF Partly
<1> QED BY <1>8, <1>9, <1>10, <1>11

\* What is kept holds the entries at those positions, and nothing twice that the
\* sequence holds once.
LEMMA KeepingEntries ==
  ASSUME NEW S, NEW q \in Seq(S), NEW P
  PROVE  /\ Keeping(q, P) \in Seq(S)
         /\ \E h : LeftBy(Keeping(q, P), q, h)
         /\ Entries(Keeping(q, P)) = {q[i] : i \in P \cap DOMAIN q}
         /\ Distinct(q) => Distinct(Keeping(q, P))
<1>1. PICK r : r = Keeping(q, P)
  OBVIOUS
<1>2. r \in Seq(S) /\ DOMAIN r \subseteq Nat
  BY <1>1, KeepingProperties
<1>3. PICK h : LeftBy(r, q, h) /\ \A k \in DOMAIN q : k \in P <=> \E i \in DOMAIN r : h[i] = k
  BY <1>1, KeepingProperties
<1>4. Entries(r) = {q[i] : i \in P \cap DOMAIN q}
  <2>1. ASSUME NEW i \in DOMAIN r PROVE r[i] \in {q[k] : k \in P \cap DOMAIN q}
    <3>1. h[i] \in DOMAIN q /\ r[i] = q[h[i]] /\ h[i] \in P
      BY <1>3 DEF LeftBy
    <3> QED BY <3>1
  <2>2. ASSUME NEW k \in P \cap DOMAIN q PROVE q[k] \in Entries(r)
    <3>1. PICK i \in DOMAIN r : h[i] = k
      BY <1>3
    <3>2. r[i] = q[k]
      BY <1>3, <3>1 DEF LeftBy
    <3> QED BY <3>2 DEF Entries
  <2> QED BY <2>1, <2>2 DEF Entries
<1>5. ASSUME Distinct(q), NEW i \in DOMAIN r, NEW j \in DOMAIN r, i # j PROVE r[i] # r[j]
  <2>1. /\ h[i] \in DOMAIN q /\ h[j] \in DOMAIN q /\ r[i] = q[h[i]] /\ r[j] = q[h[j]]
        /\ i < j => h[i] < h[j]
        /\ j < i => h[j] < h[i]
    BY <1>3 DEF LeftBy
  <2>2. h[i] # h[j]
    BY <1>2, <1>5, <2>1
  <2> QED BY <1>5, <2>1, <2>2 DEF Distinct
<1> QED BY <1>1, <1>2, <1>3, <1>4, <1>5 DEF Distinct

\* Retaining the members of a set drops everything else.
LEMMA AmongProperties ==
  ASSUME NEW S, NEW q \in Seq(S), NEW T
  PROVE  /\ Among(q, T) \in Seq(S)
         /\ \E h : LeftBy(Among(q, T), q, h)
         /\ Entries(Among(q, T)) = Entries(q) \cap T
         /\ Distinct(q) => Distinct(Among(q, T))
<1> DEFINE P == {i \in DOMAIN q : q[i] \in T}
<1>1. Among(q, T) = Keeping(q, P)
  BY DEF Among
<1>2. {q[i] : i \in P \cap DOMAIN q} = Entries(q) \cap T
  BY DEF Entries
<1> HIDE DEF P
<1> QED BY <1>1, <1>2, KeepingEntries

\* Withdrawing a value drops every occurrence of it and nothing else.
LEMMA WithoutProperties ==
  ASSUME NEW S, NEW q \in Seq(S), NEW t
  PROVE  /\ Without(q, t) \in Seq(S)
         /\ \E h : LeftBy(Without(q, t), q, h)
         /\ Entries(Without(q, t)) = Entries(q) \ {t}
         /\ Distinct(q) => Distinct(Without(q, t))
<1> DEFINE P == {i \in DOMAIN q : q[i] # t}
<1>1. Without(q, t) = Keeping(q, P)
  BY DEF Without
<1>2. {q[i] : i \in P \cap DOMAIN q} = Entries(q) \ {t}
  BY DEF Entries
<1> HIDE DEF P
<1> QED BY <1>1, <1>2, KeepingEntries

\* Pushing an entry at the back adds exactly that entry.
LEMMA PushProperties ==
  ASSUME NEW S, NEW q \in Seq(S), NEW t \in S
  PROVE  /\ Append(q, t) \in Seq(S)
         /\ Entries(Append(q, t)) = Entries(q) \cup {t}
         /\ Distinct(q) /\ t \notin Entries(q) => Distinct(Append(q, t))
<1> DEFINE r == Append(q, t)
<1>1. /\ r \in Seq(S)
      /\ Len(r) = Len(q) + 1
      /\ DOMAIN r = 1..(Len(q) + 1)
      /\ DOMAIN q = 1..Len(q)
      /\ \A i \in 1..Len(q) : r[i] = q[i]
      /\ r[Len(q) + 1] = t
  OBVIOUS
<1> HIDE DEF r
<1>2. Entries(r) = Entries(q) \cup {t}
  <2>1. ASSUME NEW x \in Entries(r) PROVE x \in Entries(q) \cup {t}
    <3>1. PICK i \in 1..(Len(q) + 1) : x = r[i]
      BY <1>1, <2>1 DEF Entries
    <3>2. CASE i = Len(q) + 1
      BY <1>1, <3>1, <3>2
    <3>3. CASE i \in 1..Len(q)
      BY <1>1, <3>1, <3>3 DEF Entries
    <3> QED BY <3>2, <3>3
  <2>2. ASSUME NEW x \in Entries(q) PROVE x \in Entries(r)
    <3>1. PICK i \in 1..Len(q) : x = q[i]
      BY <1>1, <2>2 DEF Entries
    <3>2. r[i] = x /\ i \in 1..(Len(q) + 1)
      BY <1>1, <3>1
    <3> QED BY <1>1, <3>2 DEF Entries
  <2>3. t \in Entries(r)
    <3>1. Len(q) + 1 \in 1..(Len(q) + 1)
      OBVIOUS
    <3> QED BY <1>1, <3>1 DEF Entries
  <2> QED BY <2>1, <2>2, <2>3
<1>3. ASSUME Distinct(q), t \notin Entries(q) PROVE Distinct(r)
  <2>1. \A i \in 1..Len(q) : q[i] # t
    BY <1>1, <1>3 DEF Entries
  <2>2. ASSUME NEW i \in 1..(Len(q) + 1), NEW j \in 1..(Len(q) + 1), i # j
        PROVE  r[i] # r[j]
    <3>1. CASE i = Len(q) + 1
      BY <1>1, <2>1, <2>2, <3>1
    <3>2. CASE j = Len(q) + 1
      BY <1>1, <2>1, <2>2, <3>2
    <3>3. CASE i \in 1..Len(q) /\ j \in 1..Len(q)
      BY <1>1, <1>3, <2>2, <3>3 DEF Distinct
    <3> QED BY <3>1, <3>2, <3>3
  <2> QED BY <1>1, <2>2 DEF Distinct
<1> QED BY <1>1, <1>2, <1>3 DEF r
===============================================================================
