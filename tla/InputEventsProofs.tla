-------------------------- MODULE InputEventsProofs --------------------------
(***************************************************************************)
(* Theorems about InputEvents, for every set of keys, thresholds, span of   *)
(* the tick counter and kinds of session: automatic repeats are paced, a    *)
(* click's press and release stay together and no press outlives the        *)
(* user's, and no tick passes over a sleeping guest whose event is queued.  *)
(* The operators on the Event Manager's state keep Good; the rest of the    *)
(* invariant is about who may run when.                                     *)
(***************************************************************************)
EXTENDS InputEvents, SubsequenceProofs, FiniteSetTheorems, FunctionTheorems

---------------------------------------------------------------------------
(* The invariant. *)

Entry == [what : Kinds, key : Keys \cup {NoKey}]

Mouse(q) == Positions(q, MouseKinds)

\* Press and release alternate from what was last taken (seen) to what is queued, and the
\* last of them says whether the user's finger is down (h).
Paired(q, s, h) ==
  /\ \A i, j \in Mouse(q) :
       i < j /\ (\A k \in Mouse(q) : ~ (i < k /\ k < j)) => q[i].what # q[j].what
  /\ \A i \in Mouse(q) : (\A k \in Mouse(q) : i <= k) => q[i].what # s
  /\ \A i \in Mouse(q) : (\A k \in Mouse(q) : k <= i) => (q[i].what = "mouseDown" <=> h)
  /\ Mouse(q) = {} => (s = "mouseDown" <=> h)

\* How long the next repeat is after the repeating key's last event.
Wait(s) == IF s.first THEN Threshold ELSE Rate

\* The state s of the Event Manager at tick `now`, with the user's finger as h says.
Good(s, now, h) ==
  /\ s \in EventManager
  /\ s.paced
  /\ s.repeat.key # NoKey /\ s.since < Wait(s)
       => (s.repeat.due - now) % TickSpan = Wait(s) - s.since
  /\ LeavesClicksAlone => ~s.click /\ Paired(s.queue, s.seen, h) /\ (s.button => h)

\* A dialog tracks a press that it took.
Tracking == {"button", "popup"}

\* Who owns the release, and who may run: a dialog that owns the release of a press has
\* taken the press, nothing of the mouse is queued, and the guest sleeps in no dialog.
Owners ==
  LeavesClicksAlone =>
    /\ modal \in {"none", "idle", "button", "popup"}
    /\ modal # "none" => ~IsAsleep
    /\ owned => Mouse(em.queue) = {} /\ em.seen = "mouseDown"
    /\ modal \in Tracking => em.seen = "mouseDown" /\ ~owned
    /\ mbDown => held

\* Inside the loop over the ticks of a sleep nothing the guest waits for is queued, unless a
\* dialog left on the screen took an event when the guest was last given one.
Waits ==
  /\ asleep.record => asleep.mask \in session.masks
  /\ draining => /\ IsAsleep /\ ~callback /\ modal = "none"
                 /\ asleep.record /\ ~em.took
                      => Positions(em.queue, asleep.mask \ {"update", "autoKey"}) = {}

InputInv == InputTypeOK /\ Good(em, tick, held) /\ Owners /\ Waits

---------------------------------------------------------------------------
(* Positions of a queue. *)

\* The least of some positions.
LEMMA EarliestIs ==
  ASSUME NEW S, S \subseteq Nat, S # {}
  PROVE  Earliest(S) \in S /\ \A j \in S : Earliest(S) <= j
BY LeastNatural DEF Earliest

\* The greatest of some positions of a queue.
LEMMA LatestIs ==
  ASSUME NEW n \in Nat, NEW S, S \subseteq 1..n, S # {}
  PROVE  Latest(S) \in S /\ \A j \in S : j <= Latest(S)
<1> DEFINE T == {n - j : j \in S}
<1>1. T \subseteq Nat /\ T # {}
  <2>1. \A j \in S : n - j \in Nat
    OBVIOUS
  <2> QED BY <2>1
<1>2. PICK m \in T : \A t \in T : m <= t
  <2> HIDE DEF T
  <2> QED BY <1>1, LeastNatural
<1>3. PICK i \in S : m = n - i
  OBVIOUS
<1>4. \A j \in S : j <= i
  <2> TAKE j \in S
  <2>1. n - i <= n - j
    BY <1>2, <1>3
  <2> QED BY <2>1
<1> QED BY <1>4 DEF Latest

\* Where a queue holds events of some kinds.
LEMMA PositionsIn ==
  ASSUME NEW q \in Seq(Entry), NEW kinds
  PROVE  /\ Len(q) \in Nat /\ DOMAIN q = 1..Len(q)
         /\ Positions(q, kinds) \subseteq DOMAIN q /\ Positions(q, kinds) \subseteq Nat
         /\ \A i \in DOMAIN q : i \in Positions(q, kinds) <=> q[i].what \in kinds
         /\ \A i \in DOMAIN q : q[i] \in Entry /\ q[i].what \in Kinds
<1>1. Len(q) \in Nat /\ DOMAIN q = 1..Len(q)
  OBVIOUS
<1>2. \A i \in DOMAIN q : q[i] \in Entry
  OBVIOUS
<1>3. \A e \in Entry : e.what \in Kinds
  BY DEF Entry
<1> QED BY <1>1, <1>2, <1>3 DEF Positions

\* Some event the mask designates is of the best class and the oldest of its class.
LEMMA BestExists ==
  ASSUME NEW q \in Seq(Entry), NEW mask, Positions(q, mask \ {"update"}) # {}
  PROVE  \E i \in Positions(q, mask \ {"update"}) : \A j \in Positions(q, mask \ {"update"}) :
           \/ Priority(q[i].what) < Priority(q[j].what)
           \/ Priority(q[i].what) = Priority(q[j].what) /\ i <= j
<1> DEFINE S == Positions(q, mask \ {"update"})
           N == {Priority(q[i].what) : i \in S}
<1>1. S \subseteq DOMAIN q /\ S \subseteq Nat /\ \A i \in DOMAIN q : q[i].what \in Kinds
  BY PositionsIn
<1>2. \A what \in Kinds : Priority(what) \in Nat
  BY DEF Kinds, LowLevel, MouseKinds, KeyKinds, Priority
<1>3. N \subseteq Nat /\ N # {}
  BY <1>1, <1>2
<1>4. PICK p \in N : \A n \in N : p <= n
  <2> HIDE DEF N
  <2> QED BY <1>3, LeastNatural
<1> DEFINE L == {i \in S : Priority(q[i].what) = p}
<1>5. L \subseteq Nat /\ L # {}
  BY <1>1, <1>4
<1>6. PICK m \in L : \A l \in L : m <= l
  <2> HIDE DEF L
  <2> QED BY <1>5, LeastNatural
<1>7. ASSUME NEW j \in S
      PROVE  \/ Priority(q[m].what) < Priority(q[j].what)
             \/ Priority(q[m].what) = Priority(q[j].what) /\ m <= j
  <2>1. /\ Priority(q[m].what) = p /\ Priority(q[j].what) \in N /\ p \in Nat
        /\ Priority(q[j].what) \in Nat
    BY <1>3, <1>6
  <2>2. p <= Priority(q[j].what)
    BY <1>4, <2>1
  <2>3. Priority(q[j].what) = p => m <= j
    BY <1>6
  <2> QED BY <2>1, <2>2, <2>3
<1> QED BY <1>6, <1>7

\* The event the Toolbox selects is one the mask designates, and no event of the mouse is
\* ahead of a selected one if the mask designates both of its kinds.
LEMMA ToolboxMatchIs ==
  ASSUME NEW q \in Seq(Entry), NEW mask,
         ToolboxMatch(q, mask) # 0
  PROVE  /\ ToolboxMatch(q, mask) \in Positions(q, mask \ {"update"})
         /\ MouseKinds \subseteq mask /\ ToolboxMatch(q, mask) \in Mouse(q)
              => \A k \in Mouse(q) : ToolboxMatch(q, mask) <= k
<1> DEFINE S == Positions(q, mask \ {"update"})
           Best(i) == \A j \in S : \/ Priority(q[i].what) < Priority(q[j].what)
                                   \/ Priority(q[i].what) = Priority(q[j].what) /\ i <= j
<1>1. /\ Mouse(q) \subseteq DOMAIN q /\ S \subseteq Nat
      /\ \A i \in DOMAIN q : i \in S <=> q[i].what \in mask \ {"update"}
      /\ \A i \in DOMAIN q : i \in Mouse(q) <=> q[i].what \in MouseKinds
  BY PositionsIn DEF Mouse
<1>2. S # {}
  BY DEF ToolboxMatch
<1>3. \E i \in S : Best(i)
  BY <1>2, BestExists
<1>4. PICK c : c = ToolboxMatch(q, mask)
  OBVIOUS
<1>5. c = CHOOSE i \in S : Best(i)
  BY <1>2, <1>4 DEF ToolboxMatch
<1>6. c \in S /\ Best(c)
  <2> HIDE DEF S, Best
  <2> QED BY <1>3, <1>5
<1>7. MouseKinds \subseteq mask /\ c \in Mouse(q) => \A k \in Mouse(q) : c <= k
  <2> SUFFICES ASSUME MouseKinds \subseteq mask, c \in Mouse(q), NEW k \in Mouse(q)
               PROVE  c <= k
    OBVIOUS
  <2>1. \A what \in MouseKinds : Priority(what) = 1 /\ what # "update"
    BY DEF MouseKinds, Priority
  <2>2. k \in S /\ Priority(q[k].what) = 1 /\ Priority(q[c].what) = 1
    BY <1>1, <2>1
  <2>3. \/ Priority(q[c].what) < Priority(q[k].what)
        \/ Priority(q[c].what) = Priority(q[k].what) /\ c <= k
    BY <1>6, <2>2
  <2> QED BY <2>2, <2>3
<1> QED BY <1>4, <1>6, <1>7

\* The same for GetOSEvent, which selects the oldest.
LEMMA OSMatchIs ==
  ASSUME NEW q \in Seq(Entry), NEW mask, OSMatch(q, mask) # 0
  PROVE  /\ OSMatch(q, mask) \in Positions(q, mask \cap LowLevel)
         /\ MouseKinds \subseteq mask => \A k \in Mouse(q) : OSMatch(q, mask) <= k
<1> DEFINE S == Positions(q, mask \cap LowLevel)
<1>1. S # {} /\ OSMatch(q, mask) = Earliest(S)
  BY DEF OSMatch
<1>2. S \subseteq Nat
  BY PositionsIn
<1>3. Earliest(S) \in S /\ \A j \in S : Earliest(S) <= j
  <2> HIDE DEF S
  <2> QED BY <1>1, <1>2, EarliestIs
<1>4. MouseKinds \subseteq mask => Mouse(q) \subseteq S
  BY DEF Mouse, Positions, LowLevel
<1> QED BY <1>1, <1>3, <1>4

\* An event that is not the mouse's changes nothing about clicks when it comes last ...
LEMMA PairedAppend ==
  ASSUME NEW q \in Seq(Entry), NEW e \in Entry, e.what \notin MouseKinds, NEW s, NEW h,
         Paired(q, s, h)
  PROVE  Paired(Append(q, e), s, h) /\ Mouse(Append(q, e)) = Mouse(q)
<1>1. PICK r : r = Append(q, e)
  OBVIOUS
<1>2. /\ r \in Seq(Entry) /\ DOMAIN q = 1..Len(q) /\ Len(q) \in Nat
      /\ DOMAIN r = 1..(Len(q) + 1) /\ Len(r) = Len(q) + 1
      /\ \A i \in 1..Len(q) : r[i] = q[i]
      /\ r[Len(q) + 1] = e
  BY <1>1
<1>3. Mouse(r) = Mouse(q) /\ \A i \in Mouse(q) : r[i] = q[i]
  BY <1>2 DEF Mouse, Positions
<1>4. Paired(r, s, h)
  BY <1>3 DEF Paired
<1> QED BY <1>1, <1>3, <1>4

\* ... or first, as the open-application event does.
LEMMA PairedPrepend ==
  ASSUME NEW q \in Seq(Entry), NEW e \in Entry, e.what \notin MouseKinds, NEW s, NEW h,
         Paired(q, s, h)
  PROVE  /\ Paired(<<e>> \o q, s, h) /\ (Mouse(q) = {} => Mouse(<<e>> \o q) = {})
         /\ <<e>> \o q \in Seq(Entry)
<1>1. PICK r : r = <<e>> \o q
  OBVIOUS
<1>2. /\ r \in Seq(Entry) /\ DOMAIN q = 1..Len(q) /\ Len(q) \in Nat
      /\ Len(r) = Len(q) + 1 /\ r[1] = e
      /\ \A i \in 2..(Len(q) + 1) : r[i] = q[i - 1]
  BY <1>1
<1>3. \A i \in Mouse(r) : i - 1 \in Mouse(q) /\ r[i] = q[i - 1] /\ i \in Nat
  <2> TAKE i \in Mouse(r)
  <2>1. i \in 1..(Len(q) + 1) /\ r[i].what \in MouseKinds
    BY <1>2 DEF Mouse, Positions
  <2>2. i # 1
    BY <1>2, <2>1
  <2>3. i - 1 \in 1..Len(q) /\ r[i] = q[i - 1] /\ i \in Nat
    BY <1>2, <2>1, <2>2
  <2> QED BY <2>1, <2>3 DEF Mouse, Positions
<1>4. \A i \in Mouse(q) : i + 1 \in Mouse(r) /\ r[i + 1] = q[i] /\ i \in Nat
  <2> TAKE i \in Mouse(q)
  <2>1. i \in 1..Len(q) /\ q[i].what \in MouseKinds
    BY DEF Mouse, Positions
  <2>2. i + 1 \in 1..Len(r) /\ r[i + 1] = q[i]
    <3>1. i + 1 \in 2..(Len(q) + 1) /\ (i + 1) - 1 = i
      BY <1>2, <2>1
    <3>2. r[i + 1] = q[(i + 1) - 1]
      BY <1>2, <3>1
    <3> QED BY <1>2, <2>1, <3>1, <3>2
  <2> QED BY <2>1, <2>2 DEF Mouse, Positions
<1>5. ASSUME NEW i \in Mouse(r), NEW j \in Mouse(r), i < j,
             \A k \in Mouse(r) : ~ (i < k /\ k < j)
      PROVE  r[i].what # r[j].what
  <2>1. i - 1 < j - 1
    BY <1>3, <1>5
  <2>2. \A k \in Mouse(q) : ~ (i - 1 < k /\ k < j - 1)
    <3> TAKE k \in Mouse(q)
    <3>1. ~ (i < k + 1 /\ k + 1 < j)
      BY <1>4, <1>5
    <3> QED BY <3>1, <1>3, <1>4
  <2> QED BY <1>3, <2>1, <2>2 DEF Paired
<1>6. ASSUME NEW i \in Mouse(r), \A k \in Mouse(r) : i <= k PROVE r[i].what # s
  <2>1. \A k \in Mouse(q) : i - 1 <= k
    <3> TAKE k \in Mouse(q)
    <3>1. i <= k + 1
      BY <1>4, <1>6
    <3> QED BY <3>1, <1>3, <1>4
  <2> QED BY <1>3, <2>1 DEF Paired
<1>7. ASSUME NEW i \in Mouse(r), \A k \in Mouse(r) : k <= i
      PROVE  r[i].what = "mouseDown" <=> h
  <2>1. \A k \in Mouse(q) : k <= i - 1
    <3> TAKE k \in Mouse(q)
    <3>1. k + 1 <= i
      BY <1>4, <1>7
    <3> QED BY <3>1, <1>3, <1>4
  <2> QED BY <1>3, <2>1 DEF Paired
<1>8. Mouse(q) = {} <=> Mouse(r) = {}
  BY <1>3, <1>4
<1>9. Paired(r, s, h)
  BY <1>5, <1>6, <1>7, <1>8 DEF Paired
<1> QED BY <1>1, <1>2, <1>8, <1>9

\* The user's next press or release.
LEMMA PairedClick ==
  ASSUME NEW q \in Seq(Entry), NEW e \in Entry, e.what \in MouseKinds, NEW s \in MouseKinds,
         NEW h \in BOOLEAN, Paired(q, s, h), e.what = "mouseDown" <=> ~h
  PROVE  Paired(Append(q, e), s, ~h)
<1>1. PICK r : r = Append(q, e)
  OBVIOUS
<1>2. /\ r \in Seq(Entry) /\ DOMAIN q = 1..Len(q) /\ Len(q) \in Nat
      /\ Len(r) = Len(q) + 1
      /\ \A i \in 1..Len(q) : r[i] = q[i]
      /\ r[Len(q) + 1] = e
  BY <1>1
<1>3. PICK n : n = Len(q) + 1
  OBVIOUS
<1>4. /\ Mouse(r) = Mouse(q) \cup {n}
      /\ \A i \in Mouse(q) : r[i] = q[i] /\ i < n /\ i \in Nat /\ q[i].what \in MouseKinds
      /\ r[n] = e /\ n \in Nat
  BY <1>2, <1>3 DEF Mouse, Positions
<1>5. ASSUME NEW i \in Mouse(q), \A k \in Mouse(q) : k <= i PROVE q[i].what # e.what
  <2>1. q[i].what = "mouseDown" <=> h
    BY <1>5 DEF Paired
  <2> QED BY <2>1
<1>6. Mouse(q) = {} => e.what # s
  BY DEF Paired
<1>7. ASSUME NEW i \in Mouse(r), NEW j \in Mouse(r), i < j,
             \A k \in Mouse(r) : ~ (i < k /\ k < j)
      PROVE  r[i].what # r[j].what
  <2>1. CASE j = n
    <3>1. i \in Mouse(q)
      BY <1>4, <1>7, <2>1
    <3>2. \A k \in Mouse(q) : k <= i
      <4> TAKE k \in Mouse(q)
      <4>1. k \in Mouse(r) /\ k < n /\ k \in Nat /\ i \in Nat
        BY <1>4, <3>1
      <4>2. ~ (i < k /\ k < j)
        BY <1>7, <4>1
      <4> QED BY <2>1, <4>1, <4>2
    <3> QED BY <1>4, <1>5, <2>1, <3>1, <3>2
  <2>2. CASE j # n
    <3>1. j \in Mouse(q) /\ i \in Mouse(q)
      BY <1>4, <1>7, <2>2
    <3> QED BY <1>4, <1>7, <3>1 DEF Paired
  <2> QED BY <2>1, <2>2
<1>8. ASSUME NEW i \in Mouse(r), \A k \in Mouse(r) : i <= k PROVE r[i].what # s
  <2>1. CASE Mouse(q) = {}
    BY <1>4, <1>6, <2>1
  <2>2. CASE Mouse(q) # {}
    <3>1. i \in Mouse(q)
      BY <1>4, <1>8, <2>2
    <3> QED BY <1>4, <1>8, <3>1 DEF Paired
  <2> QED BY <2>1, <2>2
<1>9. ASSUME NEW i \in Mouse(r), \A k \in Mouse(r) : k <= i
      PROVE  r[i].what = "mouseDown" <=> ~h
  <2>1. i = n
    BY <1>4, <1>9
  <2> QED BY <1>4, <2>1
<1>10. Mouse(r) # {}
  BY <1>4
<1> QED BY <1>1, <1>7, <1>8, <1>9, <1>10 DEF Paired

\* What is kept of a queue is paired if of the mouse's events only the oldest are taken,
\* and the last of those is remembered.
LEMMA PairedKeeping ==
  ASSUME NEW q \in Seq(Entry), NEW P, NEW s, NEW s2, NEW h, Paired(q, s, h),
         \A g \in Mouse(q) \ P, k \in Mouse(q) \cap P : g < k,
         \/ Mouse(q) \subseteq P /\ s2 = s
         \/ \E l \in Mouse(q) \ P : (\A g \in Mouse(q) \ P : g <= l) /\ s2 = q[l].what
  PROVE  /\ Keeping(q, P) \in Seq(Entry)
         /\ Paired(Keeping(q, P), s2, h)
         /\ Mouse(q) = {} => Mouse(Keeping(q, P)) = {}
<1>1. PICK r : r = Keeping(q, P)
  OBVIOUS
<1>2. PICK f : /\ LeftBy(r, q, f)
               /\ \A k \in DOMAIN q : k \in P <=> \E i \in DOMAIN r : f[i] = k
  BY <1>1, KeepingProperties
<1>3. r \in Seq(Entry)
  BY <1>1, KeepingProperties
<1>4. /\ Mouse(q) \subseteq DOMAIN q /\ Mouse(r) \subseteq DOMAIN r
      /\ DOMAIN q \subseteq Nat /\ DOMAIN r \subseteq Nat
      /\ \A i \in DOMAIN q : i \in Mouse(q) <=> q[i].what \in MouseKinds
      /\ \A i \in DOMAIN r : i \in Mouse(r) <=> r[i].what \in MouseKinds
  BY <1>3, PositionsIn DEF Mouse
<1>5. \A i \in Mouse(r) : f[i] \in Mouse(q) \cap P /\ r[i] = q[f[i]]
  <2> TAKE i \in Mouse(r)
  <2>1. i \in DOMAIN r /\ f[i] \in DOMAIN q /\ r[i] = q[f[i]]
    BY <1>2, <1>4 DEF LeftBy
  <2> QED BY <1>2, <1>4, <2>1
<1>6. \A k \in Mouse(q) \cap P : \E i \in Mouse(r) : f[i] = k
  <2> TAKE k \in Mouse(q) \cap P
  <2>1. PICK i \in DOMAIN r : f[i] = k
    BY <1>2, <1>4
  <2>2. r[i] = q[k]
    BY <1>2, <2>1 DEF LeftBy
  <2> QED BY <1>4, <2>1, <2>2
<1>7. \A i, j \in Mouse(r) : (i < j <=> f[i] < f[j])
  <2> TAKE i, j \in Mouse(r)
  <2>1. i \in DOMAIN r /\ j \in DOMAIN r /\ i \in Nat /\ j \in Nat /\ f[i] \in Nat /\ f[j] \in Nat
    BY <1>4, <1>5
  <2>2. (i < j => f[i] < f[j]) /\ (j < i => f[j] < f[i])
    BY <1>2, <2>1 DEF LeftBy
  <2> QED BY <2>1, <2>2
<1>8. \A i \in Mouse(r) : i \in Nat /\ f[i] \in Nat
  BY <1>4, <1>5
<1>9. ASSUME NEW i \in Mouse(r), NEW j \in Mouse(r), i < j,
             \A k \in Mouse(r) : ~ (i < k /\ k < j)
      PROVE  r[i].what # r[j].what
  <2>1. f[i] < f[j]
    BY <1>7, <1>9
  <2>2. \A k \in Mouse(q) : ~ (f[i] < k /\ k < f[j])
    <3> SUFFICES ASSUME NEW k \in Mouse(q), f[i] < k, k < f[j] PROVE FALSE
      OBVIOUS
    <3>1. CASE k \in P
      <4>1. PICK l \in Mouse(r) : f[l] = k
        BY <1>6, <3>1
      <4> QED BY <1>7, <1>9, <4>1
    <3>2. CASE k \notin P
      <4>1. k < f[i]
        BY <1>5, <3>2
      <4> QED BY <1>4, <1>8, <4>1
    <3> QED BY <3>1, <3>2
  <2> QED BY <1>5, <2>1, <2>2 DEF Paired
<1>10. ASSUME NEW i \in Mouse(r), \A k \in Mouse(r) : i <= k PROVE r[i].what # s2
  <2>1. \A k \in Mouse(q) \cap P : f[i] <= k
    <3> TAKE k \in Mouse(q) \cap P
    <3>1. PICK l \in Mouse(r) : f[l] = k
      BY <1>6
    <3>2. i <= l
      BY <1>10
    <3>3. ~ (l < i)
      BY <1>8, <3>2
    <3>4. ~ (f[l] < f[i])
      BY <1>7, <3>3
    <3> QED BY <1>8, <3>1, <3>4
  <2>2. CASE Mouse(q) \subseteq P /\ s2 = s
    <3>1. \A k \in Mouse(q) : f[i] <= k
      BY <2>1, <2>2
    <3> QED BY <1>5, <2>2, <3>1 DEF Paired
  <2>3. CASE \E l \in Mouse(q) \ P : (\A g \in Mouse(q) \ P : g <= l) /\ s2 = q[l].what
    <3>1. PICK l \in Mouse(q) \ P : (\A g \in Mouse(q) \ P : g <= l) /\ s2 = q[l].what
      BY <2>3
    <3>2. l < f[i] /\ f[i] \in Mouse(q) /\ l \in Nat /\ f[i] \in Nat
      BY <1>4, <1>5, <3>1
    <3>3. \A k \in Mouse(q) : ~ (l < k /\ k < f[i])
      BY <1>4, <2>1, <3>1, <3>2
    <3>4. q[l].what # q[f[i]].what
      BY <3>1, <3>2, <3>3 DEF Paired
    <3> QED BY <1>5, <3>1, <3>4
  <2> QED BY <2>2, <2>3
<1>11. ASSUME NEW i \in Mouse(r), \A k \in Mouse(r) : k <= i
       PROVE  r[i].what = "mouseDown" <=> h
  <2>1. \A k \in Mouse(q) : k <= f[i]
    <3> TAKE k \in Mouse(q)
    <3>1. CASE k \in P
      <4>1. PICK l \in Mouse(r) : f[l] = k
        BY <1>6, <3>1
      <4>2. ~ (i < l)
        BY <1>8, <1>11
      <4>3. ~ (f[i] < f[l])
        BY <1>7, <4>2
      <4> QED BY <1>8, <4>1, <4>3
    <3>2. CASE k \notin P
      <4>1. k < f[i] /\ k \in Nat /\ f[i] \in Nat
        BY <1>4, <1>5, <3>2
      <4> QED BY <4>1
    <3> QED BY <3>1, <3>2
  <2> QED BY <1>5, <2>1 DEF Paired
<1>12. ASSUME Mouse(r) = {} PROVE s2 = "mouseDown" <=> h
  <2>1. Mouse(q) \cap P = {}
    BY <1>6, <1>12
  <2>2. CASE Mouse(q) \subseteq P /\ s2 = s
    BY <2>1, <2>2 DEF Paired
  <2>3. CASE \E l \in Mouse(q) \ P : (\A g \in Mouse(q) \ P : g <= l) /\ s2 = q[l].what
    <3>1. PICK l \in Mouse(q) : (\A g \in Mouse(q) : g <= l) /\ s2 = q[l].what
      BY <2>1, <2>3
    <3> QED BY <3>1 DEF Paired
  <2> QED BY <2>2, <2>3
<1>13. Paired(r, s2, h)
  BY <1>9, <1>10, <1>11, <1>12 DEF Paired
<1>14. Mouse(q) = {} => Mouse(r) = {}
  BY <1>5
<1> QED BY <1>1, <1>3, <1>13, <1>14

\* More presses than releases are queued only while the user holds the button: otherwise
\* each press has its own release, the transition queued next.
LEMMA UnmatchedIsHeld ==
  ASSUME NEW q \in Seq(Entry), NEW s, NEW h \in BOOLEAN, Paired(q, s, h), UnmatchedDown(q)
  PROVE  h
<1> SUFFICES ASSUME ~h PROVE FALSE
  OBVIOUS
<1> DEFINE D == Positions(q, {"mouseDown"})
           U == Positions(q, {"mouseUp"})
           Behind(i) == {k \in Mouse(q) : i < k}
           next == [i \in D |-> Earliest(Behind(i))]
<1>1. /\ D \subseteq DOMAIN q /\ U \subseteq DOMAIN q /\ Mouse(q) \subseteq DOMAIN q
      /\ DOMAIN q = 1..Len(q) /\ Len(q) \in Nat /\ Mouse(q) \subseteq Nat
      /\ \A i \in DOMAIN q : i \in D <=> q[i].what = "mouseDown"
      /\ \A i \in DOMAIN q : i \in U <=> q[i].what = "mouseUp"
      /\ \A i \in DOMAIN q : i \in Mouse(q) <=> q[i].what \in MouseKinds
  BY PositionsIn DEF Mouse
<1>2. D \subseteq Mouse(q) /\ Mouse(q) \subseteq D \cup U
  BY <1>1 DEF MouseKinds
<1>3. ASSUME NEW i \in D
      PROVE  /\ Earliest(Behind(i)) \in Mouse(q) /\ i < Earliest(Behind(i))
             /\ \A k \in Mouse(q) : i < k => Earliest(Behind(i)) <= k
             /\ Earliest(Behind(i)) \in U
  <2>1. Behind(i) # {}
    <3>1. PICK k \in Mouse(q) : ~ (k <= i)
      BY <1>1, <1>2 DEF Paired
    <3>2. i < k
      BY <1>1, <1>2, <3>1
    <3> QED BY <3>2
  <2>2. Behind(i) \subseteq Nat
    BY <1>1
  <2>3. PICK n : n = Earliest(Behind(i))
    OBVIOUS
  <2>4. n \in Behind(i) /\ \A k \in Behind(i) : n <= k
    <3> HIDE DEF Behind
    <3> QED BY <2>1, <2>2, <2>3, EarliestIs
  <2>5. \A k \in Mouse(q) : ~ (i < k /\ k < n)
    BY <1>1, <2>4
  <2>6. q[n].what # "mouseDown"
    <3>1. i \in Mouse(q) /\ q[i].what = "mouseDown"
      BY <1>1, <1>2
    <3>2. q[i].what # q[n].what
      BY <2>4, <2>5, <3>1 DEF Paired
    <3> QED BY <3>1, <3>2
  <2>7. n \in U
    BY <1>1, <1>2, <2>4, <2>6
  <2> QED BY <2>3, <2>4, <2>7
<1>4. IsFiniteSet(U) /\ Cardinality(U) \in Nat /\ Cardinality(D) \in Nat
  <2>1. IsFiniteSet(1..Len(q))
    BY <1>1, FS_Interval
  <2>2. U \subseteq 1..Len(q) /\ D \subseteq 1..Len(q)
    BY <1>1
  <2> HIDE DEF U, D
  <2>3. IsFiniteSet(U) /\ IsFiniteSet(D)
    BY <2>1, <2>2, FS_Subset
  <2> QED BY <2>3, FS_CardinalityType
<1>5. next \in Injection(D, U)
  <2>1. next \in [D -> U]
    BY <1>3
  <2>2. ASSUME NEW i \in D, NEW j \in D, next[i] = next[j] PROVE i = j
    <3>1. i \in Mouse(q) /\ j \in Mouse(q) /\ i \in Nat /\ j \in Nat
      BY <1>1, <1>2
    <3>2. next[i] = Earliest(Behind(i)) /\ next[j] = Earliest(Behind(j))
      OBVIOUS
    <3>3. PICK n : n = next[i]
      OBVIOUS
    <3>4. n \in U /\ n \in Nat /\ i < n /\ j < n
      BY <1>1, <1>3, <2>2, <3>2, <3>3
    <3>5. n # i /\ n # j /\ (i < j => n <= j) /\ (j < i => n <= i)
      BY <1>3, <2>2, <3>1, <3>2, <3>3, <3>4
    <3> QED BY <3>1, <3>4, <3>5
  <2> HIDE DEF next
  <2> QED BY <2>1, <2>2, Fun_IsInj
<1>6. Cardinality(D) <= Cardinality(U)
  <2> HIDE DEF D, U, next
  <2> QED BY <1>4, <1>5, FS_Injection
<1> QED BY <1>4, <1>6 DEF UnmatchedDown

---------------------------------------------------------------------------
(* The tick counter. *)

\* Remainders of numbers within one span of the counter.
LEMMA Wraps ==
  ASSUME NEW T \in Nat \ {0}, NEW a \in Int, 0 - T <= a, a < 2 * T
  PROVE  a % T = IF a < 0 THEN a + T ELSE IF a < T THEN a ELSE a - T
<1>1. CASE a < 0
  BY <1>1
<1>2. CASE 0 <= a /\ a < T
  BY <1>2
<1>3. CASE T <= a
  BY <1>3
<1> QED BY <1>1, <1>2, <1>3

\* Half a span is at most half of it.
LEMMA HalfSpan ==
  ASSUME NEW T \in Nat
  PROVE  T \div 2 \in Nat /\ 2 * (T \div 2) <= T
OBVIOUS

\* A repeat that is due later than now is not reached: the intervals are much shorter
\* than the counter's span.
LEMMA NotReached ==
  ASSUME NEW now \in 0..TickSpan - 1, NEW due \in 0..TickSpan - 1, NEW w \in Nat,
         TickSpan \in Nat, TickSpan > 2 * (w + 1), NEW d \in 1..w,
         (due - now) % TickSpan = d
  PROVE  ~ Reached(now, due)
<1>1. PICK half : half = TickSpan \div 2
  OBVIOUS
<1>2. half \in Nat /\ 2 * half <= TickSpan
  BY <1>1, HalfSpan
<1>3. (due - now) % TickSpan = IF due < now THEN due - now + TickSpan ELSE due - now
  <2>1. PICK a : a = due - now
    OBVIOUS
  <2>2. TickSpan \in Nat \ {0} /\ a \in Int /\ 0 - TickSpan <= a /\ a < 2 * TickSpan
    BY <2>1
  <2>3. a % TickSpan = IF a < 0 THEN a + TickSpan ELSE IF a < TickSpan THEN a ELSE a - TickSpan
    BY <2>2, Wraps
  <2> QED BY <2>1, <2>3
<1>4. (now - due) % TickSpan = IF now < due THEN now - due + TickSpan ELSE now - due
  <2>1. PICK a : a = now - due
    OBVIOUS
  <2>2. TickSpan \in Nat \ {0} /\ a \in Int /\ 0 - TickSpan <= a /\ a < 2 * TickSpan
    BY <2>1
  <2>3. a % TickSpan = IF a < 0 THEN a + TickSpan ELSE IF a < TickSpan THEN a ELSE a - TickSpan
    BY <2>2, Wraps
  <2> QED BY <2>1, <2>3
<1>5. PICK e : e = (now - due) % TickSpan
  OBVIOUS
<1>6. d = IF due < now THEN due - now + TickSpan ELSE due - now
  BY <1>3
<1>7. e = IF now < due THEN now - due + TickSpan ELSE now - due
  BY <1>4, <1>5
<1>8. e = TickSpan - d
  BY <1>6, <1>7
<1>9. ~ (e < half)
  BY <1>2, <1>8
<1> QED BY <1>1, <1>5, <1>9 DEF Reached

\* An interval added to the counter is that interval ahead of it.
LEMMA AheadBy ==
  ASSUME NEW now \in 0..TickSpan - 1, TickSpan \in Nat, NEW w \in Nat, TickSpan > 2 * (w + 1)
  PROVE  /\ (now + w) % TickSpan \in 0..TickSpan - 1
         /\ (((now + w) % TickSpan) - now) % TickSpan = w
<1>1. PICK due : due = (now + w) % TickSpan
  OBVIOUS
<1>2. due = IF now + w < TickSpan THEN now + w ELSE now + w - TickSpan
  <2>1. PICK a : a = now + w
    OBVIOUS
  <2>2. TickSpan \in Nat \ {0} /\ a \in Int /\ 0 - TickSpan <= a /\ a < 2 * TickSpan
    BY <2>1
  <2>3. a % TickSpan = IF a < 0 THEN a + TickSpan ELSE IF a < TickSpan THEN a ELSE a - TickSpan
    BY <2>2, Wraps
  <2> QED BY <1>1, <2>1, <2>3
<1>3. due \in 0..TickSpan - 1
  BY <1>2
<1>4. (due - now) % TickSpan = IF due < now THEN due - now + TickSpan ELSE due - now
  <2>1. PICK a : a = due - now
    OBVIOUS
  <2>2. TickSpan \in Nat \ {0} /\ a \in Int /\ 0 - TickSpan <= a /\ a < 2 * TickSpan
    BY <1>3, <2>1
  <2>3. a % TickSpan = IF a < 0 THEN a + TickSpan ELSE IF a < TickSpan THEN a ELSE a - TickSpan
    BY <2>2, Wraps
  <2> QED BY <1>3, <2>1, <2>3
<1>5. (due - now) % TickSpan = w
  BY <1>2, <1>3, <1>4
<1> QED BY <1>1, <1>3, <1>5

\* What is ahead of the counter is one less ahead after a tick.
LEMMA TickNears ==
  ASSUME NEW now \in 0..TickSpan - 1, NEW due \in 0..TickSpan - 1, TickSpan \in Nat,
         NEW d \in 1..TickSpan, (due - now) % TickSpan = d
  PROVE  /\ (now + 1) % TickSpan \in 0..TickSpan - 1
         /\ (due - ((now + 1) % TickSpan)) % TickSpan = d - 1
<1>1. PICK n : n = (now + 1) % TickSpan
  OBVIOUS
<1>2. n = IF now + 1 < TickSpan THEN now + 1 ELSE 0
  <2>1. /\ TickSpan \in Nat \ {0} /\ now + 1 \in Int /\ 0 - TickSpan <= now + 1
        /\ TickSpan = 1 \/ now + 1 < 2 * TickSpan
    OBVIOUS
  <2>2. CASE TickSpan # 1
    <3>1. PICK a : a = now + 1
      OBVIOUS
    <3>2. a % TickSpan = IF a < 0 THEN a + TickSpan ELSE IF a < TickSpan THEN a ELSE a - TickSpan
      BY <2>1, <2>2, <3>1, Wraps
    <3> QED BY <1>1, <2>1, <3>1, <3>2
  <2>3. CASE TickSpan = 1
    BY <1>1, <2>3
  <2> QED BY <2>2, <2>3
<1>3. n \in 0..TickSpan - 1
  BY <1>2
<1>4. (due - now) % TickSpan = IF due < now THEN due - now + TickSpan ELSE due - now
  <2>1. PICK a : a = due - now
    OBVIOUS
  <2>2. TickSpan \in Nat \ {0} /\ a \in Int /\ 0 - TickSpan <= a /\ a < 2 * TickSpan
    BY <2>1
  <2>3. a % TickSpan = IF a < 0 THEN a + TickSpan ELSE IF a < TickSpan THEN a ELSE a - TickSpan
    BY <2>2, Wraps
  <2> QED BY <2>1, <2>3
<1>5. (due - n) % TickSpan = IF due < n THEN due - n + TickSpan ELSE due - n
  <2>1. PICK a : a = due - n
    OBVIOUS
  <2>2. TickSpan \in Nat \ {0} /\ a \in Int /\ 0 - TickSpan <= a /\ a < 2 * TickSpan
    BY <1>3, <2>1
  <2>3. a % TickSpan = IF a < 0 THEN a + TickSpan ELSE IF a < TickSpan THEN a ELSE a - TickSpan
    BY <2>2, Wraps
  <2> QED BY <1>3, <2>1, <2>3
<1>6. PICK e : e = (due - n) % TickSpan
  OBVIOUS
<1>7. e = d - 1
  BY <1>2, <1>4, <1>5, <1>6
<1> QED BY <1>1, <1>3, <1>6, <1>7

---------------------------------------------------------------------------
(* The operators on the Event Manager's state keep Good. *)

\* With no event of the mouse queued, none is queued or taken.
Steady(r, s) == Mouse(s.queue) = {} => Mouse(r.queue) = {} /\ r.seen = s.seen

\* A step that leaves the repeat alone keeps Good if it keeps clicks paired.
LEMMA GoodStays ==
  ASSUME NEW s, NEW now, NEW h, Good(s, now, h), NEW r \in EventManager,
         r.paced = s.paced, r.repeat = s.repeat, r.since = s.since, r.first = s.first,
         LeavesClicksAlone => r.click = s.click /\ (r.button => h) /\ Paired(r.queue, r.seen, h)
  PROVE  Good(r, now, h)
BY DEF Good, Wait

\* An event that is not the mouse's is posted.
LEMMA PostedKeeps ==
  ASSUME NEW s, NEW now, NEW h, Good(s, now, h), NEW e \in Entry, e.what \notin MouseKinds
  PROVE  Good(Posted(s, e), now, h) /\ Steady(Posted(s, e), s)
<1>1. s.queue \in Seq(Entry) /\ s.seen \in MouseKinds
  BY DEF Good, EventManager, Entry
<1>2. PICK q : q = Append(s.queue, e)
  OBVIOUS
<1>3. q \in Seq(Entry)
  BY <1>1, <1>2
<1>4. PICK r : r = Posted(s, e)
  OBVIOUS
<1>5. /\ r \in EventManager /\ r.queue = q /\ r.seen = s.seen /\ r.button = s.button
      /\ r.click = s.click /\ r.paced = s.paced /\ r.repeat = s.repeat /\ r.since = s.since
      /\ r.first = s.first
  BY <1>2, <1>3, <1>4 DEF Posted, Good, EventManager, Entry
<1>6. Mouse(q) = Mouse(s.queue)
  BY <1>1, <1>2 DEF Mouse, Positions
<1>7. LeavesClicksAlone => Paired(q, s.seen, h)
  BY <1>1, <1>2, PairedAppend DEF Good
<1>8. LeavesClicksAlone => (r.button => h)
  BY <1>5 DEF Good
<1>9. Good(r, now, h)
  BY <1>5, <1>7, <1>8, GoodStays
<1> QED BY <1>4, <1>5, <1>6, <1>9 DEF Steady

\* The event at i is taken; of the mouse's it is the oldest one.
LEMMA RemovedKeeps ==
  ASSUME NEW s, NEW now, NEW h, Good(s, now, h), NEW i \in DOMAIN s.queue,
         LeavesClicksAlone /\ i \in Mouse(s.queue) => \A k \in Mouse(s.queue) : i <= k
  PROVE  /\ Good(Removed(s, i), now, h) /\ Steady(Removed(s, i), s)
         /\ Removed(s, i).button = s.button
         /\ Removed(s, i).queue = Keeping(s.queue, DOMAIN s.queue \ {i})
         /\ Removed(s, i).seen = IF s.queue[i].what \in MouseKinds THEN s.queue[i].what ELSE s.seen
<1> DEFINE P == DOMAIN s.queue \ {i}
<1>1. s.queue \in Seq(Entry) /\ s.seen \in MouseKinds
  BY DEF Good, EventManager, Entry
<1>2. PICK q : q = Keeping(s.queue, P)
  OBVIOUS
<1>3. PICK seen : seen = IF s.queue[i].what \in MouseKinds THEN s.queue[i].what ELSE s.seen
  OBVIOUS
<1>4. q \in Seq(Entry)
  <2> HIDE DEF P
  <2> QED BY <1>1, <1>2, KeepingProperties
<1>5. seen \in MouseKinds
  BY <1>1, <1>3
<1>6. /\ Mouse(s.queue) \subseteq DOMAIN s.queue /\ DOMAIN s.queue \subseteq Nat
      /\ \A k \in DOMAIN s.queue : k \in Mouse(s.queue) <=> s.queue[k].what \in MouseKinds
  BY <1>1, PositionsIn DEF Mouse
<1>7. Mouse(s.queue) = {} => Mouse(q) = {}
  <2>1. ASSUME NEW k \in DOMAIN q PROVE q[k] \in Entries(s.queue)
    <3> HIDE DEF P
    <3> QED BY <1>1, <1>2, KeepingProperties DEF LeftBy, Entries
  <2>2. \A k \in Mouse(q) : k \in DOMAIN q /\ q[k].what \in MouseKinds
    BY <1>4, PositionsIn DEF Mouse
  <2> QED BY <1>6, <2>1, <2>2 DEF Entries
<1>8. ASSUME LeavesClicksAlone PROVE Paired(q, seen, h)
  <2>1. Paired(s.queue, s.seen, h)
    BY <1>8 DEF Good
  <2>2. \A g \in Mouse(s.queue) \ P, k \in Mouse(s.queue) \cap P : g < k
    BY <1>6, <1>8
  <2>3. \/ Mouse(s.queue) \subseteq P /\ seen = s.seen
        \/ \E l \in Mouse(s.queue) \ P :
             (\A g \in Mouse(s.queue) \ P : g <= l) /\ seen = s.queue[l].what
    BY <1>3, <1>6
  <2> HIDE DEF P
  <2> QED BY <1>1, <1>2, <2>1, <2>2, <2>3, PairedKeeping
<1>9. PICK r : r = Removed(s, i)
  OBVIOUS
<1>10. /\ r \in EventManager /\ r.queue = q /\ r.seen = seen /\ r.button = s.button
       /\ r.click = s.click /\ r.paced = s.paced /\ r.repeat = s.repeat /\ r.since = s.since
       /\ r.first = s.first
  BY <1>2, <1>3, <1>4, <1>5, <1>9 DEF Removed, Good, EventManager, Entry
<1>11. Good(r, now, h)
  <2>1. LeavesClicksAlone => (r.button => h)
    BY <1>10 DEF Good
  <2> QED BY <1>8, <1>10, <2>1, GoodStays
<1>12. Mouse(s.queue) = {} => seen = s.seen
  BY <1>3, <1>6
<1> QED BY <1>2, <1>3, <1>7, <1>9, <1>10, <1>11, <1>12 DEF Steady

\* The same for an event that a poll takes.
LEMMA DequeuedKeeps ==
  ASSUME NEW s, NEW now, NEW h, Good(s, now, h), NEW i \in DOMAIN s.queue,
         LeavesClicksAlone /\ i \in Mouse(s.queue) => \A k \in Mouse(s.queue) : i <= k
  PROVE  Good(Dequeued(s, i), now, h) /\ Steady(Dequeued(s, i), s)
<1>1. PICK t : t = Removed(s, i)
  OBVIOUS
<1>2. Good(t, now, h) /\ Steady(t, s)
  BY <1>1, RemovedKeeps
<1>3. CASE s.queue[i].what = "mouseUp"
  <2>1. PICK r : r = [t EXCEPT !.button = FALSE]
    OBVIOUS
  <2>2. Dequeued(s, i) = r
    BY <1>1, <1>3, <2>1 DEF Dequeued
  <2>3. /\ r \in EventManager /\ r.queue = t.queue /\ r.seen = t.seen /\ ~ r.button
        /\ r.click = t.click /\ r.paced = t.paced /\ r.repeat = t.repeat /\ r.since = t.since
        /\ r.first = t.first
    BY <1>2, <2>1 DEF Good, EventManager
  <2>4. LeavesClicksAlone => Paired(r.queue, r.seen, h)
    BY <1>2, <2>3 DEF Good
  <2>5. Good(r, now, h)
    BY <1>2, <2>3, <2>4, GoodStays
  <2> QED BY <1>2, <2>2, <2>3, <2>5 DEF Steady
<1>4. CASE s.queue[i].what # "mouseUp"
  BY <1>1, <1>2, <1>4 DEF Dequeued
<1> QED BY <1>3, <1>4

\* The same for an event that a dialog left on the screen takes.
LEMMA RetainedKeeps ==
  ASSUME NEW s, NEW now, NEW h, Good(s, now, h), NEW i \in DOMAIN s.queue,
         LeavesClicksAlone /\ i \in Mouse(s.queue) => \A k \in Mouse(s.queue) : i <= k
  PROVE  Good(Retained(s, i), now, h) /\ Steady(Retained(s, i), s) /\ Retained(s, i).took
<1>1. PICK t : t = Removed(s, i)
  OBVIOUS
<1>2. Good(t, now, h) /\ Steady(t, s)
  BY <1>1, RemovedKeeps
<1>3. PICK d : d = IF s.queue[i].what = "mouseDown" THEN "pressed"
                   ELSE IF session.buttons THEN "gone" ELSE "left"
  OBVIOUS
<1>4. PICK r : r = [t EXCEPT !.took = TRUE, !.dialog = d]
  OBVIOUS
<1>5. Retained(s, i) = r
  BY <1>1, <1>3, <1>4 DEF Retained
<1>6. d \in {"gone", "left", "pressed"}
  BY <1>3
<1>7. /\ r \in EventManager /\ r.queue = t.queue /\ r.seen = t.seen /\ r.button = t.button
      /\ r.click = t.click /\ r.paced = t.paced /\ r.repeat = t.repeat /\ r.since = t.since
      /\ r.first = t.first /\ r.took
  BY <1>2, <1>4, <1>6 DEF Good, EventManager
<1>8. LeavesClicksAlone => (r.button => h) /\ Paired(r.queue, r.seen, h)
  BY <1>2, <1>7 DEF Good
<1>9. Good(r, now, h)
  BY <1>2, <1>7, <1>8, GoodStays
<1> QED BY <1>2, <1>5, <1>7, <1>9 DEF Steady

\* The repeat that is due comes no sooner than its threshold or rate after the last event.
LEMMA AutoKeyKeeps ==
  ASSUME NEW s, NEW now \in 0..TickSpan - 1, NEW h, Good(s, now, h), RepeatDue(s, now)
  PROVE  LET r == AutoKeyPosted([s EXCEPT !.repeat.due = (now + Rate) % TickSpan])
         IN  /\ Good(r, now, h) /\ Steady(r, s)
             /\ r.queue = Append(s.queue, Event("autoKey", s.repeat.key))
<1>1. /\ TickSpan \in Nat /\ Threshold \in Nat /\ Rate \in Nat
      /\ TickSpan > 2 * (Threshold + 1) /\ TickSpan > 2 * (Rate + 1)
  BY InputAssumption
<1>2. /\ s \in EventManager /\ s.queue \in Seq(Entry) /\ s.repeat.due \in 0..TickSpan - 1
      /\ s.repeat.key \in Keys /\ s.since \in Nat /\ s.first \in BOOLEAN
  BY DEF RepeatDue, Good, EventManager, Entry
<1>3. s.since >= Wait(s)
  <2> SUFFICES ASSUME s.since < Wait(s) PROVE FALSE
    BY <1>1, <1>2 DEF Wait
  <2>1. (s.repeat.due - now) % TickSpan = Wait(s) - s.since
    BY DEF RepeatDue, Good
  <2>2. PICK w : w = Wait(s)
    OBVIOUS
  <2>3. w \in Nat /\ TickSpan > 2 * (w + 1) /\ w - s.since \in 1..w
    BY <1>1, <1>2, <2>2 DEF Wait
  <2>4. PICK d : d = w - s.since
    OBVIOUS
  <2>5. ~ Reached(now, s.repeat.due)
    BY <1>1, <1>2, <2>1, <2>2, <2>3, <2>4, NotReached
  <2> QED BY <2>5 DEF RepeatDue
<1>4. PICK due : due = (now + Rate) % TickSpan
  OBVIOUS
<1>5. due \in 0..TickSpan - 1 /\ (due - now) % TickSpan = Rate
  BY <1>1, <1>4, AheadBy
<1>6. PICK e : e = Event("autoKey", s.repeat.key)
  OBVIOUS
<1>7. e \in Entry /\ e.what = "autoKey"
  BY <1>2, <1>6 DEF Event, Entry, Kinds, LowLevel, KeyKinds
<1>8. PICK q : q = Append(s.queue, e)
  OBVIOUS
<1>9. q \in Seq(Entry) /\ Mouse(q) = Mouse(s.queue)
  BY <1>2, <1>7, <1>8 DEF Mouse, Positions, MouseKinds
<1>10. PICK t : t = [s EXCEPT !.repeat.due = due]
  OBVIOUS
<1>11. /\ t \in EventManager /\ t.queue = s.queue /\ t.seen = s.seen /\ t.button = s.button
       /\ t.click = s.click /\ t.paced = s.paced /\ t.since = s.since /\ t.first = s.first
       /\ t.down = s.down /\ t.repeat.key = s.repeat.key /\ t.repeat.due = due
  BY <1>2, <1>5, <1>10 DEF EventManager
<1>12. PICK r : r = AutoKeyPosted(t)
  OBVIOUS
<1>13. /\ r.queue = q /\ r.seen = s.seen /\ r.button = s.button /\ r.click = s.click
       /\ r.since = 0 /\ r.first = FALSE /\ r.repeat = t.repeat
       /\ r.paced = (s.paced /\ s.since >= Wait(s) /\ s.repeat.key \in s.down)
  BY <1>6, <1>8, <1>11, <1>12 DEF AutoKeyPosted, Posted, Wait, EventManager
<1>14. r.paced
  BY <1>3, <1>13 DEF RepeatDue, Good
<1>15. r \in EventManager
  <2>1. 0 \in 0..Threshold + Rate
    BY <1>1
  <2> QED BY <1>6, <1>8, <1>9, <1>11, <1>12, <2>1, ZenonT(30) DEF AutoKeyPosted, Posted, EventManager, Entry
<1>16. r.repeat.due = due /\ Wait(r) = Rate
  BY <1>11, <1>13 DEF Wait
<1>17. LeavesClicksAlone => ~ r.click /\ (r.button => h) /\ Paired(r.queue, r.seen, h)
  <2>1. "autoKey" \notin MouseKinds
    BY DEF MouseKinds
  <2> QED BY <1>2, <1>7, <1>8, <1>13, <2>1, PairedAppend DEF Good
<1>18. Good(r, now, h)
  BY <1>1, <1>5, <1>13, <1>14, <1>15, <1>16, <1>17 DEF Good
<1>19. Steady(r, s)
  BY <1>9, <1>13 DEF Steady
<1> QED BY <1>4, <1>6, <1>8, <1>10, <1>12, <1>13, <1>18, <1>19

\* Nothing but an automatic repeat is queued.
OnlyRepeats(r, s) ==
  r.queue = s.queue \/ \E k \in Keys : r.queue = Append(s.queue, Event("autoKey", k))

\* Looking whether a repeat is due.
LEMMA WithAutoKeyKeeps ==
  ASSUME NEW s, NEW now \in 0..TickSpan - 1, NEW h, Good(s, now, h), NEW mask
  PROVE  LET r == WithAutoKey(s, now, mask)
         IN  Good(r, now, h) /\ Steady(r, s) /\ OnlyRepeats(r, s)
<1>1. CASE WithAutoKey(s, now, mask) = s
  BY <1>1 DEF Steady, OnlyRepeats
<1>2. CASE WithAutoKey(s, now, mask) = [s EXCEPT !.repeat = NoRepeat]
  <2>1. PICK r : r = [s EXCEPT !.repeat = NoRepeat]
    OBVIOUS
  <2>2. 0 \in 0..TickSpan - 1
    BY InputAssumption
  <2>3. /\ r \in EventManager /\ r.queue = s.queue /\ r.seen = s.seen /\ r.button = s.button
        /\ r.click = s.click /\ r.paced = s.paced /\ r.repeat.key = NoKey
    BY <2>1, <2>2 DEF Good, EventManager, NoRepeat
  <2>4. Good(r, now, h)
    BY <2>3 DEF Good
  <2> QED BY <1>2, <2>1, <2>3, <2>4 DEF Steady, OnlyRepeats
<1>3. CASE RepeatDue(s, now) /\ WithAutoKey(s, now, mask)
             = AutoKeyPosted([s EXCEPT !.repeat.due = (now + Rate) % TickSpan])
  <2>1. s.repeat.key \in Keys
    BY <1>3 DEF RepeatDue, Good, EventManager
  <2> QED BY <1>3, <2>1, AutoKeyKeeps DEF OnlyRepeats
<1> QED BY <1>1, <1>2, <1>3 DEF WithAutoKey

\* Repeats queue nothing a mask without them designates.
LEMMA RepeatsUnseen ==
  ASSUME NEW s, NEW r, OnlyRepeats(r, s), s.queue \in Seq(Entry), NEW kinds, "autoKey" \notin kinds,
         Positions(s.queue, kinds) = {}
  PROVE  Positions(r.queue, kinds) = {}
<1>1. CASE r.queue = s.queue
  BY <1>1
<1>2. CASE \E k \in Keys : r.queue = Append(s.queue, Event("autoKey", k))
  <2>1. PICK k \in Keys : r.queue = Append(s.queue, Event("autoKey", k))
    BY <1>2
  <2>2. PICK e : e = Event("autoKey", k)
    OBVIOUS
  <2>3. e.what = "autoKey"
    BY <2>2 DEF Event
  <2> QED BY <2>1, <2>2, <2>3 DEF Positions
<1> QED BY <1>1, <1>2 DEF OnlyRepeats

\* A tick.
LEMMA TickedKeeps ==
  ASSUME NEW h, tick \in 0..TickSpan - 1, Good(em, tick, h)
  PROVE  Good(Ticked(em), After(1), h) /\ Steady(Ticked(em), em) /\ OnlyRepeats(Ticked(em), em)
<1>1. /\ TickSpan \in Nat /\ Threshold \in Nat /\ Rate \in Nat
      /\ TickSpan > 2 * (Threshold + 1) /\ TickSpan > 2 * (Rate + 1)
  BY InputAssumption
<1>2. PICK s : s = [em EXCEPT !.since = IF @ < Threshold + Rate THEN @ + 1 ELSE @]
  OBVIOUS
<1>3. em \in EventManager /\ em.since \in 0..Threshold + Rate
      /\ em.repeat.due \in 0..TickSpan - 1 /\ em.first \in BOOLEAN
  BY DEF Good, EventManager
<1>4. PICK n : n = IF em.since < Threshold + Rate THEN em.since + 1 ELSE em.since
  OBVIOUS
<1>5. n \in 0..Threshold + Rate
  BY <1>1, <1>3, <1>4
<1>6. /\ s \in EventManager /\ s.queue = em.queue /\ s.seen = em.seen /\ s.button = em.button
      /\ s.click = em.click /\ s.paced = em.paced /\ s.repeat = em.repeat /\ s.since = n
      /\ s.first = em.first
  BY <1>2, <1>3, <1>4, <1>5 DEF EventManager
<1>7. PICK now : now = After(1)
  OBVIOUS
<1>8. now \in 0..TickSpan - 1
  <2>1. now = (tick + 1) % TickSpan
    BY <1>7 DEF After
  <2> QED BY <1>1, <2>1
<1>9. ASSUME s.repeat.key # NoKey, s.since < Wait(s)
      PROVE  (s.repeat.due - now) % TickSpan = Wait(s) - s.since
  <2>1. PICK w : w = Wait(s)
    OBVIOUS
  <2>2. w \in Nat /\ w <= Threshold + Rate /\ w = Wait(em) /\ w < TickSpan
    BY <1>1, <1>3, <1>6, <2>1 DEF Wait
  <2>3. n = em.since + 1 /\ em.since < w /\ n < w
    BY <1>1, <1>3, <1>4, <1>6, <1>9, <2>1, <2>2
  <2>4. (em.repeat.due - tick) % TickSpan = w - em.since
    BY <1>6, <1>9, <2>2, <2>3 DEF Good
  <2>5. PICK d : d = w - em.since
    OBVIOUS
  <2>6. d \in 1..TickSpan
    BY <1>1, <1>3, <2>2, <2>3, <2>5
  <2>7. (em.repeat.due - ((tick + 1) % TickSpan)) % TickSpan = d - 1
    BY <1>1, <1>3, <2>4, <2>5, <2>6, TickNears
  <2>8. d - 1 = w - n
    BY <1>3, <2>2, <2>3, <2>5
  <2> QED BY <1>6, <1>7, <2>1, <2>7, <2>8 DEF After
<1>10. Good(s, now, h)
  BY <1>6, <1>9 DEF Good
<1>11. PICK r : r = WithAutoKey(s, now, sysMask)
  OBVIOUS
<1>12. Good(r, now, h) /\ Steady(r, s) /\ OnlyRepeats(r, s)
  BY <1>8, <1>10, <1>11, WithAutoKeyKeeps
<1>13. Ticked(em) = r
  BY <1>2, <1>7, <1>11 DEF Ticked
<1> QED BY <1>6, <1>7, <1>12, <1>13 DEF Steady, OnlyRepeats

\* A guest that leaves clicks alone selects both kinds of transition or neither.
LEMMA MasksPair ==
  ASSUME session \in Sessions, NEW mask \in session.masks
  PROVE  /\ mask \subseteq Kinds
         /\ LeavesClicksAlone => MouseKinds \subseteq mask \/ MouseKinds \cap mask = {}
<1>1. session \in Session
  BY InputAssumption
<1>2. mask \in SUBSET Kinds
  BY <1>1 DEF Session
<1> QED BY <1>2, InputAssumption DEF LeavesClicksAlone

\* What every poll does before it selects.
LEMMA BeforePollKeeps ==
  ASSUME NEW s, NEW h, tick \in 0..TickSpan - 1, Good(s, tick, h), NEW mask
  PROVE  Good(BeforePoll(s, mask), tick, h) /\ Steady(BeforePoll(s, mask), s)
<1>1. s.queue \in Seq(Entry)
  BY DEF Good, EventManager, Entry
<1>2. PICK e : e = Event("highLevel", NoKey)
  OBVIOUS
<1>3. e \in Entry /\ e.what \notin MouseKinds
  BY <1>2 DEF Event, Entry, Kinds, MouseKinds
<1>4. PICK launch : launch = IF "highLevel" \in mask /\ ~s.launched
                THEN [s EXCEPT !.queue = <<Event("highLevel", NoKey)>> \o @, !.launched = TRUE]
                ELSE s
  OBVIOUS
<1>5. Good(launch, tick, h) /\ Steady(launch, s)
  <2>1. CASE launch = s
    BY <2>1 DEF Steady
  <2>2. CASE launch # s
    <3>1. PICK q : q = <<e>> \o s.queue
      OBVIOUS
    <3>2. launch = [s EXCEPT !.queue = <<e>> \o s.queue, !.launched = TRUE]
      BY <1>2, <1>4, <2>2 DEF Good, EventManager
    <3>3. q \in Seq(Entry) /\ (Mouse(s.queue) = {} => Mouse(q) = {})
      <4>1. q \in Seq(Entry)
        BY <1>1, <1>3, <3>1
      <4>2. \A i \in 1..Len(q) : i # 1 => i - 1 \in 1..Len(s.queue) /\ q[i] = s.queue[i - 1]
        BY <1>1, <1>3, <3>1
      <4>3. q[1] = e
        BY <1>1, <1>3, <3>1
      <4> QED BY <1>3, <4>1, <4>2, <4>3 DEF Mouse, Positions
    <3>4. LeavesClicksAlone => Paired(q, s.seen, h)
      BY <1>1, <1>3, <3>1, PairedPrepend DEF Good
    <3>5. /\ launch \in EventManager /\ launch.queue = q /\ launch.seen = s.seen
          /\ launch.button = s.button /\ launch.click = s.click /\ launch.paced = s.paced
          /\ launch.repeat = s.repeat /\ launch.since = s.since /\ launch.first = s.first
      BY <3>1, <3>2, <3>3 DEF Good, EventManager, Entry
    <3>6. LeavesClicksAlone => (launch.button => h)
      BY <3>5 DEF Good
    <3>7. Good(launch, tick, h)
      BY <3>4, <3>5, <3>6, GoodStays
    <3> QED BY <3>3, <3>5, <3>7 DEF Steady
  <2> QED BY <2>1, <2>2
<1>6. CASE BeforePoll(s, mask) = launch
  BY <1>5, <1>6
<1>7. CASE BeforePoll(s, mask) = WithAutoKey(launch, tick, sysMask)
  <2>1. PICK r : r = WithAutoKey(launch, tick, sysMask)
    OBVIOUS
  <2>2. Good(r, tick, h) /\ Steady(r, launch)
    BY <1>5, <2>1, WithAutoKeyKeeps
  <2> QED BY <1>5, <1>7, <2>1, <2>2 DEF Steady
<1> QED BY <1>4, <1>6, <1>7 DEF BeforePoll

\* The latched click is presented.
LEMMA ShowClickKeeps ==
  ASSUME NEW s, NEW h, tick \in 0..TickSpan - 1, Good(s, tick, h)
  PROVE  Good(ShowClick(s), tick, h) /\ Steady(ShowClick(s), s)
<1>1. PICK r : r = ShowClick(s)
  OBVIOUS
<1>2. tick \in 0..TickSpan
  BY InputAssumption
<1>3. /\ r \in EventManager /\ r.queue = s.queue /\ r.seen = s.seen /\ r.button = s.button
      /\ r.click = s.click /\ r.paced = s.paced /\ r.repeat = s.repeat /\ r.since = s.since
      /\ r.first = s.first
  BY <1>1, <1>2 DEF ShowClick, Good, EventManager
<1>4. LeavesClicksAlone => (r.button => h) /\ Paired(r.queue, r.seen, h)
  BY <1>3 DEF Good
<1>5. Good(r, tick, h)
  BY <1>3, <1>4, GoodStays
<1> QED BY <1>1, <1>3, <1>5 DEF Steady

\* A poll of the Toolbox, and that one which returns nothing leaves nothing the mask selects,
\* unless a dialog left on the screen took what was selected.
LEMMA ToolboxPollKeeps ==
  ASSUME NEW s0, NEW h, tick \in 0..TickSpan - 1, Good(s0, tick, h),
         session \in Sessions, NEW mask \in session.masks
  PROVE  /\ Good(ToolboxPoll(s0, mask).state, tick, h)
         /\ Steady(ToolboxPoll(s0, mask).state, s0)
         /\ ~ ToolboxPoll(s0, mask).got /\ ~ ToolboxPoll(s0, mask).state.took
              => Positions(ToolboxPoll(s0, mask).state.queue, mask \ {"update"}) = {}
<1>1. PICK s : s = [BeforePoll(s0, mask) EXCEPT !.took = FALSE]
  OBVIOUS
<1>2. Good(s, tick, h) /\ Steady(s, s0)
  <2>1. PICK b : b = BeforePoll(s0, mask)
    OBVIOUS
  <2>2. Good(b, tick, h) /\ Steady(b, s0)
    BY <2>1, BeforePollKeeps
  <2>3. /\ s \in EventManager /\ s.queue = b.queue /\ s.seen = b.seen /\ s.button = b.button
        /\ s.click = b.click /\ s.paced = b.paced /\ s.repeat = b.repeat /\ s.since = b.since
        /\ s.first = b.first
    BY <1>1, <2>1, <2>2 DEF Good, EventManager
  <2>4. LeavesClicksAlone => (s.button => h) /\ Paired(s.queue, s.seen, h)
    BY <2>2, <2>3 DEF Good
  <2>5. Good(s, tick, h)
    BY <2>2, <2>3, <2>4, GoodStays
  <2> QED BY <2>2, <2>3, <2>5 DEF Steady
<1>3. PICK i : i = ToolboxMatch(s.queue, mask)
  OBVIOUS
<1>4. s.queue \in Seq(Entry)
  BY <1>2 DEF Good, EventManager, Entry
<1>5. CASE ClickAvailable(s, mask) /\ (i = 0 \/ ClickWins(s, i))
  <2>1. ToolboxPoll(s0, mask) = [state |-> ShowClick(s), got |-> TRUE]
    BY <1>1, <1>3, <1>5 DEF ToolboxPoll
  <2>2. PICK r : r = ShowClick(s)
    OBVIOUS
  <2>3. Good(r, tick, h) /\ Steady(r, s)
    BY <1>2, <2>2, ShowClickKeeps
  <2> QED BY <1>2, <2>1, <2>2, <2>3 DEF Steady
<1>6. CASE ~ (ClickAvailable(s, mask) /\ (i = 0 \/ ClickWins(s, i))) /\ i # 0
  <2>1. \/ ToolboxPoll(s0, mask) = [state |-> Dequeued(s, i), got |-> TRUE]
        \/ ToolboxPoll(s0, mask) = [state |-> Retained(s, i), got |-> FALSE]
    BY <1>1, <1>3, <1>6 DEF ToolboxPoll
  <2>2. /\ i \in Positions(s.queue, mask \ {"update"})
        /\ MouseKinds \subseteq mask /\ i \in Mouse(s.queue)
             => \A k \in Mouse(s.queue) : i <= k
    BY <1>3, <1>4, <1>6, ToolboxMatchIs
  <2>3. i \in DOMAIN s.queue /\ s.queue[i].what \in mask
    BY <1>4, <2>2, PositionsIn
  <2>4. i \in Mouse(s.queue) => s.queue[i].what \in MouseKinds
    BY DEF Mouse, Positions
  <2>5. LeavesClicksAlone /\ i \in Mouse(s.queue) => \A k \in Mouse(s.queue) : i <= k
    BY <2>2, <2>3, <2>4, MasksPair
  <2>6. CASE ToolboxPoll(s0, mask) = [state |-> Dequeued(s, i), got |-> TRUE]
    <3>1. PICK r : r = Dequeued(s, i)
      OBVIOUS
    <3>2. Good(r, tick, h) /\ Steady(r, s)
      BY <1>2, <2>3, <2>5, <3>1, DequeuedKeeps
    <3> QED BY <1>2, <2>6, <3>1, <3>2 DEF Steady
  <2>7. CASE ToolboxPoll(s0, mask) = [state |-> Retained(s, i), got |-> FALSE]
    <3>1. PICK r : r = Retained(s, i)
      OBVIOUS
    <3>2. Good(r, tick, h) /\ Steady(r, s) /\ r.took
      BY <1>2, <2>3, <2>5, <3>1, RetainedKeeps
    <3> QED BY <1>2, <2>7, <3>1, <3>2 DEF Steady
  <2> QED BY <2>1, <2>6, <2>7
<1>7. CASE ~ (ClickAvailable(s, mask) /\ (i = 0 \/ ClickWins(s, i))) /\ i = 0
  <2>1. ToolboxPoll(s0, mask) = [state |-> s, got |-> FALSE]
    BY <1>1, <1>3, <1>7 DEF ToolboxPoll
  <2>2. Positions(s.queue, mask \ {"update"}) = {}
    <3> SUFFICES ASSUME Positions(s.queue, mask \ {"update"}) # {} PROVE i # 0
      BY <1>7
    <3> DEFINE S == Positions(s.queue, mask \ {"update"})
               Best(k) == \A j \in S : \/ Priority(s.queue[k].what) < Priority(s.queue[j].what)
                                       \/ Priority(s.queue[k].what) = Priority(s.queue[j].what)
                                            /\ k <= j
    <3>1. \E k \in S : Best(k)
      BY <1>4, BestExists
    <3>2. i = CHOOSE k \in S : Best(k)
      BY <1>3 DEF ToolboxMatch
    <3>3. i \in S
      <4> HIDE DEF S, Best
      <4> QED BY <3>1, <3>2
    <3>4. S \subseteq 1..Len(s.queue) /\ Len(s.queue) \in Nat
      BY <1>4 DEF Positions
    <3>5. i # 0
      <4> HIDE DEF S
      <4> QED BY <3>3, <3>4
    <3> QED BY <3>5
  <2>3. ToolboxPoll(s0, mask).state = s
    BY <2>1
  <2> QED BY <1>2, <2>2, <2>3
<1> QED BY <1>5, <1>6, <1>7

\* GetOSEvent.
LEMMA OSPollKeeps ==
  ASSUME NEW s0, NEW h, tick \in 0..TickSpan - 1, Good(s0, tick, h),
         session \in Sessions, NEW mask \in session.masks
  PROVE  Good(OSPoll(s0, mask), tick, h) /\ Steady(OSPoll(s0, mask), s0)
<1>1. PICK s : s = IF "autoKey" \in mask THEN WithAutoKey(s0, tick, sysMask) ELSE s0
  OBVIOUS
<1>2. Good(s, tick, h) /\ Steady(s, s0)
  <2>1. CASE "autoKey" \in mask
    BY <1>1, <2>1, WithAutoKeyKeeps
  <2>2. CASE "autoKey" \notin mask
    BY <1>1, <2>2 DEF Steady
  <2> QED BY <2>1, <2>2
<1>3. PICK i : i = OSMatch(s.queue, mask)
  OBVIOUS
<1>4. s.queue \in Seq(Entry)
  BY <1>2 DEF Good, EventManager, Entry
<1>5. PICK r : r = OSPoll(s0, mask)
  OBVIOUS
<1>6. CASE r = s
  BY <1>2, <1>5, <1>6
<1>7. CASE r = ShowClick(s)
  <2>1. Good(r, tick, h) /\ Steady(r, s)
    BY <1>2, <1>7, ShowClickKeeps
  <2> QED BY <1>2, <1>5, <2>1 DEF Steady
<1>8. CASE r = Dequeued(s, i) /\ i # 0
  <2>1. /\ i \in Positions(s.queue, mask \cap LowLevel)
        /\ MouseKinds \subseteq mask => \A k \in Mouse(s.queue) : i <= k
    BY <1>3, <1>4, <1>8, OSMatchIs
  <2>2. i \in DOMAIN s.queue /\ s.queue[i].what \in mask
    BY <1>4, <2>1, PositionsIn
  <2>3. i \in Mouse(s.queue) => s.queue[i].what \in MouseKinds
    BY DEF Mouse, Positions
  <2>4. LeavesClicksAlone /\ i \in Mouse(s.queue) => \A k \in Mouse(s.queue) : i <= k
    BY <2>1, <2>2, <2>3, MasksPair
  <2>5. Good(r, tick, h) /\ Steady(r, s)
    BY <1>2, <1>8, <2>2, <2>4, DequeuedKeeps
  <2> QED BY <1>2, <1>5, <2>5 DEF Steady
<1> QED BY <1>1, <1>3, <1>5, <1>6, <1>7, <1>8 DEF OSPoll

\* A sleeping guest is given what it waits for; a wait that goes on waits for nothing queued.
LEMMA DeliveryKeeps ==
  ASSUME NEW s, NEW h, tick \in 0..TickSpan - 1, Good(s, tick, h), session \in Sessions,
         asleep.record => asleep.mask \in session.masks
  PROVE  /\ Good(Delivery(s).state, tick, h) /\ Steady(Delivery(s).state, s)
         /\ Delivery(s).sleep \in {asleep, Awake}
         /\ ~ Delivery(s).over =>
              /\ Delivery(s).sleep = asleep
              /\ asleep.record /\ ~ Delivery(s).state.took
                   => Positions(Delivery(s).state.queue, asleep.mask \ {"update"}) = {}
<1>1. CASE ~ asleep.record
  <2>1. /\ Delivery(s).state = s
        /\ \/ Delivery(s).sleep = Awake /\ Delivery(s).over
           \/ Delivery(s).sleep = asleep
    BY <1>1 DEF Delivery
  <2> QED BY <1>1, <2>1 DEF Steady
<1>2. CASE asleep.record
  <2>1. PICK poll : poll = ToolboxPoll(s, asleep.mask)
    OBVIOUS
  <2>2. /\ Good(poll.state, tick, h) /\ Steady(poll.state, s)
        /\ ~ poll.got /\ ~ poll.state.took
             => Positions(poll.state.queue, asleep.mask \ {"update"}) = {}
    BY <1>2, <2>1, ToolboxPollKeeps
  <2>3. PICK got : got = (poll.got \/ MouseMoved(poll.state, asleep.mask, asleep.region))
    OBVIOUS
  <2>4. Delivery(s) = [state |-> poll.state, sleep |-> IF got THEN Awake ELSE asleep,
                       over |-> got]
    BY <1>2, <2>1, <2>3 DEF Delivery
  <2>5. /\ Delivery(s).state = poll.state /\ Delivery(s).over = got
        /\ Delivery(s).sleep = IF got THEN Awake ELSE asleep
    BY <2>4
  <2> QED BY <2>2, <2>3, <2>5
<1> QED BY <1>1, <1>2

\* An injection by the host.
LEMMA InjectKeeps ==
  ASSUME NEW s, NEW h, tick \in 0..TickSpan - 1, Good(s, tick, h), session \in Sessions,
         asleep.record => asleep.mask \in session.masks,
         NEW b \in BOOLEAN, LeavesClicksAlone => (b => h), Inject(s, b)
  PROVE  /\ Good(em', tick, h) /\ Steady(em', s) /\ asleep' \in {asleep, Awake}
         /\ mbDown' \in BOOLEAN /\ (LeavesClicksAlone => (mbDown' => h))
         /\ ~ IsAsleep => em' = s
<1>1. CASE IsAsleep /\ asleep.record /\ ~callback
  <2>1. PICK d : d = Delivery(s)
    OBVIOUS
  <2>2. Good(d.state, tick, h) /\ Steady(d.state, s) /\ d.sleep \in {asleep, Awake}
    BY <2>1, DeliveryKeeps
  <2>3. em' = d.state /\ asleep' = d.sleep /\ mbDown' = IF d.over THEN d.state.button ELSE b
    BY <1>1, <2>1 DEF Inject
  <2>4. d.state.button \in BOOLEAN /\ (LeavesClicksAlone => (d.state.button => h))
    BY <2>2 DEF Good, EventManager
  <2>5. mbDown' \in BOOLEAN /\ (LeavesClicksAlone => (mbDown' => h))
    <3>1. mbDown' = d.state.button \/ mbDown' = b
      BY <2>3
    <3> QED BY <2>4, <3>1
  <2> QED BY <1>1, <2>2, <2>3, <2>5
<1>2. CASE ~ (IsAsleep /\ asleep.record /\ ~callback)
  <2>1. em' = s /\ asleep' = asleep /\ mbDown' = b
    BY <1>2 DEF Inject
  <2> QED BY <2>1 DEF Steady
<1> QED BY <1>1, <1>2

\* The first transition after a press is its release.
LEMMA NextIsRelease ==
  ASSUME NEW q \in Seq(Entry), NEW h, Paired(q, "mouseDown", h), Mouse(q) # {}
  PROVE  /\ Earliest(Mouse(q)) \in Mouse(q)
         /\ \A k \in Mouse(q) : Earliest(Mouse(q)) <= k
         /\ q[Earliest(Mouse(q))].what = "mouseUp"
<1>1. Mouse(q) \subseteq Nat /\ Mouse(q) \subseteq DOMAIN q
      /\ \A i \in DOMAIN q : i \in Mouse(q) <=> q[i].what \in MouseKinds
  BY PositionsIn DEF Mouse
<1>2. PICK n : n = Earliest(Mouse(q))
  OBVIOUS
<1>3. n \in Mouse(q) /\ \A k \in Mouse(q) : n <= k
  BY <1>1, <1>2, EarliestIs
<1>4. q[n].what # "mouseDown"
  BY <1>3 DEF Paired
<1> QED BY <1>1, <1>2, <1>3, <1>4 DEF MouseKinds

\* The release of a press that was taken: it is the next transition queued, or none is.
LEMMA ConsumeKeeps ==
  ASSUME NEW s, NEW now, NEW h, Good(s, now, h), LeavesClicksAlone => s.seen = "mouseDown"
  PROVE  LET c == ConsumeOrRetainRelease(s)
         IN  /\ Good(c.state, now, h) /\ c.pending \in BOOLEAN
             /\ LeavesClicksAlone /\ c.pending
                  => Mouse(c.state.queue) = {} /\ c.state.seen = "mouseDown"
<1>1. s.queue \in Seq(Entry) /\ Mouse(s.queue) \subseteq Nat /\ Mouse(s.queue) \subseteq DOMAIN s.queue
  <2>1. s.queue \in Seq(Entry)
    BY DEF Good, EventManager, Entry
  <2> QED BY <2>1, PositionsIn DEF Mouse
<1>2. MousePositions(s) = Mouse(s.queue)
  BY DEF MousePositions, Mouse
<1>3. PICK next : next = Earliest(Mouse(s.queue))
  OBVIOUS
<1>4. Mouse(s.queue) # {} => next \in Mouse(s.queue) /\ \A k \in Mouse(s.queue) : next <= k
  BY <1>1, <1>3, EarliestIs
<1>5. LeavesClicksAlone /\ Mouse(s.queue) # {} => s.queue[next].what = "mouseUp"
  BY <1>1, <1>3, NextIsRelease DEF Good
<1>6. CASE Mouse(s.queue) # {} /\ s.queue[next].what = "mouseUp"
  <2>1. ConsumeOrRetainRelease(s) = [state |-> Removed(s, next), pending |-> FALSE]
    BY <1>2, <1>3, <1>6 DEF ConsumeOrRetainRelease
  <2>2. Good(Removed(s, next), now, h)
    BY <1>1, <1>4, <1>6, RemovedKeeps
  <2> QED BY <2>1, <2>2
<1>7. CASE ~ (Mouse(s.queue) # {} /\ s.queue[next].what = "mouseUp")
  <2>1. ConsumeOrRetainRelease(s) = [state |-> s, pending |-> TRUE]
    BY <1>2, <1>3, <1>7 DEF ConsumeOrRetainRelease
  <2>2. ConsumeOrRetainRelease(s).state = s /\ ConsumeOrRetainRelease(s).pending = TRUE
    BY <2>1
  <2>3. LeavesClicksAlone => Mouse(s.queue) = {}
    BY <1>5, <1>7
  <2> QED BY <2>2, <2>3
<1> QED BY <1>6, <1>7

\* FlushEvents.
LEMMA FlushKeeps ==
  ASSUME NEW mask \in session.masks, NEW stop, session \in Sessions,
         Good(em, tick, held), FlushEvents(mask, stop)
  PROVE  Good(em', tick, held) /\ Steady(em', em)
<1> DEFINE q == em.queue
           gone == FlushedPositions(q, mask, stop)
           P == DOMAIN q \ gone
           mouse == gone \cap Positions(q, MouseKinds)
<1>1. q \in Seq(Entry) /\ em.seen \in MouseKinds
  BY DEF Good, EventManager, Entry
<1>2. /\ DOMAIN q = 1..Len(q) /\ Len(q) \in Nat /\ Mouse(q) \subseteq DOMAIN q
      /\ Mouse(q) \subseteq Nat
      /\ \A i \in DOMAIN q : i \in Mouse(q) <=> q[i].what \in MouseKinds
      /\ \A i \in DOMAIN q : i \in Positions(q, mask) <=> q[i].what \in mask
      /\ Positions(q, mask) \subseteq DOMAIN q
  <2> HIDE DEF q
  <2> QED BY <1>1, PositionsIn DEF Mouse
<1>3. mouse = Mouse(q) \ P /\ gone \subseteq DOMAIN q
  BY <1>2 DEF Mouse, FlushedPositions
<1>4. PICK queue : queue = Keeping(q, P)
  OBVIOUS
<1>5. PICK seen : seen = IF mouse = {} THEN em.seen ELSE q[Latest(mouse)].what
  OBVIOUS
<1>6. em' = [em EXCEPT !.queue = queue, !.seen = seen]
  BY <1>4, <1>5 DEF FlushEvents, Flushed, Good, EventManager
<1>7. mouse # {} => Latest(mouse) \in mouse /\ \A g \in mouse : g <= Latest(mouse)
  <2>1. mouse \subseteq 1..Len(q)
    BY <1>2, <1>3
  <2> HIDE DEF mouse, q
  <2> QED BY <1>2, <2>1, LatestIs
<1>8. seen \in MouseKinds
  BY <1>1, <1>2, <1>3, <1>5, <1>7
<1>9. queue \in Seq(Entry)
  <2> HIDE DEF P, q
  <2> QED BY <1>1, <1>4, KeepingProperties
<1>10. Mouse(q) = {} => Mouse(queue) = {} /\ seen = em.seen
  <2>1. ASSUME NEW k \in DOMAIN queue PROVE queue[k] \in Entries(q)
    <3> HIDE DEF P, q
    <3> QED BY <1>1, <1>4, KeepingProperties DEF LeftBy, Entries
  <2>2. \A k \in Mouse(queue) : k \in DOMAIN queue /\ queue[k].what \in MouseKinds
    BY <1>9, PositionsIn DEF Mouse
  <2>3. Mouse(q) = {} => Mouse(queue) = {}
    BY <1>2, <2>1, <2>2 DEF Entries
  <2>4. Mouse(q) = {} => mouse = {}
    BY <1>3
  <2> QED BY <1>5, <2>3, <2>4
<1>11. ASSUME LeavesClicksAlone PROVE Paired(queue, seen, held)
  <2>1. \A g \in Mouse(q) \ P, k \in Mouse(q) \cap P : g < k
    <3> TAKE g \in Mouse(q) \ P, k \in Mouse(q) \cap P
    <3>1. g \in Positions(q, mask) /\ g < StopAt(q, stop) /\ q[g].what \in mask
      BY <1>2, <1>3 DEF FlushedPositions
    <3>2. q[k].what \in mask
      BY <1>2, <1>11, <3>1, MasksPair
    <3>3. k \in Positions(q, mask) /\ k \notin gone /\ k \in Nat /\ g \in Nat
      BY <1>2, <3>2
    <3>4. ~ (k < StopAt(q, stop))
      BY <3>3 DEF FlushedPositions
    <3>5. StopAt(q, stop) \in Nat
      <4>1. Positions(q, stop) \subseteq Nat
        <5> HIDE DEF q
        <5> QED BY <1>1, PositionsIn
      <4>2. Positions(q, stop) # {} => Earliest(Positions(q, stop)) \in Nat
        BY <4>1, EarliestIs
      <4> QED BY <1>2, <4>2 DEF StopAt
    <3> QED BY <3>1, <3>3, <3>4, <3>5
  <2>2. \/ Mouse(q) \subseteq P /\ seen = em.seen
        \/ \E l \in Mouse(q) \ P : (\A g \in Mouse(q) \ P : g <= l) /\ seen = q[l].what
    <3>1. CASE mouse = {}
      <4>1. Mouse(q) \subseteq P
        BY <1>3, <3>1
      <4> QED BY <1>5, <3>1, <4>1
    <3>2. CASE mouse # {}
      <4> HIDE DEF mouse, P, q
      <4> QED BY <1>3, <1>5, <1>7, <3>2
    <3> QED BY <3>1, <3>2
  <2>3. Paired(q, em.seen, held)
    BY <1>11 DEF Good
  <2> HIDE DEF P, q
  <2> QED BY <1>1, <1>4, <2>1, <2>2, <2>3, PairedKeeping
<1>12. /\ em' \in EventManager /\ em'.queue = queue /\ em'.seen = seen /\ em'.button = em.button
       /\ em'.click = em.click /\ em'.paced = em.paced /\ em'.repeat = em.repeat
       /\ em'.since = em.since /\ em'.first = em.first
  BY <1>6, <1>8, <1>9 DEF Good, EventManager, Entry
<1>13. Good(em', tick, held)
  <2>1. LeavesClicksAlone => (em'.button => held)
    BY <1>12 DEF Good
  <2> QED BY <1>11, <1>12, <2>1, GoodStays
<1> QED BY <1>10, <1>12, <1>13 DEF Steady

\* What a modal dialog's loop leaves of the queue when it takes the first event it acts on.
LEMMA ModalTakes ==
  ASSUME NEW h, Good(em, tick, h), Positions(em.queue, Actionable) # {}
  PROVE  LET first == Earliest(Positions(em.queue, Actionable))
             taken == [Removed(em, first) EXCEPT
                        !.queue = Keeping(em.queue, (first + 1)..Len(em.queue))]
         IN  /\ Good(taken, tick, h) /\ Steady(taken, em)
             /\ em.queue[first].what = "mouseDown" => taken.seen = "mouseDown" /\ Mouse(em.queue) # {}
<1> DEFINE q == em.queue
<1>1. q \in Seq(Entry) /\ em.seen \in MouseKinds
  BY DEF Good, EventManager, Entry
<1>2. PICK acts : acts = Positions(q, Actionable)
  OBVIOUS
<1>3. /\ DOMAIN q = 1..Len(q) /\ Len(q) \in Nat /\ Mouse(q) \subseteq DOMAIN q
      /\ Mouse(q) \subseteq Nat /\ acts \subseteq Nat /\ acts \subseteq DOMAIN q
      /\ \A i \in DOMAIN q : i \in Mouse(q) <=> q[i].what \in MouseKinds
      /\ \A i \in DOMAIN q : i \in acts <=> q[i].what \in Actionable
  <2> HIDE DEF q
  <2> QED BY <1>1, <1>2, PositionsIn DEF Mouse
<1>4. PICK first : first = Earliest(acts)
  OBVIOUS
<1>5. first \in acts /\ \A j \in acts : first <= j
  BY <1>2, <1>3, <1>4, EarliestIs
<1>6. Mouse(q) \subseteq acts
  BY <1>3 DEF Actionable, MouseKinds
<1>7. PICK P : P = (first + 1)..Len(q)
  OBVIOUS
<1>8. PICK queue : queue = Keeping(q, P)
  OBVIOUS
<1>9. PICK seen : seen = IF q[first].what \in MouseKinds THEN q[first].what ELSE em.seen
  OBVIOUS
<1>10. seen \in MouseKinds
  BY <1>1, <1>9
<1>11. queue \in Seq(Entry)
  <2> HIDE DEF q
  <2> QED BY <1>1, <1>8, KeepingProperties
<1>12. Mouse(q) \ P \subseteq {first} /\ (first \in Mouse(q) => first \in Mouse(q) \ P)
  <2>1. \A g \in Mouse(q) : first <= g /\ g \in 1..Len(q) /\ first \in Nat
    BY <1>3, <1>5, <1>6
  <2> QED BY <1>7, <2>1
<1>13. Mouse(q) = {} => Mouse(queue) = {} /\ seen = em.seen
  <2>1. ASSUME NEW k \in DOMAIN queue PROVE queue[k] \in Entries(q)
    <3> HIDE DEF q
    <3> QED BY <1>1, <1>8, KeepingProperties DEF LeftBy, Entries
  <2>2. \A k \in Mouse(queue) : k \in DOMAIN queue /\ queue[k].what \in MouseKinds
    BY <1>11, PositionsIn DEF Mouse
  <2>3. Mouse(q) = {} => Mouse(queue) = {}
    BY <1>3, <2>1, <2>2 DEF Entries
  <2> QED BY <1>3, <1>5, <1>9, <2>3
<1>14. ASSUME LeavesClicksAlone PROVE Paired(queue, seen, h)
  <2>1. \A g \in Mouse(q) \ P, k \in Mouse(q) \cap P : g < k
    <3> TAKE g \in Mouse(q) \ P, k \in Mouse(q) \cap P
    <3>1. g = first /\ k \in (first + 1)..Len(q) /\ first \in Nat /\ Len(q) \in Nat
      BY <1>3, <1>5, <1>7, <1>12
    <3> QED BY <3>1
  <2>2. \/ Mouse(q) \subseteq P /\ seen = em.seen
        \/ \E l \in Mouse(q) \ P : (\A g \in Mouse(q) \ P : g <= l) /\ seen = q[l].what
    <3>1. CASE first \in Mouse(q)
      <4>1. first \in Mouse(q) \ P /\ first \in Nat /\ seen = q[first].what
        BY <1>3, <1>9, <1>12, <3>1
      <4>2. \A g \in Mouse(q) \ P : g <= first
        BY <1>12, <4>1
      <4> QED BY <4>1, <4>2
    <3>2. CASE first \notin Mouse(q)
      <4>1. Mouse(q) \subseteq P /\ seen = em.seen
        BY <1>3, <1>5, <1>9, <1>12, <3>2
      <4> QED BY <4>1
    <3> QED BY <3>1, <3>2
  <2>3. Paired(q, em.seen, h)
    BY <1>14 DEF Good
  <2> HIDE DEF q
  <2> QED BY <1>1, <1>8, <2>1, <2>2, <2>3, PairedKeeping
<1>15. PICK taken : taken = [Removed(em, first) EXCEPT !.queue = queue]
  OBVIOUS
<1>16. PICK removed : removed = Removed(em, first)
  OBVIOUS
<1>17. PICK rest : rest = Keeping(q, DOMAIN q \ {first})
  OBVIOUS
<1>18. rest \in Seq(Entry)
  <2> HIDE DEF q
  <2> QED BY <1>1, <1>17, KeepingProperties
<1>19. /\ removed \in EventManager /\ removed.seen = seen /\ removed.button = em.button
       /\ removed.click = em.click /\ removed.paced = em.paced /\ removed.repeat = em.repeat
       /\ removed.since = em.since /\ removed.first = em.first
  BY <1>9, <1>10, <1>16, <1>17, <1>18 DEF Removed, Good, EventManager, Entry
<1>20. /\ taken \in EventManager /\ taken.queue = queue /\ taken.seen = seen
       /\ taken.button = em.button
       /\ taken.click = em.click /\ taken.paced = em.paced /\ taken.repeat = em.repeat
       /\ taken.since = em.since /\ taken.first = em.first
  BY <1>11, <1>15, <1>16, <1>19 DEF EventManager, Entry
<1>21. Good(taken, tick, h)
  <2>1. LeavesClicksAlone => (taken.button => h)
    BY <1>20 DEF Good
  <2> QED BY <1>14, <1>20, <2>1, GoodStays
<1>22. q[first].what = "mouseDown" => seen = "mouseDown" /\ Mouse(q) # {}
  BY <1>3, <1>5, <1>9 DEF MouseKinds
<1>23. taken = [Removed(em, first) EXCEPT !.queue = Keeping(em.queue, (first + 1)..Len(em.queue))]
  BY <1>7, <1>8, <1>15
<1>24. Steady(taken, em)
  BY <1>13, <1>20 DEF Steady
<1> QED BY <1>2, <1>4, <1>20, <1>21, <1>22, <1>23, <1>24

---------------------------------------------------------------------------
(* The actions keep the invariant. *)

\* The invariant of the next state, from its parts: the session stays.
LEMMA NextInv ==
  ASSUME session' = session, session \in Sessions,
         tick' \in 0..TickSpan - 1, Good(em', tick', held'),
         mbDown' \in BOOLEAN, sysMask' \in SUBSET Kinds,
         asleep' \in [left : Nat, mask : SUBSET Kinds, region : BOOLEAN, record : BOOLEAN],
         draining' \in BOOLEAN, callback' \in BOOLEAN,
         modal' \in {"none", "idle", "button", "popup", "filter"}, owned' \in BOOLEAN, held' \in BOOLEAN,
         LeavesClicksAlone =>
           /\ modal' \in {"none", "idle", "button", "popup"}
           /\ modal' # "none" => ~ (asleep'.left > 0)
           /\ owned' => Mouse(em'.queue) = {} /\ em'.seen = "mouseDown"
           /\ modal' \in Tracking => em'.seen = "mouseDown" /\ ~owned'
           /\ mbDown' => held',
         asleep'.record => asleep'.mask \in session.masks,
         draining' => /\ asleep'.left > 0 /\ ~callback' /\ modal' = "none"
                      /\ asleep'.record /\ ~em'.took
                           => Positions(em'.queue, asleep'.mask \ {"update", "autoKey"}) = {}
  PROVE  InputInv'
<1>1. LeavesClicksAlone' <=> LeavesClicksAlone
  BY DEF LeavesClicksAlone
<1>2. Good(em, tick, held)'
  BY <1>1 DEF Good, Wait
<1>3. InputTypeOK'
  BY <1>2 DEF InputTypeOK, Good
<1>4. Owners'
  BY <1>1 DEF Owners, IsAsleep
<1>5. Waits'
  BY DEF Waits, IsAsleep
<1> QED BY <1>2, <1>3, <1>4, <1>5 DEF InputInv

\* A wake-up has the type of a sleep.
LEMMA AwakeIs ==
  Awake \in [left : Nat, mask : SUBSET Kinds, region : BOOLEAN, record : BOOLEAN]
    /\ ~ (Awake.left > 0) /\ ~ Awake.record
BY DEF Awake

\* An injection by the host into the state s, the user's finger then being held'.
LEMMA HostInv ==
  ASSUME InputInv, session' = session, ~ draining, NEW s, NEW b \in BOOLEAN,
         Good(s, tick, held'), held' \in BOOLEAN, owned' \in BOOLEAN,
         Inject(s, b), UNCHANGED <<tick, sysMask, draining, callback, modal>>,
         LeavesClicksAlone =>
           /\ b => held'
           /\ owned' => Mouse(s.queue) = {} /\ s.seen = "mouseDown"
           /\ modal \in Tracking => s.seen = "mouseDown" /\ ~owned'
  PROVE  InputInv'
<1>1. /\ tick \in 0..TickSpan - 1 /\ session \in Sessions
      /\ asleep.record => asleep.mask \in session.masks
      /\ sysMask \in SUBSET Kinds
      /\ asleep \in [left : Nat, mask : SUBSET Kinds, region : BOOLEAN, record : BOOLEAN]
      /\ callback \in BOOLEAN /\ modal \in {"none", "idle", "button", "popup", "filter"}
  BY DEF InputInv, InputTypeOK, Waits
<1>2. /\ Good(em', tick, held') /\ Steady(em', s) /\ asleep' \in {asleep, Awake}
      /\ mbDown' \in BOOLEAN /\ (LeavesClicksAlone => (mbDown' => held'))
      /\ ~ IsAsleep => em' = s
  <2>1. PICK h : h = held'
    OBVIOUS
  <2>2. Good(s, tick, h) /\ (LeavesClicksAlone => (b => h))
    BY <2>1
  <2>3. /\ Good(em', tick, h) /\ Steady(em', s) /\ asleep' \in {asleep, Awake}
        /\ mbDown' \in BOOLEAN /\ (LeavesClicksAlone => (mbDown' => h))
        /\ ~ IsAsleep => em' = s
    BY <1>1, <2>2, InjectKeeps
  <2> QED BY <2>1, <2>3
<1>3. /\ asleep' \in [left : Nat, mask : SUBSET Kinds, region : BOOLEAN, record : BOOLEAN]
      /\ asleep'.left > 0 => IsAsleep
      /\ asleep'.record => asleep'.mask \in session.masks
  BY <1>1, <1>2, AwakeIs DEF IsAsleep
<1>4. ASSUME LeavesClicksAlone
      PROVE  /\ modal' \in {"none", "idle", "button", "popup"}
             /\ modal' # "none" => ~ (asleep'.left > 0)
             /\ owned' => Mouse(em'.queue) = {} /\ em'.seen = "mouseDown"
             /\ modal' \in Tracking => em'.seen = "mouseDown" /\ ~owned'
             /\ mbDown' => held'
  <2>1. modal \in {"none", "idle", "button", "popup"} /\ (modal # "none" => ~IsAsleep)
    BY <1>4 DEF InputInv, Owners
  <2>2. owned' => Mouse(em'.queue) = {} /\ em'.seen = "mouseDown"
    BY <1>2, <1>4 DEF Steady
  <2>3. modal' \in Tracking => em'.seen = "mouseDown" /\ ~owned'
    BY <1>2, <1>4, <2>1 DEF Tracking
  <2> QED BY <1>2, <1>3, <1>4, <2>1, <2>2, <2>3
<1>5. ~ draining' /\ draining' \in BOOLEAN
  BY DEF InputInv, InputTypeOK
<1> QED BY <1>1, <1>2, <1>3, <1>4, <1>5, NextInv

\* A call that changes only the Event Manager's state and the low-memory button.
LEMMA CallInv ==
  ASSUME InputInv, session' = session, ~ draining,
         UNCHANGED <<tick, asleep, draining, callback, modal, owned, held>>,
         sysMask' \in SUBSET Kinds, Good(em', tick, held), Steady(em', em),
         modal \in Tracking => em'.seen = em.seen,
         mbDown' \in BOOLEAN, LeavesClicksAlone => (mbDown' => held)
  PROVE  InputInv'
<1>1. /\ tick \in 0..TickSpan - 1 /\ session \in Sessions
      /\ asleep.record => asleep.mask \in session.masks
      /\ asleep \in [left : Nat, mask : SUBSET Kinds, region : BOOLEAN, record : BOOLEAN]
      /\ callback \in BOOLEAN /\ modal \in {"none", "idle", "button", "popup", "filter"}
      /\ owned \in BOOLEAN /\ held \in BOOLEAN /\ draining \in BOOLEAN
  BY DEF InputInv, InputTypeOK, Waits
<1>2. ASSUME LeavesClicksAlone
      PROVE  /\ modal \in {"none", "idle", "button", "popup"}
             /\ modal # "none" => ~ (asleep.left > 0)
             /\ owned => Mouse(em'.queue) = {} /\ em'.seen = "mouseDown"
             /\ modal \in Tracking => em'.seen = "mouseDown" /\ ~owned
  BY <1>2 DEF InputInv, Owners, Steady, IsAsleep
<1>3. Good(em', tick', held')
  BY DEF Good, Wait
<1> QED BY <1>1, <1>2, <1>3, NextInv

\* The guest does not run inside the loop over a sleep's ticks.
LEMMA GuestOutside ==
  ASSUME InputInv, GuestRuns PROVE ~ draining /\ modal \notin Tracking
BY DEF InputInv, Waits, GuestRuns, Tracking

\* An injection that has nothing to do with the mouse.
LEMMA HostQuiet ==
  ASSUME InputInv, session' = session, HostTurn, NEW s, Good(s, tick, held), Steady(s, em),
         s.seen = em.seen, Inject(s, mbDown),
         UNCHANGED <<tick, sysMask, draining, callback, modal, owned, held>>
  PROVE  InputInv'
<1>1. /\ ~ draining /\ mbDown \in BOOLEAN /\ held' \in BOOLEAN /\ owned' \in BOOLEAN
  BY DEF InputInv, InputTypeOK, HostTurn
<1>2. LeavesClicksAlone =>
        /\ mbDown => held'
        /\ owned' => Mouse(s.queue) = {} /\ s.seen = "mouseDown"
        /\ modal \in Tracking => s.seen = "mouseDown" /\ ~owned'
  BY DEF InputInv, Owners, Steady
<1>3. Good(s, tick, held')
  BY DEF Good
<1> QED BY <1>1, <1>2, <1>3, HostInv

\* The pointer moves, Caps Lock, a choice in the host's menu bar.
LEMMA HostStays ==
  ASSUME InputInv, session' = session,
         MoveMouse \/ SelectMenuItem \/ \E k \in CapsLock : PushCapsDown(k) \/ PushCapsUp(k)
  PROVE  InputInv'
<1>1. em \in EventManager /\ Good(em, tick, held) /\ session \in Session
  BY InputAssumption DEF InputInv, InputTypeOK
<1>2. ASSUME NEW s \in EventManager, Inject(s, mbDown), HostTurn,
             UNCHANGED <<tick, sysMask, draining, callback, modal, owned, held>>,
             s.queue = em.queue, s.seen = em.seen, s.button = em.button, s.paced = em.paced,
             s.repeat = em.repeat, s.since = em.since, s.first = em.first,
             LeavesClicksAlone => s.click = em.click
      PROVE  InputInv'
  <2>1. LeavesClicksAlone => (s.button => held) /\ Paired(s.queue, s.seen, held)
    BY <1>1, <1>2 DEF Good
  <2>2. Good(s, tick, held)
    BY <1>1, <1>2, <2>1, GoodStays
  <2> QED BY <1>2, <2>2, HostQuiet DEF Steady
<1>3. CASE MoveMouse
  <2>1. PICK s : s = [em EXCEPT !.outside = ~@]
    OBVIOUS
  <2>2. /\ s \in EventManager /\ s.queue = em.queue /\ s.seen = em.seen
        /\ s.button = em.button /\ s.paced = em.paced /\ s.click = em.click
        /\ s.repeat = em.repeat /\ s.since = em.since /\ s.first = em.first
    BY <1>1, <2>1 DEF EventManager
  <2> QED BY <1>2, <1>3, <2>1, <2>2 DEF MoveMouse
<1>4. CASE SelectMenuItem
  <2>1. PICK s : /\ s = em \/ s = [em EXCEPT !.click = TRUE, !.shown = Never]
                 /\ Inject(s, mbDown)
    BY <1>4 DEF SelectMenuItem
  <2>2. Never \in 0..TickSpan
    BY InputAssumption DEF Never
  <2>3. /\ s \in EventManager /\ s.queue = em.queue /\ s.seen = em.seen
        /\ s.button = em.button /\ s.paced = em.paced
        /\ s.repeat = em.repeat /\ s.since = em.since /\ s.first = em.first
    BY <1>1, <2>1, <2>2, ZenonT(40) DEF EventManager
  <2>4. ~ LeavesClicksAlone
    BY <1>4 DEF SelectMenuItem, LeavesClicksAlone
  <2> QED BY <1>2, <1>4, <2>1, <2>3, <2>4, SMTT(30) DEF SelectMenuItem
<1>5. ASSUME NEW k \in CapsLock, PushCapsDown(k) PROVE InputInv'
  <2>1. PICK s : s = [em EXCEPT !.caps = TRUE,
                                !.down = IF k \in @ THEN @ \ {k} ELSE @ \cup {k}]
    OBVIOUS
  <2>2. /\ s \in EventManager /\ s.queue = em.queue /\ s.seen = em.seen
        /\ s.button = em.button /\ s.paced = em.paced /\ s.click = em.click
        /\ s.repeat = em.repeat /\ s.since = em.since /\ s.first = em.first
    BY <1>1, <2>1 DEF EventManager
  <2> QED BY <1>2, <1>5, <2>1, <2>2 DEF PushCapsDown
<1>6. ASSUME NEW k \in CapsLock, PushCapsUp(k) PROVE InputInv'
  <2>1. PICK s : s = [em EXCEPT !.caps = FALSE]
    OBVIOUS
  <2>2. /\ s \in EventManager /\ s.queue = em.queue /\ s.seen = em.seen
        /\ s.button = em.button /\ s.paced = em.paced /\ s.click = em.click
        /\ s.repeat = em.repeat /\ s.since = em.since /\ s.first = em.first
    BY <1>1, <2>1 DEF EventManager
  <2> QED BY <1>2, <1>6, <2>1, <2>2 DEF PushCapsUp
<1> QED BY <1>3, <1>4, <1>5, <1>6

\* A key goes down: its first repeat is a threshold away.
LEMMA KeyDownInv ==
  ASSUME InputInv, session' = session, NEW k \in Keys, PushKeyDown(k)
  PROVE  InputInv'
<1>1. /\ em \in EventManager /\ Good(em, tick, held) /\ tick \in 0..TickSpan - 1
      /\ TickSpan \in Nat /\ Threshold \in Nat /\ Rate \in Nat /\ TickSpan > 2 * (Threshold + 1)
  BY InputAssumption DEF InputInv, InputTypeOK
<1>2. PICK due : due = After(Threshold)
  OBVIOUS
<1>3. due \in 0..TickSpan - 1 /\ (due - tick) % TickSpan = Threshold
  BY <1>1, <1>2, AheadBy DEF After
<1>4. PICK t : t = [em EXCEPT !.down = @ \cup {k}, !.repeat = [key |-> k, due |-> due],
                              !.since = 0, !.first = TRUE]
  OBVIOUS
<1>5. 0 \in 0..Threshold + Rate
  BY <1>1
<1>6. /\ t \in EventManager /\ t.queue = em.queue /\ t.seen = em.seen /\ t.click = em.click
      /\ t.button = em.button /\ t.paced = em.paced /\ t.repeat = [key |-> k, due |-> due]
      /\ t.since = 0 /\ t.first
  BY <1>1, <1>3, <1>4, <1>5 DEF EventManager
<1>7. Wait(t) = Threshold /\ t.repeat.due = due
  BY <1>6 DEF Wait
<1>8. Good(t, tick, held)
  BY <1>1, <1>3, <1>6, <1>7 DEF Good
<1>9. PICK e : e = Event("keyDown", k)
  OBVIOUS
<1>10. e \in Entry /\ e.what \notin MouseKinds
  BY <1>9 DEF Event, Entry, Kinds, LowLevel, KeyKinds, MouseKinds
<1>11. PICK s : s = Posted(t, e)
  OBVIOUS
<1>12. Good(s, tick, held) /\ Steady(s, t)
  BY <1>8, <1>10, <1>11, PostedKeeps
<1>13. s.seen = t.seen
  BY <1>6, <1>11 DEF Posted, EventManager
<1>14. HostTurn /\ Inject(s, mbDown)
       /\ UNCHANGED <<tick, sysMask, draining, callback, modal, owned, held>>
  BY <1>2, <1>4, <1>9, <1>11 DEF PushKeyDown
<1> QED BY <1>6, <1>12, <1>13, <1>14, HostQuiet DEF Steady

\* A key goes up, and its repeat with it.
LEMMA KeyUpInv ==
  ASSUME InputInv, session' = session, NEW k \in Keys, PushKeyUp(k)
  PROVE  InputInv'
<1>1. em \in EventManager /\ Good(em, tick, held) /\ 0 \in 0..TickSpan - 1
  BY InputAssumption DEF InputInv, InputTypeOK
<1>2. PICK t : t = Released(em, k)
  OBVIOUS
<1>3. /\ t \in EventManager /\ t.queue = em.queue /\ t.seen = em.seen /\ t.click = em.click
      /\ t.button = em.button /\ t.paced = em.paced /\ t.since = em.since /\ t.first = em.first
      /\ t.repeat = em.repeat \/ t.repeat.key = NoKey
  BY <1>1, <1>2 DEF Released, EventManager, NoRepeat
<1>4. Good(t, tick, held)
  BY <1>1, <1>3 DEF Good, Wait
<1>5. PICK e : e = Event("keyUp", k)
  OBVIOUS
<1>6. e \in Entry /\ e.what \notin MouseKinds
  BY <1>5 DEF Event, Entry, Kinds, LowLevel, KeyKinds, MouseKinds
<1>7. PICK s : s = IF "keyUp" \in sysMask THEN Posted(t, e) ELSE t
  OBVIOUS
<1>8. Good(s, tick, held) /\ Steady(s, t) /\ s.seen = t.seen
  <2>1. CASE s = t
    BY <1>4, <2>1 DEF Steady
  <2>2. CASE s = Posted(t, e)
    <3>1. Good(s, tick, held) /\ Steady(s, t)
      BY <1>4, <1>6, <2>2, PostedKeeps
    <3>2. s.seen = t.seen
      BY <1>3, <2>2 DEF Posted, EventManager
    <3> QED BY <3>1, <3>2
  <2> QED BY <1>7, <2>1, <2>2
<1>9. HostTurn /\ Inject(s, mbDown)
      /\ UNCHANGED <<tick, sysMask, draining, callback, modal, owned, held>>
  BY <1>2, <1>5, <1>7 DEF PushKeyUp
<1> QED BY <1>3, <1>8, <1>9, HostQuiet DEF Steady

\* The user presses the button: no dialog owns a release, for none is to come.
LEMMA MouseDownInv ==
  ASSUME InputInv, session' = session, PushMouseDown
  PROVE  InputInv'
<1>1. em \in EventManager /\ Good(em, tick, held) /\ ~ held /\ ~ draining /\ owned \in BOOLEAN
  BY DEF InputInv, InputTypeOK, PushMouseDown, HostTurn
<1>2. PICK t : t = [em EXCEPT !.button = TRUE]
  OBVIOUS
<1>3. PICK e : e = Event("mouseDown", NoKey)
  OBVIOUS
<1>4. e \in Entry /\ e.what = "mouseDown" /\ e.what \in MouseKinds
  BY <1>3 DEF Event, Entry, Kinds, LowLevel, KeyKinds, MouseKinds
<1>5. PICK s : s = Posted(t, e)
  OBVIOUS
<1>6. em.queue \in Seq(Entry) /\ em.seen \in MouseKinds
  BY <1>1 DEF EventManager, Entry
<1>7. PICK q : q = Append(em.queue, e)
  OBVIOUS
<1>8. q \in Seq(Entry)
  BY <1>4, <1>6, <1>7
<1>9. /\ s \in EventManager /\ s.queue = q /\ s.seen = em.seen /\ s.click = em.click
      /\ s.paced = em.paced /\ s.since = em.since /\ s.first = em.first /\ s.repeat = em.repeat
  BY <1>1, <1>2, <1>5, <1>7, <1>8 DEF Posted, EventManager, Entry
<1>10. LeavesClicksAlone => Paired(q, em.seen, TRUE)
  <2>1. LeavesClicksAlone => Paired(em.queue, em.seen, FALSE)
    BY <1>1 DEF Good, Paired
  <2>2. LeavesClicksAlone => Paired(q, em.seen, ~FALSE)
    BY <1>4, <1>6, <1>7, <2>1, PairedClick
  <2> QED BY <2>2 DEF Paired
<1>11. Good(s, tick, TRUE)
  BY <1>1, <1>9, <1>10 DEF Good, Wait
<1>12. LeavesClicksAlone =>
         /\ ~ owned
         /\ modal \in Tracking => em.seen = "mouseDown"
  <2>1. LeavesClicksAlone => Paired(em.queue, em.seen, held)
    BY <1>1 DEF Good
  <2> QED BY <1>1, <2>1 DEF InputInv, Owners, Paired
<1>13. held' = TRUE /\ owned' = owned /\ Inject(s, TRUE)
       /\ UNCHANGED <<tick, sysMask, draining, callback, modal>>
  BY <1>2, <1>3, <1>5 DEF PushMouseDown
<1>14. Good(s, tick, held')
  BY <1>11, <1>13 DEF Good, Paired
<1> QED BY <1>1, <1>9, <1>12, <1>13, <1>14, HostInv

\* The user releases it: the release is queued, or consumed by the dialog that owns it.
LEMMA MouseUpInv ==
  ASSUME InputInv, session' = session, PushMouseUp
  PROVE  InputInv'
<1>1. em \in EventManager /\ Good(em, tick, held) /\ held /\ ~ draining /\ owned \in BOOLEAN
  BY DEF InputInv, InputTypeOK, PushMouseUp, HostTurn
<1>2. em.queue \in Seq(Entry) /\ em.seen \in MouseKinds
  BY <1>1 DEF EventManager, Entry
<1>3. ASSUME NEW s, Inject(s, FALSE), Good(s, tick, FALSE),
             LeavesClicksAlone => (modal \in Tracking => s.seen = "mouseDown")
      PROVE  InputInv'
  <2>1. held' = FALSE /\ owned' = FALSE /\ UNCHANGED <<tick, sysMask, draining, callback, modal>>
    BY DEF PushMouseUp
  <2>2. Good(s, tick, held')
    BY <1>3, <2>1 DEF Good, Paired
  <2> QED BY <1>1, <1>3, <2>1, <2>2, HostInv
<1>4. CASE owned
  <2>1. PICK s : s = [em EXCEPT !.button = FALSE, !.seen = "mouseUp"]
    OBVIOUS
  <2>2. /\ s \in EventManager /\ s.queue = em.queue /\ s.seen = "mouseUp" /\ ~ s.button
        /\ s.click = em.click /\ s.paced = em.paced /\ s.since = em.since
        /\ s.first = em.first /\ s.repeat = em.repeat
    BY <1>1, <2>1 DEF EventManager, MouseKinds
  <2>3. LeavesClicksAlone => Mouse(em.queue) = {} /\ modal \notin Tracking
    BY <1>4 DEF InputInv, Owners
  <2>4. LeavesClicksAlone => Paired(s.queue, s.seen, FALSE)
    BY <2>2, <2>3 DEF Paired
  <2>5. Good(s, tick, FALSE)
    BY <1>1, <2>2, <2>4 DEF Good, Wait
  <2>6. Inject(s, FALSE)
    BY <1>4, <2>1 DEF PushMouseUp
  <2> QED BY <1>3, <2>3, <2>5, <2>6
<1>5. CASE ~ owned
  <2>1. PICK t : t = [em EXCEPT !.button = FALSE]
    OBVIOUS
  <2>2. PICK e : e = Event("mouseUp", NoKey)
    OBVIOUS
  <2>3. e \in Entry /\ e.what = "mouseUp" /\ e.what \in MouseKinds
    BY <2>2 DEF Event, Entry, Kinds, LowLevel, KeyKinds, MouseKinds
  <2>4. PICK s : s = Posted(t, e)
    OBVIOUS
  <2>5. PICK q : q = Append(em.queue, e)
    OBVIOUS
  <2>6. q \in Seq(Entry)
    BY <1>2, <2>3, <2>5
  <2>7. /\ s \in EventManager /\ s.queue = q /\ s.seen = em.seen /\ ~ s.button
        /\ s.click = em.click /\ s.paced = em.paced /\ s.since = em.since
        /\ s.first = em.first /\ s.repeat = em.repeat
    BY <1>1, <2>1, <2>4, <2>5, <2>6 DEF Posted, EventManager, Entry
  <2>8. LeavesClicksAlone => Paired(q, em.seen, FALSE)
    <3>1. LeavesClicksAlone => Paired(em.queue, em.seen, TRUE)
      BY <1>1 DEF Good, Paired
    <3>2. LeavesClicksAlone => Paired(q, em.seen, ~TRUE)
      BY <1>2, <2>3, <2>5, <3>1, PairedClick
    <3> QED BY <3>2 DEF Paired
  <2>9. Good(s, tick, FALSE)
    BY <1>1, <2>7, <2>8 DEF Good, Wait
  <2>10. LeavesClicksAlone => (modal \in Tracking => s.seen = "mouseDown")
    BY <2>7 DEF InputInv, Owners
  <2>11. Inject(s, FALSE)
    BY <1>5, <2>1, <2>2, <2>4 DEF PushMouseUp
  <2> QED BY <1>3, <2>9, <2>10, <2>11
<1> QED BY <1>1, <1>4, <1>5

\* A step of the host.
LEMMA HostKeeps ==
  ASSUME InputInv, session' = session, Host
  PROVE  InputInv'
BY HostStays, KeyDownInv, KeyUpInv, MouseDownInv, MouseUpInv DEF Host

\* The part of a tick both clocks share.
LEMMA AdvanceKeeps ==
  ASSUME InputInv, AdvanceTick, UNCHANGED held
  PROVE  /\ tick' \in 0..TickSpan - 1 /\ Good(em', tick', held') /\ Steady(em', em)
         /\ OnlyRepeats(em', em) /\ mbDown' \in BOOLEAN /\ callback' \in BOOLEAN
         /\ LeavesClicksAlone => (mbDown' => held')
<1>1. /\ tick \in 0..TickSpan - 1 /\ Good(em, tick, held) /\ held \in BOOLEAN
      /\ em.queue \in Seq(Entry) /\ em.button \in BOOLEAN /\ TickSpan \in Nat \ {0}
  BY InputAssumption DEF InputInv, InputTypeOK, EventManager, Entry
<1>2. PICK h : h = held
  OBVIOUS
<1>3. tick' = After(1) /\ em' = Ticked(em) /\ held' = h
      /\ mbDown' = (em.button \/ UnmatchedDown(em.queue)) /\ callback' \in BOOLEAN
  BY <1>2 DEF AdvanceTick
<1>4. Good(Ticked(em), After(1), h) /\ Steady(Ticked(em), em) /\ OnlyRepeats(Ticked(em), em)
  <2>1. Good(em, tick, h)
    BY <1>1, <1>2
  <2> QED BY <1>1, <2>1, TickedKeeps
<1>5. tick' \in 0..TickSpan - 1
  <2>1. tick + 1 \in Int /\ tick' = (tick + 1) % TickSpan
    BY <1>1, <1>3 DEF After
  <2> QED BY <1>1, <2>1
<1>6. LeavesClicksAlone => (mbDown' => held')
  <2>1. LeavesClicksAlone => (em.button => h) /\ Paired(em.queue, em.seen, h)
    BY <1>1, <1>2 DEF Good
  <2>2. LeavesClicksAlone /\ UnmatchedDown(em.queue) => h
    BY <1>1, <1>2, <2>1, UnmatchedIsHeld
  <2>3. mbDown' => em.button \/ UnmatchedDown(em.queue)
    BY <1>3
  <2> QED BY <1>2, <1>3, <2>1, <2>2, <2>3
<1>7. mbDown' \in BOOLEAN
  BY <1>1, <1>3 DEF UnmatchedDown
<1>8. Good(em', tick', held')
  BY <1>3, <1>4 DEF Good, Paired
<1> QED BY <1>3, <1>4, <1>5, <1>6, <1>7, <1>8

\* What a step of a clock leaves of who owns a release.
LEMMA ClockOwners ==
  ASSUME InputInv, Steady(em', em), UNCHANGED <<modal, owned, held>>, LeavesClicksAlone,
         asleep'.left > 0 => IsAsleep, modal \in Tracking => em'.seen = em.seen
  PROVE  /\ modal' \in {"none", "idle", "button", "popup"}
         /\ modal' # "none" => ~ (asleep'.left > 0)
         /\ owned' => Mouse(em'.queue) = {} /\ em'.seen = "mouseDown"
         /\ modal' \in Tracking => em'.seen = "mouseDown" /\ ~owned'
BY DEF InputInv, Owners, Steady

\* A tick takes nothing from the queue.
LEMMA TickSeen ==
  ASSUME em \in EventManager PROVE Ticked(em).seen = em.seen /\ Ticked(em).took = em.took
<1>1. PICK s : s = [em EXCEPT !.since = IF @ < Threshold + Rate THEN @ + 1 ELSE @]
  OBVIOUS
<1>2. s.seen = em.seen /\ s.took = em.took /\ DOMAIN s = DOMAIN em
  BY <1>1 DEF EventManager
<1>3. Ticked(em) = WithAutoKey(s, After(1), sysMask)
  BY <1>1 DEF Ticked
<1>4. /\ WithAutoKey(s, After(1), sysMask).seen = s.seen
      /\ WithAutoKey(s, After(1), sysMask).took = s.took
  BY <1>1 DEF WithAutoKey, AutoKeyPosted, Posted, EventManager
<1> QED BY <1>2, <1>3, <1>4

\* A step of a clock: no tick passes over an event the sleeping guest waits for.
LEMMA ClockKeeps ==
  ASSUME InputInv, session' = session, Clock
  PROVE  InputInv'
<1>1. /\ tick \in 0..TickSpan - 1 /\ session \in Sessions /\ Good(em, tick, held)
      /\ asleep.record => asleep.mask \in session.masks
      /\ asleep \in [left : Nat, mask : SUBSET Kinds, region : BOOLEAN, record : BOOLEAN]
      /\ callback \in BOOLEAN /\ modal \in {"none", "idle", "button", "popup", "filter"}
      /\ owned \in BOOLEAN /\ held \in BOOLEAN /\ draining \in BOOLEAN /\ mbDown \in BOOLEAN
      /\ sysMask \in SUBSET Kinds /\ em \in EventManager /\ em.queue \in Seq(Entry)
  BY DEF InputInv, InputTypeOK, Waits, EventManager, Entry
<1>2. LeavesClicksAlone => (mbDown => held)
  BY DEF InputInv, Owners
<1>3. CASE Tick
  <2>1. /\ AdvanceTick /\ UNCHANGED <<sysMask, asleep, draining, modal, owned, held>>
        /\ ~ draining /\ ~ IsAsleep
    BY <1>3 DEF Tick
  <2>2. /\ tick' \in 0..TickSpan - 1 /\ Good(em', tick', held') /\ Steady(em', em)
        /\ mbDown' \in BOOLEAN /\ callback' \in BOOLEAN
        /\ LeavesClicksAlone => (mbDown' => held')
    BY <2>1, AdvanceKeeps
  <2>3. em'.seen = em.seen
    BY <1>1, <2>1, TickSeen DEF AdvanceTick
  <2>4. asleep'.left > 0 => IsAsleep
    BY <2>1 DEF IsAsleep
  <2> QED BY <1>1, <2>1, <2>2, <2>3, <2>4, ClockOwners, NextInv
<1>4. CASE SleepTick
  <2>1. /\ AdvanceTick /\ UNCHANGED <<sysMask, modal, owned, held>> /\ draining /\ IsAsleep
    BY <1>4 DEF SleepTick
  <2>2. /\ tick' \in 0..TickSpan - 1 /\ Good(em', tick', held') /\ Steady(em', em)
        /\ OnlyRepeats(em', em) /\ mbDown' \in BOOLEAN /\ callback' \in BOOLEAN
        /\ LeavesClicksAlone => (mbDown' => held')
    BY <2>1, AdvanceKeeps
  <2>3. em'.seen = em.seen
    BY <1>1, <2>1, TickSeen DEF AdvanceTick
  <2>4. PICK left : left = asleep.left - 1
    OBVIOUS
  <2>5. left \in Nat
    BY <1>1, <2>1, <2>4 DEF IsAsleep
  <2>6. /\ modal = "none"
        /\ asleep.record /\ ~em.took
             => Positions(em.queue, asleep.mask \ {"update", "autoKey"}) = {}
    BY <2>1 DEF InputInv, Waits
  <2>7. IF callback'
        THEN /\ draining' = FALSE
             /\ asleep' \in IF left = 0 THEN {Awake}
                            ELSE {[Awake EXCEPT !.left = left], [asleep EXCEPT !.left = left]}
        ELSE /\ draining' = (left > 0)
             /\ asleep' = IF left = 0 THEN Awake ELSE [asleep EXCEPT !.left = left]
    BY <1>4, <2>4 DEF SleepTick
  <2>8. /\ \/ asleep' = Awake
           \/ asleep' = [Awake EXCEPT !.left = left]
           \/ asleep' = [asleep EXCEPT !.left = left]
        /\ draining' => left > 0 /\ ~ callback' /\ asleep' = [asleep EXCEPT !.left = left]
        /\ draining' \in BOOLEAN
    <3>1. CASE callback' /\ left = 0
      BY <2>7, <3>1
    <3>2. CASE callback' /\ left # 0
      BY <2>7, <3>2
    <3>3. CASE ~ callback' /\ left = 0
      <4>1. draining' = (0 > 0) /\ asleep' = Awake
        BY <2>7, <3>3
      <4>2. (0 > 0) = FALSE
        OBVIOUS
      <4>3. draining' = FALSE
        BY <4>1, <4>2, Zenon
      <4> QED BY <4>1, <4>3
    <3>4. CASE ~ callback' /\ left # 0
      BY <2>5, <2>7, <3>4
    <3> QED BY <3>1, <3>2, <3>3, <3>4
  <2>9. draining' \in BOOLEAN
    BY <2>8
  <2>10. /\ asleep' \in [left : Nat, mask : SUBSET Kinds, region : BOOLEAN, record : BOOLEAN]
         /\ asleep'.record => asleep'.mask \in session.masks
    <3>1. CASE asleep' = [Awake EXCEPT !.left = left]
      BY <2>5, <3>1 DEF Awake
    <3>2. CASE asleep' = [asleep EXCEPT !.left = left]
      BY <1>1, <2>5, <3>2
    <3>3. CASE asleep' = Awake
      BY <3>3, AwakeIs
    <3> QED BY <2>8, <3>1, <3>2, <3>3
  <2>11. draining' => /\ asleep'.left > 0 /\ ~ callback' /\ modal' = "none"
                      /\ asleep'.record /\ ~em'.took
                           => Positions(em'.queue, asleep'.mask \ {"update", "autoKey"}) = {}
    <3> SUFFICES ASSUME draining'
                 PROVE  /\ asleep'.left > 0 /\ ~ callback' /\ modal' = "none"
                        /\ asleep'.record /\ ~em'.took
                             => Positions(em'.queue, asleep'.mask \ {"update", "autoKey"}) = {}
      OBVIOUS
    <3>1. asleep'.left > 0 /\ asleep'.mask = asleep.mask /\ asleep'.record = asleep.record
      BY <1>1, <2>8
    <3>2. PICK kinds : kinds = asleep.mask \ {"update", "autoKey"}
      OBVIOUS
    <3>3. asleep.record /\ ~em'.took => Positions(em'.queue, kinds) = {}
      <4>1. em'.took = em.took
        BY <1>1, <2>1, TickSeen DEF AdvanceTick
      <4> QED BY <1>1, <2>2, <2>6, <3>2, <4>1, RepeatsUnseen
    <3> QED BY <2>1, <2>6, <2>8, <3>1, <3>2, <3>3
  <2>12. asleep'.left > 0 => IsAsleep
    BY <2>1
  <2> QED BY <1>1, <2>1, <2>2, <2>3, <2>9, <2>10, <2>11, <2>12, ClockOwners, NextInv
<1>5. CASE ServeSleep
  <2>1. /\ IsAsleep /\ ~ callback /\ ~ draining
        /\ UNCHANGED <<tick, sysMask, callback, modal, owned, held>>
    BY <1>5 DEF ServeSleep
  <2>2. PICK d : d = Delivery(em)
    OBVIOUS
  <2>3. PICK h : h = held
    OBVIOUS
  <2>4. /\ Good(d.state, tick, h) /\ Steady(d.state, em) /\ d.sleep \in {asleep, Awake}
        /\ ~ d.over => /\ d.sleep = asleep
                       /\ asleep.record /\ ~d.state.took
                            => Positions(d.state.queue, asleep.mask \ {"update"}) = {}
    BY <1>1, <2>2, <2>3, DeliveryKeeps
  <2>5. /\ em' = d.state /\ asleep' = (IF modal = "none" THEN d.sleep ELSE Awake)
        /\ draining' = (~d.over /\ modal = "none")
        /\ mbDown' = IF d.over /\ asleep.record THEN d.state.button ELSE mbDown
    BY <1>5, <2>2 DEF ServeSleep
  <2>6. Good(em', tick', held')
    BY <2>1, <2>3, <2>4, <2>5 DEF Good, Paired
  <2>7. d.state.button \in BOOLEAN /\ (LeavesClicksAlone => (d.state.button => held))
    BY <2>3, <2>4 DEF Good, EventManager
  <2>8. mbDown' \in BOOLEAN /\ (LeavesClicksAlone => (mbDown' => held'))
    <3>1. mbDown' = d.state.button \/ mbDown' = mbDown
      BY <2>5
    <3> QED BY <1>1, <1>2, <2>1, <2>7, <3>1
  <2>9. /\ asleep' \in [left : Nat, mask : SUBSET Kinds, region : BOOLEAN, record : BOOLEAN]
        /\ asleep'.record => asleep'.mask \in session.masks
    BY <1>1, <2>4, <2>5, AwakeIs
  <2>10. asleep'.left > 0 => IsAsleep
    BY <2>1
  <2>11. LeavesClicksAlone => modal = "none"
    BY <2>1 DEF InputInv, Owners
  <2>12. draining' => /\ asleep'.left > 0 /\ ~ callback' /\ modal' = "none"
                      /\ asleep'.record /\ ~em'.took
                           => Positions(em'.queue, asleep'.mask \ {"update", "autoKey"}) = {}
    <3> SUFFICES ASSUME draining'
                 PROVE  /\ asleep'.left > 0 /\ ~ callback' /\ modal' = "none"
                        /\ asleep'.record /\ ~em'.took
                             => Positions(em'.queue, asleep'.mask \ {"update", "autoKey"}) = {}
      OBVIOUS
    <3>1. ~ d.over /\ modal = "none" /\ asleep' = asleep
      BY <2>4, <2>5
    <3>2. asleep.record /\ ~em'.took => Positions(em'.queue, asleep.mask \ {"update"}) = {}
      BY <2>4, <2>5, <3>1
    <3>3. asleep.record /\ ~em'.took
            => Positions(em'.queue, asleep.mask \ {"update", "autoKey"}) = {}
      BY <3>2 DEF Positions
    <3> QED BY <2>1, <3>1, <3>3 DEF IsAsleep
  <2>13. draining' \in BOOLEAN
    BY <2>5
  <2>14. LeavesClicksAlone => modal \notin Tracking
    BY <2>11 DEF Tracking
  <2> QED BY <1>1, <2>1, <2>4, <2>5, <2>6, <2>8, <2>9, <2>10, <2>12, <2>13, <2>14,
             ClockOwners, NextInv
<1>6. CASE SleepCapped \/ CallbackReturns
  <2>1. /\ UNCHANGED <<tick, em, mbDown, sysMask, asleep, modal, owned, held>>
        /\ callback' \in BOOLEAN /\ draining' \in BOOLEAN
        /\ draining' => draining /\ callback
    <3>1. CASE SleepCapped
      BY <1>1, <3>1 DEF SleepCapped
    <3>2. CASE CallbackReturns
      BY <1>1, <3>2 DEF CallbackReturns
    <3> QED BY <1>6, <3>1, <3>2
  <2>2. ~ draining'
    BY <2>1 DEF InputInv, Waits
  <2>3. Good(em', tick', held')
    BY <1>1, <2>1 DEF Good, Paired
  <2>4. Steady(em', em) /\ em'.seen = em.seen
    BY <2>1 DEF Steady
  <2>5. asleep'.left > 0 => IsAsleep
    BY <2>1 DEF IsAsleep
  <2> QED BY <1>1, <1>2, <2>1, <2>2, <2>3, <2>4, <2>5, ClockOwners, NextInv
<1> QED BY <1>3, <1>4, <1>5, <1>6 DEF Clock

\* A call that looks at or takes from the queue, or posts to it.
LEMMA PollInv ==
  ASSUME InputInv, session' = session, NEW mask \in session.masks,
         GetNextEvent(mask) \/ EventAvail(mask) \/ GetOSEvent(mask)
  PROVE  InputInv'
<1>1. /\ tick \in 0..TickSpan - 1 /\ session \in Sessions /\ Good(em, tick, held)
      /\ sysMask' \in SUBSET Kinds /\ GuestRuns
      /\ UNCHANGED <<tick, asleep, draining, callback, modal, owned, held>>
  BY DEF InputInv, InputTypeOK, GetNextEvent, EventAvail, GetOSEvent
<1>2. ~ draining /\ modal \notin Tracking
  BY <1>1, GuestOutside
<1>3. em.button \in BOOLEAN /\ (LeavesClicksAlone => (em.button => held))
  BY <1>1 DEF Good, EventManager
<1>4. CASE GetNextEvent(mask)
  <2>1. PICK r : r = ToolboxPoll(em, mask).state
    OBVIOUS
  <2>2. Good(r, tick, held) /\ Steady(r, em)
    BY <1>1, <2>1, ToolboxPollKeeps
  <2>3. em' = r /\ mbDown' = r.button
    BY <1>4, <2>1 DEF GetNextEvent
  <2>4. r.button \in BOOLEAN /\ (LeavesClicksAlone => (r.button => held))
    BY <2>2 DEF Good, EventManager
  <2> QED BY <1>1, <1>2, <2>2, <2>3, <2>4, CallInv
<1>5. CASE EventAvail(mask)
  <2>1. PICK r : r = BeforePoll(em, mask)
    OBVIOUS
  <2>2. Good(r, tick, held) /\ Steady(r, em)
    BY <1>1, <2>1, BeforePollKeeps
  <2>3. em' = r /\ mbDown' = em.button
    BY <1>5, <2>1 DEF EventAvail
  <2> QED BY <1>1, <1>2, <1>3, <2>2, <2>3, CallInv
<1>6. CASE GetOSEvent(mask)
  <2>1. PICK r : r = OSPoll(em, mask)
    OBVIOUS
  <2>2. Good(r, tick, held) /\ Steady(r, em)
    BY <1>1, <2>1, OSPollKeeps
  <2>3. em' = r /\ mbDown' = r.button
    BY <1>6, <2>1 DEF GetOSEvent
  <2>4. r.button \in BOOLEAN /\ (LeavesClicksAlone => (r.button => held))
    BY <2>2 DEF Good, EventManager
  <2> QED BY <1>1, <1>2, <2>2, <2>3, <2>4, CallInv
<1> QED BY <1>4, <1>5, <1>6

\* The guest goes to sleep, outside of any dialog.
LEMMA WaitInv ==
  ASSUME InputInv, session' = session, NEW mask \in session.masks,
         NEW ticks \in session.sleeps, NEW region \in BOOLEAN, WaitNextEvent(mask, ticks, region)
  PROVE  InputInv'
<1>1. /\ tick \in 0..TickSpan - 1 /\ session \in Sessions /\ Good(em, tick, held)
      /\ sysMask' \in SUBSET Kinds /\ GuestRuns /\ owned \in BOOLEAN /\ held \in BOOLEAN
      /\ callback \in BOOLEAN /\ modal \in {"none", "idle", "button", "popup", "filter"}
      /\ UNCHANGED <<tick, draining, callback, modal, owned, held>>
  BY DEF InputInv, InputTypeOK, WaitNextEvent
<1>2. ~ draining /\ modal \notin Tracking /\ draining \in BOOLEAN
  BY <1>1, GuestOutside DEF InputInv, InputTypeOK
<1>3. ticks \in Nat /\ mask \subseteq Kinds
  <2>1. session \in Session
    BY <1>1, InputAssumption
  <2>2. ticks \in Nat
    BY <2>1 DEF Session
  <2> QED BY <1>1, <2>2, MasksPair
<1>4. PICK poll : poll = ToolboxPoll(em, mask)
  OBVIOUS
<1>5. Good(poll.state, tick, held) /\ Steady(poll.state, em)
  BY <1>1, <1>4, ToolboxPollKeeps
<1>6. em' = poll.state /\ mbDown' = poll.state.button
  BY <1>4 DEF WaitNextEvent
<1>7. poll.state.button \in BOOLEAN /\ (LeavesClicksAlone => (poll.state.button => held))
  BY <1>5 DEF Good, EventManager
<1>8. \/ asleep' = Awake
      \/ asleep' = [left |-> ticks, mask |-> mask, region |-> region, record |-> TRUE]
  BY DEF WaitNextEvent
<1>9. /\ asleep' \in [left : Nat, mask : SUBSET Kinds, region : BOOLEAN, record : BOOLEAN]
      /\ asleep'.record => asleep'.mask \in session.masks
  <2>1. CASE asleep' = Awake
    BY <2>1, AwakeIs
  <2>2. CASE asleep' = [left |-> ticks, mask |-> mask, region |-> region, record |-> TRUE]
    BY <1>3, <2>2
  <2> QED BY <1>8, <2>1, <2>2
<1>10. ASSUME LeavesClicksAlone
       PROVE  modal = "none" /\ (owned => Mouse(em'.queue) = {} /\ em'.seen = "mouseDown")
  <2>1. modal \in {"none", "idle", "button", "popup"} /\ modal \in {"none", "filter"}
    BY <1>1, <1>10 DEF InputInv, Owners, GuestRuns
  <2>2. owned => Mouse(em.queue) = {} /\ em.seen = "mouseDown"
    BY <1>10 DEF InputInv, Owners
  <2> QED BY <1>5, <1>6, <2>1, <2>2 DEF Steady
<1>11. Good(em', tick', held')
  BY <1>1, <1>5, <1>6 DEF Good, Paired
<1> QED BY <1>1, <1>2, <1>6, <1>7, <1>9, <1>10, <1>11, NextInv

\* Calls that change the queue without the mouse, or flush it.
LEMMA QueueCallInv ==
  ASSUME InputInv, session' = session,
         \/ \E mask \in session.masks, stop \in {{}, KeyKinds} : FlushEvents(mask, stop)
         \/ PostEvent
         \/ \E mask \in session.systemMasks : SetEventMask(mask)
  PROVE  InputInv'
<1>1. /\ session \in Sessions /\ Good(em, tick, held) /\ mbDown \in BOOLEAN
      /\ sysMask \in SUBSET Kinds /\ (LeavesClicksAlone => (mbDown => held))
  BY DEF InputInv, InputTypeOK, Owners
<1>2. ASSUME NEW mask \in session.masks, NEW stop, FlushEvents(mask, stop) PROVE InputInv'
  <2>1. Good(em', tick, held) /\ Steady(em', em)
    BY <1>1, <1>2, FlushKeeps
  <2>2. /\ GuestRuns
        /\ UNCHANGED <<tick, mbDown, sysMask, asleep, draining, callback, modal, owned, held>>
    BY <1>2 DEF FlushEvents
  <2>3. ~ draining /\ modal \notin Tracking
    BY <2>2, GuestOutside
  <2> QED BY <1>1, <2>1, <2>2, <2>3, CallInv
<1>3. CASE PostEvent
  <2>1. PICK e : e = Event("osEvt", NoKey)
    OBVIOUS
  <2>2. e \in Entry /\ e.what \notin MouseKinds
    BY <2>1 DEF Event, Entry, Kinds, MouseKinds
  <2>3. PICK r : r = Posted(em, e)
    OBVIOUS
  <2>4. Good(r, tick, held) /\ Steady(r, em)
    BY <1>1, <2>2, <2>3, PostedKeeps
  <2>5. /\ em' = r
        /\ UNCHANGED <<tick, mbDown, sysMask, asleep, draining, callback, modal, owned, held>>
    BY <1>3, <2>1, <2>3 DEF PostEvent
  <2>6. ~ draining
    BY <1>3 DEF PostEvent, GuestRuns, InputInv, Waits
  <2>7. r.seen = em.seen
    BY <2>3, <1>1 DEF Posted, Good, EventManager
  <2> QED BY <1>1, <2>4, <2>5, <2>6, <2>7, CallInv
<1>4. ASSUME NEW mask \in session.systemMasks, SetEventMask(mask) PROVE InputInv'
  <2>1. session \in Session
    BY <1>1, InputAssumption
  <2>2. mask \in SUBSET Kinds
    BY <2>1 DEF Session
  <2>3. /\ GuestRuns /\ sysMask' = mask
        /\ UNCHANGED <<tick, em, mbDown, asleep, draining, callback, modal, owned, held>>
    BY <1>4 DEF SetEventMask
  <2>4. ~ draining /\ modal \notin Tracking
    BY <2>3, GuestOutside
  <2>5. Good(em', tick, held) /\ Steady(em', em)
    BY <1>1, <2>3 DEF Steady, Good
  <2> QED BY <1>1, <2>2, <2>3, <2>4, <2>5, CallInv
<1> QED BY <1>2, <1>3, <1>4

\* A step of the guest or of its dialog while it is awake.
LEMMA DialogInv ==
  ASSUME InputInv, session' = session, ~ draining,
         UNCHANGED <<tick, sysMask, asleep, draining, callback, held>>,
         Good(em', tick, held), mbDown' \in BOOLEAN,
         modal' \in {"none", "idle", "button", "popup", "filter"}, owned' \in BOOLEAN,
         LeavesClicksAlone =>
           /\ mbDown' => held
           /\ modal' \in {"none", "idle", "button", "popup"} /\ (modal' # "none" => ~ IsAsleep)
           /\ owned' => Mouse(em'.queue) = {} /\ em'.seen = "mouseDown"
           /\ modal' \in Tracking => em'.seen = "mouseDown" /\ ~owned'
  PROVE  InputInv'
<1>1. /\ tick \in 0..TickSpan - 1 /\ session \in Sessions
      /\ asleep.record => asleep.mask \in session.masks
      /\ asleep \in [left : Nat, mask : SUBSET Kinds, region : BOOLEAN, record : BOOLEAN]
      /\ callback \in BOOLEAN /\ held \in BOOLEAN /\ draining \in BOOLEAN
      /\ sysMask \in SUBSET Kinds
  BY DEF InputInv, InputTypeOK, Waits
<1>2. Good(em', tick', held')
  BY DEF Good, Paired
<1>3. IsAsleep <=> asleep.left > 0
  BY DEF IsAsleep
<1> QED BY <1>1, <1>2, <1>3, NextInv

\* The first queued release is behind no press that is queued when one was taken last.
LEMMA TakeReleaseInv ==
  ASSUME InputInv, session' = session, TakeRelease
  PROVE  InputInv'
<1>1. /\ session \in Sessions /\ Good(em, tick, held) /\ mbDown \in BOOLEAN /\ GuestRuns
      /\ sysMask \in SUBSET Kinds /\ (LeavesClicksAlone => (mbDown => held))
      /\ em.queue \in Seq(Entry)
  BY DEF InputInv, InputTypeOK, Owners, TakeRelease, EventManager, Entry
<1>2. ~ draining /\ modal \notin Tracking
  BY <1>1, GuestOutside
<1>3. /\ Ups \subseteq Nat /\ Ups \subseteq DOMAIN em.queue
      /\ Mouse(em.queue) \subseteq DOMAIN em.queue
      /\ \A i \in DOMAIN em.queue : i \in Ups <=> em.queue[i].what = "mouseUp"
      /\ \A i \in DOMAIN em.queue : i \in Mouse(em.queue) <=> em.queue[i].what \in MouseKinds
  BY <1>1, PositionsIn DEF Ups, Mouse
<1>4. PICK i : i = FirstUp
  OBVIOUS
<1>5. i \in Ups /\ \A j \in Ups : i <= j
  BY <1>3, <1>4, EarliestIs DEF TakeRelease, FirstUp
<1>6. ASSUME LeavesClicksAlone, NEW k \in Mouse(em.queue) PROVE i <= k
  <2>1. Paired(em.queue, "mouseDown", held)
    BY <1>1, <1>6 DEF TakeRelease, LeavesClicksAlone, Good
  <2>2. PICK n : n = Earliest(Mouse(em.queue))
    OBVIOUS
  <2>3. n \in Mouse(em.queue) /\ n <= k /\ em.queue[n].what = "mouseUp"
    BY <1>1, <1>6, <2>1, <2>2, NextIsRelease
  <2>4. n \in Ups /\ n \in Nat /\ i \in Nat /\ k \in Nat
    <3>1. Mouse(em.queue) \subseteq Nat
      BY <1>1, PositionsIn DEF Mouse
    <3> QED BY <1>3, <1>5, <1>6, <2>3, <3>1
  <2>5. i <= n
    BY <1>5, <2>4
  <2> QED BY <2>3, <2>4, <2>5
<1>7. PICK r : r = Dequeued(em, i)
  OBVIOUS
<1>8. Good(r, tick, held) /\ Steady(r, em)
  <2>1. i \in DOMAIN em.queue
    BY <1>3, <1>5
  <2> QED BY <1>1, <1>6, <1>7, <2>1, DequeuedKeeps
<1>9. /\ em' = r
      /\ UNCHANGED <<tick, mbDown, sysMask, asleep, draining, callback, modal, owned, held>>
  BY <1>4, <1>7 DEF TakeRelease
<1> QED BY <1>1, <1>2, <1>8, <1>9, CallInv

\* The menu choice of the host: only a session with the host's menu bar has one.
LEMMA MenuSelectInv ==
  ASSUME InputInv, session' = session, MenuSelect
  PROVE  InputInv'
<1>1. /\ Good(em, tick, held) /\ mbDown \in BOOLEAN /\ GuestRuns /\ em.click
      /\ modal \in {"none", "idle", "button", "popup", "filter"} /\ owned \in BOOLEAN
      /\ em \in EventManager
  BY DEF InputInv, InputTypeOK, MenuSelect
<1>2. ~ LeavesClicksAlone
  BY <1>1 DEF Good
<1>3. PICK s : s = [em EXCEPT !.click = FALSE, !.shown = Never]
  OBVIOUS
<1>4. Never \in 0..TickSpan
  BY InputAssumption DEF Never
<1>5. /\ s \in EventManager /\ s.queue = em.queue /\ s.paced = em.paced /\ s.repeat = em.repeat
      /\ s.since = em.since /\ s.first = em.first
  BY <1>1, <1>3, <1>4 DEF EventManager
<1>6. Good(s, tick, held) /\ s.queue \in Seq(Entry)
  <2>1. Good(s, tick, held)
    BY <1>1, <1>2, <1>5, GoodStays
  <2> QED BY <2>1 DEF Good, EventManager, Entry
<1>7. PICK ups : ups = Positions(s.queue, {"mouseUp"})
  OBVIOUS
<1>8. em' = IF ups = {} THEN s ELSE Removed(s, Earliest(ups))
  BY <1>3, <1>7 DEF MenuSelect
<1>9. ups # {} => Earliest(ups) \in DOMAIN s.queue
  <2>1. ups \subseteq Nat /\ ups \subseteq DOMAIN s.queue
    BY <1>6, <1>7, PositionsIn
  <2>2. ups # {} => Earliest(ups) \in ups
    BY <2>1, EarliestIs
  <2> QED BY <2>1, <2>2
<1>10. Good(em', tick, held)
  <2>1. CASE ups = {}
    BY <1>6, <1>8, <2>1
  <2>2. CASE ups # {}
    <3>1. PICK r : r = Removed(s, Earliest(ups))
      OBVIOUS
    <3>2. Good(r, tick, held)
      BY <1>2, <1>6, <1>9, <2>2, <3>1, RemovedKeeps
    <3> QED BY <1>8, <2>2, <3>1, <3>2
  <2> QED BY <2>1, <2>2
<1>11. UNCHANGED <<tick, mbDown, sysMask, asleep, draining, callback, modal, owned, held>>
  BY DEF MenuSelect
<1>12. ~ draining
  BY <1>1, GuestOutside
<1> QED BY <1>1, <1>2, <1>10, <1>11, <1>12, DialogInv

\* A press that a dialog took from the queue: the dialog may own its release.
LEMMA PressKeeps ==
  ASSUME NEW s, Good(s, tick, held), owned \in BOOLEAN, NEW o \in PressOutcomes(s),
         LeavesClicksAlone => s.seen = "mouseDown" /\ ~owned
  PROVE  /\ Good(o.state, tick, held) /\ o.owned \in BOOLEAN
         /\ o.modal \in {"none", "idle", "button", "popup"}
         /\ LeavesClicksAlone =>
              /\ o.owned => Mouse(o.state.queue) = {} /\ o.state.seen = "mouseDown"
              /\ o.modal \in Tracking => o.state.seen = "mouseDown" /\ ~o.owned
<1>1. PICK c : c = ConsumeOrRetainRelease(s)
  OBVIOUS
<1>2. /\ Good(c.state, tick, held) /\ c.pending \in BOOLEAN
      /\ LeavesClicksAlone /\ c.pending
           => Mouse(c.state.queue) = {} /\ c.state.seen = "mouseDown"
  BY <1>1, ConsumeKeeps
<1>3. \/ /\ o.state = s /\ o.owned = owned /\ o.modal \in {"none", "idle", "button", "popup"}
      \/ o.state = c.state /\ o.owned = c.pending /\ o.modal = "none"
  BY <1>1 DEF PressOutcomes
<1> QED BY <1>2, <1>3 DEF Tracking

\* A dialog's loop takes an event: of a press it may own the release.
LEMMA ModalEventInv ==
  ASSUME InputInv, session' = session, ModalEvent
  PROVE  InputInv'
<1>1. /\ Good(em, tick, held) /\ mbDown \in BOOLEAN /\ em \in EventManager
      /\ em.button \in BOOLEAN /\ owned \in BOOLEAN /\ modal = "idle" /\ em.queue \in Seq(Entry)
      /\ UNCHANGED <<tick, mbDown, sysMask, asleep, draining, callback, held>>
  BY DEF InputInv, InputTypeOK, ModalEvent, EventManager, Entry
<1>2. LeavesClicksAlone =>
        /\ mbDown => held
        /\ ~ IsAsleep
        /\ owned => Mouse(em.queue) = {} /\ em.seen = "mouseDown"
  BY <1>1 DEF InputInv, Owners
<1>3. ~ draining
  BY <1>1 DEF InputInv, Waits
<1>4. PICK acts : acts = Positions(em.queue, Actionable)
  OBVIOUS
<1>5. PICK first : first = Earliest(acts)
  OBVIOUS
<1>6. PICK taken : taken = [Removed(em, first) EXCEPT
                             !.queue = Keeping(em.queue, (first + 1)..Len(em.queue))]
  OBVIOUS
<1>7. ASSUME NEW r, em' = r, Good(r, tick, held), modal' \in {"none", "idle", "button", "popup"},
             owned' \in BOOLEAN,
             LeavesClicksAlone =>
               /\ owned' => Mouse(r.queue) = {} /\ r.seen = "mouseDown"
               /\ modal' \in Tracking => r.seen = "mouseDown" /\ ~owned'
      PROVE  InputInv'
  BY <1>1, <1>2, <1>3, <1>7, DialogInv
<1>8. CASE acts = {}
  <2>1. PICK r : r = [em EXCEPT !.queue = << >>]
    OBVIOUS
  <2>2. em' = r /\ UNCHANGED <<modal, owned>>
    BY <1>4, <1>8, <2>1 DEF ModalEvent
  <2>3. << >> \in Seq(Entry)
    OBVIOUS
  <2>4. /\ r \in EventManager /\ r.queue = << >> /\ r.seen = em.seen
        /\ r.button = em.button
        /\ r.click = em.click /\ r.paced = em.paced /\ r.repeat = em.repeat
        /\ r.since = em.since /\ r.first = em.first
    BY <1>1, <2>1, <2>3 DEF EventManager, Entry
  <2>5. Mouse(em.queue) = {}
    <3>1. Mouse(em.queue) \subseteq acts
      BY <1>4 DEF Mouse, Positions, Actionable, MouseKinds
    <3> QED BY <1>8, <3>1
  <2>6. Mouse(<< >>) = {}
    BY DEF Mouse, Positions
  <2>7. LeavesClicksAlone => (r.button => held) /\ Paired(r.queue, r.seen, held)
    BY <1>1, <2>4, <2>5, <2>6 DEF Good, Paired
  <2>8. Good(r, tick, held)
    BY <1>1, <2>4, <2>7, GoodStays
  <2> QED BY <1>1, <1>2, <1>7, <2>2, <2>4, <2>6, <2>8 DEF Tracking
<1>9. CASE acts # {}
  <2>1. /\ Good(taken, tick, held) /\ Steady(taken, em)
        /\ em.queue[first].what = "mouseDown" => taken.seen = "mouseDown" /\ Mouse(em.queue) # {}
    BY <1>1, <1>4, <1>5, <1>6, <1>9, ModalTakes
  <2>2. \/ em' = taken /\ modal' \in {"idle", "none"} /\ UNCHANGED owned
        \/ /\ em.queue[first].what = "mouseDown"
           /\ \E o \in PressOutcomes(taken) : em' = o.state /\ modal' = o.modal /\ owned' = o.owned
    <3>1. CASE em.queue[first].what = "mouseDown"
      BY <1>4, <1>5, <1>6, <1>9, <3>1 DEF ModalEvent
    <3>2. CASE em.queue[first].what = "keyDown"
      BY <1>4, <1>5, <1>6, <1>9, <3>2 DEF ModalEvent
    <3>3. CASE em.queue[first].what \notin {"mouseDown", "keyDown"}
      BY <1>1, <1>4, <1>5, <1>6, <1>9, <3>3 DEF ModalEvent
    <3> QED BY <3>1, <3>2, <3>3
  <2>3. LeavesClicksAlone /\ owned => Mouse(taken.queue) = {} /\ taken.seen = "mouseDown"
    BY <1>2, <2>1 DEF Steady
  <2>4. CASE em' = taken /\ modal' \in {"idle", "none"} /\ UNCHANGED owned
    BY <1>1, <1>7, <2>1, <2>3, <2>4 DEF Tracking
  <2>5. CASE /\ em.queue[first].what = "mouseDown"
             /\ \E o \in PressOutcomes(taken) : em' = o.state /\ modal' = o.modal /\ owned' = o.owned
    <3>1. PICK o \in PressOutcomes(taken) : em' = o.state /\ modal' = o.modal /\ owned' = o.owned
      BY <2>5
    <3>2. LeavesClicksAlone => taken.seen = "mouseDown" /\ ~ owned
      BY <1>2, <2>1, <2>5
    <3>3. /\ Good(o.state, tick, held) /\ o.owned \in BOOLEAN
          /\ o.modal \in {"none", "idle", "button", "popup"}
          /\ LeavesClicksAlone =>
               /\ o.owned => Mouse(o.state.queue) = {} /\ o.state.seen = "mouseDown"
               /\ o.modal \in Tracking => o.state.seen = "mouseDown" /\ ~o.owned
      BY <1>1, <2>1, <3>2, PressKeeps
    <3> QED BY <1>7, <3>1, <3>3
  <2> QED BY <2>2, <2>4, <2>5
<1> QED BY <1>8, <1>9

\* A dialog opens; its filter procedure, when it has one, decides about events.
LEMMA FilterInv ==
  ASSUME InputInv, session' = session,
         OpenDialog \/ FilterStarts \/ FilterHandles \/ FilterDeclines
  PROVE  InputInv'
<1>1. /\ Good(em, tick, held) /\ mbDown \in BOOLEAN /\ owned \in BOOLEAN
      /\ em.queue \in Seq(Entry)
      /\ UNCHANGED <<tick, mbDown, sysMask, asleep, draining, callback, held>>
      /\ LeavesClicksAlone => (mbDown => held)
  BY DEF InputInv, InputTypeOK, Owners, OpenDialog, FilterStarts, FilterHandles, FilterDeclines,
         EventManager, Entry
<1>2. CASE OpenDialog
  <2>1. /\ modal' = "idle" /\ owned' = owned /\ ~ IsAsleep
        /\ em' = [em EXCEPT !.dialog = IF @ = "gone" THEN "left" ELSE @]
    BY <1>2 DEF OpenDialog, GuestRuns
  <2>2. ~ draining
    BY <1>2, GuestOutside DEF OpenDialog
  <2>3. PICK r : r = [em EXCEPT !.dialog = IF @ = "gone" THEN "left" ELSE @]
    OBVIOUS
  <2>4. /\ r \in EventManager /\ r.queue = em.queue /\ r.seen = em.seen /\ r.button = em.button
        /\ r.click = em.click /\ r.paced = em.paced /\ r.repeat = em.repeat
        /\ r.since = em.since /\ r.first = em.first
    BY <1>1, <2>3 DEF Good, EventManager
  <2>5. LeavesClicksAlone => (r.button => held) /\ Paired(r.queue, r.seen, held)
    BY <1>1, <2>4 DEF Good
  <2>6. Good(r, tick, held)
    BY <1>1, <2>4, <2>5, GoodStays
  <2>7. LeavesClicksAlone => (owned' => Mouse(r.queue) = {} /\ r.seen = "mouseDown")
    BY <2>1, <2>4 DEF InputInv, Owners
  <2> QED BY <1>1, <2>1, <2>2, <2>3, <2>6, <2>7, DialogInv DEF Tracking
<1>3. CASE FilterStarts
  <2>1. PICK acts : acts = Positions(em.queue, Actionable \cup {"keyUp"})
    OBVIOUS
  <2>2. PICK first : first = Earliest(acts)
    OBVIOUS
  <2>3. /\ acts # {} /\ em' = Removed(em, first) /\ modal' \in {"filter", "idle"}
        /\ owned' = owned /\ modal = "idle" /\ session.filter
    BY <1>3, <2>1, <2>2 DEF FilterStarts
  <2>4. ~ LeavesClicksAlone /\ ~ draining
    BY <2>3 DEF LeavesClicksAlone, InputInv, Waits
  <2>5. first \in DOMAIN em.queue
    <3>1. acts \subseteq Nat /\ acts \subseteq DOMAIN em.queue
      BY <1>1, <2>1, PositionsIn
    <3> QED BY <2>2, <2>3, <3>1, EarliestIs
  <2>6. PICK r : r = Removed(em, first)
    OBVIOUS
  <2>7. Good(r, tick, held)
    BY <1>1, <2>4, <2>5, <2>6, RemovedKeeps
  <2> QED BY <1>1, <2>3, <2>4, <2>6, <2>7, DialogInv
<1>4. CASE FilterHandles
  <2>1. PICK c : c = ConsumeOrRetainRelease(em)
    OBVIOUS
  <2>2. em' = c.state /\ owned' = c.pending /\ modal' = "none" /\ modal = "filter"
    BY <1>4, <2>1 DEF FilterHandles
  <2>3. ~ LeavesClicksAlone /\ ~ draining
    BY <2>2 DEF InputInv, Owners, Waits
  <2>4. Good(c.state, tick, held) /\ c.pending \in BOOLEAN
    BY <1>1, <2>1, <2>3, ConsumeKeeps
  <2> QED BY <1>1, <2>2, <2>3, <2>4, DialogInv
<1>5. CASE FilterDeclines
  <2>1. PICK o \in PressOutcomes(em) : em' = o.state /\ modal' = o.modal /\ owned' = o.owned
    BY <1>5 DEF FilterDeclines
  <2>2. ~ LeavesClicksAlone /\ ~ draining
    BY <1>5 DEF FilterDeclines, InputInv, Owners, Waits
  <2>3. /\ Good(o.state, tick, held) /\ o.owned \in BOOLEAN
        /\ o.modal \in {"none", "idle", "button", "popup"}
    BY <1>1, <2>2, PressKeeps
  <2> QED BY <1>1, <2>1, <2>2, <2>3, DialogInv
<1> QED BY <1>2, <1>3, <1>4, <1>5

\* A dialog tracks a button until the button state is up, and owns the release then.
LEMMA TrackButtonInv ==
  ASSUME InputInv, session' = session, TrackButton
  PROVE  InputInv'
<1>1. /\ Good(em, tick, held) /\ mbDown \in BOOLEAN /\ modal = "button"
      /\ UNCHANGED <<tick, mbDown, sysMask, asleep, draining, callback, held>>
      /\ LeavesClicksAlone => (mbDown => held) /\ em.seen = "mouseDown" /\ ~ IsAsleep
      /\ modal' \in {"idle", "none"}
  BY DEF InputInv, InputTypeOK, Owners, TrackButton, Tracking
<1>2. ~ draining
  BY <1>1 DEF InputInv, Waits
<1>3. PICK c : c = ConsumeOrRetainRelease(em)
  OBVIOUS
<1>4. em' = c.state /\ owned' = c.pending
  BY <1>3 DEF TrackButton
<1>5. /\ Good(c.state, tick, held) /\ c.pending \in BOOLEAN
      /\ LeavesClicksAlone /\ c.pending
           => Mouse(c.state.queue) = {} /\ c.state.seen = "mouseDown"
  BY <1>1, <1>3, ConsumeKeeps
<1> QED BY <1>1, <1>2, <1>4, <1>5, DialogInv DEF Tracking

\* A popup menu is tracked until the button state is up: its release is the next transition
\* queued, if one is.
LEMMA TrackPopupInv ==
  ASSUME InputInv, session' = session, TrackPopup
  PROVE  InputInv'
<1>1. /\ Good(em, tick, held) /\ mbDown \in BOOLEAN /\ modal = "popup" /\ owned \in BOOLEAN
      /\ UNCHANGED <<tick, mbDown, sysMask, asleep, draining, callback, owned, held>>
      /\ modal' \in {"idle", "none"}
  BY DEF InputInv, InputTypeOK, TrackPopup
<1>2. LeavesClicksAlone => (mbDown => held) /\ em.seen = "mouseDown" /\ ~ IsAsleep /\ ~ owned
  BY <1>1 DEF InputInv, Owners, Tracking
<1>3. ~ draining
  BY <1>1 DEF InputInv, Waits
<1>4. PICK c : c = ConsumeOrRetainRelease(em)
  OBVIOUS
<1>5. em' = c.state
  BY <1>4 DEF TrackPopup
<1>6. Good(c.state, tick, held)
  BY <1>1, <1>2, <1>4, ConsumeKeeps
<1> QED BY <1>1, <1>2, <1>3, <1>5, <1>6, DialogInv DEF Tracking

\* The front dialog is disposed of; while it owns a release, its press is not queued.
LEMMA DisposeDialogInv ==
  ASSUME InputInv, session' = session, DisposeDialog
  PROVE  InputInv'
<1>1. /\ Good(em, tick, held) /\ em \in EventManager /\ em.queue \in Seq(Entry)
      /\ GuestRuns /\ owned \in BOOLEAN /\ modal = "none" /\ owned' = owned /\ modal' = modal
      /\ UNCHANGED <<tick, sysMask, asleep, draining, callback, held>>
      /\ mbDown \in BOOLEAN /\ (mbDown' = FALSE \/ mbDown' = mbDown)
  BY DEF InputInv, InputTypeOK, DisposeDialog, EventManager, Entry
<1>2. ~ draining
  BY <1>1, GuestOutside
<1>3. LeavesClicksAlone =>
        /\ owned => Mouse(em.queue) = {} /\ em.seen = "mouseDown"
        /\ mbDown => held
  BY <1>1 DEF InputInv, Owners
<1>4. PICK closed : closed = [em EXCEPT !.dialog = "gone"]
  OBVIOUS
<1>5. /\ closed \in EventManager /\ closed.queue = em.queue /\ closed.seen = em.seen
      /\ closed.button = em.button /\ closed.click = em.click /\ closed.paced = em.paced
      /\ closed.repeat = em.repeat /\ closed.since = em.since /\ closed.first = em.first
  BY <1>1, <1>4 DEF EventManager
<1>6. ASSUME NEW q \in Seq(Entry), NEW b \in BOOLEAN,
             em' = [closed EXCEPT !.queue = q, !.button = b],
             b => em.button, LeavesClicksAlone => q = em.queue
      PROVE  InputInv'
  <2>1. PICK r : r = [closed EXCEPT !.queue = q, !.button = b]
    OBVIOUS
  <2>2. /\ r \in EventManager /\ r.queue = q /\ r.seen = em.seen /\ r.button = b
        /\ r.click = em.click /\ r.paced = em.paced /\ r.repeat = em.repeat
        /\ r.since = em.since /\ r.first = em.first
    BY <1>5, <2>1 DEF EventManager, Entry
  <2>3. LeavesClicksAlone => (r.button => held) /\ Paired(r.queue, r.seen, held)
    BY <1>1, <1>6, <2>2 DEF Good
  <2>4. Good(r, tick, held)
    BY <1>1, <2>2, <2>3, GoodStays
  <2>5. LeavesClicksAlone => (owned => Mouse(r.queue) = {} /\ r.seen = "mouseDown")
    BY <1>3, <1>6, <2>2
  <2>6. mbDown' \in BOOLEAN /\ (LeavesClicksAlone => (mbDown' => held))
    <3>1. CASE mbDown' = FALSE
      BY <3>1
    <3>2. CASE mbDown' = mbDown
      BY <1>1, <1>3, <3>2, Zenon
    <3> QED BY <1>1, <3>1, <3>2
  <2> QED BY <1>1, <1>2, <1>6, <2>1, <2>4, <2>5, <2>6, DialogInv DEF Tracking
<1>7. PICK downs : downs = Positions(em.queue, {"mouseDown"})
  OBVIOUS
<1>8. CASE /\ owned /\ downs # {}
           /\ em' = [closed EXCEPT !.queue = Keeping(@, DOMAIN @ \ {Latest(downs)}),
                                   !.button = FALSE]
  <2>1. PICK P : P = DOMAIN em.queue \ {Latest(downs)}
    OBVIOUS
  <2>2. PICK q : q = Keeping(em.queue, P)
    OBVIOUS
  <2>3. q \in Seq(Entry)
    BY <1>1, <2>2, KeepingProperties
  <2>4. downs \subseteq Mouse(em.queue)
    BY <1>7 DEF Mouse, Positions, MouseKinds
  <2>5. ~ LeavesClicksAlone
    BY <1>3, <1>8, <2>4
  <2>6. em' = [closed EXCEPT !.queue = q, !.button = FALSE]
    BY <1>5, <1>8, <2>1, <2>2 DEF EventManager
  <2> QED BY <1>6, <2>3, <2>5, <2>6
<1>9. CASE em' = [closed EXCEPT !.button = FALSE]
  <2>1. em' = [closed EXCEPT !.queue = em.queue, !.button = FALSE]
    BY <1>5, <1>9 DEF EventManager
  <2> QED BY <1>1, <1>6, <2>1
<1>10. CASE em' = closed
  <2>1. em' = [closed EXCEPT !.queue = em.queue, !.button = em.button]
    BY <1>5, <1>10 DEF EventManager
  <2>2. em.button \in BOOLEAN
    BY <1>1 DEF EventManager
  <2> QED BY <1>1, <1>6, <2>1, <2>2
<1> QED BY <1>4, <1>7, <1>8, <1>9, <1>10 DEF DisposeDialog

\* A call of the guest.
LEMMA GuestKeeps ==
  ASSUME InputInv, session' = session, Guest
  PROVE  InputInv'
<1>1. ASSUME NEW mask \in session.masks, NEW ticks \in session.sleeps, NEW region \in BOOLEAN,
             WaitNextEvent(mask, ticks, region)
      PROVE  InputInv'
  BY <1>1, WaitInv
<1>2. ASSUME NEW mask \in session.masks, NEW stop \in {{}, KeyKinds}, FlushEvents(mask, stop)
      PROVE  InputInv'
  BY <1>2, QueueCallInv
<1>3. ASSUME NEW mask \in session.systemMasks, SetEventMask(mask) PROVE InputInv'
  BY <1>3, QueueCallInv
<1> QED BY <1>1, <1>2, <1>3, PollInv, QueueCallInv, TakeReleaseInv, MenuSelectInv, ModalEventInv,
           FilterInv, TrackButtonInv, TrackPopupInv, DisposeDialogInv DEF Guest

\* Nothing happens.
LEMMA StutterKeeps ==
  ASSUME InputInv, UNCHANGED vars PROVE InputInv'
<1>1. /\ session' = session /\ tick' = tick /\ em' = em /\ mbDown' = mbDown
      /\ sysMask' = sysMask /\ asleep' = asleep /\ draining' = draining
      /\ callback' = callback /\ modal' = modal /\ owned' = owned /\ held' = held
  BY DEF vars
<1>2. InputTypeOK' /\ Owners' /\ Waits'
  <2>1. InputTypeOK'
    <3>1. InputTypeOK
      BY DEF InputInv
    <3> QED BY <1>1, <3>1, Zenon DEF InputTypeOK
  <2>2. Owners'
    BY <1>1 DEF InputInv, Owners, IsAsleep, LeavesClicksAlone
  <2>3. Waits'
    BY <1>1 DEF InputInv, Waits, IsAsleep
  <2> QED BY <2>1, <2>2, <2>3
<1>3. Good(em, tick, held)'
  BY <1>1 DEF InputInv, Good, LeavesClicksAlone, Wait
<1> QED BY <1>2, <1>3 DEF InputInv

\* The initial states satisfy the invariant.
LEMMA InputInitially == Init => InputInv
<1> SUFFICES ASSUME Init PROVE InputInv
  OBVIOUS
<1>1. /\ TickSpan \in Nat /\ Threshold \in Nat /\ Rate \in Nat /\ TickSpan > 2 * (Threshold + 1)
  BY InputAssumption
<1>2. << >> \in Seq(Entry) /\ Mouse(<< >>) = {}
  BY DEF Mouse, Positions
<1>3. em \in EventManager
  BY <1>1, <1>2 DEF Init, EventManager, Entry, NoRepeat, Never, MouseKinds
<1>4. /\ em.paced /\ em.repeat.key = NoKey /\ ~ em.click /\ ~ em.button
      /\ em.queue = << >> /\ em.seen = "mouseUp" /\ ~ held
  BY DEF Init, NoRepeat
<1>5. Paired(em.queue, em.seen, held)
  BY <1>2, <1>4 DEF Paired
<1>6. Good(em, tick, held)
  BY <1>3, <1>4, <1>5 DEF Good
<1>7. InputTypeOK
  <2>1. tick \in 0..TickSpan - 1 /\ session \in Sessions /\ sysMask \in SUBSET Kinds
    BY <1>1 DEF Init
  <2>2. asleep \in [left : Nat, mask : SUBSET Kinds, region : BOOLEAN, record : BOOLEAN]
    BY AwakeIs DEF Init
  <2>3. /\ mbDown \in BOOLEAN /\ draining \in BOOLEAN /\ callback \in BOOLEAN
        /\ modal \in {"none", "idle", "button", "popup", "filter"} /\ owned \in BOOLEAN /\ held \in BOOLEAN
    BY DEF Init
  <2> QED BY <1>3, <2>1, <2>2, <2>3 DEF InputTypeOK
<1>8. Owners /\ Waits
  BY AwakeIs DEF Init, Owners, Waits, Tracking
<1> QED BY <1>6, <1>7, <1>8 DEF InputInv

\* Every step keeps the invariant.
LEMMA InputInductive == InputInv /\ [Next]_vars => InputInv'
BY HostKeeps, GuestKeeps, ClockKeeps, StutterKeeps DEF Next

---------------------------------------------------------------------------
(* Theorems. *)

\* The invariant holds of every reachable state.
LEMMA InputInvariant == Spec => []InputInv
<1>1. Init => InputInv
  BY InputInitially
<1>2. InputInv /\ [Next]_vars => InputInv'
  BY InputInductive
<1> QED BY <1>1, <1>2, PTL DEF Spec

\* Every variable of the Event Manager keeps its type, in every kind of session.
THEOREM InputTypes == Spec => []InputTypeOK
<1>1. InputInv => InputTypeOK
  BY DEF InputInv
<1> QED BY <1>1, InputInvariant, PTL

\* No automatic key comes before its threshold or rate has passed since the key's last
\* event, nor for a key that is up (post_auto_key_if_due), whatever interleaving of ticks,
\* polls, presses and releases looks whether one is due, and across the counter's wrap.
THEOREM RepeatsArePaced == Spec => []AutoKeyPaced
<1>1. InputInv => AutoKeyPaced
  BY DEF InputInv, Good, AutoKeyPaced
<1> QED BY <1>1, InputInvariant, PTL

\* Every consumer of clicks takes a press with its own release, and a dialog owns no release
\* that has come already (pending_modal_dialog_mouse_up).
THEOREM ClicksArePaired == Spec => []ClicksStayPaired
<1>1. ASSUME InputInv, LeavesClicksAlone PROVE OwnedReleasePending
  <2>1. owned => Mouse(em.queue) = {} /\ em.seen = "mouseDown"
    BY <1>1 DEF InputInv, Owners
  <2>2. Paired(em.queue, em.seen, held)
    BY <1>1 DEF InputInv, Good
  <2> QED BY <2>1, <2>2 DEF Paired, OwnedReleasePending
<1>2. ASSUME InputInv, LeavesClicksAlone PROVE TransitionsAlternate
  <2> DEFINE q == em.queue
             before(i) == {j \in Mouse(q) : j < i}
  <2>1. q \in Seq(Entry) /\ Paired(q, em.seen, held)
    BY <1>2 DEF InputInv, Good, EventManager, Entry
  <2>2. Mouse(q) \subseteq 1..Len(q) /\ Len(q) \in Nat
    <3> HIDE DEF q
    <3> QED BY <2>1, PositionsIn DEF Mouse
  <2>3. ASSUME NEW i \in Mouse(q)
        PROVE  q[i].what # IF before(i) = {} THEN em.seen ELSE q[Latest(before(i))].what
    <3>1. CASE before(i) = {}
      <4>1. \A k \in Mouse(q) : i <= k
        BY <2>2, <3>1
      <4> QED BY <2>1, <3>1, <4>1 DEF Paired
    <3>2. CASE before(i) # {}
      <4>1. PICK l : l = Latest(before(i))
        OBVIOUS
      <4>2. before(i) \subseteq 1..Len(q)
        BY <2>2
      <4>3. l \in before(i) /\ \A j \in before(i) : j <= l
        <5> HIDE DEF before, q
        <5> QED BY <2>2, <3>2, <4>1, <4>2, LatestIs
      <4>4. \A k \in Mouse(q) : ~ (l < k /\ k < i)
        BY <2>2, <4>3
      <4>5. q[l].what # q[i].what
        BY <2>1, <4>3, <4>4 DEF Paired
      <4> QED BY <3>2, <4>1, <4>5
    <3> QED BY <3>1, <3>2
  <2> QED BY <2>3 DEF TransitionsAlternate, Mouse
<1>3. InputInv => ClicksStayPaired
  BY <1>1, <1>2 DEF ClicksStayPaired
<1> QED BY <1>3, InputInvariant, PTL

\* What the Button trap answers is true only while the user's finger is on the button: no
\* press outlives its release in the button's state, in the low-memory copy that each tick
\* derives from the queue, or in the queue itself.
THEOREM NoPressOutlives == Spec => []NoPhantomPress
<1>1. InputInv => NoPhantomPress
  BY DEF InputInv, Good, Owners, NoPhantomPress, ButtonTrap
<1> QED BY <1>1, InputInvariant, PTL

\* The sleep of WaitNextEvent passes over no event that was queued before it, whatever
\* callbacks and frames interrupt it (service_wait_sleep_ticks looks before it counts), unless
\* the look gave the event to a dialog left on the screen.
THEOREM SleepMissesNothing == Spec => NoEventSleptThrough
<1>1. ASSUME InputInv, [Next]_vars
      PROVE  [tick' # tick /\ IsAsleep /\ asleep.record /\ ~em.took
                => ToolboxMatch(em.queue, asleep.mask \ {"autoKey"}) = 0]_vars
  <2> SUFFICES ASSUME tick' # tick, IsAsleep, asleep.record, ~em.took
               PROVE  ToolboxMatch(em.queue, asleep.mask \ {"autoKey"}) = 0
    OBVIOUS
  <2>1. draining
    <3>1. ~ UNCHANGED vars
      BY DEF vars
    <3>2. ~ Host
      BY DEF Host, MoveMouse, PushMouseDown, PushMouseUp, SelectMenuItem, PushKeyDown, PushKeyUp,
             PushCapsDown, PushCapsUp
    <3>3. ~ Guest
      BY DEF Guest, GetNextEvent, EventAvail, GetOSEvent, WaitNextEvent, FlushEvents, PostEvent,
             MenuSelect, TakeRelease, SetEventMask, OpenDialog, ModalEvent, FilterStarts,
             FilterHandles, FilterDeclines, TrackButton, TrackPopup, DisposeDialog
    <3>4. Tick \/ SleepTick
      BY <1>1, <3>1, <3>2, <3>3 DEF Next, Clock, ServeSleep, SleepCapped, CallbackReturns
    <3> QED BY <3>4 DEF Tick, SleepTick
  <2>2. Positions(em.queue, asleep.mask \ {"update", "autoKey"}) = {}
    BY <1>1, <2>1 DEF InputInv, Waits
  <2>3. (asleep.mask \ {"autoKey"}) \ {"update"} = asleep.mask \ {"update", "autoKey"}
    OBVIOUS
  <2> QED BY <2>2, <2>3 DEF ToolboxMatch
<1> QED BY <1>1, InputInvariant, PTL DEF Spec, NoEventSleptThrough

=============================================================================
