------------------------ MODULE ThreadStorageProofs ------------------------
(***************************************************************************)
(* The stack ownership of ThreadStorage for every number of threads,       *)
(* stacks, sizes and pool entries.  An operation is a short sequence of    *)
(* transfers: a stack is taken in hand (from the pool, from a thread, from *)
(* an allocator) and put down again (with a thread, in the pool, in its    *)
(* allocator).  Each transfer has a lemma; the theorem composes them.      *)
(***************************************************************************)
EXTENDS ThreadStorage, TLAPS

\* The invariant, as a relation between the three owners.
LiveOf(th) == {t \in Tasks : th[t] # NoThread}

Typed(h, th, p) == /\ h \in [Bases -> Block \cup {NoBlock}]
                   /\ th \in [Tasks -> Stack \cup {NoThread}]
                   /\ p \in Seq(Stack)

Exclusive(th, p) ==
  /\ \A t, u \in LiveOf(th) : t # u => th[t].storage.base # th[u].storage.base
  /\ \A i, j \in DOMAIN p : i # j => p[i].storage.base # p[j].storage.base
  /\ \A t \in LiveOf(th), i \in DOMAIN p : th[t].storage.base # p[i].storage.base

Owned(th, p, b) == \/ \E t \in LiveOf(th) : th[t].storage.base = b
                   \/ \E i \in DOMAIN p : p[i].storage.base = b

HoldsIn(h, stack) == /\ h[stack.storage.base] = [size |-> stack.storage.size,
                                                 managed |-> stack.storage.managed]
                     /\ stack.storage.managed = Managed(stack.isa)

AllHold(h, th, p) == /\ \A t \in LiveOf(th) : HoldsIn(h, th[t])
                     /\ \A i \in DOMAIN p : HoldsIn(h, p[i])

Settled(h, th, p) == /\ Typed(h, th, p) /\ Exclusive(th, p) /\ AllHold(h, th, p)
                     /\ \A b \in Bases : h[b] # NoBlock => Owned(th, p, b)

\* The same, while the operation holds `stack` and nobody else does.
InHand(h, th, p, stack) ==
  /\ Typed(h, th, p) /\ Exclusive(th, p) /\ AllHold(h, th, p)
  /\ stack \in Stack /\ HoldsIn(h, stack)
  /\ ~ Owned(th, p, stack.storage.base)
  /\ \A b \in Bases \ {stack.storage.base} : h[b] # NoBlock => Owned(th, p, b)

IInv == StorageTypeOK /\ OneOwner /\ StackIsItsBlock

---------------------------------------------------------------------------
\* The relation is the conjunction of the module's invariants.
LEMMA SettledIsIInv == IInv <=> Settled(heap, threads, pool)
BY DEF IInv, StorageTypeOK, OneOwner, StackIsItsBlock, Settled, Typed, Exclusive, AllHold,
       HoldsIn, Owned, Live, LiveOf

\* What is left of a sequence when position i is removed: the last entry moves to
\* position i and every other entry stays.
LEMMA SwapRemovedEntries ==
  ASSUME NEW S, NEW s \in Seq(S), NEW i \in DOMAIN s
  PROVE  /\ SwapRemoved(s, i) \in Seq(S)
         /\ Len(SwapRemoved(s, i)) = Len(s) - 1
         /\ \A j \in 1..(Len(s) - 1) :
              SwapRemoved(s, i)[j] = IF j = i THEN s[Len(s)] ELSE s[j]
<1> DEFINE u == [s EXCEPT ![i] = s[Len(s)]]
<1>1. Len(s) \in Nat /\ i \in 1..Len(s) /\ DOMAIN s = 1..Len(s)
  OBVIOUS
<1>2. u \in Seq(S) /\ Len(u) = Len(s) /\ DOMAIN u = 1..Len(s)
  BY <1>1
<1>3. \A j \in 1..Len(s) : u[j] = IF j = i THEN s[Len(s)] ELSE s[j]
  BY <1>1
<1>4. SwapRemoved(s, i) = SubSeq(u, 1, Len(s) - 1)
  BY DEF SwapRemoved
<1>5. SubSeq(u, 1, Len(s) - 1) \in Seq(S) /\ Len(SubSeq(u, 1, Len(s) - 1)) = Len(s) - 1
      /\ \A j \in 1..(Len(s) - 1) : SubSeq(u, 1, Len(s) - 1)[j] = u[j]
  <2> HIDE DEF u
  <2> QED BY <1>1, <1>2
<1> HIDE DEF u
<1> QED BY <1>1, <1>3, <1>4, <1>5

---------------------------------------------------------------------------
(* Taking a stack in hand *)

\* request_thread_stack: the entry taken is nobody's any more.
LEMMA TakenFromPool ==
  ASSUME NEW h, NEW th, NEW p, Settled(h, th, p), NEW i \in DOMAIN p
  PROVE  InHand(h, th, SwapRemoved(p, i), p[i])
<1> DEFINE r == SwapRemoved(p, i)
           n == Len(p)
           from(j) == IF j = i THEN n ELSE j
<1>1. p \in Seq(Stack) /\ n \in Nat /\ DOMAIN p = 1..n /\ i \in 1..n
  BY DEF Settled, Typed
<1>2. r \in Seq(Stack) /\ Len(r) = n - 1 /\ DOMAIN r = 1..(n - 1)
  <2>1. SwapRemoved(p, i) \in Seq(Stack) /\ Len(SwapRemoved(p, i)) = Len(p) - 1
    BY <1>1, SwapRemovedEntries
  <2> QED BY <1>1, <2>1
<1>2a. \A j \in 1..(n - 1) : r[j] = IF j = i THEN p[n] ELSE p[j]
  BY <1>1, SwapRemovedEntries
<1>3. \A j \in DOMAIN r : from(j) \in DOMAIN p /\ from(j) # i /\ r[j] = p[from(j)]
  <2> HIDE DEF r, n
  <2> QED BY <1>1, <1>2, <1>2a
<1>4. \A j, k \in DOMAIN r : j # k => from(j) # from(k)
  BY <1>1, <1>2
<1>5. \A k \in DOMAIN p : k # i => \E j \in DOMAIN r : r[j] = p[k]
  <2> SUFFICES ASSUME NEW k \in DOMAIN p, k # i PROVE \E j \in DOMAIN r : r[j] = p[k]
    OBVIOUS
  <2>1. CASE k = n
    <3>1. i \in DOMAIN r /\ from(i) = k
      BY <2>1, <1>1, <1>2
    <3> QED BY <3>1, <1>3
  <2>2. CASE k # n
    <3>1. k \in DOMAIN r /\ from(k) = k
      BY <2>2, <1>1, <1>2
    <3> QED BY <3>1, <1>3
  <2> QED BY <2>1, <2>2
<1> HIDE DEF r, from
<1>6. Typed(h, th, r)
  BY <1>2 DEF Settled, Typed
<1>7. Exclusive(th, r)
  BY <1>3, <1>4 DEF Settled, Exclusive
<1>8. AllHold(h, th, r)
  BY <1>3 DEF Settled, AllHold
<1>9. p[i] \in Stack /\ HoldsIn(h, p[i])
  BY <1>1 DEF Settled, AllHold
<1>10. ~ Owned(th, r, p[i].storage.base)
  BY <1>3 DEF Settled, Exclusive, Owned
<1>11. \A b \in Bases \ {p[i].storage.base} : h[b] # NoBlock => Owned(th, r, b)
  BY <1>5 DEF Settled, Owned
<1> QED BY <1>6, <1>7, <1>8, <1>9, <1>10, <1>11 DEF InHand, r

\* retire_thread: the thread is forgotten, its stack is in hand.
LEMMA TakenFromThread ==
  ASSUME NEW h, NEW th, NEW p, Settled(h, th, p),
         NEW t \in Tasks, th[t] # NoThread
  PROVE  InHand(h, [th EXCEPT ![t] = NoThread], p, th[t])
<1> DEFINE th2 == [th EXCEPT ![t] = NoThread]
<1>1. th \in [Tasks -> Stack \cup {NoThread}] /\ th[t] \in Stack /\ t \in LiveOf(th)
  BY DEF Settled, Typed, LiveOf
<1>2. LiveOf(th2) = LiveOf(th) \ {t} /\ \A u \in LiveOf(th2) : th2[u] = th[u]
  BY <1>1 DEF LiveOf
<1>3. Typed(h, th2, p)
  BY <1>1 DEF Settled, Typed
<1> HIDE DEF th2
<1>4. Exclusive(th2, p) /\ AllHold(h, th2, p)
  BY <1>2 DEF Settled, Exclusive, AllHold
<1>5. HoldsIn(h, th[t]) /\ ~ Owned(th2, p, th[t].storage.base)
  BY <1>1, <1>2 DEF Settled, Exclusive, AllHold, Owned
<1>6. \A b \in Bases \ {th[t].storage.base} : h[b] # NoBlock => Owned(th2, p, b)
  BY <1>1, <1>2 DEF Settled, Owned
<1> QED BY <1>1, <1>3, <1>4, <1>5, <1>6 DEF InHand, th2

\* allocate_fresh: the new block is in hand.
LEMMA TakenFromAllocator ==
  ASSUME NEW h, NEW th, NEW p, Settled(h, th, p), NEW stack \in Stack,
         h[stack.storage.base] = NoBlock, stack.storage.managed = Managed(stack.isa)
  PROVE  InHand(Allocated(h, stack.storage.base, stack.storage.size, stack.isa), th, p, stack)
<1> DEFINE b  == stack.storage.base
           block == [size |-> stack.storage.size, managed |-> Managed(stack.isa)]
           h2 == [h EXCEPT ![b] = block]
<1>1. b \in Bases /\ block \in Block /\ h \in [Bases -> Block \cup {NoBlock}]
  BY DEF Stack, Storage, Block, Managed, Settled, Typed
<1>2. h2 \in [Bases -> Block \cup {NoBlock}] /\ h2[b] = block
      /\ \A c \in Bases \ {b} : h2[c] = h[c]
  BY <1>1
<1>3. h2 = Allocated(h, b, stack.storage.size, stack.isa)
  BY DEF Allocated
<1>4. \A other \in Stack : HoldsIn(h, other) => other.storage.base # b
  BY NamesAssumption DEF HoldsIn, Stack, Storage, Block
<1>5. (\A t \in LiveOf(th) : th[t] \in Stack) /\ (\A i \in DOMAIN p : p[i] \in Stack)
  BY DEF Settled, Typed, LiveOf
<1>6. \A other \in Stack : other.storage.base \in Bases
  BY DEF Stack, Storage
<1> HIDE DEF h2, b
<1>7. AllHold(h2, th, p)
  BY <1>2, <1>4, <1>5, <1>6 DEF Settled, AllHold, HoldsIn
<1>8. ~ Owned(th, p, b)
  BY <1>4, <1>5 DEF Settled, AllHold, Owned
<1>9. HoldsIn(h2, stack)
  BY <1>2 DEF HoldsIn, b
<1>10. \A c \in Bases \ {b} : h2[c] # NoBlock => Owned(th, p, c)
  BY <1>2 DEF Settled
<1>11. Typed(h2, th, p) /\ Exclusive(th, p)
  BY <1>2 DEF Settled, Typed
<1> QED BY <1>3, <1>7, <1>8, <1>9, <1>10, <1>11 DEF InHand, b

---------------------------------------------------------------------------
(* Putting it down *)

\* recycle_thread_stack and the recycling of retire_thread.
LEMMA GivenToPool ==
  ASSUME NEW h, NEW th, NEW p, NEW stack, InHand(h, th, p, stack)
  PROVE  Settled(h, th, Append(p, stack))
<1> DEFINE q == Append(p, stack)
           n == Len(p)
<1>1. p \in Seq(Stack) /\ stack \in Stack /\ n \in Nat /\ DOMAIN p = 1..n
  BY DEF InHand, Typed
<1>2. q \in Seq(Stack) /\ DOMAIN q = 1..(n + 1) /\ q[n + 1] = stack
      /\ \A i \in 1..n : q[i] = p[i]
  BY <1>1
<1>3. DOMAIN q = DOMAIN p \cup {n + 1} /\ n + 1 \notin DOMAIN p
  BY <1>1, <1>2
<1>4. \A i \in DOMAIN p : q[i] = p[i] /\ i \in DOMAIN q
  BY <1>1, <1>2
<1> HIDE DEF q, n
<1>5. Typed(h, th, q)
  BY <1>2 DEF InHand, Typed
<1>6. Exclusive(th, q)
  <2>1. \A i \in DOMAIN p : p[i].storage.base # stack.storage.base
    BY DEF InHand, Owned
  <2>2. \A t \in LiveOf(th) : th[t].storage.base # stack.storage.base
    BY DEF InHand, Owned
  <2>3. /\ \A i, j \in DOMAIN p : i # j => p[i].storage.base # p[j].storage.base
        /\ \A t \in LiveOf(th), i \in DOMAIN p : th[t].storage.base # p[i].storage.base
    BY DEF InHand, Exclusive
  <2>4. \A i \in DOMAIN q : i \in DOMAIN p \/ i = n + 1
    BY <1>3
  <2>5. q[n + 1] = stack
    BY <1>2
  <2>6. \A i, j \in DOMAIN q : i # j => q[i].storage.base # q[j].storage.base
    <3> SUFFICES ASSUME NEW i \in DOMAIN q, NEW j \in DOMAIN q, i # j
                 PROVE  q[i].storage.base # q[j].storage.base
      OBVIOUS
    <3>1. CASE i \in DOMAIN p /\ j \in DOMAIN p
      BY <3>1, <1>4, <2>3
    <3>2. CASE i = n + 1 /\ j \in DOMAIN p
      BY <3>2, <1>4, <2>1, <2>5
    <3>3. CASE j = n + 1 /\ i \in DOMAIN p
      BY <3>3, <1>4, <2>1, <2>5
    <3> QED BY <3>1, <3>2, <3>3, <2>4
  <2>7. \A t \in LiveOf(th), i \in DOMAIN q : th[t].storage.base # q[i].storage.base
    <3> SUFFICES ASSUME NEW t \in LiveOf(th), NEW i \in DOMAIN q
                 PROVE  th[t].storage.base # q[i].storage.base
      OBVIOUS
    <3>1. CASE i \in DOMAIN p
      BY <3>1, <1>4, <2>3
    <3>2. CASE i = n + 1
      BY <3>2, <2>2, <2>5
    <3> QED BY <3>1, <3>2, <2>4
  <2> QED BY <2>6, <2>7 DEF InHand, Exclusive
<1>7. AllHold(h, th, q)
  BY <1>2, <1>3, <1>4 DEF InHand, AllHold
<1>8. \A b \in Bases : h[b] # NoBlock => Owned(th, q, b)
  BY <1>2, <1>3, <1>4 DEF InHand, Owned
<1> QED BY <1>5, <1>6, <1>7, <1>8 DEF Settled, q

\* prepare_and_publish: a new thread runs on the stack.
LEMMA GivenToThread ==
  ASSUME NEW h, NEW th, NEW p, NEW stack, InHand(h, th, p, stack),
         NEW t \in Tasks, th[t] = NoThread
  PROVE  Settled(h, [th EXCEPT ![t] = stack], p)
<1> DEFINE th2 == [th EXCEPT ![t] = stack]
<1>1. th \in [Tasks -> Stack \cup {NoThread}] /\ stack \in Stack /\ stack # NoThread
  BY NamesAssumption DEF InHand, Typed
<1>2. LiveOf(th2) = LiveOf(th) \cup {t} /\ t \notin LiveOf(th) /\ th2[t] = stack
      /\ \A u \in LiveOf(th) : th2[u] = th[u]
  BY <1>1 DEF LiveOf
<1>3. Typed(h, th2, p)
  BY <1>1 DEF InHand, Typed
<1> HIDE DEF th2
<1>4. Exclusive(th2, p)
  BY <1>2 DEF InHand, Exclusive, Owned
<1>5. AllHold(h, th2, p)
  BY <1>2 DEF InHand, AllHold
<1>6. \A b \in Bases : h[b] # NoBlock => Owned(th2, p, b)
  BY <1>2 DEF InHand, Owned
<1> QED BY <1>3, <1>4, <1>5, <1>6 DEF Settled, th2

\* release_retired_storage and release_fresh: the allocator of the block takes it.
LEMMA GivenToAllocator ==
  ASSUME NEW h, NEW th, NEW p, NEW stack, InHand(h, th, p, stack)
  PROVE  Settled(Released(h, stack.storage), th, p)
<1> DEFINE b  == stack.storage.base
           h2 == [h EXCEPT ![b] = NoBlock]
<1>1. h \in [Bases -> Block \cup {NoBlock}] /\ stack \in Stack /\ b \in Bases
  BY DEF InHand, Typed, Stack, Storage
<1>2. h[b] # NoBlock /\ h[b].managed = stack.storage.managed
  BY <1>1, NamesAssumption DEF InHand, HoldsIn, Stack, Storage, Block
<1>3. Released(h, stack.storage) = h2
  BY <1>2 DEF Released, Freed
<1>4. h2 \in [Bases -> Block \cup {NoBlock}] /\ h2[b] = NoBlock
      /\ \A c \in Bases \ {b} : h2[c] = h[c]
  BY <1>1
<1>5. (\A t \in LiveOf(th) : th[t] \in Stack /\ th[t].storage.base # b)
      /\ (\A i \in DOMAIN p : p[i] \in Stack /\ p[i].storage.base # b)
  BY DEF InHand, Typed, Owned, LiveOf
<1>6. \A other \in Stack : other.storage.base \in Bases
  BY DEF Stack, Storage
<1> HIDE DEF h2, b
<1>7. AllHold(h2, th, p)
  BY <1>4, <1>5, <1>6 DEF InHand, AllHold, HoldsIn
<1>8. \A c \in Bases : h2[c] # NoBlock => Owned(th, p, c)
  BY <1>4 DEF InHand, b
<1>9. Typed(h2, th, p) /\ Exclusive(th, p)
  BY <1>4 DEF InHand, Typed
<1> QED BY <1>3, <1>7, <1>8, <1>9 DEF Settled, b

---------------------------------------------------------------------------
(* CreateThreadPool *)

\* A bulk allocation touches exactly the bases it was given, all of them free.
LEMMA BulkAllocation ==
  ASSUME NEW n \in Nat, NEW bases \in Placements(n), NEW size \in Sizes, NEW isa \in Isas,
         heap \in [Bases -> Block \cup {NoBlock}]
  PROVE  /\ AllocatedAll(bases, size, isa) \in [Bases -> Block \cup {NoBlock}]
         /\ DOMAIN bases = 1..n
         /\ \A i \in 1..n : bases[i] \in Bases /\ heap[bases[i]] = NoBlock
         /\ \A i, j \in 1..n : i # j => bases[i] # bases[j]
         /\ \A i \in 1..n : AllocatedAll(bases, size, isa)[bases[i]]
                             = [size |-> size, managed |-> Managed(isa)]
         /\ \A b \in Bases : (\A i \in 1..n : bases[i] # b)
                             => AllocatedAll(bases, size, isa)[b] = heap[b]
<1> DEFINE block == [size |-> size, managed |-> Managed(isa)]
<1>1. block \in Block
  BY DEF Block, Managed
<1>2. /\ bases \in [1..n -> {b \in Bases : heap[b] = NoBlock}]
      /\ \A i, j \in 1..n : i # j => bases[i] # bases[j]
  BY DEF Placements
<1>3. DOMAIN bases = 1..n /\ \A i \in 1..n : bases[i] \in Bases /\ heap[bases[i]] = NoBlock
  BY <1>2
<1>4. AllocatedAll(bases, size, isa)
        = [b \in Bases |-> IF \E i \in DOMAIN bases : bases[i] = b THEN block ELSE heap[b]]
  BY DEF AllocatedAll
<1> HIDE DEF block
<1>5. AllocatedAll(bases, size, isa) \in [Bases -> Block \cup {NoBlock}]
  BY <1>1, <1>4
<1>6. \A i \in 1..n : AllocatedAll(bases, size, isa)[bases[i]] = block
  BY <1>3, <1>4
<1>7. \A b \in Bases : (\A i \in 1..n : bases[i] # b)
                       => AllocatedAll(bases, size, isa)[b] = heap[b]
  BY <1>3, <1>4
<1> QED BY <1>2, <1>3, <1>5, <1>6, <1>7 DEF block

\* All-or-none, the none: freeing what was prepared restores the heap.
LEMMA RollbackRestoresHeap ==
  ASSUME NEW n \in Nat, NEW bases \in Placements(n), NEW size \in Sizes, NEW isa \in Isas,
         heap \in [Bases -> Block \cup {NoBlock}]
  PROVE  FreedAll(AllocatedAll(bases, size, isa), bases, isa) = heap
<1> DEFINE h2    == AllocatedAll(bases, size, isa)
           block == [size |-> size, managed |-> Managed(isa)]
<1>1. /\ h2 \in [Bases -> Block \cup {NoBlock}]
      /\ DOMAIN bases = 1..n
      /\ \A i \in 1..n : /\ bases[i] \in Bases /\ heap[bases[i]] = NoBlock
                          /\ h2[bases[i]] = block
      /\ \A b \in Bases : (\A i \in 1..n : bases[i] # b) => h2[b] = heap[b]
  BY BulkAllocation
<1>2. block # NoBlock /\ block.managed = Managed(isa)
  <2>1. block \in Block
    BY DEF Block, Managed
  <2>2. block.managed = Managed(isa)
    OBVIOUS
  <2> QED BY <2>1, <2>2, NamesAssumption
<1> HIDE DEF h2, block
<1>3. \A b \in Bases : h2[b] = block => Freed(h2, b, Managed(isa))[b] = NoBlock
  BY <1>1, <1>2 DEF Freed
<1>4. FreedAll(h2, bases, isa)
        = [b \in Bases |-> IF \E i \in 1..n : bases[i] = b
                           THEN Freed(h2, b, Managed(isa))[b] ELSE h2[b]]
  BY <1>1 DEF FreedAll
<1>5. \A b \in Bases : FreedAll(h2, bases, isa)[b] = heap[b]
  BY <1>1, <1>3, <1>4
<1>6. DOMAIN FreedAll(h2, bases, isa) = Bases
  BY <1>4
<1>7. FreedAll(h2, bases, isa) = [b \in Bases |-> heap[b]]
  BY <1>4, <1>5
<1> QED BY <1>7 DEF h2

\* publish_thread_pool: the stacks prepared become pool entries.
LEMMA PoolFilled ==
  ASSUME Settled(heap, threads, pool),
         NEW n \in Nat, NEW bases \in Placements(n), NEW size \in Sizes, NEW isa \in Isas
  PROVE  Settled(AllocatedAll(bases, size, isa), threads,
                 pool \o [i \in 1..n |->
                   [isa |-> isa, storage |-> [base |-> bases[i], size |-> size,
                                              managed |-> Managed(isa)]]])
<1> DEFINE h2       == AllocatedAll(bases, size, isa)
           block    == [size |-> size, managed |-> Managed(isa)]
           entry(i) == [isa |-> isa, storage |-> [base |-> bases[i], size |-> size,
                                                  managed |-> Managed(isa)]]
           more     == [i \in 1..n |-> entry(i)]
           k        == Len(pool)
           q        == pool \o more
<1>1. /\ heap \in [Bases -> Block \cup {NoBlock}]
      /\ threads \in [Tasks -> Stack \cup {NoThread}]
      /\ pool \in Seq(Stack) /\ k \in Nat /\ DOMAIN pool = 1..k
  BY DEF Settled, Typed
<1>2. /\ h2 \in [Bases -> Block \cup {NoBlock}]
      /\ \A i \in 1..n : bases[i] \in Bases /\ heap[bases[i]] = NoBlock /\ h2[bases[i]] = block
      /\ \A i, j \in 1..n : i # j => bases[i] # bases[j]
      /\ \A b \in Bases : (\A i \in 1..n : bases[i] # b) => h2[b] = heap[b]
  BY <1>1, BulkAllocation
<1>3. \A i \in 1..n : entry(i) \in Stack /\ entry(i).storage.base = bases[i]
                      /\ entry(i).storage.size = size /\ entry(i).isa = isa
                      /\ entry(i).storage.managed = Managed(isa)
  BY <1>2 DEF Stack, Storage, Managed
<1>4. more \in Seq(Stack) /\ Len(more) = n
  BY <1>3
<1>5. /\ q \in Seq(Stack) /\ DOMAIN q = 1..(k + n)
      /\ \A i \in 1..k : q[i] = pool[i]
      /\ \A i \in 1..n : q[k + i] = entry(i)
  <2> HIDE DEF entry
  <2>1. \A i \in 1..n : more[i] = entry(i)
    OBVIOUS
  <2> HIDE DEF more
  <2>2. q \in Seq(Stack) /\ Len(q) = k + n
    BY <1>1, <1>4
  <2>3. \A i \in 1..k : q[i] = pool[i]
    BY <1>1, <1>4
  <2>4. \A i \in 1..n : q[k + i] = more[i]
    BY <1>1, <1>4
  <2> QED BY <2>1, <2>2, <2>3, <2>4
<1>6. \A i \in DOMAIN q : i \in 1..k \/ \E j \in 1..n : i = k + j
  <2> HIDE DEF q
  <2>1. \A i \in 1..(k + n) : i > k => i - k \in 1..n /\ i = k + (i - k)
    BY <1>1
  <2> QED BY <1>1, <1>5, <2>1
<1>7. \A other \in Stack : HoldsIn(heap, other) =>
        /\ \A i \in 1..n : other.storage.base # bases[i]
        /\ HoldsIn(h2, other)
  <2> SUFFICES ASSUME NEW other \in Stack, HoldsIn(heap, other)
               PROVE  (\A i \in 1..n : other.storage.base # bases[i]) /\ HoldsIn(h2, other)
    OBVIOUS
  <2>1. heap[other.storage.base] # NoBlock /\ other.storage.base \in Bases
    BY NamesAssumption DEF HoldsIn, Stack, Storage, Block
  <2>2. \A i \in 1..n : other.storage.base # bases[i]
    BY <1>2, <2>1
  <2> HIDE DEF h2
  <2>3. h2[other.storage.base] = heap[other.storage.base]
    BY <1>2, <2>1, <2>2
  <2> QED BY <2>2, <2>3 DEF HoldsIn
<1> HIDE DEF h2, q, more, k, entry
<1>8. \A t \in LiveOf(threads) : threads[t] \in Stack /\ HoldsIn(heap, threads[t])
  BY <1>1 DEF Settled, AllHold, LiveOf
<1>9. \A i \in 1..k : pool[i] \in Stack /\ HoldsIn(heap, pool[i])
  BY <1>1 DEF Settled, AllHold
<1>10. Typed(h2, threads, q)
  BY <1>1, <1>2, <1>5 DEF Typed
<1>11. Exclusive(threads, q)
  <2>1. \A t, u \in LiveOf(threads) : t # u =>
          threads[t].storage.base # threads[u].storage.base
    BY DEF Settled, Exclusive
  <2>2. \A i, j \in DOMAIN q : i # j => q[i].storage.base # q[j].storage.base
    <3> SUFFICES ASSUME NEW i \in DOMAIN q, NEW j \in DOMAIN q, i # j
                 PROVE  q[i].storage.base # q[j].storage.base
      OBVIOUS
    <3>1. CASE i \in 1..k /\ j \in 1..k
      BY <3>1, <1>1, <1>5 DEF Settled, Exclusive
    <3>2. CASE i \in 1..k /\ \E y \in 1..n : j = k + y
      BY <3>2, <1>3, <1>5, <1>7, <1>9
    <3>3. CASE j \in 1..k /\ \E x \in 1..n : i = k + x
      BY <3>3, <1>3, <1>5, <1>7, <1>9
    <3>4. CASE (\E x \in 1..n : i = k + x) /\ (\E y \in 1..n : j = k + y)
      <4>1. PICK x \in 1..n : i = k + x
        BY <3>4
      <4>2. PICK y \in 1..n : j = k + y
        BY <3>4
      <4>3. x # y
        BY <4>1, <4>2
      <4> QED BY <4>1, <4>2, <4>3, <1>2, <1>3, <1>5
    <3> QED BY <3>1, <3>2, <3>3, <3>4, <1>6
  <2>3. \A t \in LiveOf(threads), i \in DOMAIN q :
          threads[t].storage.base # q[i].storage.base
    <3> SUFFICES ASSUME NEW t \in LiveOf(threads), NEW i \in DOMAIN q
                 PROVE  threads[t].storage.base # q[i].storage.base
      OBVIOUS
    <3>1. CASE i \in 1..k
      BY <3>1, <1>1, <1>5 DEF Settled, Exclusive
    <3>2. CASE \E y \in 1..n : i = k + y
      BY <3>2, <1>3, <1>5, <1>7, <1>8
    <3> QED BY <3>1, <3>2, <1>6
  <2> QED BY <2>1, <2>2, <2>3 DEF Exclusive
<1>12. AllHold(h2, threads, q)
  <2>1. \A t \in LiveOf(threads) : HoldsIn(h2, threads[t])
    BY <1>7, <1>8
  <2>2. \A i \in 1..k : HoldsIn(h2, q[i])
    BY <1>5, <1>7, <1>9
  <2>3. \A i \in 1..n : HoldsIn(h2, q[k + i])
    BY <1>2, <1>3, <1>5 DEF HoldsIn
  <2> QED BY <2>1, <2>2, <2>3, <1>6 DEF AllHold
<1>13. \A b \in Bases : h2[b] # NoBlock => Owned(threads, q, b)
  <2> SUFFICES ASSUME NEW b \in Bases, h2[b] # NoBlock PROVE Owned(threads, q, b)
    OBVIOUS
  <2>1. CASE \E i \in 1..n : bases[i] = b
    <3>1. PICK i \in 1..n : bases[i] = b
      BY <2>1
    <3>2. k + i \in DOMAIN q
      BY <1>1, <1>5
    <3> QED BY <3>1, <3>2, <1>3, <1>5 DEF Owned
  <2>2. CASE \A i \in 1..n : bases[i] # b
    <3>1. heap[b] # NoBlock
      BY <2>2, <1>2
    <3>2. \A i \in DOMAIN pool : i \in DOMAIN q /\ q[i] = pool[i]
      BY <1>1, <1>5
    <3> QED BY <3>1, <3>2 DEF Settled, Owned
  <2> QED BY <2>1, <2>2
<1> QED BY <1>10, <1>11, <1>12, <1>13 DEF Settled, h2, q, more, entry

---------------------------------------------------------------------------
(* The invariant *)

\* A created thread's stack, whichever way it was chosen, and a refused one.
LEMMA NewThreadSettled ==
  ASSUME IInv, NEW isa \in Isas, NEW cooperative \in BOOLEAN, NEW requested \in Requests,
         NEW options \in Options, NewThread(isa, cooperative, requested, options)
  PROVE  IInv'
<1> DEFINE size == SizeOf(requested)
<1>1. Settled(heap, threads, pool)
  BY SettledIsIInv
<1>2. size \in Sizes
  BY SizesAssumption DEF SizeOf, Sizes
<1> SUFFICES Settled(heap', threads', pool')
  BY DEF IInv, StorageTypeOK, OneOwner, StackIsItsBlock, Settled, Typed, Exclusive, AllHold,
         HoldsIn, Owned, Live, LiveOf
<1>3. CASE \/ NewThreadRefused(isa, cooperative, requested, options)
           \/ NewThreadPoolEmpty(isa, requested, options)
  BY <1>1, <1>3 DEF NewThreadRefused, NewThreadPoolEmpty
<1>4. CASE NewThreadFromPool(isa, requested, options)
  <2>1. PICK taken \in BestFit(Fits(isa, size, options)) :
          \/ \E t \in Tasks :
                /\ threads[t] = NoThread
                /\ threads' = [threads EXCEPT ![t] = [isa |-> isa,
                     storage |-> [pool[taken].storage EXCEPT !.managed = Managed(isa)]]]
                /\ pool' = SwapRemoved(pool, taken)
          \/ /\ pool' = Recycled(SwapRemoved(pool, taken), isa, pool[taken].storage)
             /\ UNCHANGED threads
    BY <1>4 DEF NewThreadFromPool
  <2>2. taken \in DOMAIN pool /\ pool[taken].isa = isa
    BY DEF BestFit, Fits
  <2>3. InHand(heap, threads, SwapRemoved(pool, taken), pool[taken])
    BY <1>1, <2>2, TakenFromPool
  <2>4. pool[taken] \in Stack /\ pool[taken].storage.managed = Managed(isa)
    BY <2>2, <2>3 DEF InHand, HoldsIn
  <2>5. [isa |-> isa, storage |-> pool[taken].storage] = pool[taken]
    BY <2>2, <2>4 DEF Stack
  <2>6. [pool[taken].storage EXCEPT !.managed = Managed(isa)] = pool[taken].storage
    BY <2>4 DEF Stack, Storage
  <2>7. heap' = heap
    BY <1>4 DEF NewThreadFromPool
  <2>8. CASE pool' = Recycled(SwapRemoved(pool, taken), isa, pool[taken].storage)
             /\ UNCHANGED threads
    BY <2>3, <2>5, <2>7, <2>8, GivenToPool DEF Recycled
  <2>9. ASSUME NEW t \in Tasks, threads[t] = NoThread,
               threads' = [threads EXCEPT ![t] = [isa |-> isa,
                 storage |-> [pool[taken].storage EXCEPT !.managed = Managed(isa)]]],
               pool' = SwapRemoved(pool, taken)
        PROVE  Settled(heap', threads', pool')
    <3>1. threads' = [threads EXCEPT ![t] = pool[taken]]
      BY <2>5, <2>6, <2>9
    <3>2. Settled(heap, [threads EXCEPT ![t] = pool[taken]], SwapRemoved(pool, taken))
      BY <2>3, <2>9, GivenToThread
    <3> QED BY <2>7, <2>9, <3>1, <3>2
  <2> QED BY <2>1, <2>8, <2>9
<1>5. CASE NewThreadFresh(isa, requested, options)
  <2> DEFINE stack(b) == [isa |-> isa, storage |-> [base |-> b, size |-> size,
                                                    managed |-> Managed(isa)]]
  <2>1. \A b \in Bases : stack(b) \in Stack /\ stack(b).storage.base = b
                         /\ stack(b).storage.size = size /\ stack(b).isa = isa
                         /\ stack(b).storage.managed = Managed(isa)
    BY <1>2 DEF Stack, Storage, Managed
  <2>2. ASSUME NEW b \in Bases, heap[b] = NoBlock
        PROVE  InHand(Allocated(heap, b, size, isa), threads, pool, stack(b))
    <3> HIDE DEF stack, size
    <3>1. stack(b) \in Stack /\ heap[stack(b).storage.base] = NoBlock
          /\ stack(b).storage.managed = Managed(stack(b).isa)
      BY <2>1, <2>2
    <3>2. InHand(Allocated(heap, stack(b).storage.base, stack(b).storage.size, stack(b).isa),
                 threads, pool, stack(b))
      BY <1>1, <3>1, TakenFromAllocator
    <3> QED BY <2>1, <3>2
  <2>3. pool' = pool
    BY <1>5 DEF NewThreadFresh
  <2>4. CASE \E b \in Bases, t \in Tasks :
               /\ heap[b] = NoBlock /\ threads[t] = NoThread
               /\ heap' = Allocated(heap, b, size, isa)
               /\ threads' = [threads EXCEPT ![t] = stack(b)]
    <3>1. PICK b \in Bases, t \in Tasks :
            /\ heap[b] = NoBlock /\ threads[t] = NoThread
            /\ heap' = Allocated(heap, b, size, isa)
            /\ threads' = [threads EXCEPT ![t] = stack(b)]
      BY <2>4
    <3> HIDE DEF stack
    <3>2. Settled(heap', [threads EXCEPT ![t] = stack(b)], pool)
      BY <2>2, <3>1, GivenToThread
    <3> QED BY <2>3, <3>1, <3>2
  <2>5. CASE \E b \in Bases :
               /\ heap[b] = NoBlock
               /\ heap' = Freed(Allocated(heap, b, size, isa), b, Managed(isa))
               /\ UNCHANGED threads
    <3>1. PICK b \in Bases :
            /\ heap[b] = NoBlock
            /\ heap' = Freed(Allocated(heap, b, size, isa), b, Managed(isa))
            /\ UNCHANGED threads
      BY <2>5
    <3>2. heap' = Released(Allocated(heap, b, size, isa), stack(b).storage)
      BY <2>1, <3>1 DEF Released
    <3> HIDE DEF stack
    <3>3. Settled(heap', threads, pool)
      BY <2>2, <3>1, <3>2, GivenToAllocator
    <3> QED BY <2>3, <3>1, <3>3
  <2>6. CASE UNCHANGED <<heap, threads>>
    BY <1>1, <2>3, <2>6
  <2> QED BY <1>5, <2>4, <2>5, <2>6 DEF NewThreadFresh
<1> QED BY <1>3, <1>4, <1>5 DEF NewThread

\* The pool is filled completely or the heap is as it was.
LEMMA CreateThreadPoolSettled ==
  ASSUME IInv, NEW isa \in Isas, NEW cooperative \in BOOLEAN, NEW count \in -1..MaxCount,
         NEW requested \in Requests, CreateThreadPool(isa, cooperative, count, requested)
  PROVE  IInv'
<1> DEFINE size == SizeOf(requested)
<1>1. Settled(heap, threads, pool) /\ heap \in [Bases -> Block \cup {NoBlock}]
  BY SettledIsIInv DEF Settled, Typed
<1>2. size \in Sizes
  BY SizesAssumption DEF SizeOf, Sizes
<1> SUFFICES Settled(heap', threads', pool')
  BY DEF IInv, StorageTypeOK, OneOwner, StackIsItsBlock, Settled, Typed, Exclusive, AllHold,
         HoldsIn, Owned, Live, LiveOf
<1>3. threads' = threads
  BY DEF CreateThreadPool
<1>4. CASE UNCHANGED <<heap, pool>>
  BY <1>1, <1>3, <1>4
<1>5. CASE /\ pool' = pool /\ count \in Nat
           /\ \E got \in 0..count : \E bases \in Placements(got) :
                heap' = FreedAll(AllocatedAll(bases, size, isa), bases, isa)
  <2>1. heap' = heap
    BY <1>1, <1>2, <1>5, RollbackRestoresHeap
  <2> QED BY <1>1, <1>3, <1>5, <2>1
<1>6. CASE /\ count \in Nat
           /\ \E bases \in Placements(count) :
                /\ heap' = AllocatedAll(bases, size, isa)
                /\ pool' = pool \o [i \in 1..count |->
                     [isa |-> isa, storage |-> [base |-> bases[i], size |-> size,
                                                managed |-> Managed(isa)]]]
  BY <1>1, <1>2, <1>3, <1>6, PoolFilled
<1>7. count > 0 \/ count >= 0 => count \in Nat
  BY BoundsAssumption
<1>8. \/ UNCHANGED <<heap, pool>>
      \/ /\ pool' = pool /\ count > 0
         /\ \E got \in 0..count : \E bases \in Placements(got) :
              heap' = FreedAll(AllocatedAll(bases, size, isa), bases, isa)
      \/ /\ count >= 0
         /\ \E bases \in Placements(count) :
              /\ heap' = AllocatedAll(bases, size, isa)
              /\ pool' = pool \o [i \in 1..count |->
                   [isa |-> isa, storage |-> [base |-> bases[i], size |-> size,
                                              managed |-> Managed(isa)]]]
  BY DEF CreateThreadPool
<1> QED BY <1>4, <1>5, <1>6, <1>7, <1>8, Zenon

\* A thread's end puts its stack in one place.
LEMMA RetireSettled ==
  ASSUME IInv, NEW t \in Tasks, NEW recycle \in BOOLEAN, Retire(t, recycle)
  PROVE  IInv'
<1> DEFINE stack == threads[t]
           rest  == [threads EXCEPT ![t] = NoThread]
<1>1. Settled(heap, threads, pool)
  BY SettledIsIInv
<1> SUFFICES Settled(heap', threads', pool')
  BY DEF IInv, StorageTypeOK, OneOwner, StackIsItsBlock, Settled, Typed, Exclusive, AllHold,
         HoldsIn, Owned, Live, LiveOf
<1>2. /\ threads[t] # NoThread /\ threads' = rest
      /\ pool' = IF recycle THEN Recycled(pool, stack.isa, stack.storage) ELSE pool
      /\ heap' = IF recycle THEN heap ELSE Released(heap, stack.storage)
  BY DEF Retire
<1>3. InHand(heap, rest, pool, stack)
  BY <1>1, <1>2, TakenFromThread
<1>4. [isa |-> stack.isa, storage |-> stack.storage] = stack
  BY <1>3 DEF InHand, Stack
<1> HIDE DEF stack, rest
<1>5. CASE recycle
  BY <1>2, <1>3, <1>4, <1>5, GivenToPool DEF Recycled
<1>6. CASE ~ recycle
  BY <1>2, <1>3, <1>6, GivenToAllocator
<1> QED BY <1>5, <1>6

\* The conjunction of the three invariants is inductive.
LEMMA Inductive == IInv /\ [Next]_vars => IInv'
<1> SUFFICES ASSUME IInv, [Next]_vars PROVE IInv'
  OBVIOUS
<1>1. CASE UNCHANGED <<heap, threads, pool>>
  <2>1. Settled(heap', threads', pool')
    BY <1>1, SettledIsIInv
  <2> QED BY <2>1 DEF IInv, StorageTypeOK, OneOwner, StackIsItsBlock, Settled, Typed,
                      Exclusive, AllHold, HoldsIn, Owned, Live, LiveOf
<1>2. CASE Next
  BY <1>1, <1>2, NewThreadSettled, CreateThreadPoolSettled, RetireSettled
     DEF Next, RetireRefused
<1> QED BY <1>1, <1>2 DEF vars

\* No operation loses, shares or mistakes a stack: the threads, the pool and the
\* allocators of thread_manager.rs always divide the live blocks among them, each with
\* the allocator and the length it was made with.
THEOREM StackOwnership == Spec => [](StorageTypeOK /\ OneOwner /\ StackIsItsBlock)
<1>1. Init => IInv
  BY DEF Init, IInv, StorageTypeOK, OneOwner, StackIsItsBlock, Live
<1>2. IInv => StorageTypeOK /\ OneOwner /\ StackIsItsBlock
  BY DEF IInv
<1> QED BY <1>1, <1>2, Inductive, PTL DEF Spec

---------------------------------------------------------------------------
(* Errors *)

\* Taking an entry by swap_remove and pushing it back keeps the entries.
LEMMA PutBackKeepsEntries ==
  ASSUME NEW S, NEW s \in Seq(S), NEW i \in DOMAIN s
  PROVE  LET r == Append(SwapRemoved(s, i), s[i])
         IN /\ Len(r) = Len(s)
            /\ {r[j] : j \in DOMAIN r} = {s[j] : j \in DOMAIN s}
<1> DEFINE n == Len(s)
           u == SwapRemoved(s, i)
           r == Append(u, s[i])
<1>1. n \in Nat /\ DOMAIN s = 1..n /\ i \in 1..n /\ s[i] \in S
  OBVIOUS
<1>2. u \in Seq(S) /\ Len(u) = n - 1
      /\ \A j \in 1..(n - 1) : u[j] = IF j = i THEN s[n] ELSE s[j]
  BY SwapRemovedEntries
<1> HIDE DEF n, u
<1>3. /\ Len(r) = n /\ DOMAIN r = 1..n /\ r[n] = s[i]
      /\ \A j \in 1..(n - 1) : r[j] = u[j]
  BY <1>1, <1>2
<1> HIDE DEF r
<1>4. \A j \in 1..n : \E k \in 1..n : r[j] = s[k]
  <2>1. r[n] = s[i]
    BY <1>3
  <2>2. \A j \in 1..(n - 1) : r[j] = s[n] \/ r[j] = s[j]
    BY <1>2, <1>3
  <2>3. \A j \in 1..n : j = n \/ j \in 1..(n - 1)
    BY <1>1
  <2> QED BY <1>1, <2>1, <2>2, <2>3
<1>5. \A k \in 1..n : \E j \in 1..n : r[j] = s[k]
  <2> SUFFICES ASSUME NEW k \in 1..n PROVE \E j \in 1..n : r[j] = s[k]
    OBVIOUS
  <2>1. CASE k = i
    BY <2>1, <1>1, <1>3
  <2>2. CASE k # i /\ k = n
    <3>1. i \in 1..(n - 1) /\ i \in 1..n
      BY <2>2, <1>1
    <3>2. r[i] = s[k]
      BY <3>1, <2>2, <1>2, <1>3
    <3> QED BY <3>1, <3>2
  <2>3. CASE k # i /\ k # n
    <3>1. k \in 1..(n - 1)
      BY <2>3, <1>1
    <3>2. r[k] = s[k]
      BY <3>1, <2>3, <1>2, <1>3
    <3> QED BY <3>2
  <2> QED BY <2>1, <2>2, <2>3
<1>6. {r[j] : j \in DOMAIN r} = {s[j] : j \in DOMAIN s}
  <2>1. DOMAIN r = 1..n /\ DOMAIN s = 1..n
    BY <1>1, <1>3
  <2>2. \A j \in DOMAIN r : \E k \in DOMAIN s : r[j] = s[k]
    BY <1>4, <2>1, Zenon
  <2>3. \A k \in DOMAIN s : \E j \in DOMAIN r : r[j] = s[k]
    BY <1>5, <2>1, Zenon
  <2>4. {r[j] : j \in DOMAIN r} \subseteq {s[j] : j \in DOMAIN s}
    BY <2>2
  <2>5. {s[j] : j \in DOMAIN s} \subseteq {r[j] : j \in DOMAIN r}
    <3> SUFFICES ASSUME NEW k \in DOMAIN s PROVE s[k] \in {r[j] : j \in DOMAIN r}
      OBVIOUS
    <3>1. PICK j \in DOMAIN r : r[j] = s[k]
      BY <2>3
    <3> QED BY <3>1
  <2> QED BY <2>4, <2>5
<1> QED BY <1>3, <1>6 DEF r, u, n

Unharmed == /\ heap' = heap /\ threads' = threads
            /\ Len(pool') = Len(pool)
            /\ {pool'[i] : i \in DOMAIN pool'} = {pool[i] : i \in DOMAIN pool}

\* A NewThread that fails after it selected a stack puts it back where it was.
LEMMA NewThreadErrors ==
  ASSUME IInv, NEW isa \in Isas, NEW cooperative \in BOOLEAN, NEW requested \in Requests,
         NEW options \in Options, NewThread(isa, cooperative, requested, options),
         reply'.error # 0
  PROVE  Unharmed
<1> DEFINE size == SizeOf(requested)
<1>1. heap \in [Bases -> Block \cup {NoBlock}] /\ pool \in Seq(Stack)
  BY DEF IInv, StorageTypeOK
<1>2. CASE UNCHANGED <<heap, threads, pool>>
  BY <1>2 DEF Unharmed
<1>3. CASE NewThreadFromPool(isa, requested, options)
  <2>1. PICK taken \in BestFit(Fits(isa, size, options)) :
          /\ pool' = Recycled(SwapRemoved(pool, taken), isa, pool[taken].storage)
          /\ UNCHANGED threads
    BY <1>3 DEF NewThreadFromPool, Answer
  <2>2. taken \in DOMAIN pool /\ pool[taken].isa = isa
    BY DEF BestFit, Fits
  <2>3. pool[taken] \in Stack
    BY <1>1, <2>2
  <2>4. [isa |-> isa, storage |-> pool[taken].storage] = pool[taken]
    BY <2>2, <2>3 DEF Stack
  <2>5. pool' = Append(SwapRemoved(pool, taken), pool[taken])
    BY <2>1, <2>4 DEF Recycled
  <2>6. heap' = heap
    BY <1>3 DEF NewThreadFromPool
  <2> DEFINE r == Append(SwapRemoved(pool, taken), pool[taken])
  <2>7. Len(r) = Len(pool) /\ {r[i] : i \in DOMAIN r} = {pool[i] : i \in DOMAIN pool}
    BY <1>1, <2>2, PutBackKeepsEntries
  <2> HIDE DEF r
  <2>8. pool' = r
    BY <2>5 DEF r
  <2> QED BY <2>1, <2>6, <2>7, <2>8 DEF Unharmed
<1>4. CASE NewThreadFresh(isa, requested, options)
  <2>1. CASE UNCHANGED <<heap, threads>>
    BY <1>4, <2>1 DEF NewThreadFresh, Unharmed
  <2>2. CASE \E b \in Bases :
               /\ heap[b] = NoBlock
               /\ heap' = Freed(Allocated(heap, b, size, isa), b, Managed(isa))
               /\ UNCHANGED threads
    <3>1. PICK b \in Bases :
            /\ heap[b] = NoBlock
            /\ heap' = Freed(Allocated(heap, b, size, isa), b, Managed(isa))
            /\ UNCHANGED threads
      BY <2>2
    <3> DEFINE block == [size |-> size, managed |-> Managed(isa)]
               h2    == [heap EXCEPT ![b] = block]
    <3>2. block \in Block
      BY SizesAssumption DEF Block, Managed, SizeOf, Sizes
    <3>3. block # NoBlock /\ block.managed = Managed(isa)
      BY <3>2, NamesAssumption
    <3>4. heap' = Freed(h2, b, Managed(isa))
      BY <3>1 DEF Allocated
    <3> HIDE DEF block
    <3>5. h2[b] = block
      BY <1>1
    <3>6. heap' = [h2 EXCEPT ![b] = NoBlock]
      BY <3>3, <3>4, <3>5 DEF Freed
    <3>7. heap' = heap
      BY <1>1, <3>1, <3>6
    <3> QED BY <1>4, <3>1, <3>7 DEF NewThreadFresh, Unharmed
  <2> QED BY <1>4, <2>1, <2>2 DEF NewThreadFresh, Answer
<1> QED BY <1>2, <1>3, <1>4 DEF NewThread, NewThreadRefused, NewThreadPoolEmpty

\* A CreateThreadPool that fails frees everything it allocated.
LEMMA CreateThreadPoolErrors ==
  ASSUME IInv, NEW isa \in Isas, NEW cooperative \in BOOLEAN, NEW count \in -1..MaxCount,
         NEW requested \in Requests, CreateThreadPool(isa, cooperative, count, requested),
         reply'.error # 0
  PROVE  Unharmed
<1> DEFINE size == SizeOf(requested)
<1>1. heap \in [Bases -> Block \cup {NoBlock}] /\ size \in Sizes
  BY SizesAssumption DEF IInv, StorageTypeOK, SizeOf, Sizes
<1>2. threads' = threads
  BY DEF CreateThreadPool
<1>3. count > 0 => count \in Nat
  BY BoundsAssumption
<1>4. CASE UNCHANGED <<heap, pool>>
  BY <1>2, <1>4 DEF Unharmed
<1>5. CASE /\ pool' = pool /\ count \in Nat
           /\ \E got \in 0..count : \E bases \in Placements(got) :
                heap' = FreedAll(AllocatedAll(bases, size, isa), bases, isa)
  <2>1. heap' = heap
    BY <1>1, <1>5, RollbackRestoresHeap
  <2> QED BY <1>2, <1>5, <2>1 DEF Unharmed
<1> QED BY <1>3, <1>4, <1>5 DEF CreateThreadPool, Answer

\* Inside Macintosh's all-or-none rule, for every operation of the Thread Manager that
\* handles stacks: what returns an error leaves threads, allocators and pool as they were.
THEOREM ErrorsChangeNothing == Spec => ErrorChangesNothing
<1>1. Init => IInv
  BY DEF Init, IInv, StorageTypeOK, OneOwner, StackIsItsBlock, Live
<1>2. IInv /\ [Next]_vars => [reply'.error # 0 => Unharmed]_vars
  <2> SUFFICES ASSUME IInv, Next, reply'.error # 0 PROVE Unharmed
    OBVIOUS
  <2>1. CASE RetireRefused
    BY <2>1 DEF RetireRefused, Unharmed
  <2>2. CASE \E t \in Tasks, recycle \in BOOLEAN : Retire(t, recycle)
    BY <2>2 DEF Retire, Answer
  <2> QED BY <2>1, <2>2, NewThreadErrors, CreateThreadPoolErrors DEF Next
<1>3. ErrorChangesNothing <=> [][reply'.error # 0 => Unharmed]_vars
  BY DEF ErrorChangesNothing, Unharmed
<1> QED BY <1>1, <1>2, <1>3, Inductive, PTL DEF Spec

============================================================================
