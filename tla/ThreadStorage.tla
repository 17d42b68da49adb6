--------------------------- MODULE ThreadStorage ---------------------------
(***************************************************************************)
(* Who owns the stack of a cooperative thread.                             *)
(*                                                                         *)
(* NewThread takes a stack from the pool or from the allocator of its      *)
(* instruction set, CreateThreadPool fills the pool with all of its stacks *)
(* or none, DisposeThread and the return of a thread's entry give a stack  *)
(* back to the pool or to its allocator.  The policy is thread_manager.rs; *)
(* the threads and the pool belong to GuestCallTasks in guest_call.rs; the *)
(* allocators are reached through the edges of the two adapters.  No guest *)
(* code runs inside an operation, so each one is one step.                 *)
(*                                                                         *)
(* Abstractions.  A stack is named by its base and measured by its size;   *)
(* where a block lies does not matter, only that two live blocks have two  *)
(* bases.  A thread is only its stack: identities, scheduling and contexts *)
(* are ExecutionKernel's, and what that owner, the output pointers or the  *)
(* entry procedure may refuse is a choice among the errors they return.    *)
(***************************************************************************)
EXTENDS Integers, Sequences, FiniteSets

CONSTANTS
  Tasks,        \* identities of worker threads
  Bases,        \* addresses at which an allocator can place a stack
  Requests,     \* stack sizes a program asks for; 0 stands for the default
  DefaultSize,  \* DEFAULT_COOPERATIVE_THREAD_STACK_SIZE
  MinimumM68k,  \* the initial frame of a 68K thread
  MinimumPpc,   \* the initial frame of a PowerPC thread
  MaxCount,     \* bound: the largest pool requested at once
  MaxPool,      \* bound: entries a pool may have before another is requested
  NoBlock, NoThread

Isas == {"M68k", "PowerPc"}

ASSUME SizesAssumption ==
  /\ Requests \subseteq Nat
  /\ DefaultSize \in Nat \ {0}
  /\ MinimumM68k \in Nat \ {0} /\ MinimumPpc \in Nat \ {0}

ASSUME BoundsAssumption == MaxCount \in Nat /\ MaxPool \in Nat

VARIABLES
  heap,     \* heap[b]: the block at base b, with its size and its allocator
  threads,  \* thread_storage and task_entry_isa of every live worker
  pool,     \* thread_pool, in the order of the vector
  reply     \* the last operation, what it asked for and the error it returned

vars == <<heap, threads, pool, reply>>

\* Two allocators: managed native pointers, and the classic heap.
Managed(isa) == isa = "PowerPc"

Sizes == (Requests \ {0}) \cup {DefaultSize}

Storage == [base : Bases, size : Sizes, managed : BOOLEAN]

Stack == [isa : Isas, storage : Storage]

Block == [size : Sizes, managed : BOOLEAN]

ASSUME NamesAssumption ==
  NoBlock \notin Block /\ NoThread \notin Stack /\ NoThread \notin Tasks

Options == SUBSET {"UsePool", "CreateIfNeeded", "ExactMatch"}

---------------------------------------------------------------------------
(* The allocators *)

Allocated(h, b, size, isa) == [h EXCEPT ![b] = [size |-> size, managed |-> Managed(isa)]]

\* An allocator ignores an address that is not one of its own live blocks.
Freed(h, b, managed) ==
  IF h[b] # NoBlock /\ h[b].managed = managed THEN [h EXCEPT ![b] = NoBlock] ELSE h

\* release_retired_storage: the flag kept with the stack selects the allocator.
Released(h, storage) == Freed(h, storage.base, storage.managed)

---------------------------------------------------------------------------
(* The pool *)

SizeOf(requested) == IF requested = 0 THEN DefaultSize ELSE requested

Minimum(isa) == IF isa = "M68k" THEN MinimumM68k ELSE MinimumPpc

\* stack_size: only the cooperative style, and room for the first frame.
SizeAccepted(isa, cooperative, requested) ==
  cooperative /\ SizeOf(requested) >= Minimum(isa)

Fits(isa, size, options) ==
  {i \in DOMAIN pool :
    /\ pool[i].isa = isa
    /\ pool[i].storage.size >= size
    /\ "ExactMatch" \in options => pool[i].storage.size = size}

\* min_by_key: the first of the smallest.
BestFit(fits) ==
  {i \in fits : \A j \in fits :
    \/ pool[i].storage.size < pool[j].storage.size
    \/ pool[i].storage.size = pool[j].storage.size /\ i <= j}

\* Slip: the last entry is removed whichever was taken.
LastRemoved(s, i) == SubSeq(s, 1, Len(s) - 1)

\* swap_remove: the last entry takes the place of the one removed.
SwapRemoved(s, i) == SubSeq([s EXCEPT ![i] = s[Len(s)]], 1, Len(s) - 1)

\* recycle_thread_stack
Recycled(p, isa, storage) == Append(p, [isa |-> isa, storage |-> storage])

---------------------------------------------------------------------------
Init ==
  /\ heap = [b \in Bases |-> NoBlock]
  /\ threads = [t \in Tasks |-> NoThread]
  /\ pool = << >>
  /\ reply = [op |-> "None"]

Answer(op, isa, size, options, task, error) ==
  reply' = [op |-> op, isa |-> isa, size |-> size, options |-> options,
            task |-> task, error |-> error]

---------------------------------------------------------------------------
(* NewThread *)

\* preflight and stack_size answer before any storage is selected.
NewThreadRefused(isa, cooperative, requested, options) ==
  /\ \E error \in IF SizeAccepted(isa, cooperative, requested)
                  THEN {-50, -108} ELSE {-50} :
       Answer("NewThread", isa, SizeOf(requested), options, NoThread, error)
  /\ UNCHANGED <<heap, threads, pool>>

\* The pool was asked for, nothing in it fits and a new stack is not wanted.
NewThreadPoolEmpty(isa, requested, options) ==
  /\ SizeAccepted(isa, TRUE, requested)
  /\ "UsePool" \in options /\ "CreateIfNeeded" \notin options
  /\ Fits(isa, SizeOf(requested), options) = {}
  /\ Answer("NewThread", isa, SizeOf(requested), options, NoThread, -617)
  /\ UNCHANGED <<heap, threads, pool>>

\* Publication succeeds with an identity, or the owner (-108), the frame or an
\* output pointer (-50) refuses it; a refused stack goes back to the pool.
NewThreadFromPool(isa, requested, options) ==
  LET size == SizeOf(requested)
  IN /\ SizeAccepted(isa, TRUE, requested)
     /\ "UsePool" \in options
     /\ UNCHANGED heap
     /\ \E taken \in BestFit(Fits(isa, size, options)) :
          LET storage == pool[taken].storage
              rest    == SwapRemoved(pool, taken)
          IN \/ \E t \in Tasks :
                  /\ threads[t] = NoThread
                  /\ threads' = [threads EXCEPT ![t] = [isa |-> isa,
                       storage |-> [storage EXCEPT !.managed = Managed(isa)]]]
                  /\ pool' = rest
                  /\ Answer("NewThread", isa, size, options, t, 0)
             \/ \E error \in {-50, -108} :
                  /\ pool' = Recycled(rest, isa, storage)
                  /\ UNCHANGED threads
                  /\ Answer("NewThread", isa, size, options, NoThread, error)

\* Without the pool, or with nothing in it that fits, the allocator is asked.
NewThreadFresh(isa, requested, options) ==
  LET size == SizeOf(requested)
      storageAt(b) == [base |-> b, size |-> size, managed |-> Managed(isa)]
  IN /\ SizeAccepted(isa, TRUE, requested)
     /\ "UsePool" \in options =>
          "CreateIfNeeded" \in options /\ Fits(isa, size, options) = {}
     /\ UNCHANGED pool
     /\ \/ \E b \in Bases, t \in Tasks :
             /\ heap[b] = NoBlock /\ threads[t] = NoThread
             /\ heap' = Allocated(heap, b, size, isa)
             /\ threads' = [threads EXCEPT ![t] = [isa |-> isa, storage |-> storageAt(b)]]
             /\ Answer("NewThread", isa, size, options, t, 0)
        \/ \E b \in Bases, error \in {-50, -108} :
             /\ heap[b] = NoBlock
             /\ heap' = Freed(Allocated(heap, b, size, isa), b, Managed(isa))
             /\ UNCHANGED threads
             /\ Answer("NewThread", isa, size, options, NoThread, error)
        \/ /\ UNCHANGED <<heap, threads>>
           /\ Answer("NewThread", isa, size, options, NoThread, -108)

NewThread(isa, cooperative, requested, options) ==
  \/ NewThreadRefused(isa, cooperative, requested, options)
  \/ /\ cooperative
     /\ \/ NewThreadPoolEmpty(isa, requested, options)
        \/ NewThreadFromPool(isa, requested, options)
        \/ NewThreadFresh(isa, requested, options)

---------------------------------------------------------------------------
(* CreateThreadPool *)

\* The stacks one request prepared, in the order they were allocated.
Placements(n) ==
  {bases \in [1..n -> {b \in Bases : heap[b] = NoBlock}] :
    \A i, j \in 1..n : i # j => bases[i] # bases[j]}

AllocatedAll(bases, size, isa) ==
  [b \in Bases |-> IF \E i \in DOMAIN bases : bases[i] = b
                   THEN [size |-> size, managed |-> Managed(isa)] ELSE heap[b]]

\* Slip: the first stack prepared is missed.
FreedAllButFirst(h, bases, isa) ==
  [b \in Bases |-> IF \E i \in DOMAIN bases : i > 1 /\ bases[i] = b
                   THEN Freed(h, b, Managed(isa))[b] ELSE h[b]]

\* Rollback of the adapter: every stack the manager hands back.
FreedAll(h, bases, isa) ==
  [b \in Bases |-> IF \E i \in DOMAIN bases : bases[i] = b
                   THEN Freed(h, b, Managed(isa))[b] ELSE h[b]]

\* create_pool: a style, size or count it does not accept (-50), an allocation
\* that fails or is not as long as asked after some succeeded (-108), or all.
CreateThreadPool(isa, cooperative, count, requested) ==
  LET size == SizeOf(requested)
      accepted == SizeAccepted(isa, cooperative, requested) /\ count >= 0
  IN /\ UNCHANGED threads
     /\ \/ /\ ~ accepted
           /\ Answer("CreatePool", isa, size, {}, NoThread, -50)
           /\ UNCHANGED <<heap, pool>>
        \/ /\ accepted /\ count > 0
           /\ \E got \in 0..count : \E bases \in Placements(got) :
                heap' = FreedAll(AllocatedAll(bases, size, isa), bases, isa)
           /\ Answer("CreatePool", isa, size, {}, NoThread, -108)
           /\ UNCHANGED pool
        \/ /\ accepted /\ Len(pool) < MaxPool
           /\ \E bases \in Placements(count) :
                /\ heap' = AllocatedAll(bases, size, isa)
                /\ pool' = pool \o [i \in 1..count |->
                     [isa |-> isa,
                      storage |-> [base |-> bases[i], size |-> size,
                                   managed |-> Managed(isa)]]]
           /\ Answer("CreatePool", isa, size, {}, NoThread, 0)

---------------------------------------------------------------------------
(* The end of a thread *)

\* retire_thread: unknown (-618); the application thread, a pending handoff, a
\* suspended call, no successor or an unwritable result (-619).
RetireRefused ==
  /\ \E t \in Tasks, error \in {-618, -619} :
       /\ error = -618 <=> threads[t] = NoThread
       /\ Answer("Retire", "M68k", 0, {}, t, error)
  /\ UNCHANGED <<heap, threads, pool>>

\* A recycled stack is pooled under the instruction set its thread was created
\* with, whichever adapter retires it; otherwise its allocator takes it back.
Retire(t, recycle) ==
  /\ threads[t] # NoThread
  /\ LET stack == threads[t]
     IN /\ pool' = IF recycle THEN Recycled(pool, stack.isa, stack.storage) ELSE pool
        /\ heap' = IF recycle THEN heap ELSE Released(heap, stack.storage)
        /\ Answer("Retire", stack.isa, stack.storage.size, {}, t, 0)
  /\ threads' = [threads EXCEPT ![t] = NoThread]

Next ==
  \/ \E isa \in Isas, cooperative \in BOOLEAN, requested \in Requests, options \in Options :
       NewThread(isa, cooperative, requested, options)
  \/ \E isa \in Isas, cooperative \in BOOLEAN, count \in -1..MaxCount, requested \in Requests :
       CreateThreadPool(isa, cooperative, count, requested)
  \/ RetireRefused
  \/ \E t \in Tasks, recycle \in BOOLEAN : Retire(t, recycle)

Spec == Init /\ [][Next]_vars

---------------------------------------------------------------------------
(* Properties *)

Live == {t \in Tasks : threads[t] # NoThread}

\* free_count: what GetFreeThreadCount and its specific form report.
FreeCount(isa, minimum) ==
  Cardinality({i \in DOMAIN pool : pool[i].isa = isa /\ pool[i].storage.size >= minimum})

\* Every variable has the shape of the code's data.
StorageTypeOK ==
  /\ heap \in [Bases -> Block \cup {NoBlock}]
  /\ threads \in [Tasks -> Stack \cup {NoThread}]
  /\ pool \in Seq(Stack)

\* Across every creation, failed creation, recycling, pool request and disposal
\* a stack has one owner: two live threads never run on one stack, no pooled
\* stack belongs to a thread or is pooled twice, and no block is left that
\* neither a thread nor the pool can give back.
OneOwner ==
  /\ \A t, u \in Live : t # u => threads[t].storage.base # threads[u].storage.base
  /\ \A i, j \in DOMAIN pool : i # j => pool[i].storage.base # pool[j].storage.base
  /\ \A t \in Live, i \in DOMAIN pool : threads[t].storage.base # pool[i].storage.base
  /\ \A b \in Bases : heap[b] # NoBlock =>
       \/ \E t \in Live : threads[t].storage.base = b
       \/ \E i \in DOMAIN pool : pool[i].storage.base = b

\* A stack in use or pooled is a live block of the allocator of its thread's
\* instruction set and is as long as the owner believes: however often it went
\* through the pool, releasing it reaches the allocator it came from.
StackIsItsBlock ==
  LET Holds(stack) == /\ heap[stack.storage.base] = [size |-> stack.storage.size,
                                                     managed |-> stack.storage.managed]
                      /\ stack.storage.managed = Managed(stack.isa)
  IN /\ \A t \in Live : Holds(threads[t])
     /\ \A i \in DOMAIN pool : Holds(pool[i])

\* "all-or-none": an operation that returns an error changes nothing a program
\* can see: the same threads, the same blocks, the same stacks in the pool
\* (swap_remove and the push of a refused stack may reorder them).
ErrorChangesNothing ==
  [][reply'.error # 0 =>
       /\ heap' = heap /\ threads' = threads
       /\ Len(pool') = Len(pool)
       /\ {pool'[i] : i \in DOMAIN pool'} = {pool[i] : i \in DOMAIN pool}]_vars

\* A thread created with the pool option runs on the smallest pooled stack of
\* its instruction set that is long enough (exactly as long, if asked), and on
\* a new stack only when there is none; -617 is returned only then, so a
\* program that was told a stack is free can count on it.
PoolServesBestFit ==
  [][reply'.op = "NewThread" /\ "UsePool" \in reply'.options =>
       LET usable == {i \in DOMAIN pool :
                        /\ pool[i].isa = reply'.isa
                        /\ pool[i].storage.size >= reply'.size
                        /\ "ExactMatch" \in reply'.options =>
                             pool[i].storage.size = reply'.size}
       IN /\ reply'.error = -617 =>
               /\ usable = {}
               /\ "ExactMatch" \notin reply'.options =>
                    FreeCount(reply'.isa, reply'.size) = 0
          /\ reply'.error = 0 /\ usable # {} =>
               LET given == threads'[reply'.task].storage
               IN /\ \E i \in usable : pool[i].storage = given
                  /\ \A i \in usable : given.size <= pool[i].storage.size]_vars

============================================================================
