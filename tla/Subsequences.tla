----------------------------- MODULE Subsequences -----------------------------
(***************************************************************************)
(* What is left of a queue when some of its entries are taken out: the      *)
(* entries at a set of positions, in their order (`retain` of a Rust        *)
(* collection).  Keeping is a recursive function and not SelectSeq, which   *)
(* TLAPS treats as opaque, so that SubsequenceProofs can reason about it.   *)
(***************************************************************************)
EXTENDS Naturals, Sequences

\* The entries of q at the positions in P.
Keeping(q, P) ==
  LET kept[i \in 0..Len(q)] ==
        IF i = 0 THEN << >>
        ELSE IF i \in P THEN Append(kept[i - 1], q[i]) ELSE kept[i - 1]
  IN  kept[Len(q)]

\* retain(|entry| S.contains(entry)) and retain(|entry| *entry != t).
Among(q, S)   == Keeping(q, {i \in DOMAIN q : q[i] \in S})
Without(q, t) == Keeping(q, {i \in DOMAIN q : q[i] # t})

\* What q holds, and that it holds nothing twice.
Entries(q)  == {q[i] : i \in DOMAIN q}
Distinct(q) == \A i, j \in DOMAIN q : i # j => q[i] # q[j]
===============================================================================
