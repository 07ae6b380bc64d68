---------------------------- MODULE MessageLists ----------------------------
(***************************************************************************)
(* What the chat pages' lists of messages are made with: Array.filter and     *)
(* Array.sort, each by the places its elements have in the list it is given.  *)
(***************************************************************************)
EXTENDS Naturals, FiniteSets, Sequences, SequencesExt

\* q.filter: the messages of q that are in S, in the order of q.
Filter(q, S) ==
  LET kept == {i \in 1..Len(q) : q[i] \in S}
  IN  [k \in 1..Cardinality(kept) |->
         q[CHOOSE i \in kept : Cardinality({j \in kept : j < i}) = k - 1]]

\* q.sort: what has the lower number comes first, what has the same number stays
\* in the order it had.
SortedBy(q, number) ==
  LET first(j, i) == number[j] < number[i] \/ (number[j] = number[i] /\ j < i)
  IN  [k \in 1..Len(q) |->
         q[CHOOSE i \in 1..Len(q) : Cardinality({j \in 1..Len(q) : first(j, i)}) = k - 1]]

=============================================================================
