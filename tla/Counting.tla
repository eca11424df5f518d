------------------------------ MODULE Counting ------------------------------
(***************************************************************************)
(* Sums over finite sets, and finite sets of numbers in order, as          *)
(* operators of which theorems can be stated (Counting_proofs).            *)
(***************************************************************************)
EXTENDS Integers, FiniteSetsExt

SumOver(f, S) == MapThenSumSet(LAMBDA x : f[x], S)

Total(f) == SumOver(f, DOMAIN f)

\* By the key, and of equal keys by the number.
Precedes(key, i, j) == key[i] < key[j] \/ (key[i] = key[j] /\ i < j)

Rank(key, I, i) == Cardinality({j \in I : Precedes(key, j, i)})

\* The numbers of I, first to last.
InOrder(key, I) ==
  [n \in 1..Cardinality(I) |-> CHOOSE i \in I : Rank(key, I, i) = n - 1]

ByNumber(I) == [i \in I |-> i]
=============================================================================
