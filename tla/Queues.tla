-------------------------------- MODULE Queues --------------------------------
(***************************************************************************)
(* What the list comprehensions, list.sort and sum calls of the code       *)
(* return, as definitions that theorems can be proved about (SelectSeq,    *)
(* SortSeq and MapThenSumSet take an operator, which no lemma can be       *)
(* instantiated with).                                                     *)
(***************************************************************************)
EXTENDS Integers, Sequences, FiniteSets

\* [e for e in q if e in S]
Only(q, S) ==
    LET kept[n \in 0 .. Len(q)] ==
            IF n = 0 THEN <<>>
            ELSE IF q[n] \in S THEN Append(kept[n - 1], q[n]) ELSE kept[n - 1]
    IN  kept[Len(q)]

\* [e for e in q if e not in S]
Without(q, S) == Only(q, {q[i] : i \in DOMAIN q} \ S)

\* q.sort(), which is stable; R is the set of pairs <<d, e>> with d before e.
SortedBy(q, R) ==
    LET before(j, i) == \/ <<q[j], q[i]>> \in R
                        \/ <<q[i], q[j]>> \notin R /\ j < i
    IN  [k \in 1 .. Len(q) |->
            q[CHOOSE i \in DOMAIN q :
                Cardinality({j \in DOMAIN q : before(j, i)}) = k - 1]]

\* sum(n[x] for x in S), of natural numbers.
Total(n, S) == Cardinality(UNION {{x} \X (1 .. n[x]) : x \in S})

\* A set of numbers, in order.
InOrder(S) == [k \in 1 .. Cardinality(S) |->
                  CHOOSE i \in S : Cardinality({j \in S : j < i}) = k - 1]

=============================================================================
