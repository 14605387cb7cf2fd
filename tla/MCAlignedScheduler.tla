------------------------- MODULE MCAlignedScheduler -------------------------
(***************************************************************************)
(* Small instances of AlignedScheduler: two adapters, two or three         *)
(* sequences of the first and one of the second, or one and two.           *)
(***************************************************************************)
EXTENDS AlignedScheduler

CONSTANTS a1, a2, s1, s2, s3, s4

MCAdapterOf == (s1 :> a1) @@ (s2 :> a1) @@ (s3 :> a2)
SkewAdapterOf == (s1 :> a1) @@ (s2 :> a1) @@ (s3 :> a1) @@ (s4 :> a2)
PairAdapterOf == (s1 :> a1) @@ (s2 :> a2) @@ (s3 :> a2)

\* The three sequences of a1 are interchangeable.
Symmetry == Permutations({s1, s2, s3})

=============================================================================
