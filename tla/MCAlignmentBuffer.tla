------------------------- MODULE MCAlignmentBuffer -------------------------
(***************************************************************************)
(* Small instances of AlignmentBuffer: two adapters, three sequences of    *)
(* the first and one of the second, and warps of two or three tokens, so   *)
(* that a queue can hold less than a warp, one warp, and a warp and a rest.*)
(***************************************************************************)
EXTENDS AlignmentBuffer

CONSTANTS a1, a2, s1, s2, s3, s4

MCAdapterOf == (s1 :> a1) @@ (s2 :> a1) @@ (s3 :> a1) @@ (s4 :> a2)

\* The three sequences of a1 are interchangeable.
Symmetry == Permutations({s1, s2, s3})

=============================================================================
