---------------------------- MODULE MCFusedSplitK ----------------------------
(***************************************************************************)
(* A small instance of FusedSplitK: blocks of one to three rows stand for  *)
(* 16, 32 and 64, and tiles are one or two columns wide.                   *)
(***************************************************************************)
EXTENDS FusedSplitK

Config(bm, bn, bk, sk, large) ==
    [bm |-> bm, bn |-> bn, bk |-> bk, sk |-> sk, large |-> large]

MCSmallBlocks == <<1, 2, 2>>

\* A split into three of which the last slice is empty when K = 2, one whose
\* slices are longer than K / SPLIT_K, one without a split, and a large one.
MCConfigs == <<Config(1, 2, 1, 3, FALSE), Config(1, 1, 2, 2, FALSE),
               Config(2, 1, 1, 2, FALSE), Config(2, 2, 1, 1, FALSE),
               Config(2, 2, 2, 2, TRUE)>>

Shape(m, n, k) == [m |-> m, n |-> n, k |-> k]

\* One row of three columns, whose tiles are full and partial; one that needs
\* more counters; and one above the small blocks.
MCShapes == {Shape(1, 2, 3), Shape(2, 2, 2), Shape(3, 1, 2)}

=============================================================================
