----------------------------- MODULE FusedProduct -----------------------------
(***************************************************************************)
(* What FusedLoRAKernel.forward promises (kernel/fused_lora_kernel.py):    *)
(* every call gets Y = X @ W^T + alpha * (X @ A^T) @ B^T.  Y is allocated  *)
(* undefined and filled in element by element, in the order of the calls   *)
(* on the stream; what is in an element is undefined or the whole product. *)
(* Nothing here knows of tiles, split K, scratch memory or autotuning.     *)
(***************************************************************************)
EXTENDS Integers, Sequences

CONSTANT Shapes    \* the shapes of the calls: [m, n, k]

VARIABLES
    calls,     \* the shapes of the calls made
    result     \* per call and element of Y, "undefined" or "product"

vars == <<calls, result>>

\* The elements of Y, of shape (M, N).
Elements(shape) == (0 .. shape.m - 1) \X (0 .. shape.n - 1)

Complete(c) == \A e \in Elements(calls[c]) : result[c][e] = "product"

Init == calls = <<>> /\ result = <<>>

forward(shape) ==
    /\ calls' = Append(calls, shape)
    /\ result' = Append(result, [e \in Elements(shape) |-> "undefined"])

Compute(c, e) ==
    /\ \A d \in 1 .. c - 1 : Complete(d)
    /\ result[c][e] = "undefined"
    /\ result' = [result EXCEPT ![c][e] = "product"]
    /\ UNCHANGED calls

ComputeSome == \E c \in DOMAIN calls : \E e \in Elements(calls[c]) : Compute(c, e)

Next == (\E shape \in Shapes : forward(shape)) \/ ComputeSome

Spec == Init /\ [][Next]_vars

\* Every call is answered.
FairSpec == Spec /\ WF_vars(ComputeSome)

=============================================================================
