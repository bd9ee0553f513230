------------------------- MODULE MCGpuLeaseClient -------------------------
(* An instance of GpuLeaseClient for TLC. *)
EXTENDS GpuLeaseClient

\* A trader that goes first and a renderer that can yield.
TraderFirst == [c \in Client |-> IF c = "trader" THEN 0 ELSE 1]
=============================================================================
