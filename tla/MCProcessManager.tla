------------------------- MODULE MCProcessManager -------------------------
(* Instances of ProcessManager for TLC. *)
EXTENDS ProcessManager

TwoServices == <<"api", "web">>
OneService == <<"api">>
=============================================================================
