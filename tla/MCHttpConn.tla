----------------------------- MODULE MCHttpConn -----------------------------
(* Instances of HttpConn for TLC. *)
EXTENDS HttpConn, TLC

ConnSymmetry == Permutations(Conns)
=============================================================================
