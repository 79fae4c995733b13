----------------------------- MODULE MCTraffic -----------------------------
(***************************************************************************)
(* Instances of Traffic for TLC: the constants are in traffic*.cfg.        *)
(***************************************************************************)
EXTENDS Traffic, TLC

\* Callers are interchangeable.
TrafficSymmetry == Permutations(Callers)
=============================================================================
