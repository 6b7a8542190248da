----------------------------- MODULE MCNvRecord -----------------------------
(***************************************************************************)
(* NvRecord for TLC: the addresses of the devices are interchangeable.     *)
(***************************************************************************)
EXTENDS NvRecord, TLC

Symmetry == Permutations(Devices)

=============================================================================
