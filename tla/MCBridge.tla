------------------------------ MODULE MCBridge ------------------------------
(* An instance of CryptoBridge for TLC. *)
EXTENDS CryptoBridge, TLC

CONSTANTS keypair, encap

TwoObjects == {keypair, encap}

\* Nothing tells two wrappers apart.
Symmetry == Permutations(Objects)
=============================================================================
