---------------------------- MODULE MCRuntimeOpen ----------------------------
(* Instances of RuntimeOpen: every mode, binding and configuration; two pod *)
(* names, the first one bound.                                              *)
EXTENDS RuntimeOpen, TLC
=============================================================================
