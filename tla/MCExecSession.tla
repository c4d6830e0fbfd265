---------------------------- MODULE MCExecSession ----------------------------
(* Small instances of ExecSession.                                         *)
EXTENDS ExecSession, TLC
=============================================================================
