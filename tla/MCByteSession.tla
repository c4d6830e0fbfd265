---------------------------- MODULE MCByteSession ----------------------------
(* Small instances of ByteSession.                                         *)
EXTENDS ByteSession, TLC
=============================================================================
