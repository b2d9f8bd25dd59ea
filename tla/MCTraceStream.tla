---------------------------- MODULE MCTraceStream ----------------------------
(* Instances of TraceStream for TLC.                                        *)
EXTENDS TraceStream
=============================================================================
