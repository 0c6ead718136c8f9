---------------------------- MODULE MCTraceCache ----------------------------
(* Model values and bounds for checking TraceCache with TLC. *)
EXTENDS TraceCache

CONSTANTS w1, w2, c1

OneWriter == {w1}
TwoWriters == {w1, w2}
MCCallers == {c1}
MCSampleSizes == {1}
TwoSampleSizes == {1, 2}
=============================================================================
