--------------------------- MODULE MCBufferStorage ---------------------------
(* Model values and bounds for checking BufferStorage with TLC. *)
EXTENDS BufferStorage

CONSTANTS w1, w2

MCWriters == {w1, w2}
MCSampleSizes == {1, 2}
=============================================================================
