-------------------------- MODULE MCProcessSampler --------------------------
EXTENDS ProcessSampler

CONSTANTS d1, d2

TwoDevices == {d1, d2}
=============================================================================
