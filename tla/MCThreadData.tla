----------------------------- MODULE MCThreadData -----------------------------
EXTENDS ThreadData

CONSTANTS info, bundles, samplers

\* Every vector of up to three chunks, the last ones empty or not, is resized to
\* what the loop makes of it.
ASSUME ResizeIsTheLoop ==
    \A k \in 0 .. 3 : \A v \in [1 .. k -> 0 .. ChunkSize], n \in 0 .. 4 * ChunkSize :
      Resize(v, n) = EmplaceUpTo(Reserve(v, n), n)
=============================================================================
