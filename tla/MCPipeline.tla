----------------------------- MODULE MCPipeline -----------------------------
(* Small instances of Pipeline for TLC.                                    *)
EXTENDS Pipeline, TLC

\* Threads of a kind are interchangeable, and so are the buckets that are
\* allocated at the start.
Symmetry == Permutations(Capture) \cup Permutations(Indexer) \cup Permutations(Output)
            \cup Permutations(InitBuckets)
=============================================================================
