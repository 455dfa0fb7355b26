--------------------------- MODULE MCEvidencePool ---------------------------
(* Instances of EvidencePool for TLC.                                         *)
EXTENDS EvidencePool, TLC

CONSTANTS k1, k2, k3, k4

\* One document of two chunks and two of one chunk.
Partition == {{k1, k2}, {k3}, {k4}}

\* 1 / (60 + rank), times 61 * 62 * 63 * 64.
ReciprocalRank == <<249984, 245952, 242048, 238266>>

ASSUME Outranking == VotesOutrank

Interchangeable ==
  {f \in Permutations(Chunks) : f[k1] \in {k1, k2} /\ f[k2] \in {k1, k2}}

=============================================================================
