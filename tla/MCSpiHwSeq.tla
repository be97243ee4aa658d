----------------------------- MODULE MCSpiHwSeq -----------------------------
(* Small instance of SpiHwSeq for TLC: two addresses, two data values,    *)
(* transactions of at most 2 bytes (so sizes 0 and 3 are invalid), and    *)
(* poll loops of two reads, enough for a cycle to outlive either loop.    *)
EXTENDS SpiHwSeq

MCAddr == {"a1", "a2"}
MCVal == {"v1", "v2"}
=============================================================================
