---------------------------- MODULE MCMemoryPool ----------------------------
(* MemoryPool on small sets of callers and buffers.                        *)
EXTENDS MemoryPool, TLC

Symmetry == Permutations(Callers) \cup Permutations(HostBlocks)
              \cup Permutations(DeviceBlocks) \cup Permutations(Vectors)

=============================================================================
