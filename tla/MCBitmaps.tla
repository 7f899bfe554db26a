----------------------------- MODULE MCBitmaps -----------------------------
(* Ports and MSRs at the edges of the bitmaps' bytes, slices and frames. *)
EXTENDS InterceptBitmaps

MCPorts == {0, 7, 8, 1539, 1540, 1541, 8191, 32767, 32768, 32775, 34308, 40959, 65535}

\* Ranges the slice holds, and one that leaves it half-way.
MCIoRanges == {<<0, 8>>, <<1536, 8>>, <<8191, 1>>, <<32768, 1>>, <<34308, 1>>,
               <<40959, 1>>, <<8190, 4>>}

MCMsrs ==
  {[range |-> g, offset |-> o] : g \in {"low", "high"}, o \in {0, 225, 2048, 8191}}
    \cup {[range |-> "other", offset |-> 0]}

MCApicOffsets == {2048, 2049, 2111}
=============================================================================
