------------------------------ MODULE MCSummary ------------------------------
(* Small instances of Summary for TLC. *)
EXTENDS Summary

Path(out, proc, back, there, home) ==
  [out |-> out, proc |-> proc, back |-> back, ttl |-> [fwd |-> there, bck |-> home]]

MCSentSeqs == 0 .. 2
MCRefls    == 0 .. 2
MCPaths    == {Path(1, 0, 1, 254, 255), Path(1, 3, 4, 254, 250), Path(4, 1, 2, 250, 255)}
MCDepartures == [p \in MCSentSeqs |-> 2 * p]
MCOffsets  == {-2, 0, 3}
MCBuckets  == {[rtt |-> (w.out + w.back) \div 2, fwd |-> (w.out + o) \div 2,
                bck |-> (w.back - o) \div 2] : w \in MCPaths, o \in MCOffsets}
MCLevels   == {<<0, 100>>, <<50, 100>>, <<95, 100>>, <<100, 100>>, <<1, 3>>}
=============================================================================
