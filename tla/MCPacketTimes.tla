---------------------------- MODULE MCPacketTimes ----------------------------
(* A small instance of PacketTimes for TLC: words of two digits of 5 bits,   *)
(* 10 nanoseconds and 5 microseconds in a second, one slot of each kind with *)
(* a mean above a second.                                                    *)
EXTENDS PacketTimes

MCExpQ  == <<22, 30, 31>>          \* of ln 2 = 22/32
MCSlots == <<[type |-> "exp", mean |-> FromFloat(7, 5)],
             [type |-> "literal", mean |-> 11]>>

Start(t, nanos, num, den) == [at |-> t, rtt |-> FromDuration(nanos), num |-> num, den |-> den]
MCStarts == {Start(12, 0, 0, 1), Start(27, 7, 0, 1), Start(27, 7, 5, 2)}

MCLags  == {3}
MCTrips == {[out |-> 0, proc |-> 0, back |-> 1], [out |-> 13, proc |-> 2, back |-> 4]}

Clock(sync, errUsec) == [sync |-> sync, errUsec |-> errUsec]
MCHosts ==
  {[mine |-> Clock(TRUE, 1),  theirs |-> Clock(FALSE, 0), ahead |-> 0],
   [mine |-> Clock(TRUE, 0),  theirs |-> Clock(TRUE, 13), ahead |-> 17],
   [mine |-> Clock(FALSE, 4), theirs |-> Clock(TRUE, 31), ahead |-> 3],
   [mine |-> Clock(TRUE, 3),  theirs |-> Clock(TRUE, 8),  ahead |-> 5]}
=============================================================================
