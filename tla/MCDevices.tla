------------------------------ MODULE MCDevices ------------------------------
(* Small instances of Devices for TLC: the calls on the SMBus. *)
EXTENDS Devices

Rd(d, o) == [rw |-> "read", dev |-> d, off |-> o, val |-> 255]
Wr(d, o, v) == [rw |-> "write", dev |-> d, off |-> o, val |-> v]

\* read_byte, write_byte, read_range of two bytes, write_range of two bytes, and detect.
MCPlans == {<<Rd("dimm0", 1)>>, <<Wr("dimm0", 2, 0)>>, <<Rd("dimm0", 1), Rd("dimm0", 2)>>,
            <<Wr("dimm0", 1, 0), Wr("dimm0", 2, 255)>>, <<Rd("dimm0", 2), Rd("dimm1", 2)>>}
=============================================================================
