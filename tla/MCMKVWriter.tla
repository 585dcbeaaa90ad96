---------------------------- MODULE MCMKVWriter ----------------------------
(* Instances of MKVWriter for TLC, with what its video tracks do to the    *)
(* octets of a frame.                                                      *)
EXTENDS MKVWriter

\* Units that end and begin with the octets of start codes, one with emulation
\* prevention, and one longer than the others.
MCUnits == {<<1>>, <<2>>, <<0, 1>>, <<0, 2>>, <<1, 1>>, <<2, 1>>, <<2, 0, 1>>, <<0, 0, 3>>, <<3, 0, 0, 3, 1>>}
============================================================================
