----------------------------- MODULE MCFirmware -----------------------------
(* Instances of Firmware for TLC. *)
EXTENDS Firmware

ReadRequest(start, length) == [function |-> 3, first |-> start, second |-> length]
WriteRequest(r, v) == [function |-> 6, first |-> r, second |-> v]

\* Requests that are right, just beyond the two registers, and unknown
SomeRequests ==
  {ReadRequest(1, 1), ReadRequest(1, 2), WriteRequest(1, 1), WriteRequest(2, 1),
   [function |-> 1, first |-> 0, second |-> 0]}
=============================================================================
