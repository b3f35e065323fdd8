--------------------------- MODULE MCUsbTransmit ---------------------------
(***************************************************************************)
(* Two slots let a ring wrap, fill and evict with few frames; one slot for   *)
(* the query ring, whose code is that of the high-priority ring.            *)
(***************************************************************************)
EXTENDS UsbTransmit

Slots == [q \in Rings |-> IF q = "query" THEN 1 ELSE 2]
=============================================================================
