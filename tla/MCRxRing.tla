------------------------------ MODULE MCRxRing ------------------------------
(* Two devices: one whose reads may hold as much as the ring, one that     *)
(* sends single bytes.                                                     *)
EXTENDS RxRing

MCMaxBatch == [d \in Devices |-> IF d = "usb" THEN 2 ELSE 1]
=============================================================================
