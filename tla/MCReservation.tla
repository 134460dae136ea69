--------------------------- MODULE MCReservation ---------------------------
(* Instances of Reservation for TLC.                                       *)
EXTENDS Reservation

(* A file that ends with a full chunk, an empty one, one of a single       *)
(* chunk, and one of a single, full chunk.                                 *)
FourFiles == <<2, 0, 1, 1>>
=============================================================================
