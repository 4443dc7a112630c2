------------------------------- MODULE MCSeats ------------------------------
(* Small instances of SeatStream for TLC. *)
EXTENDS SeatStream
=============================================================================
