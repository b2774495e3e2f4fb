-------------------------- MODULE MCBookingSubmit --------------------------
(***************************************************************************)
(* A booking with two times to choose from.                                *)
(***************************************************************************)
EXTENDS BookingSubmit
=============================================================================
