--------------------------- MODULE MCGuestThread ---------------------------
(* A small guest's thread for TLC; the bounds are in the cfg files.         *)
EXTENDS GuestThread
=============================================================================
