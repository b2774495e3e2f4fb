--------------------------- MODULE MCStaffSession ---------------------------
(***************************************************************************)
(* The tablet's session with two sign-ins, one person and the next.        *)
(***************************************************************************)
EXTENDS StaffSession
=============================================================================
