--------------------------- MODULE MCFloorStream ---------------------------
(***************************************************************************)
(* The small instances of FloorStream that TLC checks: two tables, one     *)
(* with a party and a booking coming, one with neither.                    *)
(***************************************************************************)
EXTENDS FloorStream
=============================================================================
