----------------------------- MODULE MCTabFeed -----------------------------
(* Three events of any kind on top of a tab that may already have one, in   *)
(* pages of one, two pages to a poll: a poll may stop short of the end, a   *)
(* page may find the fold moved by a read, and a request may find a run     *)
(* under way.                                                               *)
EXTENDS TabFeed
=============================================================================
