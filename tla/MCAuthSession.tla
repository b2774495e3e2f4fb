--------------------------- MODULE MCAuthSession ---------------------------
(***************************************************************************)
(* The session in two tabs of one browser.  The tabs are interchangeable.  *)
(***************************************************************************)
EXTENDS AuthSession, TLC

AnyPage == Permutations(Pages)
=============================================================================
