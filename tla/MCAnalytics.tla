---------------------------- MODULE MCAnalytics ----------------------------
(***************************************************************************)
(* A small instance of Analytics: three events of two users, the first one *)
(* without sources.                                                        *)
(***************************************************************************)
EXTENDS Analytics

MCOwnerOf == <<"u1", "u2", "u1">>
MCSourced == {2, 3}
=============================================================================
