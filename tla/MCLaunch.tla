------------------------------ MODULE MCLaunch ------------------------------
(***************************************************************************)
(* Two login attempts, enough for one attempt to leave something behind    *)
(* for the next one to meet.                                               *)
(***************************************************************************)
EXTENDS Launch
=============================================================================
