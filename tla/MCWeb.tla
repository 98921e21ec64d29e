--------------------------------- MODULE MCWeb ---------------------------------
(***************************************************************************)
(* An instance of WebFrontend for TLC.                                     *)
(***************************************************************************)
EXTENDS WebFrontend

CONSTANTS i1, i2
=============================================================================
