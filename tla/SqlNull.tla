-------------------------------- MODULE SqlNull --------------------------------
(***************************************************************************)
(* The one value that several modules share: what the code writes as None  *)
(* and the database keeps as NULL.  A module checked together with others  *)
(* takes it from here.                                                     *)
(***************************************************************************)
CONSTANT None
=============================================================================
