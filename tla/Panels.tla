------------------------------- MODULE Panels -------------------------------
(***************************************************************************)
(* What the modules of the TUI's panels share: the value of an Option that *)
(* is None.                                                                *)
(***************************************************************************)
CONSTANT None
=============================================================================
