----------------------------- MODULE MCScreens ------------------------------
(* Model-checking instance of Screens: every screen that is described.     *)
EXTENDS Screens, AllScreens

MCPages == LET all == AllPages IN all
=============================================================================
