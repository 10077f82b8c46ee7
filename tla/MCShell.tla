------------------------------ MODULE MCShell ------------------------------
(* Three sidecars, two turns that may overlap, two updates by one caller (the *)
(* guard UPDATE_IN_PROGRESS lets one through at a time).                     *)
EXTENDS Shell
=============================================================================
