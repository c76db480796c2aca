-------------------------- MODULE MCWindowsService --------------------------
(* WindowsService for TLC: all that varies is how many controls arrive.    *)
EXTENDS WindowsService
=============================================================================
