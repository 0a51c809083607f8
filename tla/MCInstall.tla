------------------------------ MODULE MCInstall ----------------------------
(* Three releases, the last two with one base image definition; or one that *)
(* goes back to an earlier definition.                                      *)
EXTENDS Install

SameTwice == <<1, 2, 2>>
Reverted == <<1, 2, 1>>
=============================================================================
