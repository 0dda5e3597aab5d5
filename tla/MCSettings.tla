------------------------------ MODULE MCSettings ------------------------------
(* Three networks: a form fills in none, the first, or leaves a gap in front  *)
(* of one, in front of two or between two.  Two forms, a power cut at any     *)
(* step of either save, and one write that fails.                             *)
EXTENDS SettingsProps
=============================================================================
