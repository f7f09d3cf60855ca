---------------------------- MODULE MCLivoxDriver ----------------------------
(* An instance of LivoxDriver for TLC: one lidar that the configuration does   *)
(* not name, so that it goes through both kinds of announcement, and that      *)
(* needs two answers; a ring of two frames whose indexes wrap around after two *)
(* rounds.                                                                     *)
EXTENDS LivoxDriver

MCOptions == <<{"data_type", "pattern"}>>
=============================================================================
