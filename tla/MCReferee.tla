----------------------------- MODULE MCReferee -----------------------------
(* An instance of RefereeSystem for TLC; the configuration gives the robot *)
(* hit points of which one hit leaves a third, a magazine for one shot and *)
(* a heat limit that one command reaches.                                  *)
EXTENDS RefereeSystem
=============================================================================
