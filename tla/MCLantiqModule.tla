---------------------------- MODULE MCLantiqModule ----------------------------
(***************************************************************************)
(* LantiqModule on a build with two ports, of which the configuration names *)
(* one, or one too many, and two channels.                                  *)
(***************************************************************************)
EXTENDS LantiqModule

MCSurroundings ==
  {{"nocalls"}, {"idle", "drained", "still"}, {"once", "idle", "ioctlok"}}
===============================================================================
