---------------------------- MODULE MCUserLog ----------------------------
(* Three User objects of one Telegram user in two logger workers: two of the  *)
(* same worker, with different names.                                         *)
EXTENDS UserLog, TLC

CONSTANTS p1, p2, o1, o2, o3, n1, n2

UserLog_procOf == (o1 :> p1) @@ (o2 :> p1) @@ (o3 :> p2)
UserLog_nameOf == (o1 :> n1) @@ (o2 :> n2) @@ (o3 :> n1)
=============================================================================
