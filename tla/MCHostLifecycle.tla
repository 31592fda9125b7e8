-------------------------- MODULE MCHostLifecycle --------------------------
(***************************************************************************)
(* HostLifecycle for TLC: Fl_Term's constructor makes h0, and the user or  *)
(* a script connects it to further hosts of every kind.                    *)
(***************************************************************************)
EXTENDS HostLifecycle

AllKinds == HostKinds
=============================================================================
