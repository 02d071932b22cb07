----------------------------- MODULE MCNativeMpe -----------------------------
(* Instances of NativeMpe for TLC: every kind of application. *)
EXTENDS NativeMpe

AllApps == SUBSET Habit
=============================================================================
