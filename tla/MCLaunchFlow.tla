---------------------------- MODULE MCLaunchFlow ----------------------------
(* LaunchFlow for TLC: what the instances have in common.                    *)
EXTENDS LaunchFlow, TLC

\* Logins and browsers are interchangeable; sound for the safety runs.
Symmetry == Permutations(Logins) \cup Permutations(Browsers)
=============================================================================
