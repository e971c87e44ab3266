-------------------------- MODULE MCRoundtableTool --------------------------
(***************************************************************************)
(* A small instance of RoundtableTool: a page smaller than the retention,  *)
(* as in the code (200 of 500), and one session in each of two roles (two  *)
(* calls of one session are two digests of one role).  MaxSeq bounds the   *)
(* messages posted, so that the buffer rotates.                            *)
(***************************************************************************)
EXTENDS RoundtableTool, TLC

CONSTANTS MaxSeq, s1, s2, planner, critic

MCRoleOf == (s1 :> planner) @@ (s2 :> critic)

\* Calls are interchangeable.
MCSymmetry == Permutations(Calls)

MCNext == ToolNext /\ \A r \in Rooms : nextSeq'[r] <= MaxSeq + 1

MCSpec == ToolInit /\ [][MCNext]_toolVars
=============================================================================
