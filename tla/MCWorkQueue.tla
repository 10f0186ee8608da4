---------------------------- MODULE MCWorkQueue ----------------------------
(***************************************************************************)
(* Instances of WorkQueue for TLC: a source that lies in a folder and may  *)
(* depend on a member, which lies outside.                                 *)
(***************************************************************************)
EXTENDS WorkQueue

CONSTANTS source, member, folder

MCHome == [f \in File |-> IF f = source /\ folder \in Folder THEN folder ELSE Implicit]
MCMayUse == [f \in File |-> IF f = source THEN File \ {source} ELSE {}]
=============================================================================
