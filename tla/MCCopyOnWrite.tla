--------------------------- MODULE MCCopyOnWrite ---------------------------
(* The instance of CopyOnWrite for TLC.                                    *)
EXTENDS CopyOnWrite, TLC

(* The processes that fork creates are interchangeable.                    *)
Children == Permutations(Procs \ {InitProc})
=============================================================================
