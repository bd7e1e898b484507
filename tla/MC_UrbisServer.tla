--------------------------- MODULE MC_UrbisServer ---------------------------
(***************************************************************************)
(* TLC instance of the server: two goroutines whose clients share an index *)
(* name, or have a name each.                                              *)
(***************************************************************************)
EXTENDS UrbisServer, TLC

CONSTANTS r1, r2, idA, idB

MCTargets == {(r1 :> {idA}) @@ (r2 :> {idA}), (r1 :> {idA}) @@ (r2 :> {idB})}
=============================================================================
