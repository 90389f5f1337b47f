------------------------------ MODULE MCSession ------------------------------
(***************************************************************************)
(* Two sessions of which one has two readers: the instance that shows what *)
(* becomes of a reader of a quiet session stream.                          *)
(***************************************************************************)
EXTENDS SessionStream

CONSTANTS s1, s2, r1, r2

MCReadersOf == s1 :> {r1, r2} @@ s2 :> {}
=============================================================================
