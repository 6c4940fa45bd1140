-------------------------- MODULE MCResourceNames --------------------------
(* ResourceNames on a small instance: two names that live, one whose text dies. *)
EXTENDS ResourceNames, TLC

CONSTANTS t1, t2, tex, txt, tmp, TEXTURE, TEXT

MCTypeOf == (tex :> TEXTURE) @@ (txt :> TEXT) @@ (tmp :> TEXT)

=============================================================================
