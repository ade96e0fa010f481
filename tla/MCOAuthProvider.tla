--------------------------- MODULE MCOAuthProvider ---------------------------
(***************************************************************************)
(* OAuthProvider for TLC: the requests are interchangeable, in the         *)
(* specification and in every property.                                    *)
(***************************************************************************)
EXTENDS OAuthProvider, TLC

RequestSymmetry == Permutations(Requests)

=============================================================================
