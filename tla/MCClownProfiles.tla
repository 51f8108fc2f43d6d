--------------------------- MODULE MCClownProfiles ---------------------------
(* ClownProfiles for TLC: which addresses the logins have, and the files. *)
EXTENDS ClownProfiles, TLC

CONSTANTS s1, s2, s3, e1, e2

\* Two logins, of this pool or of the retired one, share an address.
MCEmailOf == (s1 :> e1) @@ (s2 :> e1) @@ (s3 :> e2)
MCCsvs == {<<e2, e1>>}
MCProfileSymmetry == Permutations(Rows)
=============================================================================
