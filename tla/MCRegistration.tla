-------------------------- MODULE MCRegistration --------------------------
(***************************************************************************)
(* Instances of Registration: two spellings of one e-mail and a second     *)
(* e-mail.                                                                 *)
(***************************************************************************)
EXTENDS Registration, TLC

CONSTANTS ann, Ann, bob, ann_canonical, bob_canonical

MCEmailOf == (ann :> ann_canonical) @@ (Ann :> ann_canonical) @@ (bob :> bob_canonical)

(* UUIDs, callers and passwords are interchangeable. *)
Interchangeable == Permutations(Ids) \cup Permutations(Callers) \cup Permutations(Passwords)

=============================================================================
