-------------------------- MODULE MCDocumentStore --------------------------
(***************************************************************************)
(* The document store for TLC.  Ids, values and revisions are only         *)
(* compared for equality, so each set is symmetric.                        *)
(***************************************************************************)
EXTENDS DocumentStore

StoreSymmetry == Permutations(Id) \cup Permutations(Val) \cup Permutations(Rev)

=============================================================================
