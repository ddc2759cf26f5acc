-------------------------- MODULE MCContractReview --------------------------
(***************************************************************************)
(* Small instances of ContractReview for TLC: which items Sonar raises on  *)
(* which document.                                                         *)
(***************************************************************************)
EXTENDS ContractReview, TLC

(* Every item on the first document, none on a later one.                  *)
RaisedOnOriginal == [d \in Docs |-> IF d = Original THEN SonarItems ELSE {}]

(* Every item on every document.                                           *)
RaisedOnAll == [d \in Docs |-> SonarItems]

Symmetry == Permutations(Callers) \cup Permutations(Intakes)
=============================================================================
