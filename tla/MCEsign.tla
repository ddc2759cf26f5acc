------------------------------ MODULE MCEsign ------------------------------
(***************************************************************************)
(* Small instances of Esign for TLC: signing orders as functions of the    *)
(* model values and the symmetry of the invocations.                       *)
(***************************************************************************)
EXTENDS Esign, TLC

CONSTANTS s1    \* the first signer

(* s1 first, then the others in any order.                                 *)
FirstThenRest == [s \in Signers |-> IF s = s1 THEN 1 ELSE 2]

(* parallel signing                                                        *)
AllAtOnce == [s \in Signers |-> 1]

Symmetry == Permutations(Callers) \cup Permutations(Workers) \cup Permutations(Envelopes)
=============================================================================
