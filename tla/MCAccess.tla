------------------------------ MODULE MCAccess ------------------------------
(* Projects and document access alone: nobody stops.                       *)
EXTENDS ProjectAccess

(* Two projects that list nothing yet, with a guest who edits one of them  *)
(* and views the other, and the founder's document.                        *)
NothingFiledYet == \A p \in Projects : meta[p].docs = {}
Small == (AccessInit /\ NothingFiledYet) /\ [][AccessNext]_accessVars
=============================================================================
