------------------------------ MODULE WindowFacts ------------------------------
(***************************************************************************)
(* The facts read from the windows of a long document, made one            *)
(* (pipeline/stages/classify.py _merge_windows).  A window says of each    *)
(* kind of fact what it finds, or nothing.                                 *)
(***************************************************************************)
EXTENDS Integers, Sequences, FiniteSets

LOCAL INSTANCE SequencesExt
LOCAL INSTANCE FiniteSetsExt

CONSTANTS
    Answers,        \* what windows find: records of the fields below
    Silent,         \* nothing found
    MaxWindows      \* bound: windows

ConfidenceRank == [low |-> 0, medium |-> 1, high |-> 2]

(* An answer says yes, no or nothing of a tri-state, and the rest in the   *)
(* words of the extraction's schema.                                       *)
ASSUME AnswersAssumption ==
    /\ \A a \in Answers : /\ a.renews \in BOOLEAN \cup {Silent}
                         /\ a.signature \in {"unknown", "unsigned", "signed"}
                         /\ a.confidence \in DOMAIN ConfidenceRank
    /\ Silent \notin BOOLEAN

(* A window's answer: a scalar (title, dates, figures), the fields it says *)
(* are missing, a tri-state (autoRenews), a list, the signature, the       *)
(* lifecycle, the document type, its amendment, and its confidence.        *)
VARIABLE found      \* the answers of the windows, in order

factVars == <<found>>

FactsInit == found = <<>>

ReadWindow == Len(found) < MaxWindows /\ \E answer \in Answers : found' = Append(found, answer)

FactsNext == ReadWindow

(* The first that is none of blank, or else the given one.                 *)
FirstOf(values, blank, other) ==
    LET said == {i \in DOMAIN values : values[i] \notin blank} IN IF said = {} THEN other ELSE values[Min(said)]

Field(parts, name) == [i \in DOMAIN parts |-> parts[i][name]]

(* mutant: no answer from one window is an answer                          *)
Tri_Unsure(values) == IF Silent \in ToSet(values) THEN Silent ELSE TRUE \in ToSet(values)

(* Yes if a window says so, no if one says no and none yes.                *)
Tri(values) == IF TRUE \in ToSet(values) THEN TRUE ELSE IF FALSE \in ToSet(values) THEN FALSE ELSE Silent

(* Lists are joined; what the overlap of windows repeats is kept once.     *)
Union(lists) == UNION ToSet(lists)

Weakest(values) == CHOOSE v \in ToSet(values) : \A w \in ToSet(values) : ConfidenceRank[v] <= ConfidenceRank[w]

(* Signed beats unsigned, and either beats unknown.                        *)
Signature(values) == IF "signed" \in ToSet(values) THEN "signed" ELSE FirstOf(values, {"unknown"}, "unknown")

(* Signed or active, wherever it is read; else what the opening says.      *)
LastLifecycle(values) == FirstOf(values, {"draft", "negotiation"}, Head(values))

(* The amendment is one window's, whole: the first that is one.            *)
Amendment(values) == FirstOf(values, {v \in ToSet(values) : v.type = "none"}, Head(values))

(* A single window is left as it is.                                       *)
MergeWindows(parts) ==
    IF Len(parts) = 1 THEN parts[1]
    ELSE LET fact == FirstOf(Field(parts, "fact"), {Silent}, Silent)
         IN  [fact       |-> fact,
              missing    |-> {f \in Union(Field(parts, "missing")) : fact = Silent},
              renews     |-> Tri(Field(parts, "renews")),
              items      |-> Union(Field(parts, "items")),
              signature  |-> Signature(Field(parts, "signature")),
              lifecycle  |-> LastLifecycle(Field(parts, "lifecycle")),
              docType    |-> FirstOf(Field(parts, "docType"), {"OTHER"}, "OTHER"),
              amendment  |-> Amendment(Field(parts, "amendment")),
              confidence |-> Weakest(Field(parts, "confidence"))]

(***************************************************************************)
(* Properties                                                              *)
(***************************************************************************)

(* Where the windows are cut is nothing: windows read as one, and then     *)
(* merged with the rest, give the same facts.                              *)
CutsAreNothing ==
    \A i, j \in DOMAIN found :
        i < j => MergeWindows(SubSeq(found, 1, i - 1) \o <<MergeWindows(SubSeq(found, i, j))>>
                              \o SubSeq(found, j + 1, Len(found))) = MergeWindows(found)

(* A window added to others loses no fact they found, and no fact of its   *)
(* own but where they have one.                                            *)
NothingLost ==
    Len(found) > 1 =>
        LET before == MergeWindows(Front(found))
            after == MergeWindows(found)
        IN  /\ before.fact # Silent => after.fact = before.fact
            /\ before.renews = TRUE => after.renews = TRUE
            /\ before.signature = "signed" => after.signature = "signed"
            /\ before.items \subseteq after.items /\ Last(found).items \subseteq after.items
            /\ after.renews = Silent => before.renews = Silent /\ Last(found).renews = Silent
            /\ after.fact = Silent => before.fact = Silent /\ Last(found).fact = Silent

(* A document's facts do not depend on how it was cut into windows, and    *)
(* each of them counts (_merge_windows).                                   *)
FactsHold == found # <<>> => CutsAreNothing /\ NothingLost
=============================================================================
