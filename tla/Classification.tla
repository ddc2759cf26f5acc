---------------------------- MODULE Classification ----------------------------
(***************************************************************************)
(* The analysis of one document (pipeline/stages/classify.py), again and *)
(* again: its file is replaced and the engine upgraded between the runs of *)
(* the pipeline, any of which may stop.  A model reads the document window *)
(* by window and labels its clauses batch by batch; what it leaves out is  *)
(* asked again, and in the end flagged.                                    *)
(***************************************************************************)
EXTENDS Integers, FiniteSets

CONSTANTS
    Files,          \* what the file may hold: [id, doubts, parties], the doubts the
                    \* parser, the coverage and the dates raise, the parties in its text
    Engines,        \* [version, legacy]: a fingerprint, and whether one call does it all
    LastClause,     \* a document's clauses are 1 .. LastClause
    LastWindow,     \* and its windows 1 .. LastWindow
    CLASSIFY_BATCH_CLAUSES,
    Party,          \* a party the model may name
    NoFile,
    MaxClassified   \* bound: runs of the stage

VARIABLES
    bytes,          \* the file now
    model,          \* the engine now
    persisted,      \* the checksum META has, from the last run that reached its end
    extraction,     \* classification.json
    phase,          \* where the run is
    work,           \* what the run has so far
    classified      \* runs of the stage so far

classifyVars == <<bytes, model, persisted, extraction, phase, work, classified>>

Sections == 1 .. LastClause
Windows == 1 .. LastWindow

Unread == [file |-> NoFile, engine |-> NoFile, reused |-> FALSE,
           pending |-> Sections, labelled |-> {}, unclassified |-> {}, round |-> 1,
           failedWindows |-> {}, parties |-> {}, partiesSource |-> "none",
           validated |-> FALSE, reconciled |-> "unknown",
           complete |-> FALSE, needsReview |-> FALSE,
           named |-> {},        \* history: the parties the model itself named
           made |-> <<>>]       \* history: the file it was made of, and the engine that did

ClassifyInit ==
    /\ bytes \in Files /\ model \in Engines
    /\ persisted = NoFile /\ extraction = Unread
    /\ phase = "idle" /\ work = Unread /\ classified = 0

At(here, there) == phase = here /\ phase' = there
Standing == UNCHANGED <<bytes, model, persisted, classified>>

(* mutant: whichever engine made it                                        *)
Reusable_AnyEngine(file, engine) ==
    /\ persisted = file.id
    /\ extraction.file = file /\ extraction.complete

(* The previous analysis of the same file by the same engine, if complete. *)
Reusable(file, engine) ==
    /\ persisted = file.id
    /\ extraction.file = file /\ extraction.engine = engine /\ extraction.complete

Classify ==
    /\ classified < MaxClassified
    /\ classified' = classified + 1
    /\ phase = "idle"
    /\ IF Reusable(bytes, model)
       THEN /\ phase' = "store"
            /\ work' = [extraction EXCEPT !.reused = TRUE, !.file = bytes, !.engine = model]
       ELSE /\ phase' = IF model.legacy THEN "whole" ELSE "label"
            /\ work' = [Unread EXCEPT !.file = bytes, !.engine = model, !.made = <<bytes, model>>]
    /\ UNCHANGED <<bytes, model, persisted, extraction>>

(* The parties the model names, if any.                                    *)
Named == {{}, {Party}}

(* One call for the facts and the clauses.  Clauses that do not account    *)
(* for the document give way to those cut by rule, which are labelled.     *)
ExtractWhole ==
    /\ phase = "whole"
    /\ \E named \in Named, covers \in BOOLEAN :
          /\ phase' = IF covers THEN "validate" ELSE "label"
          /\ work' = [work EXCEPT !.named = named,
                                  !.pending = IF covers THEN {} ELSE @,
                                  !.labelled = IF covers THEN Sections ELSE @]
    /\ Standing /\ UNCHANGED extraction

(***************************************************************************)
(* Labelling (_label_clauses)                                              *)
(***************************************************************************)

AtLeastOne(n) == IF n < 1 THEN 1 ELSE n

BatchSize(round) ==
    CASE round = 1 -> CLASSIFY_BATCH_CLAUSES
      [] round = 2 -> AtLeastOne(CLASSIFY_BATCH_CLAUSES \div 4)
      [] round = 3 -> 1

(* The clauses still pending, in order, so many to a batch.                *)
BatchOf(clause) == (Cardinality({c \in work.pending : c < clause}) \div BatchSize(work.round)) + 1
Batches == {BatchOf(c) : c \in work.pending}

(* mutant: a clause the reply mentions counts as labelled                  *)
Unlabelled_Mentioned(mentioned, usable) == work.pending \ mentioned

(* A clause whose label is none of the categories stays pending.           *)
Unlabelled(mentioned, usable) == work.pending \ usable

(* Each batch fails, is cut off, runs out of time, or is answered for some *)
(* of its clauses.  A first round that yields nothing fails the run.       *)
LabelRound ==
    /\ phase = "label"
    /\ \E outcome \in [Batches -> {"answered", "failed", "truncated", "deadline"}],
          mentioned \in SUBSET work.pending :
       \E usable \in SUBSET mentioned :
          LET errors == {outcome[b] : b \in Batches} \ {"answered"}
              left == Unlabelled(mentioned, usable)
              over == left = {} \/ work.round = 3 \/ "deadline" \in errors
          IN  /\ \A c \in mentioned : outcome[BatchOf(c)] = "answered"
              /\ ~(work.round = 1 /\ mentioned = {} /\ errors \ {"truncated"} # {})
              /\ phase' = IF ~over THEN "label" ELSE IF work.engine.legacy THEN "validate" ELSE "extract"
              /\ work' = [work EXCEPT !.labelled = @ \cup usable, !.pending = IF over THEN {} ELSE left,
                                      !.unclassified = IF over THEN left ELSE @,
                                      !.round = IF over THEN @ ELSE @ + 1]
    /\ Standing /\ UNCHANGED extraction

(* The windows are extracted at the same time.  Without the first, which   *)
(* opens the document, the run fails.                                      *)
ExtractWindows ==
    /\ At("extract", "validate")
    /\ \E failed \in SUBSET (Windows \ {1}), named \in Named :
          work' = [work EXCEPT !.failedWindows = failed, !.named = named]
    /\ Standing /\ UNCHANGED extraction

(* The second reading of the money, which may be unavailable.              *)
Validate ==
    /\ At("validate", "store")
    /\ \/ work' = work
       \/ \E sum \in {"yes", "no"} :
             work' = [work EXCEPT !.validated = TRUE, !.reconciled = sum]
    /\ Standing /\ UNCHANGED extraction

(***************************************************************************)
(* What every run does with the analysis it has, new or reused.          *)
(***************************************************************************)

(* mutant: parties found by rule are taken for the model's on reuse        *)
ModelParties_All(w) == IF w.reused THEN w.parties ELSE w.named

(* _check_parties: a reused analysis has the parties it was stored with; *)
(* those filled in by rule were not the model's.                           *)
ModelParties(w) ==
    IF ~w.reused THEN w.named ELSE IF w.partiesSource = "rule" THEN {} ELSE w.parties

Parties(w) == IF ModelParties(w) # {} THEN ModelParties(w) ELSE w.file.parties

Source(w) ==
    IF ModelParties(w) # {} THEN "model" ELSE IF w.file.parties # {} THEN "rule" ELSE "none"

AllLabelled(w) == w.unclassified = {} /\ w.failedWindows = {} /\ w.validated

(* _review_reasons.                                                        *)
NeedsReview(w) ==
    \/ w.unclassified # {} \/ w.failedWindows # {} \/ w.file.doubts # {}
    \/ ~w.validated \/ w.reconciled = "no"

StoreAnalysis ==
    /\ At("store", "stored")
    /\ extraction' = [work EXCEPT !.parties = Parties(work), !.partiesSource = Source(work),
                                !.complete = AllLabelled(work), !.needsReview = NeedsReview(work)]
    /\ work' = Unread
    /\ Standing

(* The rest of the pipeline writes META.                                   *)
WriteMeta ==
    /\ At("stored", "idle")
    /\ persisted' = extraction.file.id
    /\ UNCHANGED <<bytes, model, extraction, work, classified>>

(* A run stops, or an error ends it, at any point.                         *)
GiveUp ==
    /\ phase # "idle" /\ phase' = "idle"
    /\ work' = Unread
    /\ Standing /\ UNCHANGED extraction

(* Between the runs.                                                       *)
ReplaceFile ==
    /\ phase = "idle" /\ bytes' \in Files \ {bytes}
    /\ UNCHANGED <<model, persisted, extraction, phase, work, classified>>

UpgradeEngine ==
    /\ phase = "idle" /\ model' \in Engines \ {model}
    /\ UNCHANGED <<bytes, persisted, extraction, phase, work, classified>>

ClassifyNext ==
    \/ Classify \/ ExtractWhole \/ LabelRound \/ ExtractWindows \/ Validate
    \/ StoreAnalysis \/ WriteMeta \/ GiveUp \/ ReplaceFile \/ UpgradeEngine

(***************************************************************************)
(* Properties                                                              *)
(***************************************************************************)

(* Every clause is labelled or flagged, never dropped and never left       *)
(* pending (comment of _label_clauses).                                    *)
NoClauseDropped ==
    extraction # Unread => /\ extraction.labelled \cup extraction.unclassified = Sections
                         /\ extraction.labelled \cap extraction.unclassified = {}

(* An analysis is used again for the same file and by the same engine only,*)
(* and never one that lacks something.                                     *)
ReusedIsCurrent ==
    extraction # Unread =>
        /\ extraction.made = <<extraction.file, extraction.engine>>
        /\ extraction.reused => extraction.labelled = Sections /\ extraction.failedWindows = {} /\ extraction.validated

(* What is said of the parties does not change when an analysis is used  *)
(* again: the model's, or the ones found by rule when it named none.       *)
PartiesKeepTheirSource ==
    extraction # Unread =>
        /\ extraction.partiesSource = "rule" <=> extraction.named = {} /\ extraction.file.parties # {}
        /\ extraction.named # {} => extraction.parties = extraction.named

(* A document that needs no review has been read completely and adds up.   *)
UnflaggedIsWhole ==
    extraction # Unread /\ ~extraction.needsReview =>
        extraction.complete /\ extraction.labelled = Sections /\ extraction.reconciled # "no"

(* An analysis drops no clause, is used again only where it may be, and  *)
(* shows what it lacks (classify.run).                                     *)
AnalysisHolds == NoClauseDropped /\ ReusedIsCurrent /\ PartiesKeepTheirSource /\ UnflaggedIsWhole
=============================================================================
