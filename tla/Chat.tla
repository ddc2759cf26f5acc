-------------------------------- MODULE Chat --------------------------------
(***************************************************************************)
(* A question to Sonar (rag/handler.py): the documents it may be answered  *)
(* from, the search of their clauses (shared/opensearch.py), the answer of *)
(* the model and what is checked of it.  Meanwhile documents are deleted   *)
(* or analysed again, and access changes.                                  *)
(*                                                                         *)
(* Ranking is left out: which of the matching clauses are found, and how   *)
(* many fit the prompt, is any choice.                                     *)
(***************************************************************************)
EXTENDS Integers, FiniteSets

CONSTANTS
    ChatDocs,       \* the documents
    Uploaded,       \* those the caller uploaded
    Numbers,        \* clause numbers
    NoSuchClause,   \* a clause number no clause has
    Facts,          \* figures and dates a clause, or an answer, can state
    Said,           \* the facts a question, or the conversation, may name
    Indexed,        \* what the index may hold when the question is asked
    Briefs,         \* what the contract's review may say: the facts and the clause numbers in it
    NoBrief,        \* there is no contract, or it could not be read
    MaxMeanwhile    \* bound: how much happens meanwhile

Clauses == [doc : ChatDocs, number : Numbers, fact : Facts]

ASSUME ChatAssumption == /\ Uploaded \subseteq ChatDocs
                         /\ NoSuchClause \notin Numbers
                         /\ Indexed \subseteq SUBSET Clauses
                         /\ Briefs \subseteq [facts : SUBSET Facts, refs : SUBSET Numbers]
                         /\ NoBrief \notin Briefs
                         /\ MaxMeanwhile \in Nat

VARIABLES
    filed,      \* documents that exist
    listed,     \* docIds of the project
    member,     \* the caller has a role in the project
    records,    \* the clauses in the search index
    meanwhile,  \* deletes, analyses and changes of access so far
    asked,      \* the request: what about, by which entry, and what the caller said
    scope,      \* the documents it is restricted to
    side,       \* the titles or the brief, read beside the search
    search,     \* state and hits of the search
    context,    \* the clauses given to the model
    reply,      \* what the caller gets
    readable,   \* history: documents the caller could read when it asked
    gone        \* history: documents of the scope that were gone when their titles were read

chatVars == <<filed, listed, member, records, meanwhile, asked, scope, side, search,
              context, reply, readable, gone>>

Unasked    == [by |-> "nobody", said |-> {}]
NotRead    == [read |-> FALSE, titles |-> {}, brief |-> NoBrief]
Unsearched == [state |-> "none", hits |-> {}, said |-> {}]
NoReply    == [kind |-> "none", cites |-> {}, used |-> {}, grounded |-> FALSE,
               stated |-> {}, cited |-> {}, unverified |-> {}]

Reply(kind) == [NoReply EXCEPT !.kind = kind]
-----------------------------------------------------------------------------
(* Which documents.                                                        *)

InProject == IF member THEN listed ELSE {}

(* document_role is not None: uploaded, or in a project of the caller's.   *)
MayRead(d) == d \in filed /\ (d \in Uploaded \/ d \in InProject)

(* Mutant: the role is not asked for.                                      *)
ScopeFor_AnyDocument(by) ==
    CASE by = "project"    -> InProject
      [] by = "everything" -> (Uploaded \cap filed) \cup InProject
      [] by \in ChatDocs   -> IF by \in filed THEN {by} ELSE {}

(* _scope_for and, of a question about everything, visible_doc_ids.        *)
ScopeFor(by) ==
    CASE by = "project"    -> InProject
      [] by = "everything" -> (Uploaded \cap filed) \cup InProject
      [] by \in ChatDocs   -> IF MayRead(by) THEN {by} ELSE {}

OneDocument == asked.by \in ChatDocs

(* _http_handle, _handle: a question about nothing the caller may read     *)
(* gets the answer an empty search gets.                                   *)
Ask(by, said) ==
    /\ asked = Unasked
    /\ asked' = [by |-> by, said |-> said]
    /\ scope' = ScopeFor(by)
    /\ readable' = {d \in ChatDocs : MayRead(d)} \cup InProject
    /\ reply' = IF scope' = {} THEN Reply("nothing") ELSE NoReply
    /\ UNCHANGED <<filed, listed, member, records, meanwhile, side, search, context, gone>>

Answering == asked # Unasked /\ reply = NoReply
-----------------------------------------------------------------------------
(* The search.                                                             *)

(* _scope_filters: the query itself is restricted to the scope.            *)
InScope == {r \in records : r.doc \in scope}

(* _rerank: of clauses of a document with the same text one stays.         *)
Distinct(hits) == \A r, s \in hits : r.doc = s.doc /\ r.fact = s.fact => r = s

(* Mutant: a channel that failed is taken for one that found nothing.      *)
StateOf_FailedIsEmpty(outcomes) == IF outcomes \subseteq {"missing"} THEN "missing" ELSE "ok"

(* clause_search: one channel that answers is enough; without any, the     *)
(* indices do not exist when every channel says so.                        *)
StateOf(outcomes) == CASE "ok" \in outcomes           -> "ok"
                       [] outcomes = {"missing"}      -> "missing"
                       [] "ok" \notin outcomes /\ outcomes # {"missing"} -> "down"

(* _embed_question and _retrieve: by vector when the question could be     *)
(* embedded, and by keyword, each channel answering, failing, late, or     *)
(* without an index.                                                       *)
Outcomes == {"ok", "missing", "failed"}

SearchClauses ==
    /\ Answering /\ search = Unsearched
    /\ \E embedded \in BOOLEAN, knn, bm25 \in Outcomes, hits \in SUBSET InScope :
          LET outcomes == {bm25} \cup (IF embedded THEN {knn} ELSE {})
          IN  /\ ~embedded => knn = "failed"
              /\ Distinct(hits)
              /\ "ok" \notin outcomes => hits = {}
              /\ search' = [state |-> StateOf(outcomes), hits |-> hits, said |-> outcomes]
              /\ IF asked.by = "everything" /\ search'.state = "down"
                 THEN reply' = Reply("search_down")
                 ELSE UNCHANGED reply
    /\ UNCHANGED <<filed, listed, member, records, meanwhile, asked, scope, side, context,
                   readable, gone>>

(* Beside it: the review of the one document's contract, or the titles of  *)
(* several.  A read that fails leaves neither.  A question about           *)
(* everything reads the titles after the search.                           *)
ReadBeside ==
    /\ Answering /\ ~side.read
    /\ asked.by = "everything" => search # Unsearched
    /\ IF OneDocument
       THEN /\ \E b \in Briefs \cup {NoBrief} : side' = [NotRead EXCEPT !.read = TRUE, !.brief = b]
            /\ UNCHANGED gone
       ELSE \/ /\ side' = [NotRead EXCEPT !.read = TRUE, !.titles = scope \cap filed]
               /\ gone' = scope \ filed
            \/ /\ side' = [NotRead EXCEPT !.read = TRUE]
               /\ UNCHANGED gone
    /\ UNCHANGED <<filed, listed, member, records, meanwhile, asked, scope, search, context,
                   reply, readable>>
-----------------------------------------------------------------------------
(* The answer.                                                             *)

(* _in_scope: no hit of a document outside the scope, nor of one that is   *)
(* gone.  Without a title nothing is known of what is gone.                *)
Kept(hits) == {r \in hits : r.doc \in (IF side.titles = {} THEN scope ELSE scope \cap side.titles)}

(* _assemble_full, _fit_context: the chunks of a clause make one block;    *)
(* the best blocks that fit go in, one at least.                           *)
ClauseBlocks(hits) == {[doc |-> r.doc, number |-> r.number,
                  facts |-> {s.fact : s \in {t \in hits : t.doc = r.doc /\ t.number = r.number}}] :
                     r \in hits}

Assemble ==
    LET hits == Kept(search.hits)
    IN  /\ Answering /\ side.read /\ search # Unsearched /\ context = {}
        /\ \/ /\ search.state = "down" /\ side.brief = NoBrief
              /\ reply' = Reply("search_down")
              /\ UNCHANGED context
           \/ /\ search.state # "down" /\ hits = {} /\ side.brief = NoBrief
              /\ reply' = Reply(IF search.state = "missing" THEN "unindexed" ELSE "nothing")
              /\ UNCHANGED context
           \/ /\ hits # {}
              /\ context' \in (SUBSET ClauseBlocks(hits)) \ {{}}
              /\ reply' = IF asked.by = "everything"
                          THEN [Reply("streamed") EXCEPT !.cites = context'] ELSE reply
    /\ UNCHANGED <<filed, listed, member, records, meanwhile, asked, scope, side, search,
                   readable, gone>>

Prompted == /\ Answering /\ side.read /\ search # Unsearched /\ asked.by # "everything"
            /\ context # {} \/ (Kept(search.hits) = {} /\ side.brief # NoBrief)

InReview == IF side.brief = NoBrief THEN [facts |-> {}, refs |-> {}] ELSE side.brief

NumbersOf(blocks) == {b.number : b \in blocks}

(* _clean_citations: only clauses of the context and those the review      *)
(* names.                                                                  *)
Cleaned(cited) == cited \cap (NumbersOf(context) \cup InReview.refs)

(* Mutant: all of the context is a source.                                 *)
Sources_Context(used) == (UNION {b.facts : b \in context}) \cup InReview.facts \cup asked.said

(* _check_answer: the clauses cited, or without any the whole context, the *)
(* review, and what the caller said.                                       *)
Sources(used) ==
    (UNION {b.facts : b \in {c \in context : used = {} \/ c.number \in used}})
        \cup InReview.facts \cup asked.said

Checked(cited, facts) ==
    LET used == Cleaned(cited) \cap NumbersOf(context)
    IN  [kind |-> "answer", cites |-> context, used |-> used, grounded |-> used # {},
         stated |-> facts, cited |-> Cleaned(cited), unverified |-> facts \ Sources(used)]

(* The model does not answer in time, answers nothing, or answers.         *)
Answer ==
    /\ Prompted
    /\ \/ reply' = Reply("model_down")
       \/ reply' = [Reply("empty") EXCEPT !.cites = context]
       \/ \E cited \in SUBSET (Numbers \cup {NoSuchClause}), facts \in SUBSET Facts :
             reply' = Checked(cited, facts)
    /\ UNCHANGED <<filed, listed, member, records, meanwhile, asked, scope, side, search,
                   context, readable, gone>>
-----------------------------------------------------------------------------
(* Meanwhile.                                                              *)

Happens == meanwhile < MaxMeanwhile /\ reply = NoReply /\ meanwhile' = meanwhile + 1

Others == UNCHANGED <<asked, scope, side, search, context, reply, readable, gone>>

(* A document is deleted; its records go from the index after it.          *)
Vanish(d) == /\ Happens /\ d \in filed /\ filed' = filed \ {d}
             /\ Others /\ UNCHANGED <<listed, member, records>>
Unindex(d) == /\ Happens /\ d \notin filed /\ \E r \in records : r.doc = d
              /\ records' = {r \in records : r.doc # d}
              /\ Others /\ UNCHANGED <<filed, listed, member>>

(* It is analysed again and a clause gets another number: the new records  *)
(* are written beside the old ones, then those are removed.                *)
Index(d, n) ==
    /\ Happens /\ d \in filed
    /\ \E r \in records : r.doc = d /\ r.number # n
    /\ records' = records \cup {[r EXCEPT !.number = n] : r \in {s \in records : s.doc = d}}
    /\ Others /\ UNCHANGED <<filed, listed, member>>
DropStale(d, n) ==
    /\ Happens /\ d \in filed
    /\ {s.number : s \in {r \in records : r.doc = d}} \ {n} # {}
    /\ \E r \in records : r.doc = d /\ r.number = n
    /\ records' = {r \in records : r.doc = d => r.number = n}
    /\ Others /\ UNCHANGED <<filed, listed, member>>

Leave == /\ Happens /\ member /\ member' = FALSE
         /\ Others /\ UNCHANGED <<filed, listed, records>>
Unlist(d) == /\ Happens /\ d \in listed /\ listed' = listed \ {d}
             /\ Others /\ UNCHANGED <<filed, member, records>>
-----------------------------------------------------------------------------
ChatInit ==
    /\ filed = ChatDocs /\ listed = ChatDocs /\ member \in BOOLEAN
    /\ records \in Indexed /\ meanwhile = 0
    /\ asked = Unasked /\ scope = {} /\ side = NotRead /\ search = Unsearched
    /\ context = {} /\ reply = NoReply /\ readable = {} /\ gone = {}

ChatNext ==
    \/ \E by \in ChatDocs \cup {"project", "everything"}, said \in Said : Ask(by, said)
    \/ SearchClauses \/ ReadBeside \/ Assemble \/ Answer
    \/ \E d \in ChatDocs : Vanish(d) \/ Unindex(d) \/ Unlist(d)
    \/ \E d \in ChatDocs, n \in Numbers : Index(d, n) \/ DropStale(d, n)
    \/ Leave
-----------------------------------------------------------------------------
(* Nothing is told of a document the caller could not read when it asked:  *)
(* no clause of it reaches the model or the citations.                     *)
OnlyReadable == \A b \in context \cup reply.cites : b.doc \in readable

(* Where several documents are asked about, none is quoted that was gone   *)
(* when their titles were read, unless all of them were.                   *)
OnlyThere == side.titles # {} => \A b \in context : b.doc \notin gone

(* What the text cites is in the context or named by the review, and an    *)
(* answer is called grounded for a clause of the context it cites.         *)
CitationsStand ==
    reply.kind = "answer" =>
        /\ reply.cited \subseteq NumbersOf(context) \cup InReview.refs
        /\ reply.grounded <=> \E b \in context : b.number \in reply.cited

(* A figure that is not listed for the reader to verify is in a clause     *)
(* that was found, in the review or in the question; and one the answer    *)
(* cites clauses for is not vouched for by another clause.                 *)
FiguresStand ==
    reply.kind = "answer" =>
        \A f \in reply.stated \ reply.unverified :
            \/ f \in InReview.facts \cup asked.said
            \/ \E b \in context : f \in b.facts /\ (reply.grounded => b.number \in reply.used)

(* That nothing matched is only said after a channel has answered, that    *)
(* nothing is indexed after all said so, and that the search is down when  *)
(* none answered: the three are never confused.                            *)
SearchNotConfused ==
    /\ reply.kind = "nothing" /\ search # Unsearched => "ok" \in search.said
    /\ reply.kind = "unindexed" => search.said = {"missing"}
    /\ reply.kind = "search_down" => "ok" \notin search.said

ChatHolds == OnlyReadable /\ OnlyThere /\ CitationsStand /\ FiguresStand /\ SearchNotConfused
=============================================================================
