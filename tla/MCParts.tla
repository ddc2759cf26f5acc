------------------------------ MODULE MCParts ------------------------------
(***************************************************************************)
(* Parts that share no state, each by itself: signing without anybody who  *)
(* takes the contract back; what the classify stage computes (the calls of *)
(* the model and their faults, the facts of a long document's windows, its *)
(* money); its clauses and the document graded by the playbooks; the       *)
(* advice on a review; and the questions asked about documents.  A         *)
(* behaviour is of one of them, focus, and the others stand still.         *)
(***************************************************************************)
EXTENDS MCEsign, Classification, MoneyFigures, WindowFacts, MCRules, ReviewAdvice, Chat, AnswerStream

VARIABLE focus      \* what this behaviour is of

Focuses == {"signing", "classify", "facts", "money", "grades", "documents", "advice", "chat", "stream"}

(***************************************************************************)
(* Values                                                                  *)
(***************************************************************************)

SomeFiles == {[id |-> "scan", doubts |-> {"warned"}, parties |-> {}],
              [id |-> "text", doubts |-> {}, parties |-> {"written"}]}

SomeEngines == {[version |-> 1, legacy |-> FALSE], [version |-> 2, legacy |-> TRUE]}

NothingFound == [fact |-> Silent, missing |-> {}, renews |-> Silent, items |-> {}, signature |-> "unknown",
                 lifecycle |-> "draft", docType |-> "OTHER", amendment |-> [type |-> "none", delta |-> 0],
                 confidence |-> "high"]

Amendments == {[type |-> "none", delta |-> 0], [type |-> "none", delta |-> 5], [type |-> "value", delta |-> 5]}

SomeAnswers ==
    {[NothingFound EXCEPT !.fact = f, !.missing = m] : f \in {Silent, "a", "b"}, m \in {{}, {"fact"}}}
    \cup {[NothingFound EXCEPT !.renews = r, !.items = i] : r \in {Silent, TRUE, FALSE}, i \in {{}, {"x"}, {"y"}}}
    \cup {[NothingFound EXCEPT !.signature = s, !.lifecycle = l] :
             s \in {"unknown", "unsigned", "signed"}, l \in {"draft", "negotiation", "active"}}
    \cup {[NothingFound EXCEPT !.docType = d, !.amendment = a, !.confidence = c] :
             d \in {"OTHER", "SOW"}, a \in Amendments, c \in {"low", "medium", "high"}}

(* Wording tells of a change that is given, an amendment of one that is    *)
(* not.                                                                    *)
SomeFigures ==
    {f \in [base : {NoFigure, 20}, total : {NoFigure, 3, 30}, newTotal : {NoFigure, 10, 20, 30},
            delta : {NoFigure, 0, 10, -10}, source : {NoQuote, 30}, amends : BOOLEAN,
            wording : {"none", "reduction"}] :
        /\ IF f.delta = NoFigure THEN f.wording = "none" ELSE ~f.amends
        /\ f.source # NoQuote => f.total = 3}

SomeLines ==
    {[amount |-> 10, quoted |-> 10], [amount |-> 20, quoted |-> NoFigure], [amount |-> 30, quoted |-> 30],
     [amount |-> 2, quoted |-> 20], [amount |-> 3, quoted |-> 30], [amount |-> 10, quoted |-> 20]}

(* The items of a review: one only its office can let pass, and one of     *)
(* another office.                                                         *)
OfficesOf == [liability |-> "legal", insurance |-> "risk"]

SomeKinds == {[type |-> "nda", unacceptable |-> FALSE, risk |-> 1],
              [type |-> "service", unacceptable |-> TRUE, risk |-> 3]}

Rule(types, v, u, r, route) ==
    [types |-> types, minValue |-> v, anyUnacceptable |-> u, minRisk |-> r, route |-> route]

SomeRoutes == <<Rule({"service"}, 100, NoValue, NoValue, <<"legal">>),
                Rule({}, NoValue, TRUE, NoValue, <<"risk">>)>>

Record(d, n, f) == [doc |-> d, number |-> n, fact |-> f]

SomeIndexes == {{}, {Record("a", 1, 50)}, {Record("a", 1, 50), Record("b", 1, 90)},
                {Record("a", 1, 50), Record("a", 2, 90)}}
SomeBriefs  == {[facts |-> {90}, refs |-> {2}]}
SomeSaid    == {{}, {90}}

(***************************************************************************)
(* The composition                                                         *)
(***************************************************************************)

(* What is not in focus has one beginning.                                 *)
PartsInit ==
    /\ focus \in Focuses
    /\ Init
    /\ ClassifyInit
    /\ focus # "classify" => bytes.id = "text" /\ ~model.legacy
    /\ MoneyInit
    /\ focus # "money" => /\ figures.source = NoQuote /\ ~figures.amends /\ figures.wording = "none"
                          /\ {figures.base, figures.total, figures.newTotal, figures.delta} = {NoFigure}
    /\ IF focus = "grades" THEN ClausesInit ELSE book = "campus" /\ kind = OwnType /\ lists = {} /\ clause = <<>>
    /\ DocumentInit
    /\ focus # "documents" => agreement = "other" /\ held = "default"
    /\ AdviceInit
    /\ focus # "advice" => ruled /\ contract.kind.type = "nda"
    /\ ChatInit
    /\ focus # "chat" => member /\ records = {}
    /\ FactsInit /\ StreamInit

On(part, step, rest) == focus = part /\ step /\ UNCHANGED <<focus, rest>>

ruleVars  == <<clauseVars, documentVars, adviceVars>>
gradeVars == <<classifyVars, factVars, moneyVars>>
talkVars  == <<chatVars, streamVars>>

PartsNext ==
    \/ On("signing", Next, <<gradeVars, ruleVars, talkVars>>)
    \/ On("classify", ClassifyNext, <<vars, factVars, moneyVars, ruleVars, talkVars>>)
    \/ On("facts", FactsNext, <<vars, classifyVars, moneyVars, ruleVars, talkVars>>)
    \/ On("money", MoneyNext, <<vars, classifyVars, factVars, ruleVars, talkVars>>)
    \/ On("grades", ClausesNext, <<vars, gradeVars, documentVars, adviceVars, talkVars>>)
    \/ On("documents", DocumentNext, <<vars, gradeVars, clauseVars, adviceVars, talkVars>>)
    \/ On("advice", AdviceNext, <<vars, gradeVars, clauseVars, documentVars, talkVars>>)
    \/ On("chat", ChatNext, <<vars, gradeVars, ruleVars, streamVars>>)
    \/ On("stream", StreamNext, <<vars, gradeVars, ruleVars, chatVars>>)

partsVars == <<focus, vars, gradeVars, ruleVars, talkVars>>

Parts == PartsInit /\ [][PartsNext]_partsVars

(* What the classify stage stores: every clause labelled or flagged, an    *)
(* old analysis only where it still holds, the facts of every window, and  *)
(* figures that add up where it says so (classify.py).                     *)
StoredAnalysisHolds ==
    /\ focus = "classify" => AnalysisHolds
    /\ focus = "facts" => FactsHold
    /\ focus = "money" => FiguresHold

(* What the rules promise of a clause and of a document (matrix.py,        *)
(* playbook.py), each where it is written.                                 *)
RulesHold ==
    /\ focus = "grades" => GradesHold
    /\ focus = "documents" => ReviewHolds

(* The advice on a review can be followed and goes on; whoever is waited   *)
(* for can act (workflow.py).                                              *)
AdviceStands == focus = "advice" => AdviceHolds

(* Sonar answers from what the caller may read, what it cites and what it  *)
(* leaves unmarked is there, and a streamed answer is shown whole          *)
(* (rag/handler.py).                                                       *)
ConversationHolds ==
    /\ focus = "chat" => ChatHolds
    /\ focus = "stream" => StreamedHolds
=============================================================================
