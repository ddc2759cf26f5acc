\* Parts that share no state, each by itself: signing without anybody who takes
\* the contract back, the classify stage, the rules, the advice, the chat.
SPECIFICATION Parts
CONSTANTS
    \* signing: two requests at a time, none of which takes the contract out of it
    s1 = s1
    Envelopes = {e1, e2}
    Signers = {s1}
    Rank <- FirstThenRest
    Drawings = {d1}
    Callers = {c1, c2}
    Workers = {w1}
    Ops = {"approve", "send_back", "send_for_signature"}
    Faults = {}
    MaxFaults = 0
    MaxReceive = 3
    MaxSealAttempts = 3
    Manual = Manual
    None = None
    \* the classify stage
    Files <- SomeFiles
    Engines <- SomeEngines
    LastClause = 2
    LastWindow = 2
    CLASSIFY_BATCH_CLAUSES = 2
    Party = "named"
    NoFile = NoFile
    MaxClassified = 2
    Answers <- SomeAnswers
    Silent = Silent
    MaxWindows = 3
    Figures <- SomeFigures
    LineItems <- SomeLines
    NoFigure = NoFigure
    NoQuote = NoQuote
    SCALE = 10
    MaxItems = 3
    \* clauses and their grades
    Vocabulary <- ClauseWords
    Limits <- ClauseLimits
    MaxSentences = 3
    \* documents under review
    ClauseTypes = {"Indemnity", "Insurance", "DataRights", "Confidentiality", "Fees", "ExportControl", "Other"}
    Titles = {"Royalties"}
    Passages <- DocumentBodies
    NoClause = 0
    MaxClauses <- DocumentLength
    \* the advice on a review
    AdviceItems = {"liability", "insurance"}
    HardItems = {"liability"}
    AdviceOffices = {"legal", "risk"}
    OfficeOf <- OfficesOf
    NoOffice = NoOffice
    RoutingRules <- SomeRoutes
    Kinds <- SomeKinds
    Values = {100}
    NoValue = NoValue
    ApprovesFor = {"legal"}
    \* questions to Sonar
    ChatDocs = {"a", "b"}
    Uploaded = {"a"}
    Numbers = {1, 2}
    NoSuchClause = 99
    Facts = {50, 90}
    Said <- SomeSaid
    Indexed <- SomeIndexes
    Briefs <- SomeBriefs
    NoBrief = NoBrief
    MaxMeanwhile = 2
    MaxStream = 5
SYMMETRY Symmetry
INVARIANTS OpenMeansOut StoredAnalysisHolds RulesHold AdviceStands ConversationHolds
CHECK_DEADLOCK FALSE
