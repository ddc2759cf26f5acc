\* A rule fired by the stream or by the hourly sweep while people assign, close
\* and reopen the contract and an administrator switches the rule on and off,
\* with two faults: a failed call, an invocation that dies.
SPECIFICATION AutoSpec
CONSTANTS
    Rules = {r1}
    Bodies <- SomeBodies
    Sweeps = {w1}
    Admins = {a1}
    PeopleDo = {"assign", "close", "reopen", "switch"}
    AutoFaults = {"error", "killed"}
    MaxAutoFaults = 2
    MaxEntries = 1
    MaxStays = 2
INVARIANTS ActsOnce RunMeansDone
PROPERTIES RulesFinish
CHECK_DEADLOCK FALSE
