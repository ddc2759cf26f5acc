---------------------------- MODULE Automations ----------------------------
(***************************************************************************)
(* Automation rules (shared/govern/automations.py) at work on a contract:  *)
(* an event rule is fired by the stream for an entry of the activity log,  *)
(* a time rule by the hourly sweep for a stay of the contract in a stage.  *)
(* A firing runs the actions of its rule in order; markers keep an action  *)
(* from being run twice and tell which firings are complete.               *)
(*                                                                         *)
(* The stream hands over an entry until it is handled; sweeps come every   *)
(* hour, may overlap, and are not told of the failures of earlier ones.    *)
(* Every step is one call to the store.  An episode of an event rule is    *)
(* the entry, that of a time rule the stay in the stage.                   *)
(***************************************************************************)
EXTENDS Naturals, Sequences, FiniteSets

CONSTANTS
    Rules,
    Bodies,         \* what a rule may say: some of RuleBodies
    Sweeps,         \* sweeps that may be under way at a time
    Admins,         \* requests that edit a rule
    PeopleDo,       \* what people do: some of PeopleOps
    AutoFaults,     \* which of AutoFaultKinds may happen
    MaxAutoFaults,  \* bound: how many of them do
    MaxEntries,     \* bound: entries that fire event rules
    MaxStays        \* bound: stays in the stage

ActionTypes    == {"notify", "escalate", "assign", "comment"}
PeopleOps      == {"assign", "close", "reopen", "edit", "switch"}
AutoFaultKinds == {"error",         \* a call fails and has no effect
                   "lost_reply",    \* ... and had its effect
                   "unwritten",     \* an entry of the log is not stored, which is not noticed
                   "undo",          \* the release of a marker fails
                   "uncounted",     \* the count of a run fails
                   "killed",        \* an invocation dies where it holds no marker
                   "killed_acting"} \* ... between a marker and what it stands for

RuleBodies == [trigger : {"event",          \* an entry of a kind
                          "time"},          \* in_stage_for review
               onlyIf  : {"always", "no_owner"},
               actions : Seq(ActionTypes)]

ASSUME BodiesAssumption == \A b \in Bodies : b \in RuleBodies /\ Len(b.actions) <= 5
ASSUME PeopleAssumption == PeopleDo \subseteq PeopleOps /\ AutoFaults \subseteq AutoFaultKinds
ASSUME SweepsAssumption == "stream" \notin Sweeps
ASSUME AutoBounds       == MaxAutoFaults \in Nat /\ MaxEntries \in Nat /\ MaxStays \in Nat \ {0}

VARIABLES
    deal,       \* the contract
    body,       \* body[r]: what rule r says
    rules,      \* rules[r]: the rest of the stored rule
    posted,     \* entries in the log that event rules match
    handled,    \* entries the stream is done with
    marks,      \* markers
    proc,       \* proc[p]: what the stream, or a sweep, is doing
    edit,       \* edit[a]: the rule as the admin's request has read it
    ran,        \* ran[f]: how often the action of f was carried out
    skipped,    \* actions that the state of the contract did not allow
    autoFaults  \* faults so far

autoVars == <<deal, body, rules, posted, handled, marks, proc, edit, ran, skipped, autoFaults>>

AutoProcs == Sweeps \cup {"stream"}
Keys  == 1..(IF MaxEntries > MaxStays THEN MaxEntries ELSE MaxStays)

(* Markers: of one action of a firing, and of the firing as a whole (#run). *)
MaxActions  == 5        \* MAX_ACTIONS
ActionMarks == Rules \X Keys \X (1..MaxActions)
RunMarks    == {<<r, k, 0>> : r \in Rules, k \in Keys}

Deals == [state : {"in_review", "escalated", "closed"},
          owned : BOOLEAN,
          stay  : 1..MaxStays]      \* the stay in its stage (stageEnteredAt)

StoredRules == [on : BOOLEAN, rev : Nat, runs : Nat]
Works == [pc   : {"idle", "check", "claim", "act", "undo", "run", "count"},
          todo : SUBSET Rules,      \* rules still to fire
          key  : Keys,
          rule : Rules, n : Nat,    \* the firing under way and its next action
          copy : Deals]             \* the contract as it was read

Fresh  == [state |-> "in_review", owned |-> FALSE, stay |-> 1]
NoWork == [pc |-> "idle", todo |-> {}, key |-> 1, rule |-> CHOOSE r \in Rules : TRUE, n |-> 0, copy |-> Fresh]

AutoInit ==
    /\ deal = Fresh
    /\ body \in [Rules -> Bodies]
    /\ rules = [r \in Rules |-> [on |-> TRUE, rev |-> 1, runs |-> 0]]
    /\ posted = 0
    /\ handled = 0
    /\ marks = {}
    /\ proc = [p \in AutoProcs |-> NoWork]
    /\ edit = [a \in Admins |-> <<>>]
    /\ ran = [m \in ActionMarks |-> 0]
    /\ skipped = {}
    /\ autoFaults = 0

AutoFault(f) ==
    /\ f \in AutoFaults
    /\ autoFaults < MaxAutoFaults
    /\ autoFaults' = autoFaults + 1
-----------------------------------------------------------------------------
(* People.                                                                 *)

Person(op, new) ==
    /\ op \in PeopleDo
    /\ deal' = new
    /\ UNCHANGED <<body, rules, posted, handled, marks, proc, edit, ran, skipped, autoFaults>>

AssignByHand == ~deal.owned /\ deal.state # "closed" /\ Person("assign", [deal EXCEPT !.owned = TRUE])
CloseByHand  == deal.state # "closed" /\ Person("close", [deal EXCEPT !.state = "closed"])

(* Back to review: a new stay.                                             *)
ReopenByHand ==
    /\ deal.state # "in_review"
    /\ deal.stay < MaxStays
    /\ Person("reopen", [deal EXCEPT !.state = "in_review", !.stay = @ + 1])

(* An entry that the triggers of the event rules match.                    *)
PostEvent ==
    /\ posted < MaxEntries
    /\ posted' = posted + 1
    /\ UNCHANGED <<deal, body, rules, handled, marks, proc, edit, ran, skipped, autoFaults>>

(* update_rule: the item is read, and put back whole if its rev is the one *)
(* that was read; otherwise it is read again.                              *)
EditRead(a, r) ==
    /\ PeopleDo \cap {"edit", "switch"} # {}
    /\ edit[a] = <<>>
    /\ rules[r].rev = 1
    /\ edit' = [edit EXCEPT ![a] = <<r, rules[r]>>]
    /\ UNCHANGED <<deal, body, rules, posted, handled, marks, proc, ran, skipped, autoFaults>>

EditPut(a) ==
    /\ edit[a] # <<>>
    /\ LET r == edit[a][1]  read == edit[a][2] IN
           /\ IF rules[r].rev = read.rev
              THEN \E on \in (IF "switch" \in PeopleDo THEN BOOLEAN ELSE {read.on}) :
                      rules' = [rules EXCEPT ![r] = [read EXCEPT !.rev = @ + 1, !.on = on]]
              ELSE UNCHANGED rules
           /\ edit' = [edit EXCEPT ![a] = IF rules[r].rev = read.rev THEN <<>> ELSE <<r, rules[r]>>]
    /\ UNCHANGED <<deal, body, posted, handled, marks, proc, ran, skipped, autoFaults>>
-----------------------------------------------------------------------------
(* Which rules fire.                                                       *)

(* time_firings, for in_stage_for: how long a stay has lasted shows in     *)
(* when the sweep comes.                                                   *)
Qualifies(c) == c.state = "in_review"

ConditionsHold(r, c) == body[r].onlyIf = "no_owner" => ~c.owned

(* run_time_rules: the contracts and the rules are read, then the markers  *)
(* of complete firings.                                                    *)
BeginSweep(p) ==
    /\ p \in Sweeps
    /\ proc[p].pc = "idle"
    /\ LET due == {r \in Rules : rules[r].on /\ body[r].trigger = "time" /\ Qualifies(deal)} IN
           /\ due # {}
           /\ proc' = [proc EXCEPT ![p] = [NoWork EXCEPT !.pc = "check", !.todo = due,
                                                         !.key = deal.stay, !.copy = deal]]
    /\ UNCHANGED <<deal, body, rules, posted, handled, marks, edit, ran, skipped, autoFaults>>

(* on_entry: the rules the entry matches, then the contract.               *)
BeginEntry ==
    /\ proc["stream"].pc = "idle"
    /\ handled < posted
    /\ LET due == {r \in Rules : rules[r].on /\ body[r].trigger = "event"} IN
       proc' = [proc EXCEPT !["stream"] = [NoWork EXCEPT !.pc = "check", !.todo = due,
                                                                !.key = handled + 1, !.copy = deal]]
    /\ UNCHANGED <<deal, body, rules, posted, handled, marks, edit, ran, skipped, autoFaults>>

(* Complete firings, as the sweep knows them.                              *)
Complete_Begun(r, k) == \E n \in 0..MaxActions : <<r, k, n>> \in marks    \* mutant: any marker
Complete(r, k)       == <<r, k, 0>> \in marks

(* The next rule: a sweep passes over a firing that is marked complete,    *)
(* both over one whose conditions do not hold.                             *)
NextRule(p) ==
    /\ proc[p].pc = "check"
    /\ proc[p].todo # {}
    /\ \E r \in proc[p].todo :
          LET rest == [proc[p] EXCEPT !.todo = @ \ {r}, !.rule = r, !.n = 1]
              passed == \/ ~ConditionsHold(r, proc[p].copy)
                        \/ p \in Sweeps /\ Complete(r, proc[p].key)
          IN  proc' = [proc EXCEPT ![p] = IF passed THEN rest ELSE [rest EXCEPT !.pc = "claim"]]
    /\ UNCHANGED <<deal, body, rules, posted, handled, marks, edit, ran, skipped, autoFaults>>

(* Every rule has had its turn.                                            *)
Finish(p) ==
    /\ proc[p].pc = "check"
    /\ proc[p].todo = {}
    /\ proc' = [proc EXCEPT ![p] = NoWork]
    /\ handled' = IF p = "stream" THEN handled + 1 ELSE handled
    /\ UNCHANGED <<deal, body, rules, posted, marks, edit, ran, skipped, autoFaults>>
-----------------------------------------------------------------------------
(* A firing (_fire).                                                       *)

Mark(p) == <<proc[p].rule, proc[p].key, proc[p].n>>

(* An error: the stream gives the entry back and gets it again; a sweep    *)
(* counts the failure and goes on with the next rule.                      *)
AfterFailure_Caught(p) == [proc[p] EXCEPT !.pc = "check"]   \* mutant: on_entry catches it too
AfterFailure(p)        == IF p = "stream" THEN NoWork ELSE [proc[p] EXCEPT !.pc = "check"]

Fail(p) == proc' = [proc EXCEPT ![p] = AfterFailure(p)]

(* An action is claimed by a conditional put, and its claim is released if *)
(* an error keeps it from running.                                         *)
MayAct_Again(m) == TRUE                 \* mutant: the put without its condition
MayAct(m)       == m \notin marks

MarksAfterError_Kept(m) == marks        \* mutant: the claim stays
MarksAfterError(m)      == marks \ {m}

ClaimAction(p) ==
    /\ proc[p].pc = "claim"
    /\ IF proc[p].n > Len(body[proc[p].rule].actions)
       THEN /\ proc' = [proc EXCEPT ![p].pc = "run"]
            /\ UNCHANGED <<marks, autoFaults>>
       ELSE \/ /\ ~MayAct(Mark(p))
               /\ proc' = [proc EXCEPT ![p].n = @ + 1]
               /\ UNCHANGED <<marks, autoFaults>>
            \/ /\ MayAct(Mark(p))
               /\ marks' = marks \cup {Mark(p)}
               /\ proc' = [proc EXCEPT ![p].pc = "act"]
               /\ UNCHANGED autoFaults
            \/ Fail(p) /\ AutoFault("error") /\ UNCHANGED marks
    /\ UNCHANGED <<deal, body, rules, posted, handled, edit, ran, skipped>>

(* run_action skips by the contract as it was read; perform_action refuses *)
(* by the contract as it is (a GovernError, and not retried).              *)
Skips(kind, c) ==
    \/ kind = "escalate" /\ c.state # "in_review"
    \/ kind = "assign" /\ (c.owned \/ c.state = "closed")
    \/ kind = "notify" /\ ~c.owned                  \* to the owner: no one to notify

Refused(kind) ==
    \/ kind = "escalate" /\ deal.state = "closed"
    \/ kind = "assign" /\ deal.state = "closed"

Effect(kind) ==
    CASE kind = "escalate" -> [deal EXCEPT !.state = "escalated"]
      [] kind = "assign"   -> [deal EXCEPT !.owned = TRUE]
      [] OTHER             -> deal                  \* an entry of the log

Act(p) ==
    /\ proc[p].pc = "act"
    /\ LET kind == body[proc[p].rule].actions[proc[p].n]
           onward(c) == proc' = [proc EXCEPT ![p] = [proc[p] EXCEPT !.pc = "claim", !.n = proc[p].n + 1, !.copy = c]]
           undo == proc' = [proc EXCEPT ![p].pc = "undo"]
       IN  \/ /\ Skips(kind, proc[p].copy) \/ Refused(kind)
              /\ skipped' = skipped \cup {Mark(p)}
              /\ onward(proc[p].copy)
              /\ UNCHANGED <<deal, ran, autoFaults>>
           \/ /\ ~Skips(kind, proc[p].copy) /\ ~Refused(kind)
              /\ deal' = Effect(kind)
              /\ ran' = [ran EXCEPT ![Mark(p)] = @ + 1]
              /\ \/ /\ onward(IF kind \in {"escalate", "assign"} THEN Effect(kind) ELSE proc[p].copy)
                    /\ UNCHANGED autoFaults
                 \/ kind \in {"escalate", "assign"} /\ undo /\ AutoFault("lost_reply")
              /\ UNCHANGED skipped
           \/ /\ kind # "notify" /\ ~Skips(kind, proc[p].copy)
              /\ undo
              /\ AutoFault("error")
              /\ UNCHANGED <<deal, ran, skipped>>
           \/ /\ kind \in {"notify", "comment"} /\ ~Skips(kind, proc[p].copy)
              /\ onward(proc[p].copy)
              /\ AutoFault("unwritten")
              /\ UNCHANGED <<deal, ran, skipped>>
    /\ UNCHANGED <<body, rules, posted, handled, marks, edit>>

Undo(p) ==
    /\ proc[p].pc = "undo"
    /\ Fail(p)
    /\ \/ marks' = MarksAfterError(Mark(p)) /\ UNCHANGED autoFaults
       \/ AutoFault("undo") /\ UNCHANGED marks
    /\ UNCHANGED <<deal, body, rules, posted, handled, edit, ran, skipped>>

(* The firing is complete; whoever marks it counts it.                     *)
MarkRun(p) ==
    /\ proc[p].pc = "run"
    /\ LET mark == <<proc[p].rule, proc[p].key, 0>> IN
           \/ /\ mark \in marks
              /\ proc' = [proc EXCEPT ![p].pc = "check"]
              /\ UNCHANGED <<marks, autoFaults>>
           \/ /\ mark \notin marks
              /\ marks' = marks \cup {mark}
              /\ proc' = [proc EXCEPT ![p].pc = "count"]
              /\ UNCHANGED autoFaults
           \/ Fail(p) /\ AutoFault("error") /\ UNCHANGED marks
    /\ UNCHANGED <<deal, body, rules, posted, handled, edit, ran, skipped>>

(* record_automation_run: an ADD that leaves rev alone.                    *)
CountRun(p) ==
    /\ proc[p].pc = "count"
    /\ \/ /\ rules' = [rules EXCEPT ![proc[p].rule].runs = @ + 1]
          /\ proc' = [proc EXCEPT ![p].pc = "check"]
          /\ UNCHANGED autoFaults
       \/ Fail(p) /\ AutoFault("uncounted") /\ UNCHANGED rules
    /\ UNCHANGED <<deal, body, posted, handled, marks, edit, ran, skipped>>

Killed(p) ==
    /\ proc[p].pc # "idle"
    /\ AutoFault(IF proc[p].pc \in {"act", "undo", "count"} THEN "killed_acting" ELSE "killed")
    /\ proc' = [proc EXCEPT ![p] = NoWork]
    /\ UNCHANGED <<deal, body, rules, posted, handled, marks, edit, ran, skipped>>
-----------------------------------------------------------------------------
Work(p) == \/ NextRule(p) \/ Finish(p)
           \/ ClaimAction(p) \/ Act(p) \/ Undo(p) \/ MarkRun(p) \/ CountRun(p)

AutoNext ==
    \/ AssignByHand \/ CloseByHand \/ ReopenByHand \/ PostEvent
    \/ \E a \in Admins : EditPut(a) \/ \E r \in Rules : EditRead(a, r)
    \/ BeginEntry
    \/ \E p \in AutoProcs : BeginSweep(p) \/ Work(p) \/ Killed(p)

AutoSafe == AutoInit /\ [][AutoNext]_autoVars

(* The stream hands over what is in the log, the scheduler starts a sweep  *)
(* every hour, an invocation goes on until it ends.                        *)
AutoFairness == /\ WF_autoVars(BeginEntry)
                /\ \A p \in Sweeps : WF_autoVars(BeginSweep(p))
                /\ \A p \in AutoProcs : WF_autoVars(Work(p))

AutoSpec == AutoSafe /\ AutoFairness
-----------------------------------------------------------------------------
(* Properties.                                                             *)

(* Every variable keeps its type.                                          *)
AutoTypeOK ==
    /\ deal \in Deals
    /\ body \in [Rules -> Bodies]
    /\ rules \in [Rules -> StoredRules]
    /\ posted \in 0..MaxEntries /\ handled \in 0..posted
    /\ marks \subseteq ActionMarks \cup RunMarks
    /\ proc \in [AutoProcs -> Works]
    /\ edit \in [Admins -> {<<>>} \cup Rules \X StoredRules]
    /\ ran \in [ActionMarks -> Nat]
    /\ skipped \subseteq ActionMarks
    /\ autoFaults \in 0..MaxAutoFaults

(* "A retry never repeats an action that ran": an action is carried out at *)
(* most once for an episode, whatever fails and whoever fires the rule.    *)
ActsOnce == \A m \in ActionMarks : ran[m] <= 1

(* "#run marks the firing complete": behind the marker every action has    *)
(* been carried out or skipped (_fire), so that sweeps may pass it over.   *)
RunMeansDone ==
    \A m \in RunMarks \cap marks : \A n \in 1..Len(body[m[1]].actions) :
        LET a == <<m[1], m[2], n>> IN ran[a] > 0 \/ a \in skipped

(* A rule that fires for an entry finishes: the stream hands the entry     *)
(* over until it does, unless the rule is switched off or its conditions   *)
(* do not hold (on_entry).                                                 *)
EventRulesFinish ==
    \A r \in Rules, k \in 1..MaxEntries :
        (body[r].trigger = "event" /\ body[r].onlyIf = "always" /\ posted >= k)
            ~> (<<r, k, 0>> \in marks \/ ~rules[r].on)

(* What a rule has begun to do for an episode it does to the end, also     *)
(* when an action fails or the invocation dies: a sweep as long as the     *)
(* contract stays in the stage, both while the condition of the rule holds *)
(* and it is switched on (_fire, run_time_rules).                          *)
BegunIsFinished ==
    \A m \in ActionMarks :
        (m \in marks) ~> \/ \A n \in 1..Len(body[m[1]].actions) :
                                LET a == <<m[1], m[2], n>> IN ran[a] > 0 \/ a \in skipped
                         \/ body[m[1]].trigger = "time" /\ ~(Qualifies(deal) /\ deal.stay = m[2])
                         \/ body[m[1]].onlyIf = "no_owner" /\ deal.owned
                         \/ ~rules[m[1]].on
(* Rules finish: the rules of an entry, and what a rule has begun.         *)
RulesFinish == EventRulesFinish /\ BegunIsFinished
=============================================================================
