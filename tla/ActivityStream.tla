--------------------------- MODULE ActivityStream ---------------------------
(***************************************************************************)
(* What follows a change of a contract: its entry in the activity log, the *)
(* stream of that log (lambdas/govern_stream), the trend counters it keeps *)
(* (shared/govern/aggregates.py), the events on the bus and the people who *)
(* are told (lambdas/govern_notifier), and a contract that is taken off    *)
(* the board while all that is under way (workflow.remove_contract).       *)
(*                                                                         *)
(* The entries of one contract are one shard of the stream: one invocation *)
(* at a time handles them in order, record by record, and one that fails   *)
(* is retried from that record.  An entry is known by its contract and its *)
(* place in the log.  Every step is one call to another service.           *)
(***************************************************************************)
EXTENDS Integers, Sequences, FiniteSets

CONSTANTS
    Contracts,
    Days,           \* calendar days on which something happens
    ChangeKinds,    \* the actions people take: some of DOMAIN Weight
    Writers,        \* concurrent requests that change a contract
    Removers,       \* concurrent requests that take one off the board
    Notifiers,      \* concurrent invocations of the notifier
    Channels,       \* what the tenant has switched on: some of {"email", "teams"}
    EventFaults,    \* which of EventFaultKinds may happen
    MaxEventFaults, \* bound: how many of them do
    MaxChanges,     \* bound: changes people make
    MaxAttempts,    \* attempts at a record of the stream, and at a message
    Nobody          \* nothing

EventFaultKinds ==
    {"error",               \* a call fails and has no effect
     "undo",                \* ... the one that releases a claim
     "lost_reply",          \* a call is reported as failed and had its effect
     "killed",              \* an invocation dies: its whole batch is handled again
     "killed_counting",     \* ... between the claim of an entry and its ADD
     "killed_notifying",    \* ... between the claim of an entry and the channels
     "duplicate",           \* a message is delivered twice
     "append",              \* the entry of a change that is stored is not
     "stop",                \* a removal stops before the contract is deleted
     "race"}                \* a contract is changed while it is being removed

ASSUME EventFaultsAssumption == EventFaults \subseteq EventFaultKinds
ASSUME EventBoundsAssumption == /\ MaxEventFaults \in Nat /\ MaxChanges \in Nat
                                /\ MaxAttempts \in Nat \ {0}
ASSUME ChannelsAssumption    == Channels \subseteq {"email", "teams"} /\ Channels # {}

(* What an action adds to the counters of its day.                         *)
Weight == [intake |-> 1, escalated |-> 1, assigned |-> 0, notification_sent |-> 0]

ASSUME KindsAssumption == ChangeKinds \subseteq DOMAIN Weight \ {"notification_sent"}

(* The actions whose event is routed to the notifier.                      *)
Routed == {"assigned", "escalated"}

VARIABLES
    onBoard,    \* contracts that are stored
    log,        \* log[c]: the activity of c, oldest first
    write,      \* write[w]: a stored change whose entry is not yet written
    seen,       \* entries claimed for counting
    counter,    \* counter[d]: the day item
    shard,      \* shard[c]: the stream's work on the records of c
    removal,    \* removal[r]: what removing request r has read and left to do
    queue,      \* messages for the notifier
    claimed,    \* entries claimed by the notifier
    notifier,   \* notifier[n]: its work on a message
    told,       \* told[e]: how often each channel was used for e
    aside,      \* entries in a dead-letter queue (the stream's or the notifier's)
    eventFaults,\* faults so far
    changes     \* changes so far

streamVars == <<seen, counter, shard>>
noticeVars == <<claimed, notifier, told>>
eventVars  == <<onBoard, log, write, streamVars, removal, queue, noticeVars, aside, eventFaults, changes>>

Entries == Contracts \X (1..2 * MaxChanges)     \* a notification is an entry too

LogRecords == [kind : DOMAIN Weight, day : Days]
Messages   == [of : Entries, copy : 0..MaxEventFaults, receives : 0..MaxAttempts]
Shards     == [at    : Nat,     \* records before this one are done
               from  : Nat,     \* first record of the batch
               tries : Nat,     \* failed attempts at it
               pc    : {"count", "add", "undo", "put", "rules"}]
Removals   == [pc : {"idle", "forget", "delete"}, of : Contracts \cup {Nobody},
               sum : [Days -> Nat], left : SUBSET Days]
Notices    == [pc   : {"idle", "claim", "send", "release", "record"},
               msg  : Messages \cup {Nobody},
               left : SUBSET Channels, used : SUBSET Channels]

NewShard  == [at |-> 1, from |-> 1, tries |-> 0, pc |-> "count"]
NoRemoval == [pc |-> "idle", of |-> Nobody, sum |-> [d \in Days |-> 0], left |-> {}]
NoNotice  == [pc |-> "idle", msg |-> Nobody, left |-> {}, used |-> {}]

EventsInit ==
    /\ onBoard = Contracts
    /\ log = [c \in Contracts |-> << >>]
    /\ write = [w \in Writers |-> Nobody]
    /\ seen = {}
    /\ counter = [d \in Days |-> 0]
    /\ shard = [c \in Contracts |-> NewShard]
    /\ removal = [r \in Removers |-> NoRemoval]
    /\ queue = {}
    /\ claimed = {}
    /\ notifier = [n \in Notifiers |-> NoNotice]
    /\ told = [e \in Entries |-> [ch \in Channels |-> 0]]
    /\ aside = {}
    /\ eventFaults = 0
    /\ changes = 0

EventFault(f) ==
    /\ f \in EventFaults
    /\ eventFaults < MaxEventFaults
    /\ eventFaults' = eventFaults + 1

BeingRemoved(c) == \E r \in Removers : removal[r].of = c
BeingWritten(c) == \E w \in Writers : write[w] # Nobody /\ write[w].of = c
-----------------------------------------------------------------------------
(* A change of a contract (_commit): the contract first, its entry after.  *)

Change(w, c, kind, d) ==
    /\ write[w] = Nobody
    /\ c \in onBoard
    /\ changes < MaxChanges
    /\ \/ ~BeingRemoved(c) /\ UNCHANGED eventFaults
       \/ BeingRemoved(c) /\ EventFault("race")
    /\ write' = [write EXCEPT ![w] = [of |-> c, entry |-> [kind |-> kind, day |-> d]]]
    /\ changes' = changes + 1
    /\ UNCHANGED <<onBoard, log, streamVars, removal, queue, noticeVars, aside>>

(* write_activity: an error is logged, the change stands.                  *)
WriteEntry(w) ==
    /\ write[w] # Nobody
    /\ write' = [write EXCEPT ![w] = Nobody]
    /\ \/ /\ log' = [log EXCEPT ![write[w].of] = Append(@, write[w].entry)]
          /\ UNCHANGED eventFaults
       \/ EventFault("append") /\ UNCHANGED log
    /\ UNCHANGED <<onBoard, streamVars, removal, queue, noticeVars, aside, changes>>
-----------------------------------------------------------------------------
(* The stream: for each record, in order, count it, publish it, run the    *)
(* automation rules it fires.                                              *)

Record(c) == log[c][shard[c].at]
Entry(c)  == <<c, shard[c].at>>
AtStep(c, pc) == shard[c].at <= Len(log[c]) /\ shard[c].pc = pc
GoTo(c, pc)   == shard' = [shard EXCEPT ![c].pc = pc]

(* The record failed: it is the first of the next batch, until the stream  *)
(* gives it up.                                                            *)
FailRecord(c) ==
    IF shard[c].tries + 1 < MaxAttempts
    THEN /\ shard' = [shard EXCEPT ![c] = [at |-> @.at, from |-> @.at, tries |-> @.tries + 1, pc |-> "count"]]
         /\ UNCHANGED aside
    ELSE /\ shard' = [shard EXCEPT ![c] = [at |-> @.at + 1, from |-> @.at + 1, tries |-> 0, pc |-> "count"]]
         /\ aside' = aside \cup {Entry(c)}

(* mark_seen: the claim of an entry is a conditional put.                  *)
MayCount_Again(e) == TRUE               \* mutant: the put without its condition
MayCount(e)       == e \notin seen

(* record: an entry that counts for nothing, or is claimed, is passed over. *)
Claim(c) ==
    /\ AtStep(c, "count")
    /\ \/ /\ Weight[Record(c).kind] = 0 \/ ~MayCount(Entry(c))
          /\ GoTo(c, "put")
          /\ UNCHANGED <<seen, aside, eventFaults>>
       \/ /\ Weight[Record(c).kind] > 0 /\ MayCount(Entry(c))
          /\ GoTo(c, "add")
          /\ seen' = seen \cup {Entry(c)}
          /\ UNCHANGED <<aside, eventFaults>>
       \/ /\ Weight[Record(c).kind] > 0
          /\ EventFault("error")
          /\ FailRecord(c)
          /\ UNCHANGED seen
    /\ UNCHANGED <<onBoard, log, write, counter, removal, queue, noticeVars, changes>>

Count(c) ==
    /\ AtStep(c, "add")
    /\ \/ /\ counter' = [counter EXCEPT ![Record(c).day] = @ + Weight[Record(c).kind]]
          /\ \/ GoTo(c, "put") /\ UNCHANGED eventFaults
             \/ GoTo(c, "undo") /\ EventFault("lost_reply")
       \/ GoTo(c, "undo") /\ EventFault("error") /\ UNCHANGED counter
    /\ UNCHANGED <<onBoard, log, write, seen, removal, queue, noticeVars, aside, changes>>

Release(c) ==
    /\ AtStep(c, "undo")
    /\ FailRecord(c)
    /\ \/ seen' = seen \ {Entry(c)} /\ UNCHANGED eventFaults
       \/ EventFault("undo") /\ UNCHANGED seen
    /\ UNCHANGED <<onBoard, log, write, counter, removal, queue, noticeVars, changes>>

(* A message of the queue, told from its copies.                           *)
Enqueue(e) ==
    LET taken == {m.copy : m \in {x \in queue : x.of = e}}
                 \cup {notifier[n].msg.copy : n \in {x \in Notifiers : notifier[x].pc # "idle"
                                                                       /\ notifier[x].msg.of = e}}
    IN  \E k \in (0..MaxEventFaults) \ taken :
            queue' = queue \cup {[of |-> e, copy |-> k, receives |-> 0]}

Publish(c) ==
    /\ AtStep(c, "put")
    /\ \/ /\ IF Record(c).kind \in Routed THEN Enqueue(Entry(c)) ELSE UNCHANGED queue
          /\ \/ GoTo(c, "rules") /\ UNCHANGED <<aside, eventFaults>>
             \/ FailRecord(c) /\ EventFault("lost_reply")
       \/ FailRecord(c) /\ EventFault("error") /\ UNCHANGED queue
    /\ UNCHANGED <<onBoard, log, write, seen, counter, removal, noticeVars, changes>>

(* automations.on_entry, which may raise; then the next record, of this    *)
(* batch or of a new one.                                                  *)
RunRules(c) ==
    /\ AtStep(c, "rules")
    /\ \/ \E from \in {shard[c].from, shard[c].at + 1} :
             /\ shard' = [shard EXCEPT ![c] = [at |-> @.at + 1, from |-> from, tries |-> 0, pc |-> "count"]]
             /\ UNCHANGED <<aside, eventFaults>>
       \/ FailRecord(c) /\ EventFault("error")
    /\ UNCHANGED <<onBoard, log, write, seen, counter, removal, queue, noticeVars, changes>>

(* The invocation dies: the batch is handled again from its first record.  *)
StreamKilled(c) ==
    /\ shard[c].at <= Len(log[c])
    /\ EventFault(IF shard[c].pc \in {"add", "undo"} THEN "killed_counting" ELSE "killed")
    /\ IF shard[c].tries + 1 < MaxAttempts
       THEN /\ shard' = [shard EXCEPT ![c] = [at |-> @.from, from |-> @.from, tries |-> @.tries + 1, pc |-> "count"]]
            /\ UNCHANGED aside
       ELSE FailRecord(c)       \* the batch is split until the record is alone
    /\ UNCHANGED <<onBoard, log, write, seen, counter, removal, queue, noticeVars, changes>>
-----------------------------------------------------------------------------
(* The notifier.                                                           *)

Message(n) == notifier[n].msg
MessageDone(n) == notifier' = [notifier EXCEPT ![n] = NoNotice]

(* The message is seen again, or has been received too often.              *)
FailMessage(n) ==
    /\ MessageDone(n)
    /\ IF Message(n).receives < MaxAttempts
       THEN queue' = queue \cup {Message(n)} /\ UNCHANGED aside
       ELSE aside' = aside \cup {Message(n).of} /\ UNCHANGED queue

(* The contract is read; without it nothing is sent.                       *)
Receive(n, m) ==
    /\ notifier[n].pc = "idle"
    /\ m \in queue
    /\ \/ queue' = queue \ {m} /\ UNCHANGED eventFaults
       \/ EventFault("duplicate") /\ m.receives + 1 < MaxAttempts
          /\ \E k \in 0..MaxEventFaults :
                /\ k \notin {x.copy : x \in {y \in queue : y.of = m.of}}
                /\ queue' = (queue \ {m}) \cup {[m EXCEPT !.copy = k, !.receives = @ + 1]}
    /\ notifier' = [notifier EXCEPT ![n] =
                       IF m.of[1] \in onBoard
                       THEN [pc |-> "claim", msg |-> [m EXCEPT !.receives = m.receives + 1], left |-> Channels, used |-> {}]
                       ELSE NoNotice]
    /\ UNCHANGED <<onBoard, log, write, streamVars, removal, claimed, told, aside, changes>>

MayNotify_Again(e) == TRUE              \* mutant: the put without its condition
MayNotify(e)       == e \notin claimed

ClaimNotice(n) ==
    /\ notifier[n].pc = "claim"
    /\ \/ /\ MayNotify(Message(n).of)
          /\ claimed' = claimed \cup {Message(n).of}
          /\ notifier' = [notifier EXCEPT ![n].pc = "send"]
          /\ UNCHANGED <<queue, aside, eventFaults>>
       \/ /\ ~MayNotify(Message(n).of)
          /\ MessageDone(n)
          /\ UNCHANGED <<claimed, queue, aside, eventFaults>>
       \/ /\ EventFault("error")
          /\ FailMessage(n)
          /\ UNCHANGED claimed
    /\ UNCHANGED <<onBoard, log, write, streamVars, removal, told, changes>>

(* One channel after the other; the error of one is not that of the other. *)
Send(n, ch) ==
    /\ notifier[n].pc = "send"
    /\ ch \in notifier[n].left
    /\ ch = "teams" => "email" \notin notifier[n].left
    /\ LET left == notifier[n].left \ {ch}
           Next(used) == IF left # {} THEN "send" ELSE IF used = {} THEN "release" ELSE "record"
           Went(used) == notifier' = [notifier EXCEPT ![n] = [@ EXCEPT !.left = left, !.used = used, !.pc = Next(used)]]
       IN  \/ /\ Went(notifier[n].used \cup {ch})
              /\ told' = [told EXCEPT ![Message(n).of][ch] = @ + 1]
              /\ UNCHANGED eventFaults
           \/ /\ Went(notifier[n].used)
              /\ EventFault("error")
              /\ UNCHANGED told
    /\ UNCHANGED <<onBoard, log, write, streamVars, removal, queue, claimed, aside, changes>>

(* Every channel failed: the message comes again and must find no claim.   *)
ClaimsAfterFailure_Kept(e) == claimed   \* mutant: the error is raised, the claim stays
ClaimsAfterFailure(e)      == claimed \ {e}

ReleaseNotice(n) ==
    /\ notifier[n].pc = "release"
    /\ \/ claimed' = ClaimsAfterFailure(Message(n).of) /\ UNCHANGED eventFaults
       \/ EventFault("undo") /\ UNCHANGED claimed
    /\ FailMessage(n)
    /\ UNCHANGED <<onBoard, log, write, streamVars, removal, told, changes>>

(* record_system_entry: the notification is an entry of its own.           *)
RecordNotice(n) ==
    /\ notifier[n].pc = "record"
    /\ LET c == Message(n).of[1] IN
           \/ /\ log' = [log EXCEPT ![c] = Append(@, [@[Message(n).of[2]] EXCEPT !.kind = "notification_sent"])]
              /\ UNCHANGED eventFaults
           \/ EventFault("append") /\ UNCHANGED log
    /\ MessageDone(n)
    /\ UNCHANGED <<onBoard, write, streamVars, removal, queue, claimed, told, aside, changes>>

NotifierKilled(n) ==
    /\ notifier[n].pc # "idle"
    /\ EventFault(IF notifier[n].pc \in {"send", "release"} THEN "killed_notifying" ELSE "killed")
    /\ FailMessage(n)
    /\ UNCHANGED <<onBoard, log, write, streamVars, removal, claimed, told, changes>>
-----------------------------------------------------------------------------
(* remove_contract: what the contract's entries have counted is taken back *)
(* day by day, then the contract goes.                                     *)

Counts(c, d) == Cardinality({i \in 1..Len(log[c]) : log[c][i].day = d /\ Weight[log[c][i].kind] > 0})

Remove(r, c) ==
    /\ removal[r].pc = "idle"
    /\ c \in onBoard
    /\ BeingWritten(c) => "race" \in EventFaults
    /\ LET sum == [d \in Days |-> Counts(c, d)] IN
       removal' = [removal EXCEPT ![r] = [pc |-> "forget", of |-> c, sum |-> sum,
                                          left |-> {d \in Days : sum[d] > 0}]]
    /\ UNCHANGED <<onBoard, log, write, streamVars, queue, noticeVars, aside, eventFaults, changes>>

ForgetDay(r, d) ==
    /\ removal[r].pc = "forget"
    /\ d \in removal[r].left
    /\ counter' = [counter EXCEPT ![d] = @ - removal[r].sum[d]]
    /\ \/ removal' = [removal EXCEPT ![r].left = @ \ {d}] /\ UNCHANGED eventFaults
       \/ removal' = [removal EXCEPT ![r] = NoRemoval] /\ EventFault("stop")
    /\ UNCHANGED <<onBoard, log, write, seen, shard, queue, noticeVars, aside, changes>>

DeleteContract(r) ==
    /\ removal[r].pc = "forget" /\ removal[r].left = {}
    /\ onBoard' = onBoard \ {removal[r].of}
    /\ removal' = [removal EXCEPT ![r] = NoRemoval]
    /\ UNCHANGED <<log, write, streamVars, queue, noticeVars, aside, eventFaults, changes>>
-----------------------------------------------------------------------------
StreamStep(c) == Claim(c) \/ Count(c) \/ Release(c) \/ Publish(c) \/ RunRules(c) \/ StreamKilled(c)

NotifierStep(n) ==
    \/ \E m \in queue : Receive(n, m)
    \/ ClaimNotice(n) \/ ReleaseNotice(n) \/ RecordNotice(n) \/ NotifierKilled(n)
    \/ \E ch \in Channels : Send(n, ch)

EventsNext ==
    \/ \E w \in Writers : \/ WriteEntry(w)
                          \/ \E c \in Contracts, kind \in ChangeKinds, d \in Days : Change(w, c, kind, d)
    \/ \E c \in Contracts : StreamStep(c)
    \/ \E n \in Notifiers : NotifierStep(n)
    \/ \E r \in Removers : \/ DeleteContract(r)
                           \/ \E c \in Contracts : Remove(r, c)
                           \/ \E d \in Days : ForgetDay(r, d)

EventsSpec == EventsInit /\ [][EventsNext]_eventVars
-----------------------------------------------------------------------------
(* Properties.                                                             *)

(* Every variable keeps its type.                                          *)
EventsTypeOK ==
    /\ onBoard \subseteq Contracts
    /\ log \in [Contracts -> Seq(LogRecords)]
    /\ write \in [Writers -> [of : Contracts, entry : LogRecords] \cup {Nobody}]
    /\ seen \subseteq Entries /\ claimed \subseteq Entries /\ aside \subseteq Entries
    /\ counter \in [Days -> Int]
    /\ shard \in [Contracts -> Shards]
    /\ removal \in [Removers -> Removals]
    /\ queue \subseteq Messages
    /\ notifier \in [Notifiers -> Notices]
    /\ told \in [Entries -> [Channels -> Nat]]
    /\ eventFaults \in 0..MaxEventFaults /\ changes \in 0..MaxChanges

(* Nothing is under way that will still change a counter.                  *)
Quiet ==
    /\ \A w \in Writers : write[w] = Nobody
    /\ \A c \in Contracts : shard[c].at > Len(log[c])
    /\ \A r \in Removers : removal[r].pc = "idle"

OnDay(d, cs) == {e \in Entries : /\ e[1] \in cs /\ e[2] <= Len(log[e[1]])
                                 /\ log[e[1]][e[2]].day = d /\ Weight[log[e[1]][e[2]].kind] > 0}

(* Once the stream has caught up, a day's counter is the number of counted *)
(* entries of the contracts on the board, each once whatever was delivered *)
(* again, and those of a removed contract not at all; only an entry in the *)
(* dead-letter queue may be missing (aggregates.record and forget).        *)
TrendsAgree ==
    (Quiet /\ \A e \in aside : e[1] \in onBoard) =>
        \A d \in Days : /\ counter[d] <= Cardinality(OnDay(d, onBoard))
                        /\ counter[d] >= Cardinality(OnDay(d, onBoard) \ aside)

(* A person is not told twice of one entry on the same channel, whatever   *)
(* is delivered again and whichever channel fails (handle_event).          *)
ToldOnce == \A e \in Entries, ch \in Channels : told[e][ch] <= 1

(* Once nothing is under way any more, every entry of a contract on the    *)
(* board that is routed to the notifier has reached a person or lies in a  *)
(* dead-letter queue, whichever call failed (handle_event).                *)
Announced ==
    (Quiet /\ queue = {} /\ \A n \in Notifiers : notifier[n].pc = "idle") =>
        \A c \in onBoard : \A i \in 1..Len(log[c]) :
            log[c][i].kind \in Routed => \/ \E ch \in Channels : told[<<c, i>>][ch] > 0
                                        \/ <<c, i>> \in aside
=============================================================================
