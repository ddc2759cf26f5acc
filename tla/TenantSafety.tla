---------------------------- MODULE TenantSafety ----------------------------
(***************************************************************************)
(* What the proofs of the components come to for a tenant (MCTenant).  A   *)
(* behaviour of the tenant is one of each of its components, so that what  *)
(* was proved of a component holds of the tenant.                          *)
(***************************************************************************)
EXTENDS MCTenant, TenantProofs, LoopProofs

(* The activity stream.  An entry is in the log, and of a kind:            *)
Logged  == {e \in Contracts \X (Nat \ {0}) : e[2] <= Len(log[e[1]])}
EntryKind(e) == log[e[1]][e[2]].kind

(* messages are about entries that are routed,                             *)
Letters == {m \in [of : Logged, copy : 0..MaxEventFaults, receives : 0..MaxAttempts] :
                EntryKind(m.of) \in Routed}
Waiting == {m \in Letters : m.receives < MaxAttempts}

(* the stream is at an entry of the log or one past its end,               *)
AtRecord(s, length) == /\ s \in Shards
                       /\ 1 <= s.from /\ s.from <= s.at /\ s.at <= length + 1
                       /\ s.at > length => s.pc = "count"

(* and whoever is at work has what the work is on.                         *)
LogShape     == /\ onBoard \subseteq Contracts
                /\ log \in [Contracts -> Seq(LogRecords)]
                /\ write \in [Writers -> [of : Contracts, entry : [kind : ChangeKinds, day : Days]] \cup {Nobody}]
MarkShape    == seen \subseteq Logged /\ claimed \subseteq Logged /\ aside \subseteq Logged
CounterShape == counter \in [Days -> Int] /\ removal \in [Removers -> Removals]
ShardShape   == shard \in [Contracts -> Shards] /\ \A c \in Contracts : AtRecord(shard[c], Len(log[c]))
NoticeShape  == /\ queue \subseteq Waiting
                /\ notifier \in [Notifiers -> [pc   : {"idle", "claim", "send", "release", "record"},
                                               msg  : Letters \cup {Nobody},
                                               left : SUBSET Channels, used : SUBSET Channels]]
                /\ \A n \in Notifiers : notifier[n].pc # "idle" => notifier[n].msg \in Letters
                /\ told \in [Entries -> [Channels -> Nat]]
                /\ \A e \in claimed : EntryKind(e) \in Routed
FaultsBounded      == eventFaults \in 0..MaxEventFaults /\ changes \in 0..MaxChanges

StreamShapes == LogShape /\ MarkShape /\ CounterShape /\ ShardShape /\ NoticeShape /\ FaultsBounded

(* An entry is written at the end of a contract's log; nothing else is.    *)
Grown == /\ log' \in [Contracts -> Seq(LogRecords)]
         /\ \A c \in Contracts : /\ Len(log[c]) <= Len(log'[c])
                                 /\ \A i \in 1..Len(log[c]) : log'[c][i] = log[c][i]

LEMMA KindsAre == ChangeKinds \subseteq DOMAIN Weight \ {"notification_sent"} /\ "notification_sent" \in DOMAIN Weight
                  /\ Routed \subseteq DOMAIN Weight \ {"notification_sent"}
BY KindsAssumption DEF Weight, Routed

LEMMA Weighs == \A k \in DOMAIN Weight : Weight[k] \in {0, 1} /\ Weight["notification_sent"] = 0
BY DEF Weight

LEMMA Stays == log \in [Contracts -> Seq(LogRecords)] /\ log' = log => Grown
BY DEF Grown

LEMMA Appended ==
    ASSUME log \in [Contracts -> Seq(LogRecords)], NEW c \in Contracts, NEW x \in LogRecords,
           log' = [log EXCEPT ![c] = Append(@, x)]
    PROVE  /\ Grown
           /\ Logged' = Logged \cup {<<c, Len(log[c]) + 1>>}
           /\ <<c, Len(log[c]) + 1>> \notin Logged
           /\ \A e : e = <<c, Len(log[c]) + 1>> => EntryKind(e)' = x.kind
           /\ log'[c][Len(log[c]) + 1] = x
           /\ Len(log'[c]) = Len(log[c]) + 1
           /\ \A b \in Contracts \ {c} : log'[b] = log[b]
<1>1. log[c] \in Seq(LogRecords) /\ Len(log[c]) \in Nat
  OBVIOUS
<1>2. log'[c] = Append(log[c], x) /\ \A b \in Contracts \ {c} : log'[b] = log[b]
  OBVIOUS
<1>3. Len(log'[c]) = Len(log[c]) + 1 /\ log'[c][Len(log[c]) + 1] = x
      /\ \A i \in 1..Len(log[c]) : log'[c][i] = log[c][i]
  BY <1>1, <1>2
<1>4. Grown
  <2>1. log' \in [Contracts -> Seq(LogRecords)]
    BY <1>1, <1>2
  <2>2. ASSUME NEW b \in Contracts
        PROVE  Len(log[b]) <= Len(log'[b]) /\ \A i \in 1..Len(log[b]) : log'[b][i] = log[b][i]
    <3>1. CASE b = c
      BY <3>1, <1>1, <1>3
    <3>2. CASE b # c
      <4>1. log[b] \in Seq(LogRecords) /\ Len(log[b]) \in Nat
        OBVIOUS
      <4> QED BY <3>2, <4>1, <1>2
    <3> QED BY <3>1, <3>2
  <2> QED BY <2>1, <2>2 DEF Grown
<1>5. Logged' = Logged \cup {<<c, Len(log[c]) + 1>>} /\ <<c, Len(log[c]) + 1>> \notin Logged
  <2>1. ASSUME NEW b \in Contracts, NEW i \in Nat \ {0}
        PROVE  i <= Len(log'[b]) <=> i <= Len(log[b]) \/ <<b, i>> = <<c, Len(log[c]) + 1>>
    <3>1. CASE b = c
      BY <3>1, <1>1, <1>3
    <3>2. CASE b # c
      BY <3>2, <1>2
    <3> QED BY <3>1, <3>2
  <2>2. ASSUME NEW e \in Contracts \X (Nat \ {0})
        PROVE  e \in Logged' <=> e \in Logged \cup {<<c, Len(log[c]) + 1>>}
    <3>1. PICK b \in Contracts, i \in Nat \ {0} : e = <<b, i>>
      OBVIOUS
    <3> QED BY <2>1, <3>1 DEF Logged
  <2>3. <<c, Len(log[c]) + 1>> \in Contracts \X (Nat \ {0})
    BY <1>1
  <2>4. Logged' \subseteq Contracts \X (Nat \ {0}) /\ Logged \subseteq Contracts \X (Nat \ {0})
    BY DEF Logged
  <2>5. <<c, Len(log[c]) + 1>> \notin Logged
    BY <1>1 DEF Logged
  <2> QED BY <2>2, <2>3, <2>4, <2>5
<1>6. ASSUME NEW e, e = <<c, Len(log[c]) + 1>> PROVE EntryKind(e)' = x.kind
  BY <1>1, <1>2, <1>3, <1>6 DEF EntryKind
<1> QED BY <1>2, <1>3, <1>4, <1>5, <1>6

LEMMA LoggedStays ==
    ASSUME log \in [Contracts -> Seq(LogRecords)], Grown
    PROVE  Logged \subseteq Logged' /\ (\A e \in Logged : EntryKind(e)' = EntryKind(e) /\ log'[e[1]][e[2]] = log[e[1]][e[2]])
           /\ Letters \subseteq Letters' /\ Waiting \subseteq Waiting'
<1>1. ASSUME NEW e \in Logged
      PROVE  e \in Logged' /\ log'[e[1]][e[2]] = log[e[1]][e[2]] /\ EntryKind(e)' = EntryKind(e)
  <2>1. PICK b \in Contracts, i \in Nat \ {0} : e = <<b, i>>
    BY DEF Logged
  <2>2. e[1] = b /\ e[2] = i /\ Len(log[b]) \in Nat /\ Len(log'[b]) \in Nat /\ i <= Len(log[b])
    BY <2>1 DEF Logged, Grown
  <2>3. i \in 1..Len(log[b])
    BY <2>2
  <2>4. i <= Len(log'[b]) /\ log'[b][i] = log[b][i]
    BY <2>2, <2>3 DEF Grown
  <2> QED BY <2>1, <2>2, <2>4 DEF Logged, EntryKind
<1>2. ASSUME NEW m \in Letters PROVE m \in Letters'
  <2>1. m.of \in Logged /\ EntryKind(m.of) \in Routed
        /\ m \in [of : Logged, copy : 0..MaxEventFaults, receives : 0..MaxAttempts]
    BY DEF Letters
  <2>2. m \in [of : Logged', copy : 0..MaxEventFaults, receives : 0..MaxAttempts]
    BY <1>1, <2>1
  <2> QED BY <1>1, <2>1, <2>2 DEF Letters
<1> QED BY <1>1, <1>2 DEF Waiting

(* The entry that the stream is at is in the log.                          *)
LEMMA EntryLogged ==
    ASSUME LogShape, ShardShape, NEW c \in Contracts, shard[c].at <= Len(log[c])
    PROVE  /\ Entry(c) \in Logged /\ Record(c) \in LogRecords /\ EntryKind(Entry(c)) = Record(c).kind
           /\ Entry(c)[1] = c /\ Entry(c)[2] = shard[c].at /\ shard[c].at \in 1..Len(log[c])
<1>1. log[c] \in Seq(LogRecords) /\ Len(log[c]) \in Nat
  BY DEF LogShape
<1>2. shard[c].at \in Nat \ {0} /\ shard[c].at \in 1..Len(log[c])
  BY <1>1 DEF ShardShape, AtRecord, Shards
<1>3. log[c][shard[c].at] \in LogRecords
  BY <1>1, <1>2
<1> QED BY <1>1, <1>2, <1>3 DEF Entry, Record, EntryKind, Logged

LEMMA ShardAt ==
    ASSUME LogShape, ShardShape, NEW c \in Contracts, shard[c].at <= Len(log[c]), NEW s \in Shards,
           shard' = [shard EXCEPT ![c] = s], 1 <= s.from, s.from <= s.at, s.at <= Len(log[c]) + 1,
           s.at > Len(log[c]) => s.pc = "count"
    PROVE  /\ shard' \in [Contracts -> Shards] /\ AtRecord(shard'[c], Len(log[c]))
           /\ shard'[c] = s /\ \A b \in Contracts \ {c} : shard'[b] = shard[b]
BY DEF ShardShape, AtRecord

LEMMA ShardIs ==
    ASSUME LogShape, ShardShape, NEW c \in Contracts
    PROVE  /\ shard[c] \in Shards /\ shard \in [Contracts -> Shards] /\ Len(log[c]) \in Nat
           /\ shard[c].at \in Nat /\ shard[c].from \in Nat /\ shard[c].tries \in Nat
           /\ 1 <= shard[c].from /\ shard[c].from <= shard[c].at /\ shard[c].at <= Len(log[c]) + 1
<1>1. log[c] \in Seq(LogRecords)
  BY DEF LogShape
<1> QED BY <1>1 DEF ShardShape, AtRecord, Shards

(* A record that failed comes again or lies aside.                         *)
LEMMA Failing ==
    ASSUME LogShape, ShardShape, NEW c \in Contracts, shard[c].at <= Len(log[c]), FailRecord(c)
    PROVE  /\ shard' \in [Contracts -> Shards] /\ AtRecord(shard'[c], Len(log[c]))
           /\ \A b \in Contracts \ {c} : shard'[b] = shard[b]
           /\ shard'[c].pc = "count"
           /\ \/ shard'[c].at = shard[c].at /\ aside' = aside
              \/ shard'[c].at = shard[c].at + 1 /\ aside' = aside \cup {Entry(c)}
<1> DEFINE old == shard[c]
           s1 == [at |-> old.at, from |-> old.at, tries |-> old.tries + 1, pc |-> "count"]
           s2 == [at |-> old.at + 1, from |-> old.at + 1, tries |-> 0, pc |-> "count"]
<1>0. shard[c] \in Shards /\ shard \in [Contracts -> Shards] /\ Len(log[c]) \in Nat
      /\ shard[c].at \in Nat /\ shard[c].from \in Nat /\ shard[c].tries \in Nat
      /\ 1 <= shard[c].from /\ shard[c].from <= shard[c].at /\ shard[c].at <= Len(log[c]) + 1
  BY ShardIs
<1>1. CASE shard[c].tries + 1 < MaxAttempts
  <2>1. shard' = [shard EXCEPT ![c] = s1] /\ aside' = aside
    BY <1>1 DEF FailRecord
  <2>2. s1 \in Shards /\ s1.at = shard[c].at /\ s1.from = shard[c].at /\ s1.pc = "count"
    BY <1>0 DEF Shards
  <2>3. PICK s \in Shards : s = s1
    BY <2>2
  <2>4. shard' \in [Contracts -> Shards] /\ AtRecord(shard'[c], Len(log[c]))
        /\ shard'[c] = s /\ \A b \in Contracts \ {c} : shard'[b] = shard[b]
    <3>1. shard' = [shard EXCEPT ![c] = s]
      BY <2>1, <2>3
    <3>2. 1 <= s.from /\ s.from <= s.at /\ s.at <= Len(log[c]) + 1 /\ s.pc = "count"
      BY <1>0, <2>2, <2>3
    <3> QED BY <3>1, <3>2, ShardAt
  <2> QED BY <2>1, <2>2, <2>3, <2>4
<1>2. CASE ~(shard[c].tries + 1 < MaxAttempts)
  <2>1. shard' = [shard EXCEPT ![c] = s2] /\ aside' = aside \cup {Entry(c)}
    BY <1>2 DEF FailRecord
  <2>2. s2 \in Shards /\ s2.at = shard[c].at + 1 /\ s2.from = shard[c].at + 1 /\ s2.pc = "count"
    BY <1>0 DEF Shards
  <2>3. PICK s \in Shards : s = s2
    BY <2>2
  <2>4. shard' \in [Contracts -> Shards] /\ AtRecord(shard'[c], Len(log[c]))
        /\ shard'[c] = s /\ \A b \in Contracts \ {c} : shard'[b] = shard[b]
    <3>1. shard' = [shard EXCEPT ![c] = s]
      BY <2>1, <2>3
    <3>2. 1 <= s.from /\ s.from <= s.at /\ s.at <= Len(log[c]) + 1 /\ s.pc = "count"
      BY <1>0, <2>2, <2>3
    <3> QED BY <3>1, <3>2, ShardAt
  <2> QED BY <2>1, <2>2, <2>3, <2>4
<1> QED BY <1>1, <1>2

LEMMA GoingTo ==
    ASSUME LogShape, ShardShape, NEW c \in Contracts, shard[c].at <= Len(log[c]),
           NEW to \in {"count", "add", "undo", "put", "rules"}, GoTo(c, to)
    PROVE  /\ shard' \in [Contracts -> Shards] /\ AtRecord(shard'[c], Len(log[c]))
           /\ \A b \in Contracts \ {c} : shard'[b] = shard[b]
           /\ shard'[c].pc = to /\ shard'[c].at = shard[c].at
<1> DEFINE old == shard[c]
           s == [old EXCEPT !.pc = to]
<1>0. shard[c] \in Shards /\ shard \in [Contracts -> Shards] /\ Len(log[c]) \in Nat
      /\ shard[c].at \in Nat /\ shard[c].from \in Nat /\ shard[c].tries \in Nat
      /\ 1 <= shard[c].from /\ shard[c].from <= shard[c].at /\ shard[c].at <= Len(log[c]) + 1
  BY ShardIs
<1>1. shard' = [shard EXCEPT ![c] = s]
  BY DEF GoTo
<1>2. s \in Shards /\ s.at = shard[c].at /\ s.from = shard[c].from /\ s.pc = to
  BY <1>0 DEF Shards
<1>3. PICK x \in Shards : x = s
  BY <1>2
<1>4. shard' \in [Contracts -> Shards] /\ AtRecord(shard'[c], Len(log[c]))
      /\ shard'[c] = x /\ \A b \in Contracts \ {c} : shard'[b] = shard[b]
  <2>1. shard' = [shard EXCEPT ![c] = x]
    BY <1>1, <1>3
  <2>2. 1 <= x.from /\ x.from <= x.at /\ x.at <= Len(log[c]) + 1 /\ (x.at > Len(log[c]) => x.pc = "count")
    BY <1>0, <1>2, <1>3
  <2> QED BY <2>1, <2>2, ShardAt
<1> QED BY <1>2, <1>3, <1>4

(* What a step of the stream does to its work and to the others'.          *)
LEMMA ShardMoves ==
    ASSUME LogShape, ShardShape, NEW c \in Contracts, StreamStep(c)
    PROVE  /\ shard[c].at <= Len(log[c])
           /\ shard' \in [Contracts -> Shards] /\ AtRecord(shard'[c], Len(log[c]))
           /\ \A b \in Contracts \ {c} : shard'[b] = shard[b]
           /\ UNCHANGED <<onBoard, log, write, removal, claimed, notifier, told, changes>>
           /\ \/ aside' = aside
              \/ aside' = aside \cup {Entry(c)}
           /\ seen' \in {seen, seen \cup {Entry(c)}, seen \ {Entry(c)}}
           /\ queue' # queue => Record(c).kind \in Routed /\ Enqueue(Entry(c))
           /\ \/ shard'[c].at <= shard[c].at /\ shard'[c].pc # "rules"
              \/ shard'[c].at = shard[c].at /\ shard[c].pc = "put"
                    /\ (Record(c).kind \in Routed => Enqueue(Entry(c)))
              \/ shard'[c].at = shard[c].at + 1 /\ shard'[c].pc = "count"
                    /\ (shard[c].pc = "rules" \/ aside' = aside \cup {Entry(c)})
<1>0. shard[c] \in Shards /\ shard \in [Contracts -> Shards] /\ Len(log[c]) \in Nat
      /\ shard[c].at \in Nat /\ shard[c].from \in Nat /\ shard[c].tries \in Nat
      /\ 1 <= shard[c].from /\ shard[c].from <= shard[c].at /\ shard[c].at <= Len(log[c]) + 1
  BY ShardIs
<1>1. CASE Claim(c)
  <2>0. shard[c].at <= Len(log[c]) /\ queue' = queue
        /\ UNCHANGED <<onBoard, log, write, removal, claimed, notifier, told, changes>>
    BY <1>1 DEF Claim, AtStep, noticeVars
  <2>1. CASE GoTo(c, "put") /\ UNCHANGED <<seen, aside, eventFaults>>
    BY <2>0, <2>1, <1>0, GoingTo
  <2>2. CASE GoTo(c, "add") /\ seen' = seen \cup {Entry(c)} /\ UNCHANGED <<aside, eventFaults>>
    BY <2>0, <2>2, <1>0, GoingTo
  <2>3. CASE FailRecord(c) /\ UNCHANGED seen
    BY <2>0, <2>3, <1>0, Failing
  <2> QED BY <1>1, <2>1, <2>2, <2>3 DEF Claim
<1>2. CASE Count(c)
  <2>0. shard[c].at <= Len(log[c]) /\ UNCHANGED <<queue, seen, aside>>
        /\ UNCHANGED <<onBoard, log, write, removal, claimed, notifier, told, changes>>
    BY <1>2 DEF Count, AtStep, noticeVars
  <2>1. GoTo(c, "put") \/ GoTo(c, "undo")
    BY <1>2 DEF Count
  <2> QED BY <2>0, <2>1, <1>0, GoingTo
<1>3. CASE Release(c)
  <2>0. shard[c].at <= Len(log[c]) /\ queue' = queue /\ seen' \in {seen, seen \ {Entry(c)}} /\ FailRecord(c)
        /\ UNCHANGED <<onBoard, log, write, removal, claimed, notifier, told, changes>>
    BY <1>3 DEF Release, AtStep, noticeVars
  <2> QED BY <2>0, <1>0, Failing
<1>4. CASE Publish(c)
  <2>0. shard[c].at <= Len(log[c]) /\ seen' = seen /\ shard[c].pc = "put"
        /\ UNCHANGED <<onBoard, log, write, removal, claimed, notifier, told, changes>>
    BY <1>4 DEF Publish, AtStep, noticeVars
  <2>1. CASE (IF Record(c).kind \in Routed THEN Enqueue(Entry(c)) ELSE UNCHANGED queue)
             /\ GoTo(c, "rules") /\ UNCHANGED aside
    BY <2>0, <2>1, <1>0, GoingTo
  <2>2. CASE (IF Record(c).kind \in Routed THEN Enqueue(Entry(c)) ELSE UNCHANGED queue) /\ FailRecord(c)
    BY <2>0, <2>2, <1>0, Failing
  <2>3. CASE FailRecord(c) /\ UNCHANGED queue
    BY <2>0, <2>3, <1>0, Failing
  <2> QED BY <1>4, <2>1, <2>2, <2>3 DEF Publish
<1>5. CASE RunRules(c)
  <2>0. shard[c].at <= Len(log[c]) /\ seen' = seen /\ queue' = queue /\ shard[c].pc = "rules"
        /\ UNCHANGED <<onBoard, log, write, removal, claimed, notifier, told, changes>>
    BY <1>5 DEF RunRules, AtStep, noticeVars
  <2>1. ASSUME NEW from \in {shard[c].from, shard[c].at + 1}, UNCHANGED aside,
               shard' = [shard EXCEPT ![c] = [at |-> shard[c].at + 1, from |-> from, tries |-> 0, pc |-> "count"]]
        PROVE  /\ shard' \in [Contracts -> Shards] /\ AtRecord(shard'[c], Len(log[c]))
               /\ \A b \in Contracts \ {c} : shard'[b] = shard[b]
               /\ shard'[c].at = shard[c].at + 1 /\ shard'[c].pc = "count"
    <3> DEFINE s == [at |-> shard[c].at + 1, from |-> from, tries |-> 0, pc |-> "count"]
    <3>1. s \in Shards /\ 1 <= s.from /\ s.from <= s.at /\ s.at = shard[c].at + 1 /\ s.pc = "count"
      BY <1>0 DEF Shards
    <3>2. shard' = [shard EXCEPT ![c] = s]
      BY <2>1
    <3>3. PICK x \in Shards : x = s
      BY <3>1
    <3>4. shard' \in [Contracts -> Shards] /\ AtRecord(shard'[c], Len(log[c]))
          /\ shard'[c] = x /\ \A b \in Contracts \ {c} : shard'[b] = shard[b]
      <4>1. shard' = [shard EXCEPT ![c] = x]
        BY <3>2, <3>3
      <4>2. 1 <= x.from /\ x.from <= x.at /\ x.at <= Len(log[c]) + 1 /\ x.pc = "count"
        BY <1>0, <2>0, <3>1, <3>3
      <4> QED BY <4>1, <4>2, <2>0, ShardAt
    <3> QED BY <3>1, <3>3, <3>4
  <2>2. CASE FailRecord(c)
    BY <2>0, <2>2, <1>0, Failing
  <2> QED BY <1>5, <2>0, <2>1, <2>2 DEF RunRules
<1>6. CASE StreamKilled(c)
  <2>0. shard[c].at <= Len(log[c]) /\ seen' = seen /\ queue' = queue
        /\ UNCHANGED <<onBoard, log, write, removal, claimed, notifier, told, changes>>
    BY <1>6 DEF StreamKilled, noticeVars
  <2>1. CASE shard[c].tries + 1 < MaxAttempts
    <3> DEFINE s == [at |-> shard[c].from, from |-> shard[c].from, tries |-> shard[c].tries + 1, pc |-> "count"]
    <3>1. s \in Shards /\ s.from = shard[c].from /\ s.at = shard[c].from /\ s.pc = "count"
      BY <1>0 DEF Shards
    <3>2. shard' = [shard EXCEPT ![c] = s] /\ aside' = aside
      BY <1>6, <2>1 DEF StreamKilled
    <3>3. PICK x \in Shards : x = s
      BY <3>1
    <3>4. shard' \in [Contracts -> Shards] /\ AtRecord(shard'[c], Len(log[c]))
          /\ shard'[c] = x /\ \A b \in Contracts \ {c} : shard'[b] = shard[b]
      <4>1. shard' = [shard EXCEPT ![c] = x]
        BY <3>2, <3>3
      <4>2. 1 <= x.from /\ x.from <= x.at /\ x.at <= Len(log[c]) + 1 /\ x.pc = "count"
        BY <1>0, <2>0, <3>1, <3>3
      <4> QED BY <4>1, <4>2, <2>0, ShardAt
    <3>5. shard'[c].at <= shard[c].at /\ shard'[c].pc # "rules"
      BY <1>0, <3>1, <3>3, <3>4
    <3> QED BY <2>0, <3>2, <3>4, <3>5
  <2>2. CASE ~(shard[c].tries + 1 < MaxAttempts)
    <3>1. FailRecord(c)
      BY <1>6, <2>2 DEF StreamKilled
    <3> QED BY <2>0, <3>1, <1>0, Failing
  <2> QED BY <2>1, <2>2
<1> QED BY <1>1, <1>2, <1>3, <1>4, <1>5, <1>6 DEF StreamStep

LEMMA ShardsKept ==
    ASSUME LogShape, ShardShape, Grown, shard' = shard
    PROVE  ShardShape'
<1> SUFFICES ASSUME NEW c \in Contracts PROVE AtRecord(shard[c], Len(log'[c]))
  BY DEF ShardShape
<1>1. Len(log'[c]) \in Nat /\ Len(log[c]) <= Len(log'[c])
  BY DEF Grown
<1>2. shard[c] \in Shards /\ shard[c].at \in Nat /\ Len(log[c]) \in Nat
  BY ShardIs
<1> QED BY <1>1, <1>2 DEF ShardShape, AtRecord

NoticesAtWork == [pc   : {"idle", "claim", "send", "release", "record"}, msg  : Letters \cup {Nobody},
           left : SUBSET Channels, used : SUBSET Channels]

LEMMA NoticeAt ==
    ASSUME LogShape, MarkShape, NoticeShape, Grown, NEW n \in Notifiers, NEW x \in NoticesAtWork',
           notifier' = [notifier EXCEPT ![n] = x], x.pc # "idle" => x.msg \in Letters',
           queue' \subseteq Waiting', told' \in [Entries -> [Channels -> Nat]],
           \A e \in claimed' : e \in Logged /\ EntryKind(e) \in Routed
    PROVE  NoticeShape' /\ notifier'[n] = x /\ \A k \in Notifiers \ {n} : notifier'[k] = notifier[k]
<1>1. Logged \subseteq Logged' /\ (\A e \in Logged : EntryKind(e)' = EntryKind(e)) /\ Letters \subseteq Letters'
  BY LoggedStays DEF LogShape
<1>2. NoticesAtWork \subseteq NoticesAtWork'
  BY <1>1 DEF NoticesAtWork
<1>3. notifier \in [Notifiers -> NoticesAtWork']
  BY <1>2 DEF NoticeShape, NoticesAtWork
<1>4. notifier' \in [Notifiers -> NoticesAtWork'] /\ notifier'[n] = x /\ \A k \in Notifiers \ {n} : notifier'[k] = notifier[k]
  BY <1>3
<1>5. \A k \in Notifiers : notifier'[k].pc # "idle" => notifier'[k].msg \in Letters'
  BY <1>1, <1>4 DEF NoticeShape
<1>6. \A e \in claimed' : EntryKind(e)' \in Routed
  BY <1>1
<1> QED BY <1>4, <1>5, <1>6 DEF NoticeShape, NoticesAtWork

LEMMA NoticesKept ==
    ASSUME LogShape, MarkShape, NoticeShape, Grown, queue' \subseteq Waiting', UNCHANGED <<notifier, told, claimed>>
    PROVE  NoticeShape'
<1>1. Logged \subseteq Logged' /\ (\A e \in Logged : EntryKind(e)' = EntryKind(e)) /\ Letters \subseteq Letters'
  BY LoggedStays DEF LogShape
<1>2. NoticesAtWork \subseteq NoticesAtWork'
  BY <1>1 DEF NoticesAtWork
<1>3. notifier' \in [Notifiers -> NoticesAtWork']
  BY <1>2 DEF NoticeShape, NoticesAtWork
<1>5. \A k \in Notifiers : notifier'[k].pc # "idle" => notifier'[k].msg \in Letters'
  BY <1>1 DEF NoticeShape
<1>6. \A e \in claimed' : EntryKind(e)' \in Routed
  BY <1>1 DEF NoticeShape, MarkShape
<1> QED BY <1>3, <1>5, <1>6 DEF NoticeShape, NoticesAtWork

LEMMA Faulting == \A f : EventFault(f) => f \in EventFaults /\ (eventFaults \in 0..MaxEventFaults => eventFaults' \in 0..MaxEventFaults)
BY EventBoundsAssumption DEF EventFault

LEMMA Enqueued ==
    ASSUME NEW e \in Logged, EntryKind(e) \in Routed, Enqueue(e), queue \subseteq Waiting
    PROVE  /\ \E m \in Letters : m.of = e /\ queue' = queue \cup {m}
           /\ queue' \subseteq Waiting
<1>1. PICK k \in 0..MaxEventFaults : queue' = queue \cup {[of |-> e, copy |-> k, receives |-> 0]}
  BY DEF Enqueue
<1>2. [of |-> e, copy |-> k, receives |-> 0] \in Letters /\ [of |-> e, copy |-> k, receives |-> 0].of = e
      /\ [of |-> e, copy |-> k, receives |-> 0] \in Waiting
  BY EventBoundsAssumption DEF Letters, Waiting
<1> QED BY <1>1, <1>2

LEMMA ShapesStream ==
    ASSUME StreamShapes, NEW c \in Contracts, StreamStep(c)
    PROVE  StreamShapes' /\ Grown /\ Logged' = Logged /\ Letters' = Letters /\ Waiting' = Waiting
<1>0. LogShape /\ MarkShape /\ CounterShape /\ ShardShape /\ NoticeShape /\ FaultsBounded
  BY DEF StreamShapes
<1>1. /\ shard[c].at <= Len(log[c])
      /\ shard' \in [Contracts -> Shards] /\ AtRecord(shard'[c], Len(log[c]))
      /\ \A b \in Contracts \ {c} : shard'[b] = shard[b]
      /\ UNCHANGED <<onBoard, log, write, removal, claimed, notifier, told, changes>>
      /\ \/ aside' = aside
         \/ aside' = aside \cup {Entry(c)}
      /\ seen' \in {seen, seen \cup {Entry(c)}, seen \ {Entry(c)}}
      /\ queue' # queue => Record(c).kind \in Routed /\ Enqueue(Entry(c))
  BY <1>0, ShardMoves
<1>2. Entry(c) \in Logged /\ EntryKind(Entry(c)) = Record(c).kind /\ Record(c) \in LogRecords
  BY <1>0, <1>1, EntryLogged
<1>3. Grown /\ Logged' = Logged /\ Letters' = Letters /\ Waiting' = Waiting /\ LogShape' /\ \A e : EntryKind(e)' = EntryKind(e)
  BY <1>0, <1>1, Stays DEF LogShape, Logged, Letters, Waiting, EntryKind
<1>4. MarkShape'
  BY <1>0, <1>1, <1>2, <1>3 DEF MarkShape
<1>5. ShardShape'
  BY <1>0, <1>1 DEF ShardShape
<1>6. queue' \subseteq Waiting
  BY <1>0, <1>1, <1>2, Enqueued DEF NoticeShape
<1>7. NoticeShape'
  BY <1>0, <1>1, <1>3, <1>6, NoticesKept
<1>8. CounterShape' /\ FaultsBounded'
  <2>1. eventFaults' = eventFaults \/ \E f : EventFault(f)
    BY DEF StreamStep, Claim, Count, Release, Publish, RunRules, StreamKilled
  <2>2. FaultsBounded'
    BY <1>0, <1>1, <2>1, Faulting DEF FaultsBounded
  <2>3. counter' = counter \/ counter' = [counter EXCEPT ![Record(c).day] = @ + Weight[Record(c).kind]]
    BY DEF StreamStep, Claim, Count, Release, Publish, RunRules, StreamKilled
  <2>4. Weight[Record(c).kind] \in Int /\ Record(c).day \in Days
    BY <1>2, Weighs DEF LogRecords
  <2>5. counter' \in [Days -> Int]
    BY <1>0, <2>3, <2>4 DEF CounterShape
  <2> QED BY <1>0, <1>1, <2>2, <2>5 DEF CounterShape
<1> QED BY <1>3, <1>4, <1>5, <1>7, <1>8 DEF StreamShapes

LEMMA NoticeWorking ==
    ASSUME NoticeShape, NEW n \in Notifiers, notifier[n].pc # "idle"
    PROVE  /\ notifier[n] \in NoticesAtWork /\ Message(n) \in Letters /\ Message(n).of \in Logged
           /\ EntryKind(Message(n).of) \in Routed
BY DEF NoticeShape, NoticesAtWork, Message, Letters

LEMMA NoticeResting ==
    ASSUME LogShape, MarkShape, NoticeShape, Grown, NEW n \in Notifiers, MessageDone(n),
           queue' \subseteq Waiting', told' = told, claimed' \subseteq claimed
    PROVE  NoticeShape' /\ notifier'[n] = NoNotice /\ \A k \in Notifiers \ {n} : notifier'[k] = notifier[k]
<1>1. NoNotice \in NoticesAtWork' /\ NoNotice.pc = "idle"
  BY DEF NoticesAtWork, NoNotice
<1>2. notifier' = [notifier EXCEPT ![n] = NoNotice]
  BY DEF MessageDone
<1>3. \A e \in claimed' : e \in Logged /\ EntryKind(e) \in Routed
  BY DEF NoticeShape, MarkShape
<1> QED BY <1>1, <1>2, <1>3, NoticeAt DEF NoticeShape

(* A message that failed comes again or lies aside.                        *)
LEMMA FailedMessage ==
    ASSUME LogShape, MarkShape, NoticeShape, log' = log, NEW n \in Notifiers, notifier[n].pc # "idle",
           FailMessage(n), told' = told, claimed' \subseteq claimed
    PROVE  /\ NoticeShape' /\ aside' \subseteq Logged
           /\ notifier'[n] = NoNotice /\ \A k \in Notifiers \ {n} : notifier'[k] = notifier[k]
           /\ \/ queue' = queue \cup {Message(n)} /\ aside' = aside
              \/ queue' = queue /\ aside' = aside \cup {Message(n).of}
<1>1. Message(n) \in Letters /\ Message(n).of \in Logged
  BY NoticeWorking
<1>2. Grown /\ Letters' = Letters /\ Waiting' = Waiting
  BY Stays DEF LogShape, Letters, Waiting, Logged, EntryKind
<1>3. MessageDone(n)
      /\ (\/ queue' = queue \cup {Message(n)} /\ aside' = aside
          \/ queue' = queue /\ aside' = aside \cup {Message(n).of})
  BY DEF FailMessage
<1>5. queue' = queue \cup {Message(n)} => Message(n) \in Waiting
  BY <1>1 DEF FailMessage, Waiting, NoticeShape
<1>4. queue' \subseteq Waiting' /\ aside' \subseteq Logged
  BY <1>1, <1>2, <1>3, <1>5 DEF NoticeShape, MarkShape
<1> QED BY <1>2, <1>3, <1>4, NoticeResting

LEMMA Received ==
    ASSUME LogShape, MarkShape, NoticeShape, NEW n \in Notifiers, NEW m \in queue, Receive(n, m)
    PROVE  /\ NoticeShape'
           /\ notifier[n].pc = "idle"
           /\ \A k \in Notifiers \ {n} : notifier'[k] = notifier[k]
           /\ queue \ {m} \subseteq queue'
           /\ IF m.of[1] \in onBoard
              THEN /\ notifier'[n].pc = "claim" /\ notifier'[n].msg.of = m.of
                   /\ notifier'[n].left = Channels /\ notifier'[n].used = {}
              ELSE notifier'[n] = NoNotice
<1>1. m \in Letters /\ Grown /\ Letters' = Letters /\ Waiting' = Waiting /\ NoticesAtWork' = NoticesAtWork
  BY Stays DEF LogShape, Letters, Waiting, Logged, EntryKind, NoticeShape, Receive, NoticesAtWork
<1>2. m \in [of : Logged, copy : 0..MaxEventFaults, receives : 0..MaxAttempts] /\ EntryKind(m.of) \in Routed
  BY <1>1 DEF Letters
<1>3. m.receives + 1 \in 0..MaxAttempts
  <2>1. PICK r \in 0..MaxAttempts : m.receives = r
    BY <1>2
  <2>2. m.receives < MaxAttempts
    BY DEF NoticeShape, Waiting
  <2> QED BY <2>1, <2>2, EventBoundsAssumption
<1>4. queue' \subseteq Waiting' /\ queue \ {m} \subseteq queue'
  <2>1. CASE queue' = queue \ {m}
    BY <1>1, <2>1 DEF NoticeShape
  <2>2. ASSUME m.receives + 1 < MaxAttempts, NEW k \in 0..MaxEventFaults, queue' = (queue \ {m}) \cup {[m EXCEPT !.copy = k, !.receives = @ + 1]}
        PROVE  queue' \subseteq Waiting'
    <3>1. [m EXCEPT !.copy = k, !.receives = @ + 1] \in [of : Logged, copy : 0..MaxEventFaults, receives : 0..MaxAttempts]
          /\ [m EXCEPT !.copy = k, !.receives = @ + 1].of = m.of
      BY <1>2, <1>3
    <3>2. [m EXCEPT !.copy = k, !.receives = @ + 1] \in Waiting
      BY <1>2, <3>1, <2>2 DEF Letters, Waiting
    <3> QED BY <1>1, <2>2, <3>2 DEF NoticeShape
  <2> QED BY <2>1, <2>2 DEF Receive
<1> DEFINE y == [pc |-> "claim", msg |-> [m EXCEPT !.receives = m.receives + 1], left |-> Channels, used |-> {}]
<1>5. y \in NoticesAtWork' /\ y.msg \in Letters' /\ y.msg.of = m.of
  <2>1. [m EXCEPT !.receives = m.receives + 1] \in [of : Logged, copy : 0..MaxEventFaults, receives : 0..MaxAttempts]
        /\ [m EXCEPT !.receives = m.receives + 1].of = m.of
    BY <1>2, <1>3
  <2>2. [m EXCEPT !.receives = m.receives + 1] \in Letters
    BY <1>2, <2>1 DEF Letters
  <2> QED BY <1>1, <2>1, <2>2 DEF NoticesAtWork
<1>6. NoNotice \in NoticesAtWork' /\ NoNotice.pc = "idle"
  BY DEF NoticesAtWork, NoNotice
<1>7. /\ notifier[n].pc = "idle" /\ told' = told /\ claimed' = claimed
      /\ notifier' = [notifier EXCEPT ![n] = IF m.of[1] \in onBoard THEN y ELSE NoNotice]
  BY DEF Receive
<1>8. \A e \in claimed' : e \in Logged /\ EntryKind(e) \in Routed
  BY <1>7 DEF NoticeShape, MarkShape
<1>9. \E x \in NoticesAtWork' : /\ notifier' = [notifier EXCEPT ![n] = x] /\ (x.pc # "idle" => x.msg \in Letters')
                         /\ x = IF m.of[1] \in onBoard THEN y ELSE NoNotice
  BY <1>5, <1>6, <1>7
<1>10. PICK x \in NoticesAtWork' : /\ notifier' = [notifier EXCEPT ![n] = x] /\ (x.pc # "idle" => x.msg \in Letters')
                            /\ x = IF m.of[1] \in onBoard THEN y ELSE NoNotice
  BY <1>9
<1>11. NoticeShape' /\ notifier'[n] = x /\ \A k \in Notifiers \ {n} : notifier'[k] = notifier[k]
  BY <1>1, <1>4, <1>7, <1>8, <1>10, NoticeAt DEF NoticeShape
<1>12. m.of[1] \in onBoard => x.pc = "claim" /\ x.msg.of = m.of /\ x.left = Channels /\ x.used = {}
  BY <1>5, <1>10
<1> QED BY <1>4, <1>7, <1>10, <1>11, <1>12

LEMMA Claiming ==
    ASSUME LogShape, MarkShape, NoticeShape, NEW n \in Notifiers, ClaimNotice(n)
    PROVE  /\ NoticeShape' /\ aside' \subseteq Logged /\ claimed' \subseteq Logged
           /\ notifier[n].pc = "claim"
           /\ \A k \in Notifiers \ {n} : notifier'[k] = notifier[k]
           /\ \/ /\ Message(n).of \notin claimed /\ claimed' = claimed \cup {Message(n).of}
                 /\ notifier'[n].pc = "send" /\ notifier'[n].msg = notifier[n].msg
                 /\ notifier'[n].left = notifier[n].left /\ notifier'[n].used = notifier[n].used
                 /\ UNCHANGED <<queue, aside>>
              \/ /\ notifier'[n] = NoNotice /\ claimed' = claimed
                 /\ \/ Message(n).of \in claimed /\ UNCHANGED <<queue, aside>>
                    \/ queue' = queue \cup {Message(n)} /\ aside' = aside
                    \/ queue' = queue /\ aside' = aside \cup {Message(n).of}
<1>0. notifier[n].pc = "claim" /\ notifier[n].pc # "idle" /\ told' = told /\ log' = log
  BY DEF ClaimNotice
<1>1. notifier[n] \in NoticesAtWork /\ Message(n) \in Letters /\ Message(n).of \in Logged /\ EntryKind(Message(n).of) \in Routed
  BY <1>0, NoticeWorking
<1>2. Grown /\ Letters' = Letters /\ Waiting' = Waiting /\ NoticesAtWork' = NoticesAtWork
  BY <1>0, Stays DEF LogShape, Letters, Waiting, Logged, EntryKind, NoticesAtWork
<1>3. CASE /\ MayNotify(Message(n).of) /\ claimed' = claimed \cup {Message(n).of}
           /\ notifier' = [notifier EXCEPT ![n].pc = "send"] /\ UNCHANGED <<queue, aside>>
  <2> DEFINE y == [notifier[n] EXCEPT !.pc = "send"]
  <2>1. y \in NoticesAtWork' /\ y.pc = "send" /\ y.msg = notifier[n].msg /\ y.left = notifier[n].left /\ y.used = notifier[n].used
    BY <1>1, <1>2 DEF NoticesAtWork
  <2>2. notifier' = [notifier EXCEPT ![n] = y]
    BY <1>3
  <2>3. \A e \in claimed' : e \in Logged /\ EntryKind(e) \in Routed
    BY <1>1, <1>3 DEF NoticeShape, MarkShape
  <2>4. PICK x \in NoticesAtWork' : x = y
    BY <2>1
  <2>5. notifier' = [notifier EXCEPT ![n] = x] /\ x.msg \in Letters' /\ queue' \subseteq Waiting'
    BY <1>1, <1>2, <1>3, <2>1, <2>2, <2>4 DEF NoticeShape, Message
  <2>6. NoticeShape' /\ notifier'[n] = x /\ \A k \in Notifiers \ {n} : notifier'[k] = notifier[k]
    BY <1>0, <1>2, <2>3, <2>5, NoticeAt DEF NoticeShape
  <2>7. Message(n).of \notin claimed
    BY <1>3 DEF MayNotify
  <2>8. aside' \subseteq Logged /\ claimed' \subseteq Logged
    BY <1>3, <2>3 DEF MarkShape
  <2> QED BY <1>0, <1>3, <2>1, <2>4, <2>6, <2>7, <2>8
<1>4. CASE ~MayNotify(Message(n).of) /\ MessageDone(n) /\ UNCHANGED <<claimed, queue, aside>>
  <2>1. queue' \subseteq Waiting' /\ claimed' \subseteq claimed
    BY <1>2, <1>4 DEF NoticeShape
  <2>2. NoticeShape' /\ notifier'[n] = NoNotice /\ \A k \in Notifiers \ {n} : notifier'[k] = notifier[k]
    BY <1>0, <1>2, <1>4, <2>1, NoticeResting
  <2>3. Message(n).of \in claimed
    BY <1>4 DEF MayNotify
  <2> QED BY <1>0, <1>4, <2>2, <2>3 DEF MarkShape
<1>5. CASE FailMessage(n) /\ UNCHANGED claimed
  BY <1>0, <1>5, FailedMessage DEF MarkShape
<1> QED BY <1>3, <1>4, <1>5 DEF ClaimNotice

LEMMA Sending ==
    ASSUME LogShape, MarkShape, NoticeShape, NEW n \in Notifiers, NEW ch \in Channels, Send(n, ch),
           \A e \in Logged : e \in Entries
    PROVE  /\ NoticeShape'
           /\ notifier[n].pc = "send" /\ ch \in notifier[n].left
           /\ \A k \in Notifiers \ {n} : notifier'[k] = notifier[k]
           /\ notifier'[n].msg = notifier[n].msg /\ notifier'[n].left = notifier[n].left \ {ch}
           /\ \/ /\ notifier'[n].used = notifier[n].used \cup {ch}
                 /\ told' = [told EXCEPT ![Message(n).of][ch] = @ + 1]
              \/ notifier'[n].used = notifier[n].used /\ told' = told
           /\ notifier'[n].pc = IF notifier'[n].left # {} THEN "send"
                                ELSE IF notifier'[n].used = {} THEN "release" ELSE "record"
<1>0. notifier[n].pc = "send" /\ notifier[n].pc # "idle" /\ claimed' = claimed /\ log' = log /\ queue' = queue
      /\ ch \in notifier[n].left
  BY DEF Send
<1>1. notifier[n] \in NoticesAtWork /\ Message(n) \in Letters /\ Message(n).of \in Logged /\ EntryKind(Message(n).of) \in Routed
  BY <1>0, NoticeWorking
<1>2. Grown /\ Letters' = Letters /\ Waiting' = Waiting /\ NoticesAtWork' = NoticesAtWork
  BY <1>0, Stays DEF LogShape, Letters, Waiting, Logged, EntryKind, NoticesAtWork
<1>3. ASSUME NEW used, used \in {notifier[n].used \cup {ch}, notifier[n].used}, told' \in [Entries -> [Channels -> Nat]],
             NEW to, to = (IF notifier[n].left \ {ch} # {} THEN "send" ELSE IF used = {} THEN "release" ELSE "record"),
             notifier' = [notifier EXCEPT ![n] = [@ EXCEPT !.left = notifier[n].left \ {ch}, !.used = used, !.pc = to]]
      PROVE  /\ NoticeShape' /\ \A k \in Notifiers \ {n} : notifier'[k] = notifier[k]
             /\ notifier'[n].msg = notifier[n].msg /\ notifier'[n].left = notifier[n].left \ {ch}
             /\ notifier'[n].used = used /\ notifier'[n].pc = to
  <2> DEFINE y == [notifier[n] EXCEPT !.left = notifier[n].left \ {ch}, !.used = used, !.pc = to]
  <2>1. y \in NoticesAtWork /\ y.pc = to /\ y.msg = notifier[n].msg /\ y.left = notifier[n].left \ {ch} /\ y.used = used
    BY <1>1, <1>3 DEF NoticesAtWork
  <2>2. notifier' = [notifier EXCEPT ![n] = y]
    BY <1>3
  <2>4. PICK x \in NoticesAtWork' : x = y
    BY <1>2, <2>1
  <2>5. notifier' = [notifier EXCEPT ![n] = x] /\ x.msg \in Letters' /\ queue' \subseteq Waiting'
        /\ \A e \in claimed' : e \in Logged /\ EntryKind(e) \in Routed
    BY <1>0, <1>1, <1>2, <2>1, <2>2, <2>4 DEF NoticeShape, MarkShape, Message
  <2>6. NoticeShape' /\ notifier'[n] = x /\ \A k \in Notifiers \ {n} : notifier'[k] = notifier[k]
    BY <1>2, <1>3, <2>5, NoticeAt
  <2> QED BY <2>1, <2>4, <2>6
<1>4. [told EXCEPT ![Message(n).of][ch] = @ + 1] \in [Entries -> [Channels -> Nat]]
  <2>1. told \in [Entries -> [Channels -> Nat]] /\ Message(n).of \in Entries
    BY <1>1 DEF NoticeShape
  <2> QED BY <2>1
<1>5. told \in [Entries -> [Channels -> Nat]]
  BY DEF NoticeShape
<1> DEFINE Next(used) == IF notifier[n].left \ {ch} # {} THEN "send" ELSE IF used = {} THEN "release" ELSE "record"
           Went(used) == notifier' = [notifier EXCEPT ![n] = [@ EXCEPT !.left = notifier[n].left \ {ch}, !.used = used, !.pc = Next(used)]]
<1>6. \/ Went(notifier[n].used \cup {ch}) /\ told' = [told EXCEPT ![Message(n).of][ch] = @ + 1]
      \/ Went(notifier[n].used) /\ told' = told
  BY DEF Send
<1>7. CASE Went(notifier[n].used \cup {ch}) /\ told' = [told EXCEPT ![Message(n).of][ch] = @ + 1]
  <2>1. \E used, to : /\ used = notifier[n].used \cup {ch} /\ to = Next(used)
                      /\ notifier' = [notifier EXCEPT ![n] = [@ EXCEPT !.left = notifier[n].left \ {ch}, !.used = used, !.pc = to]]
    BY <1>7
  <2>2. PICK used, to : /\ used = notifier[n].used \cup {ch} /\ to = Next(used)
                      /\ notifier' = [notifier EXCEPT ![n] = [@ EXCEPT !.left = notifier[n].left \ {ch}, !.used = used, !.pc = to]]
    BY <2>1
  <2> QED BY <1>0, <1>3, <1>4, <1>7, <2>2
<1>8. CASE Went(notifier[n].used) /\ told' = told
  <2>1. \E used, to : /\ used = notifier[n].used /\ to = Next(used)
                      /\ notifier' = [notifier EXCEPT ![n] = [@ EXCEPT !.left = notifier[n].left \ {ch}, !.used = used, !.pc = to]]
    BY <1>8
  <2>2. PICK used, to : /\ used = notifier[n].used /\ to = Next(used)
                      /\ notifier' = [notifier EXCEPT ![n] = [@ EXCEPT !.left = notifier[n].left \ {ch}, !.used = used, !.pc = to]]
    BY <2>1
  <2> QED BY <1>0, <1>3, <1>5, <1>8, <2>2
<1> QED BY <1>6, <1>7, <1>8

LEMMA CountsAreNat ==
    ASSUME log \in [Contracts -> Seq(LogRecords)], NEW c \in Contracts, NEW d
    PROVE  Counts(c, d) \in Nat
<1> DEFINE I == {i \in 1..Len(log[c]) : log[c][i].day = d /\ Weight[log[c][i].kind] > 0}
<1>1. Len(log[c]) \in Nat
  OBVIOUS
<1>2. IsFiniteSet(1..Len(log[c])) /\ I \in SUBSET (1..Len(log[c]))
  BY <1>1, FS_Interval
<1>3. IsFiniteSet(I)
  BY <1>2, FS_Subset
<1>4. Cardinality(I) \in Nat
  BY <1>3, FS_CardinalityType
<1> QED BY <1>4 DEF Counts

(* The people: a change, its entry, and a removal.                         *)
LEMMA ShapesWrite ==
    ASSUME StreamShapes, NEW w \in Writers, WriteEntry(w)
    PROVE  /\ StreamShapes' /\ Grown
           /\ write[w] # Nobody /\ write[w].of \in Contracts /\ write' = [write EXCEPT ![w] = Nobody]
           /\ \/ log' = [log EXCEPT ![write[w].of] = Append(@, write[w].entry)]
              \/ log' = log /\ "append" \in EventFaults
           /\ write[w].entry \in LogRecords /\ write[w].entry.kind \in ChangeKinds
<1>0. LogShape /\ MarkShape /\ CounterShape /\ ShardShape /\ NoticeShape /\ FaultsBounded
  BY DEF StreamShapes
<1>1. /\ write[w] # Nobody /\ write' = [write EXCEPT ![w] = Nobody]
      /\ write[w] \in [of : Contracts, entry : [kind : ChangeKinds, day : Days]]
  BY <1>0 DEF WriteEntry, LogShape
<1>2. write[w].of \in Contracts /\ write[w].entry \in LogRecords /\ write[w].entry.kind \in ChangeKinds
  BY <1>1, KindsAre DEF LogRecords
<1>3. \/ log' = [log EXCEPT ![write[w].of] = Append(@, write[w].entry)]
      \/ log' = log /\ "append" \in EventFaults
  BY DEF WriteEntry, EventFault
<1>4. Grown
  BY <1>0, <1>2, <1>3, Appended, Stays DEF LogShape
<1>5. UNCHANGED <<onBoard, seen, counter, shard, removal, queue, claimed, notifier, told, aside, changes>>
  BY DEF WriteEntry, streamVars, noticeVars
<1>6. LogShape'
  BY <1>0, <1>1, <1>4, <1>5 DEF LogShape, Grown
<1>7. MarkShape' /\ ShardShape' /\ NoticeShape'
  <2>1. Logged \subseteq Logged' /\ Waiting \subseteq Waiting'
    BY <1>0, <1>4, LoggedStays DEF LogShape
  <2>2. MarkShape'
    BY <1>0, <1>5, <2>1 DEF MarkShape
  <2>3. queue' \subseteq Waiting'
    BY <1>0, <1>5, <2>1 DEF NoticeShape
  <2> QED BY <1>0, <1>4, <1>5, <2>2, <2>3, ShardsKept, NoticesKept
<1>8. CounterShape' /\ FaultsBounded'
  BY <1>0, <1>5, Faulting DEF CounterShape, FaultsBounded, WriteEntry
<1> QED BY <1>1, <1>2, <1>3, <1>4, <1>6, <1>7, <1>8 DEF StreamShapes

LEMMA LogStays ==
    ASSUME StreamShapes, log' = log, UNCHANGED <<seen, claimed, aside, shard, queue, notifier, told>>,
           onBoard' \subseteq onBoard,
           write' \in [Writers -> [of : Contracts, entry : [kind : ChangeKinds, day : Days]] \cup {Nobody}],
           CounterShape', FaultsBounded'
    PROVE  StreamShapes'
<1>0. LogShape /\ MarkShape /\ CounterShape /\ ShardShape /\ NoticeShape /\ FaultsBounded
  BY DEF StreamShapes
<1>1. LogShape' /\ MarkShape' /\ ShardShape'
  BY <1>0 DEF LogShape, MarkShape, ShardShape, Logged
<1>2. Grown /\ Waiting' = Waiting
  BY <1>0, Stays DEF LogShape, Waiting, Letters, Logged, EntryKind
<1>3. queue' \subseteq Waiting'
  BY <1>0, <1>2 DEF NoticeShape
<1>4. NoticeShape'
  BY <1>0, <1>2, <1>3, NoticesKept
<1> QED BY <1>1, <1>4 DEF StreamShapes

LEMMA ShapesChange ==
    ASSUME StreamShapes, NEW w \in Writers, NEW c \in Contracts, NEW kind \in ChangeKinds, NEW d \in Days,
           Change(w, c, kind, d)
    PROVE  StreamShapes' /\ write[w] = Nobody /\ changes' = changes + 1
           /\ write' = [write EXCEPT ![w] = [of |-> c, entry |-> [kind |-> kind, day |-> d]]]
<1>0. LogShape /\ CounterShape /\ FaultsBounded
  BY DEF StreamShapes
<1>1. /\ write[w] = Nobody /\ changes' = changes + 1 /\ changes < MaxChanges
      /\ write' = [write EXCEPT ![w] = [of |-> c, entry |-> [kind |-> kind, day |-> d]]]
      /\ UNCHANGED <<onBoard, log, seen, counter, shard, removal, queue, claimed, notifier, told, aside>>
      /\ (eventFaults' = eventFaults \/ EventFault("race"))
  BY DEF Change, streamVars, noticeVars
<1>2. [of |-> c, entry |-> [kind |-> kind, day |-> d]] \in [of : Contracts, entry : [kind : ChangeKinds, day : Days]]
  OBVIOUS
<1>3. write' \in [Writers -> [of : Contracts, entry : [kind : ChangeKinds, day : Days]] \cup {Nobody}]
  BY <1>0, <1>1, <1>2 DEF LogShape
<1>4. CounterShape'
  BY <1>0, <1>1 DEF CounterShape
<1>5. changes' \in 0..MaxChanges
  BY <1>0, <1>1, EventBoundsAssumption DEF FaultsBounded
<1>6. FaultsBounded'
  BY <1>0, <1>1, <1>5, Faulting DEF FaultsBounded
<1> QED BY <1>1, <1>3, <1>4, <1>6, LogStays

LEMMA ShapesRemove ==
    ASSUME StreamShapes, NEW r \in Removers, NEW c \in Contracts, Remove(r, c)
    PROVE  StreamShapes'
<1>0. LogShape /\ CounterShape /\ FaultsBounded
  BY DEF StreamShapes
<1> DEFINE sum == [d \in Days |-> Counts(c, d)]
           y == [pc |-> "forget", of |-> c, sum |-> sum, left |-> {d \in Days : sum[d] > 0}]
<1>1. /\ UNCHANGED <<onBoard, log, write, seen, counter, shard, queue, claimed, notifier, told, aside, eventFaults, changes>>
      /\ removal' = [removal EXCEPT ![r] = y]
  BY DEF Remove, streamVars, noticeVars
<1>2. sum \in [Days -> Nat]
  BY <1>0, CountsAreNat DEF LogShape
<1>3. y \in Removals
  BY <1>2 DEF Removals
<1>4. CounterShape'
  BY <1>0, <1>1, <1>3 DEF CounterShape
<1>5. write' \in [Writers -> [of : Contracts, entry : [kind : ChangeKinds, day : Days]] \cup {Nobody}] /\ FaultsBounded'
  BY <1>0, <1>1 DEF LogShape, FaultsBounded
<1> QED BY <1>1, <1>4, <1>5, LogStays

LEMMA NoRemovalIs == NoRemoval \in Removals
BY DEF NoRemoval, Removals

LEMMA ShapesForget ==
    ASSUME StreamShapes, NEW r \in Removers, NEW d \in Days, ForgetDay(r, d)
    PROVE  StreamShapes'
<1>0. LogShape /\ CounterShape /\ FaultsBounded
  BY DEF StreamShapes
<1>1. /\ UNCHANGED <<onBoard, log, write, seen, shard, queue, claimed, notifier, told, aside, changes>>
      /\ (eventFaults' = eventFaults \/ EventFault("stop"))
      /\ counter' = [counter EXCEPT ![d] = @ - removal[r].sum[d]]
      /\ (removal' = [removal EXCEPT ![r].left = @ \ {d}] \/ removal' = [removal EXCEPT ![r] = NoRemoval])
  BY DEF ForgetDay, noticeVars
<1>2. removal[r] \in Removals /\ removal[r].sum[d] \in Nat
  BY <1>0 DEF CounterShape, Removals
<1>3. counter' \in [Days -> Int]
  BY <1>0, <1>1, <1>2 DEF CounterShape
<1>4. removal' \in [Removers -> Removals]
  <2>1. CASE removal' = [removal EXCEPT ![r].left = @ \ {d}]
    BY <1>0, <1>2, <2>1 DEF CounterShape, Removals
  <2>2. CASE removal' = [removal EXCEPT ![r] = NoRemoval]
    BY <1>0, <2>2, NoRemovalIs DEF CounterShape
  <2> QED BY <1>1, <2>1, <2>2
<1>5. write' \in [Writers -> [of : Contracts, entry : [kind : ChangeKinds, day : Days]] \cup {Nobody}] /\ FaultsBounded'
  BY <1>0, <1>1, Faulting DEF LogShape, FaultsBounded
<1>6. CounterShape'
  BY <1>3, <1>4 DEF CounterShape
<1> QED BY <1>1, <1>5, <1>6, LogStays

LEMMA ShapesDelete ==
    ASSUME StreamShapes, NEW r \in Removers, DeleteContract(r)
    PROVE  StreamShapes'
<1>0. LogShape /\ CounterShape /\ FaultsBounded
  BY DEF StreamShapes
<1>1. /\ UNCHANGED <<log, write, seen, counter, shard, queue, claimed, notifier, told, aside, eventFaults, changes>>
      /\ onBoard' \subseteq onBoard
      /\ removal' = [removal EXCEPT ![r] = NoRemoval]
  BY DEF DeleteContract, streamVars, noticeVars
<1>2. CounterShape'
  BY <1>0, <1>1, NoRemovalIs DEF CounterShape
<1>3. write' \in [Writers -> [of : Contracts, entry : [kind : ChangeKinds, day : Days]] \cup {Nobody}] /\ FaultsBounded'
  BY <1>0, <1>1 DEF LogShape, FaultsBounded
<1> QED BY <1>1, <1>2, <1>3, LogStays

LEMMA NotedIs ==
    ASSUME StreamShapes, NEW n \in Notifiers, RecordNotice(n)
    PROVE  /\ StreamShapes' /\ Grown
           /\ notifier[n].pc = "record" /\ notifier'[n] = NoNotice
           /\ \A k \in Notifiers \ {n} : notifier'[k] = notifier[k]
           /\ UNCHANGED <<onBoard, write, seen, counter, shard, removal, queue, claimed, told, aside, changes>>
           /\ \/ log' = log
              \/ \E c \in Contracts, x \in LogRecords :
                    log' = [log EXCEPT ![c] = Append(@, x)] /\ x.kind = "notification_sent"
<1>0. LogShape /\ MarkShape /\ CounterShape /\ ShardShape /\ NoticeShape /\ FaultsBounded
  BY DEF StreamShapes
<1>1. /\ notifier[n].pc = "record" /\ MessageDone(n)
      /\ UNCHANGED <<onBoard, write, seen, counter, shard, removal, queue, claimed, told, aside, changes>>
      /\ (eventFaults' = eventFaults \/ EventFault("append"))
  BY DEF RecordNotice, streamVars
<1> DEFINE e == Message(n).of
           x == [log[e[1]][e[2]] EXCEPT !.kind = "notification_sent"]
<1>2. e \in Logged
  BY <1>0, <1>1, NoticeWorking
<1>3. e[1] \in Contracts /\ log[e[1]] \in Seq(LogRecords) /\ e[2] \in 1..Len(log[e[1]])
  BY <1>0, <1>2 DEF Logged, LogShape
<1>4. x \in LogRecords /\ x.kind = "notification_sent"
  <2>1. PICK z \in LogRecords : z = log[e[1]][e[2]]
    BY <1>3
  <2>2. [z EXCEPT !.kind = "notification_sent"] \in LogRecords
        /\ [z EXCEPT !.kind = "notification_sent"].kind = "notification_sent"
    BY KindsAre DEF LogRecords
  <2> QED BY <2>1, <2>2
<1>5. log' = [log EXCEPT ![e[1]] = Append(@, x)] \/ log' = log
  <2>1. log' = [log EXCEPT ![e[1]] = Append(@, [@[e[2]] EXCEPT !.kind = "notification_sent"])] \/ log' = log
    BY DEF RecordNotice
  <2> QED BY <1>0, <1>3, <2>1 DEF LogShape
<1>6. \E c \in Contracts, z \in LogRecords : z.kind = "notification_sent" /\ (log' = [log EXCEPT ![c] = Append(@, z)] \/ log' = log)
  BY <1>3, <1>4, <1>5
<1>7. PICK c \in Contracts, z \in LogRecords : z.kind = "notification_sent" /\ (log' = [log EXCEPT ![c] = Append(@, z)] \/ log' = log)
  BY <1>6
<1>8. Grown
  BY <1>0, <1>7, Appended, Stays DEF LogShape
<1>9. Logged \subseteq Logged' /\ Waiting \subseteq Waiting'
  BY <1>0, <1>8, LoggedStays DEF LogShape
<1>10. LogShape' /\ MarkShape' /\ CounterShape' /\ ShardShape' /\ FaultsBounded'
  BY <1>0, <1>1, <1>8, <1>9, ShardsKept, Faulting DEF LogShape, Grown, MarkShape, CounterShape, FaultsBounded
<1>11. queue' \subseteq Waiting' /\ claimed' \subseteq claimed
  BY <1>0, <1>1, <1>9 DEF NoticeShape
<1>12. NoticeShape' /\ notifier'[n] = NoNotice /\ \A k \in Notifiers \ {n} : notifier'[k] = notifier[k]
  BY <1>0, <1>1, <1>8, <1>11, NoticeResting
<1> QED BY <1>1, <1>7, <1>8, <1>10, <1>12 DEF StreamShapes

LEMMA NoticeStays ==
    ASSUME StreamShapes, UNCHANGED <<onBoard, log, write, seen, counter, shard, removal, changes>>,
           aside' \subseteq Logged, claimed' \subseteq Logged, NoticeShape',
           eventFaults' = eventFaults \/ \E f : EventFault(f)
    PROVE  StreamShapes'
<1>0. LogShape /\ MarkShape /\ CounterShape /\ ShardShape /\ NoticeShape /\ FaultsBounded
  BY DEF StreamShapes
<1>1. LogShape' /\ MarkShape' /\ ShardShape' /\ CounterShape'
  BY <1>0 DEF LogShape, MarkShape, ShardShape, CounterShape, Logged
<1>2. FaultsBounded'
  BY <1>0, Faulting DEF FaultsBounded
<1> QED BY <1>1, <1>2 DEF StreamShapes

(* A message is given up by a notifier that failed or was killed.          *)
LEMMA GivenUp ==
    ASSUME StreamShapes, NEW n \in Notifiers, ReleaseNotice(n) \/ NotifierKilled(n)
    PROVE  /\ StreamShapes' /\ notifier[n].pc # "idle" /\ notifier'[n] = NoNotice
           /\ \A k \in Notifiers \ {n} : notifier'[k] = notifier[k]
           /\ UNCHANGED <<onBoard, log, write, seen, counter, shard, removal, told, changes>>
           /\ \/ queue' = queue \cup {Message(n)} /\ aside' = aside
              \/ queue' = queue /\ aside' = aside \cup {Message(n).of}
           /\ \/ notifier[n].pc = "release" /\ claimed' = claimed \ {Message(n).of}
              \/ notifier[n].pc = "release" /\ claimed' = claimed /\ "undo" \in EventFaults
              \/ notifier[n].pc \in {"send", "release"} /\ claimed' = claimed /\ "killed_notifying" \in EventFaults
              \/ notifier[n].pc \in {"claim", "record"} /\ claimed' = claimed
<1>0. LogShape /\ MarkShape /\ CounterShape /\ ShardShape /\ NoticeShape /\ FaultsBounded
  BY DEF StreamShapes
<1>1. CASE ReleaseNotice(n)
  <2>1. /\ notifier[n].pc = "release" /\ FailMessage(n)
        /\ UNCHANGED <<onBoard, log, write, seen, counter, shard, removal, told, changes>>
        /\ eventFaults' = eventFaults \/ \E f : EventFault(f)
        /\ \/ claimed' = claimed \ {Message(n).of}
           \/ claimed' = claimed /\ "undo" \in EventFaults
    BY <1>1 DEF ReleaseNotice, streamVars, ClaimsAfterFailure, EventFault
  <2>2. claimed' \subseteq claimed
    BY <2>1
  <2>3. /\ NoticeShape' /\ aside' \subseteq Logged
        /\ notifier'[n] = NoNotice /\ \A k \in Notifiers \ {n} : notifier'[k] = notifier[k]
        /\ \/ queue' = queue \cup {Message(n)} /\ aside' = aside
           \/ queue' = queue /\ aside' = aside \cup {Message(n).of}
    BY <1>0, <2>1, <2>2, FailedMessage
  <2>4. StreamShapes'
    BY <1>0, <2>1, <2>2, <2>3, NoticeStays DEF MarkShape
  <2> QED BY <2>1, <2>3, <2>4
<1>2. CASE NotifierKilled(n)
  <2>1. /\ notifier[n].pc # "idle" /\ FailMessage(n) /\ claimed' = claimed
        /\ UNCHANGED <<onBoard, log, write, seen, counter, shard, removal, told, changes>>
        /\ \E f : EventFault(f)
        /\ notifier[n].pc \in {"send", "release"} => "killed_notifying" \in EventFaults
    BY <1>2 DEF NotifierKilled, streamVars, EventFault
  <2>3. /\ NoticeShape' /\ aside' \subseteq Logged
        /\ notifier'[n] = NoNotice /\ \A k \in Notifiers \ {n} : notifier'[k] = notifier[k]
        /\ \/ queue' = queue \cup {Message(n)} /\ aside' = aside
           \/ queue' = queue /\ aside' = aside \cup {Message(n).of}
    BY <1>0, <2>1, FailedMessage
  <2>4. StreamShapes'
    BY <1>0, <2>1, <2>3, NoticeStays DEF MarkShape
  <2>5. notifier[n].pc \in {"send", "release", "claim", "record"}
    BY <1>0, <2>1 DEF NoticeShape
  <2> QED BY <2>1, <2>3, <2>4, <2>5
<1> QED BY <1>1, <1>2

LEMMA ShapesNotifier ==
    ASSUME StreamShapes, Logged \subseteq Entries, NEW n \in Notifiers, NotifierStep(n)
    PROVE  /\ StreamShapes' /\ Grown
           /\ UNCHANGED <<onBoard, write, seen, counter, shard, removal, changes>>
<1>0. LogShape /\ MarkShape /\ CounterShape /\ ShardShape /\ NoticeShape /\ FaultsBounded
  BY DEF StreamShapes
<1>1. CASE \E m \in queue : Receive(n, m)
  <2>1. PICK m \in queue : Receive(n, m)
    BY <1>1
  <2>2. NoticeShape'
    BY <1>0, <2>1, Received
  <2>3. /\ UNCHANGED <<onBoard, log, write, seen, counter, shard, removal, claimed, aside, changes>>
        /\ eventFaults' = eventFaults \/ \E f : EventFault(f)
    BY <2>1 DEF Receive, streamVars
  <2> QED BY <1>0, <2>2, <2>3, NoticeStays, Stays DEF MarkShape, LogShape
<1>2. CASE ClaimNotice(n)
  <2>1. NoticeShape' /\ aside' \subseteq Logged /\ claimed' \subseteq Logged
    BY <1>0, <1>2, Claiming
  <2>2. /\ UNCHANGED <<onBoard, log, write, seen, counter, shard, removal, changes>>
        /\ eventFaults' = eventFaults \/ \E f : EventFault(f)
    BY <1>2 DEF ClaimNotice, streamVars
  <2> QED BY <1>0, <2>1, <2>2, NoticeStays, Stays DEF LogShape
<1>3. CASE ReleaseNotice(n) \/ NotifierKilled(n)
  BY <1>0, <1>3, GivenUp, Stays DEF LogShape
<1>4. CASE RecordNotice(n)
  BY <1>4, NotedIs
<1>5. CASE \E ch \in Channels : Send(n, ch)
  <2>1. PICK ch \in Channels : Send(n, ch)
    BY <1>5
  <2>2. NoticeShape'
    BY <1>0, <2>1, Sending
  <2>3. /\ UNCHANGED <<onBoard, log, write, seen, counter, shard, removal, claimed, aside, changes>>
        /\ eventFaults' = eventFaults \/ \E f : EventFault(f)
    BY <2>1 DEF Send, streamVars
  <2> QED BY <1>0, <2>2, <2>3, NoticeStays, Stays DEF MarkShape, LogShape
<1> QED BY <1>1, <1>2, <1>3, <1>4, <1>5 DEF NotifierStep

(* What there is in the log: the changes that were made, and a notice at   *)
(* most for each entry that was claimed.                                   *)
Own        == {e \in Logged : EntryKind(e) # "notification_sent"}
Notes      == {e \in Logged : EntryKind(e) = "notification_sent"}
Storing    == {w \in Writers : write[w] # Nobody}
Announcing == {n \in Notifiers : notifier[n].pc \in {"send", "release", "record"}}

OwnFew   == IsFiniteSet(Own) /\ IsFiniteSet(Storing) /\ Cardinality(Own) + Cardinality(Storing) <= changes
NotesFew == /\ IsFiniteSet(Notes) /\ IsFiniteSet(Announcing) /\ IsFiniteSet(claimed)
            /\ Cardinality(Notes) + Cardinality(Announcing) <= Cardinality(claimed)
Few == OwnFew /\ NotesFew

LEMMA LogIsBounded ==
    ASSUME StreamShapes, Few
    PROVE  Logged \subseteq Entries /\ IsFiniteSet(Logged)
<1>1. /\ Cardinality(Own) \in Nat /\ Cardinality(Storing) \in Nat /\ Cardinality(Notes) \in Nat
      /\ Cardinality(Announcing) \in Nat /\ Cardinality(claimed) \in Nat
  BY FS_CardinalityType DEF Few, OwnFew, NotesFew
<1>2. claimed \in SUBSET Own
  BY KindsAre DEF StreamShapes, MarkShape, NoticeShape, Own
<1>3. Cardinality(claimed) <= Cardinality(Own)
  BY <1>2, FS_Subset DEF Few, OwnFew
<1>4. Logged = Own \cup Notes /\ Own \cap Notes = {}
  BY DEF Own, Notes
<1>5. IsFiniteSet(Logged) /\ Cardinality(Logged) = Cardinality(Own) + Cardinality(Notes)
  <2>1. IsFiniteSet(Own \cup Notes)
        /\ Cardinality(Own \cup Notes) = Cardinality(Own) + Cardinality(Notes) - Cardinality(Own \cap Notes)
    BY FS_Union DEF Few, OwnFew, NotesFew
  <2>2. Cardinality(Own \cap Notes) = 0
    BY <1>4, FS_EmptySet
  <2> QED BY <1>1, <1>4, <2>1, <2>2
<1>6. Cardinality(Logged) <= 2 * MaxChanges
  <2>1. changes \in Nat /\ changes <= MaxChanges
    BY EventBoundsAssumption DEF StreamShapes, FaultsBounded
  <2> QED BY <1>1, <1>3, <1>5, <2>1, EventBoundsAssumption DEF Few, OwnFew, NotesFew
<1>7. ASSUME NEW e \in Logged PROVE e \in Entries
  <2>1. PICK c \in Contracts, i \in Nat \ {0} : e = <<c, i>>
    BY DEF Logged
  <2>2. i <= Len(log[c]) /\ Len(log[c]) \in Nat
    BY <2>1 DEF Logged, StreamShapes, LogShape
  <2> DEFINE f == [j \in 1..i |-> <<c, j>>]
  <2>3. ASSUME NEW j \in 1..i PROVE <<c, j>> \in Logged
    <3>1. j \in Nat \ {0} /\ j <= Len(log[c])
      BY <2>2
    <3> QED BY <3>1 DEF Logged
  <2>4. f \in Injection(1..i, Logged)
    BY <2>3 DEF Injection, IsInjective
  <2>5. Cardinality(1..i) <= Cardinality(Logged)
    BY <1>5, <2>4, FS_Injection
  <2>6. Cardinality(1..i) = i
    <3>1. 1 \in Int /\ i \in Int /\ ~(1 > i)
      OBVIOUS
    <3>2. Cardinality(1..i) = i - 1 + 1
      BY <3>1, FS_Interval
    <3> QED BY <3>2
  <2>7. Cardinality(Logged) \in Nat
    BY <1>5, FS_CardinalityType
  <2>8. i \in 1..2 * MaxChanges
    BY <1>6, <2>5, <2>6, <2>7, EventBoundsAssumption
  <2> QED BY <2>1, <2>8 DEF Entries
<1> QED BY <1>5, <1>7

LEMMA SameLog == log' = log => Logged' = Logged /\ Own' = Own /\ Notes' = Notes
BY DEF Logged, Own, Notes, EntryKind

LEMMA OneMore ==
    ASSUME NEW S, IsFiniteSet(S), NEW x, NEW T, T = S \cup {x}
    PROVE  /\ IsFiniteSet(T) /\ Cardinality(T) \in Nat /\ Cardinality(S) \in Nat
           /\ Cardinality(T) <= Cardinality(S) + 1
           /\ x \notin S => Cardinality(T) = Cardinality(S) + 1
<1>1. IsFiniteSet(T) /\ Cardinality(T) = IF x \in S THEN Cardinality(S) ELSE Cardinality(S) + 1
  BY FS_AddElement
<1>2. Cardinality(S) \in Nat /\ Cardinality(T) \in Nat
  BY <1>1, FS_CardinalityType
<1> QED BY <1>1, <1>2

LEMMA OneLess ==
    ASSUME NEW S, IsFiniteSet(S), NEW x, NEW T, T = S \ {x}
    PROVE  /\ IsFiniteSet(T) /\ Cardinality(T) \in Nat /\ Cardinality(S) \in Nat
           /\ Cardinality(T) >= Cardinality(S) - 1
           /\ x \in S => Cardinality(T) = Cardinality(S) - 1
<1>1. IsFiniteSet(T) /\ Cardinality(T) = IF x \in S THEN Cardinality(S) - 1 ELSE Cardinality(S)
  BY FS_RemoveElement
<1>2. Cardinality(S) \in Nat /\ Cardinality(T) \in Nat
  BY <1>1, FS_CardinalityType
<1> QED BY <1>1, <1>2

LEMMA OneEntryMore ==
    ASSUME log \in [Contracts -> Seq(LogRecords)], NEW c \in Contracts, NEW x \in LogRecords,
           log' = [log EXCEPT ![c] = Append(@, x)]
    PROVE  /\ x.kind # "notification_sent" => Own' = Own \cup {<<c, Len(log[c]) + 1>>} /\ Notes' = Notes
           /\ x.kind = "notification_sent" => Notes' = Notes \cup {<<c, Len(log[c]) + 1>>} /\ Own' = Own
<1>0. /\ Grown
      /\ Logged' = Logged \cup {<<c, Len(log[c]) + 1>>}
      /\ <<c, Len(log[c]) + 1>> \notin Logged
      /\ \A e : e = <<c, Len(log[c]) + 1>> => EntryKind(e)' = x.kind
  BY Appended
<1>1. PICK e : e = <<c, Len(log[c]) + 1>>
  OBVIOUS
<1>2. Grown /\ Logged' = Logged \cup {e} /\ e \notin Logged /\ EntryKind(e)' = x.kind
  BY <1>0, <1>1
<1>3. \A b \in Logged : EntryKind(b)' = EntryKind(b)
  BY <1>2, LoggedStays
<1> QED BY <1>1, <1>2, <1>3 DEF Own, Notes

LEMMA OwnFewStays ==
    ASSUME Few, changes' = changes, Own' = Own, Storing' = Storing
    PROVE  OwnFew'
BY DEF Few, OwnFew

LEMMA NotesFewStays ==
    ASSUME Few, claimed' = claimed, Notes' = Notes, Announcing' \subseteq Announcing
    PROVE  NotesFew'
<1>1. /\ IsFiniteSet(Announcing') /\ Cardinality(Announcing') <= Cardinality(Announcing)
      /\ Cardinality(Announcing') \in Nat
  BY FS_Subset, FS_CardinalityType DEF Few, NotesFew
<1>2. Cardinality(Announcing) \in Nat /\ Cardinality(Notes) \in Nat /\ Cardinality(claimed) \in Nat
  BY FS_CardinalityType DEF Few, NotesFew
<1> QED BY <1>1, <1>2 DEF Few, NotesFew

LEMMA OneAnnouncing ==
    ASSUME StreamShapes, NEW n \in Notifiers, StreamShapes',
           \A k \in Notifiers \ {n} : notifier'[k] = notifier[k]
    PROVE  /\ notifier'[n].pc \in {"idle", "claim"} => Announcing' = Announcing \ {n}
           /\ notifier'[n].pc \in {"send", "release", "record"} => Announcing' = Announcing \cup {n}
BY DEF Announcing

LEMMA FewWrite ==
    ASSUME StreamShapes, Few, NEW w \in Writers, WriteEntry(w)
    PROVE  Few'
<1>0. LogShape /\ FaultsBounded
  BY DEF StreamShapes
<1>1. /\ write[w] # Nobody /\ write[w].of \in Contracts /\ write' = [write EXCEPT ![w] = Nobody]
      /\ \/ log' = [log EXCEPT ![write[w].of] = Append(@, write[w].entry)]
         \/ log' = log
      /\ write[w].entry \in LogRecords /\ write[w].entry.kind \in ChangeKinds
      /\ UNCHANGED <<claimed, notifier, changes>>
  <2>1. UNCHANGED <<claimed, notifier, changes>>
    BY DEF WriteEntry, noticeVars
  <2> QED BY <2>1, ShapesWrite
<1>2. \/ \E e : Own' = Own \cup {e}
      \/ Own' = Own
  BY <1>0, <1>1, KindsAre, SameLog, OneEntryMore DEF LogShape
<1>3. Notes' = Notes /\ Announcing' = Announcing
  BY <1>0, <1>1, KindsAre, SameLog, OneEntryMore DEF LogShape, Announcing
<1>4. Storing' = Storing \ {w} /\ w \in Storing
  BY <1>0, <1>1 DEF Storing, LogShape
<1>5. /\ IsFiniteSet(Own) /\ IsFiniteSet(Storing) /\ Cardinality(Own) \in Nat /\ Cardinality(Storing) \in Nat
      /\ IsFiniteSet(Storing') /\ Cardinality(Storing') = Cardinality(Storing) - 1
      /\ Cardinality(Own) + Cardinality(Storing) <= changes
  <2>1. IsFiniteSet(Storing) /\ IsFiniteSet(Own) /\ Cardinality(Own) \in Nat
        /\ Cardinality(Own) + Cardinality(Storing) <= changes
    BY FS_CardinalityType DEF Few, OwnFew
  <2> QED BY <1>4, <2>1, OneLess
<1>6. IsFiniteSet(Own') /\ Cardinality(Own') \in Nat /\ Cardinality(Own') <= Cardinality(Own) + 1
  <2>1. CASE Own' = Own
    BY <1>5, <2>1
  <2>2. ASSUME NEW e, Own' = Own \cup {e}
        PROVE  IsFiniteSet(Own') /\ Cardinality(Own') \in Nat /\ Cardinality(Own') <= Cardinality(Own) + 1
    BY <1>5, <2>2, OneMore
  <2> QED BY <1>2, <2>1, <2>2
<1>7. changes' = changes /\ changes \in Nat
  BY <1>0, <1>1, EventBoundsAssumption DEF FaultsBounded
<1>8. OwnFew'
  BY <1>5, <1>6, <1>7 DEF OwnFew
<1> QED BY <1>1, <1>3, <1>8, NotesFewStays DEF Few

LEMMA FewChange ==
    ASSUME StreamShapes, Few, NEW w \in Writers, NEW c \in Contracts, NEW kind \in ChangeKinds, NEW d \in Days,
           Change(w, c, kind, d)
    PROVE  Few'
<1>0. LogShape /\ FaultsBounded
  BY DEF StreamShapes
<1>1. /\ write[w] = Nobody /\ changes' = changes + 1
      /\ write' = [write EXCEPT ![w] = [of |-> c, entry |-> [kind |-> kind, day |-> d]]]
      /\ UNCHANGED <<log, claimed, notifier>>
  <2>1. UNCHANGED <<log, claimed, notifier>>
    BY DEF Change, noticeVars
  <2> QED BY <2>1, ShapesChange
<1>2. Own' = Own /\ Notes' = Notes /\ Announcing' = Announcing
  BY <1>1, SameLog DEF Announcing
<1>3. Storing' = Storing \cup {w} \/ Storing' = Storing
  BY <1>0, <1>1 DEF Storing, LogShape
<1>4. IsFiniteSet(Storing') /\ Cardinality(Storing') \in Nat /\ Cardinality(Storing') <= Cardinality(Storing) + 1
      /\ Cardinality(Storing) \in Nat /\ Cardinality(Own) \in Nat
  <2>1. IsFiniteSet(Storing) /\ IsFiniteSet(Own) /\ Cardinality(Own) \in Nat /\ Cardinality(Storing) \in Nat
    BY FS_CardinalityType DEF Few, OwnFew
  <2> QED BY <1>3, <2>1, OneMore
<1>5. OwnFew'
  BY <1>0, <1>1, <1>2, <1>4, EventBoundsAssumption DEF Few, OwnFew, FaultsBounded
<1> QED BY <1>1, <1>2, <1>5, NotesFewStays DEF Few

LEMMA FewNotifier ==
    ASSUME StreamShapes, Few, NEW n \in Notifiers, NotifierStep(n)
    PROVE  Few'
<1>0. LogShape /\ MarkShape /\ NoticeShape /\ FaultsBounded /\ Logged \subseteq Entries
  BY LogIsBounded DEF StreamShapes
<1>1. StreamShapes' /\ UNCHANGED <<write, changes>>
  BY <1>0, ShapesNotifier
<1>2. Storing' = Storing
  BY <1>1 DEF Storing
<1>3. /\ Cardinality(Notes) \in Nat /\ Cardinality(Announcing) \in Nat /\ Cardinality(claimed) \in Nat
      /\ IsFiniteSet(Notes) /\ IsFiniteSet(Announcing) /\ IsFiniteSet(claimed)
      /\ Cardinality(Notes) + Cardinality(Announcing) <= Cardinality(claimed)
  BY FS_CardinalityType DEF Few, NotesFew
<1>4. CASE \E m \in queue : Receive(n, m)
  <2>1. PICK m \in queue : Receive(n, m)
    BY <1>4
  <2>2. log' = log /\ claimed' = claimed
    BY <2>1 DEF Receive
  <2>3. Announcing' \subseteq Announcing
    BY <1>0, <2>1, Received DEF Announcing, NoNotice
  <2> QED BY <1>1, <1>2, <2>2, <2>3, SameLog, OwnFewStays, NotesFewStays DEF Few
<1>5. CASE ClaimNotice(n)
  <2>1. log' = log
    BY <1>5 DEF ClaimNotice
  <2>2. CASE /\ Message(n).of \notin claimed /\ claimed' = claimed \cup {Message(n).of}
             /\ notifier'[n].pc = "send" /\ \A k \in Notifiers \ {n} : notifier'[k] = notifier[k]
    <3>1. Announcing' = Announcing \cup {n}
      BY <1>1, <2>2, OneAnnouncing
    <3>2. IsFiniteSet(claimed') /\ Cardinality(claimed') = Cardinality(claimed) + 1
      BY <1>3, <2>2, OneMore
    <3>3. IsFiniteSet(Announcing') /\ Cardinality(Announcing') \in Nat /\ Cardinality(Announcing') <= Cardinality(Announcing) + 1
      BY <1>3, <3>1, OneMore
    <3>4. NotesFew'
      BY <1>3, <2>1, <3>2, <3>3, SameLog DEF NotesFew
    <3> QED BY <1>1, <1>2, <2>1, <3>4, SameLog, OwnFewStays DEF Few
  <2>3. CASE notifier'[n] = NoNotice /\ claimed' = claimed /\ \A k \in Notifiers \ {n} : notifier'[k] = notifier[k]
    <3>1. Announcing' \subseteq Announcing
      BY <2>3 DEF Announcing, NoNotice
    <3> QED BY <1>1, <1>2, <2>1, <2>3, <3>1, SameLog, OwnFewStays, NotesFewStays DEF Few
  <2> QED BY <1>0, <1>5, <2>2, <2>3, Claiming
<1>6. CASE ReleaseNotice(n) \/ NotifierKilled(n)
  <2>1. /\ notifier'[n] = NoNotice /\ \A k \in Notifiers \ {n} : notifier'[k] = notifier[k]
        /\ log' = log
        /\ \/ claimed' = claimed
           \/ notifier[n].pc = "release" /\ claimed' = claimed \ {Message(n).of}
    BY <1>6, GivenUp
  <2>2. Announcing' = Announcing \ {n}
    BY <1>1, <2>1, OneAnnouncing DEF NoNotice
  <2>3. CASE claimed' = claimed
    BY <1>1, <1>2, <2>1, <2>2, <2>3, SameLog, OwnFewStays, NotesFewStays DEF Few
  <2>4. CASE notifier[n].pc = "release" /\ claimed' = claimed \ {Message(n).of}
    <3>1. n \in Announcing
      BY <2>4 DEF Announcing
    <3>2. IsFiniteSet(Announcing') /\ Cardinality(Announcing') = Cardinality(Announcing) - 1
      BY <1>3, <2>2, <3>1, OneLess
    <3>3. IsFiniteSet(claimed') /\ Cardinality(claimed') \in Nat /\ Cardinality(claimed') >= Cardinality(claimed) - 1
      BY <1>3, <2>4, OneLess
    <3>4. NotesFew'
      BY <1>3, <2>1, <3>2, <3>3, SameLog DEF NotesFew
    <3> QED BY <1>1, <1>2, <2>1, <3>4, SameLog, OwnFewStays DEF Few
  <2> QED BY <2>1, <2>3, <2>4
<1>7. CASE RecordNotice(n)
  <2>1. /\ notifier[n].pc = "record" /\ notifier'[n] = NoNotice
        /\ \A k \in Notifiers \ {n} : notifier'[k] = notifier[k]
        /\ claimed' = claimed
        /\ \/ log' = log
           \/ \E c \in Contracts, x \in LogRecords :
                 log' = [log EXCEPT ![c] = Append(@, x)] /\ x.kind = "notification_sent"
    BY <1>7, NotedIs
  <2>2. Announcing' = Announcing \ {n} /\ n \in Announcing
    BY <1>1, <2>1, OneAnnouncing DEF NoNotice, Announcing
  <2>3. CASE log' = log
    BY <1>1, <1>2, <2>1, <2>2, <2>3, SameLog, OwnFewStays, NotesFewStays DEF Few
  <2>4. ASSUME NEW c \in Contracts, NEW x \in LogRecords, log' = [log EXCEPT ![c] = Append(@, x)], x.kind = "notification_sent"
        PROVE  Few'
    <3>1. Notes' = Notes \cup {<<c, Len(log[c]) + 1>>} /\ Own' = Own
      BY <1>0, <2>4, OneEntryMore DEF LogShape
    <3>2. IsFiniteSet(Announcing') /\ Cardinality(Announcing') = Cardinality(Announcing) - 1
      BY <1>3, <2>2, OneLess
    <3>3. IsFiniteSet(Notes') /\ Cardinality(Notes') \in Nat /\ Cardinality(Notes') <= Cardinality(Notes) + 1
      BY <1>3, <3>1, OneMore
    <3>4. NotesFew'
      BY <1>3, <2>1, <3>2, <3>3 DEF NotesFew
    <3> QED BY <1>1, <1>2, <3>1, <3>4, OwnFewStays DEF Few
  <2> QED BY <2>1, <2>3, <2>4
<1>8. CASE \E ch \in Channels : Send(n, ch)
  <2>1. PICK ch \in Channels : Send(n, ch)
    BY <1>8
  <2>2. log' = log /\ claimed' = claimed
    BY <2>1 DEF Send
  <2>3. Announcing' \subseteq Announcing
    BY <1>0, <2>1, Sending DEF Announcing
  <2> QED BY <1>1, <1>2, <2>2, <2>3, SameLog, OwnFewStays, NotesFewStays DEF Few
<1> QED BY <1>4, <1>5, <1>6, <1>7, <1>8 DEF NotifierStep

LEMMA FewStill ==
    ASSUME Few, UNCHANGED <<log, write, claimed, notifier, changes>>
    PROVE  Few'
<1>1. Storing' = Storing /\ Announcing' = Announcing
  BY DEF Storing, Announcing
<1> QED BY <1>1, SameLog, OwnFewStays, NotesFewStays DEF Few

Streaming == StreamShapes /\ Few

LEMMA StreamingInit == EventsInit => Streaming
<1> SUFFICES ASSUME EventsInit PROVE Streaming
  OBVIOUS
<1>0. \A c \in Contracts : log[c] = << >> /\ Len(log[c]) = 0
  BY DEF EventsInit
<1>1. Logged = {}
  BY <1>0 DEF Logged
<1>2. LogShape
  BY DEF EventsInit, LogShape
<1>3. MarkShape /\ FaultsBounded
  BY EventBoundsAssumption DEF EventsInit, MarkShape, FaultsBounded
<1>4. CounterShape
  BY NoRemovalIs DEF EventsInit, CounterShape
<1>5. ShardShape
  <2>1. NewShard \in Shards /\ AtRecord(NewShard, 0)
    BY DEF NewShard, Shards, AtRecord
  <2> QED BY <1>0, <2>1 DEF EventsInit, ShardShape
<1>6. NoticeShape
  <2>1. NoNotice \in NoticesAtWork /\ NoNotice.pc = "idle"
    BY DEF NoNotice, NoticesAtWork
  <2> QED BY <2>1 DEF EventsInit, NoticeShape, NoticesAtWork
<1>7. Own = {} /\ Notes = {} /\ Storing = {} /\ Announcing = {}
  BY <1>1 DEF Own, Notes, Storing, Announcing, EventsInit, NoNotice
<1>8. Few
  BY <1>7, FS_EmptySet DEF Few, OwnFew, NotesFew, EventsInit
<1> QED BY <1>2, <1>3, <1>4, <1>5, <1>6, <1>8 DEF Streaming, StreamShapes

LEMMA StreamingNext == Streaming /\ [EventsNext]_eventVars => Streaming'
<1> SUFFICES ASSUME StreamShapes, Few, [EventsNext]_eventVars
             PROVE  StreamShapes' /\ Few'
  BY DEF Streaming
<1>1. ASSUME NEW w \in Writers, WriteEntry(w) PROVE StreamShapes' /\ Few'
  BY <1>1, ShapesWrite, FewWrite
<1>2. ASSUME NEW w \in Writers, NEW c \in Contracts, NEW kind \in ChangeKinds, NEW d \in Days, Change(w, c, kind, d)
      PROVE  StreamShapes' /\ Few'
  BY <1>2, ShapesChange, FewChange
<1>3. ASSUME NEW c \in Contracts, StreamStep(c) PROVE StreamShapes' /\ Few'
  <2>1. UNCHANGED <<log, write, claimed, notifier, changes>>
    BY <1>3, ShardMoves DEF StreamShapes
  <2> QED BY <1>3, <2>1, ShapesStream, FewStill
<1>4. ASSUME NEW n \in Notifiers, NotifierStep(n) PROVE StreamShapes' /\ Few'
  BY <1>4, LogIsBounded, ShapesNotifier, FewNotifier
<1>5. ASSUME NEW r \in Removers, DeleteContract(r) PROVE StreamShapes' /\ Few'
  <2>1. UNCHANGED <<log, write, claimed, notifier, changes>>
    BY <1>5 DEF DeleteContract, noticeVars
  <2> QED BY <1>5, <2>1, ShapesDelete, FewStill
<1>6. ASSUME NEW r \in Removers, NEW c \in Contracts, Remove(r, c) PROVE StreamShapes' /\ Few'
  <2>1. UNCHANGED <<log, write, claimed, notifier, changes>>
    BY <1>6 DEF Remove, noticeVars
  <2> QED BY <1>6, <2>1, ShapesRemove, FewStill
<1>7. ASSUME NEW r \in Removers, NEW d \in Days, ForgetDay(r, d) PROVE StreamShapes' /\ Few'
  <2>1. UNCHANGED <<log, write, claimed, notifier, changes>>
    BY <1>7 DEF ForgetDay, noticeVars
  <2> QED BY <1>7, <2>1, ShapesForget, FewStill
<1>8. CASE UNCHANGED eventVars
  <2>1. UNCHANGED <<onBoard, log, write, seen, counter, shard, removal, queue, claimed, notifier, told, aside, eventFaults, changes>>
    BY <1>8 DEF eventVars, streamVars, noticeVars
  <2>2. write' \in [Writers -> [of : Contracts, entry : [kind : ChangeKinds, day : Days]] \cup {Nobody}]
        /\ CounterShape' /\ FaultsBounded' /\ onBoard' \subseteq onBoard
    BY <2>1 DEF StreamShapes, LogShape, CounterShape, FaultsBounded
  <2> QED BY <2>1, <2>2, LogStays, FewStill
<1> QED BY <1>1, <1>2, <1>3, <1>4, <1>5, <1>6, <1>7, <1>8 DEF EventsNext

(* Every variable of the activity stream keeps its type; so there is one   *)
(* notice at most for every entry of the log (lambdas/govern_notifier).    *)
THEOREM EventTypes == EventsSpec => []EventsTypeOK
<1>1. Streaming => EventsTypeOK
  <2> SUFFICES ASSUME Streaming PROVE EventsTypeOK
    OBVIOUS
  <2>1. StreamShapes /\ Logged \subseteq Entries
    BY LogIsBounded DEF Streaming
  <2>2. onBoard \subseteq Contracts /\ log \in [Contracts -> Seq(LogRecords)] /\ counter \in [Days -> Int]
        /\ shard \in [Contracts -> Shards] /\ removal \in [Removers -> Removals]
        /\ told \in [Entries -> [Channels -> Nat]] /\ eventFaults \in 0..MaxEventFaults /\ changes \in 0..MaxChanges
    BY <2>1 DEF StreamShapes, LogShape, CounterShape, ShardShape, NoticeShape, FaultsBounded
  <2>3. write \in [Writers -> [of : Contracts, entry : LogRecords] \cup {Nobody}]
    <3>1. [of : Contracts, entry : [kind : ChangeKinds, day : Days]] \subseteq [of : Contracts, entry : LogRecords]
      BY KindsAre DEF LogRecords
    <3>2. write \in [Writers -> [of : Contracts, entry : [kind : ChangeKinds, day : Days]] \cup {Nobody}]
      BY <2>1 DEF StreamShapes, LogShape
    <3> QED BY <3>1, <3>2
  <2>4. seen \subseteq Entries /\ claimed \subseteq Entries /\ aside \subseteq Entries
    BY <2>1 DEF StreamShapes, MarkShape
  <2>5. Letters \subseteq Messages
    BY <2>1 DEF Letters, Messages
  <2>6. queue \subseteq Messages /\ notifier \in [Notifiers -> Notices]
    <3>1. NoticesAtWork \subseteq Notices
      BY <2>5 DEF NoticesAtWork, Notices
    <3> QED BY <2>1, <2>5, <3>1 DEF StreamShapes, NoticeShape, Waiting, NoticesAtWork
  <2> QED BY <2>2, <2>3, <2>4, <2>6 DEF EventsTypeOK
<1> QED BY <1>1, StreamingInit, StreamingNext, PTL DEF EventsSpec

-----------------------------------------------------------------------------
(* ToldOnce, strengthened.  Who tells has claimed the entry, and nobody    *)
(* else is telling; a channel is used when it was told.                    *)
About(n)   == notifier[n].msg.of
Telling(n) == notifier[n].pc \in {"send", "release"}
Teller(n)  == /\ Telling(n) => About(n) \in claimed
              /\ notifier[n].pc = "claim" => notifier[n].used = {}
              /\ notifier[n].pc = "send" => /\ notifier[n].used \cap notifier[n].left = {}
                                            /\ \A ch \in Channels : told[About(n)][ch] > 0 <=> ch \in notifier[n].used
              /\ notifier[n].pc = "release" => \A ch \in Channels : told[About(n)][ch] = 0

ByClaim == /\ \A n \in Notifiers : Teller(n)
           /\ \A n, k \in Notifiers : Telling(n) /\ Telling(k) /\ About(n) = About(k) => n = k
           /\ \A e \in Entries, ch \in Channels : /\ told[e][ch] <= 1
                                                  /\ e \notin claimed => told[e][ch] = 0

LEMMA TellersStay ==
    ASSUME ByClaim, UNCHANGED <<notifier, claimed, told>>
    PROVE  ByClaim'
BY DEF ByClaim, Teller, Telling, About

(* A notifier that leaves, or begins, tells nobody.                        *)
LEMMA TellersRest ==
    ASSUME ByClaim, NEW n \in Notifiers, \A k \in Notifiers \ {n} : notifier'[k] = notifier[k],
           \/ notifier'[n].pc = "idle"
           \/ notifier'[n].pc = "claim" /\ notifier'[n].used = {},
           told' = told,
           \/ claimed' = claimed
           \/ notifier[n].pc = "release" /\ About(n) \in Entries /\ claimed' = claimed \ {About(n)}
    PROVE  ByClaim'
<1>1. Teller(n)' /\ ~Telling(n)'
  BY DEF Teller, Telling
<1>2. ASSUME NEW k \in Notifiers \ {n} PROVE Teller(k)' /\ (Telling(k)' <=> Telling(k)) /\ About(k)' = About(k)
  <2>1. Telling(k) /\ notifier[n].pc = "release" => About(k) # About(n)
    BY DEF ByClaim, Telling
  <2>2. Telling(k) /\ About(k) \in claimed => About(k) \in claimed'
    BY <2>1
  <2> QED BY <2>2 DEF ByClaim, Teller, Telling, About
<1>3. ASSUME NEW e \in Entries, NEW ch \in Channels PROVE told'[e][ch] <= 1 /\ (e \notin claimed' => told'[e][ch] = 0)
  <2>1. CASE claimed' = claimed
    BY <2>1 DEF ByClaim
  <2>2. CASE notifier[n].pc = "release" /\ claimed' = claimed \ {About(n)}
    BY <2>2 DEF ByClaim, Teller
  <2> QED BY <2>1, <2>2
<1> QED BY <1>1, <1>2, <1>3 DEF ByClaim

LEMMA ByClaimNotifier ==
    ASSUME Streaming, ByClaim, NEW n \in Notifiers, NotifierStep(n)
    PROVE  ByClaim'
<1>0. LogShape /\ MarkShape /\ NoticeShape /\ StreamShapes /\ Logged \subseteq Entries
  BY LogIsBounded DEF Streaming, StreamShapes
<1>1. notifier[n].pc # "idle" => About(n) \in Entries /\ About(n) = Message(n).of
  BY <1>0, NoticeWorking DEF About, Message
<1>2. told \in [Entries -> [Channels -> Nat]]
  BY <1>0 DEF NoticeShape
<1>4. CASE \E m \in queue : Receive(n, m)
  <2>1. PICK m \in queue : Receive(n, m)
    BY <1>4
  <2>2. told' = told /\ claimed' = claimed
    BY <2>1 DEF Receive
  <2>3. /\ \A k \in Notifiers \ {n} : notifier'[k] = notifier[k]
        /\ \/ notifier'[n].pc = "idle"
           \/ notifier'[n].pc = "claim" /\ notifier'[n].used = {}
    BY <1>0, <2>1, Received DEF NoNotice
  <2> QED BY <2>2, <2>3, TellersRest
<1>5. CASE ClaimNotice(n)
  <2>1. told' = told
    BY <1>5 DEF ClaimNotice
  <2>2. CASE /\ Message(n).of \notin claimed /\ claimed' = claimed \cup {Message(n).of} /\ notifier[n].pc = "claim"
             /\ notifier'[n].pc = "send" /\ notifier'[n].msg = notifier[n].msg
             /\ notifier'[n].left = notifier[n].left /\ notifier'[n].used = notifier[n].used
             /\ \A k \in Notifiers \ {n} : notifier'[k] = notifier[k]
    <3>1. About(n) \in Entries /\ About(n) \notin claimed /\ claimed' = claimed \cup {About(n)} /\ About(n)' = About(n)
      BY <1>1, <2>2 DEF About
    <3>2. \A ch \in Channels : told[About(n)][ch] = 0
      BY <3>1 DEF ByClaim
    <3>3. Teller(n)'
      BY <2>1, <2>2, <3>1, <3>2 DEF Teller, ByClaim, Telling, About
    <3>4. ASSUME NEW k \in Notifiers \ {n} PROVE Teller(k)' /\ (Telling(k)' <=> Telling(k)) /\ About(k)' = About(k)
                                                 /\ (Telling(k) => About(k) # About(n))
      BY <2>1, <2>2, <3>1 DEF ByClaim, Teller, Telling, About
    <3>5. \A e \in Entries, ch \in Channels : told'[e][ch] <= 1 /\ (e \notin claimed' => told'[e][ch] = 0)
      BY <2>1, <2>2 DEF ByClaim
    <3> QED BY <3>1, <3>3, <3>4, <3>5 DEF ByClaim
  <2>3. CASE notifier'[n] = NoNotice /\ claimed' = claimed /\ \A k \in Notifiers \ {n} : notifier'[k] = notifier[k]
    BY <2>1, <2>3, TellersRest DEF NoNotice
  <2> QED BY <1>0, <1>5, <2>2, <2>3, Claiming
<1>6. CASE ReleaseNotice(n) \/ NotifierKilled(n)
  <2>1. /\ notifier'[n] = NoNotice /\ \A k \in Notifiers \ {n} : notifier'[k] = notifier[k]
        /\ told' = told /\ notifier[n].pc # "idle"
        /\ \/ claimed' = claimed
           \/ notifier[n].pc = "release" /\ claimed' = claimed \ {Message(n).of}
    BY <1>0, <1>6, GivenUp
  <2>2. notifier'[n].pc = "idle"
    BY <2>1 DEF NoNotice
  <2> QED BY <1>1, <2>1, <2>2, TellersRest
<1>7. CASE RecordNotice(n)
  <2>1. /\ notifier'[n] = NoNotice /\ \A k \in Notifiers \ {n} : notifier'[k] = notifier[k]
        /\ UNCHANGED <<claimed, told>>
    BY <1>0, <1>7, NotedIs
  <2>2. notifier'[n].pc = "idle"
    BY <2>1 DEF NoNotice
  <2> QED BY <2>1, <2>2, TellersRest
<1>8. CASE \E ch \in Channels : Send(n, ch)
  <2>1. PICK ch \in Channels : Send(n, ch)
    BY <1>8
  <2>2. /\ notifier[n].pc = "send" /\ ch \in notifier[n].left
        /\ \A k \in Notifiers \ {n} : notifier'[k] = notifier[k]
        /\ notifier'[n].msg = notifier[n].msg /\ notifier'[n].left = notifier[n].left \ {ch}
        /\ \/ /\ notifier'[n].used = notifier[n].used \cup {ch}
              /\ told' = [told EXCEPT ![Message(n).of][ch] = @ + 1]
           \/ notifier'[n].used = notifier[n].used /\ told' = told
        /\ notifier'[n].pc = IF notifier'[n].left # {} THEN "send"
                             ELSE IF notifier'[n].used = {} THEN "release" ELSE "record"
    BY <1>0, <2>1, Sending
  <2>3. claimed' = claimed /\ About(n) \in Entries /\ About(n)' = About(n) /\ About(n) \in claimed
        /\ notifier[n].used \cap notifier[n].left = {} /\ ch \notin notifier[n].used
        /\ \A x \in Channels : told[About(n)][x] > 0 <=> x \in notifier[n].used
    BY <1>1, <2>1, <2>2 DEF Send, ByClaim, Teller, About, Telling
  <2>4. \A k \in Notifiers \ {n} : (Telling(k)' <=> Telling(k)) /\ About(k)' = About(k)
    BY <2>2 DEF Telling, About
  <2>5. \A k \in Notifiers \ {n} : Telling(k) => About(k) # About(n)
    BY <2>2 DEF ByClaim, Telling
  <2>6. Telling(n)
    BY <2>2 DEF Telling
  <2>7. CASE notifier'[n].used = notifier[n].used \cup {ch} /\ told' = [told EXCEPT ![About(n)][ch] = @ + 1]
    <3>1. told[About(n)][ch] = 0 /\ told' \in [Entries -> [Channels -> Nat]]
      BY <1>2, <2>3, <2>7
    <3>2. /\ told'[About(n)][ch] = 1 /\ \A x \in Channels \ {ch} : told'[About(n)][x] = told[About(n)][x]
          /\ \A e \in Entries \ {About(n)} : told'[e] = told[e]
      BY <1>2, <2>3, <2>7, <3>1
    <3>3. \A e \in Entries, x \in Channels : told'[e][x] <= 1 /\ (e \notin claimed' => told'[e][x] = 0)
      <4>1. ASSUME NEW x \in Channels PROVE told'[About(n)][x] <= 1
        BY <3>2, <2>3 DEF ByClaim
      <4> QED BY <4>1, <3>2, <2>3 DEF ByClaim
    <3>4. notifier'[n].pc # "release" /\ notifier'[n].pc # "claim"
      BY <2>2, <2>7
    <3>5. Teller(n)'
      <4>1. notifier'[n].used \cap notifier'[n].left = {}
        BY <2>2, <2>3, <2>7
      <4>2. \A x \in Channels : told'[About(n)][x] > 0 <=> x \in notifier'[n].used
        BY <2>3, <2>7, <3>2
      <4> QED BY <2>3, <3>4, <4>1, <4>2 DEF Teller
    <3>6. ASSUME NEW k \in Notifiers \ {n} PROVE Teller(k)'
      <4>1. Telling(k) => About(k) # About(n) /\ About(k) \in Entries
        BY <1>0, <2>5, NoticeWorking DEF Telling, About, Message
      <4>2. Telling(k) => told'[About(k)] = told[About(k)]
        BY <4>1, <3>2
      <4>3. notifier'[k] = notifier[k] /\ About(k)' = About(k) /\ claimed' = claimed
        BY <2>2, <2>3, <2>4
      <4> QED BY <4>2, <4>3 DEF ByClaim, Teller, Telling
    <3> QED BY <2>3, <2>4, <2>5, <2>6, <3>3, <3>5, <3>6 DEF ByClaim
  <2>8. CASE notifier'[n].used = notifier[n].used /\ told' = told
    <3>1. \A e \in Entries, x \in Channels : told'[e][x] <= 1 /\ (e \notin claimed' => told'[e][x] = 0)
      BY <2>3, <2>8 DEF ByClaim
    <3>2. notifier'[n].pc # "claim" /\ (notifier'[n].pc = "release" => notifier[n].used = {})
      BY <2>2, <2>8
    <3>3. notifier'[n].pc = "release" => \A x \in Channels : told'[About(n)][x] = 0
      BY <1>2, <2>3, <2>8, <3>2
    <3>4. Teller(n)'
      <4>1. notifier'[n].used \cap notifier'[n].left = {}
        BY <2>2, <2>3, <2>8
      <4> QED BY <2>3, <2>8, <3>2, <3>3, <4>1 DEF Teller
    <3>5. ASSUME NEW k \in Notifiers \ {n} PROVE Teller(k)'
      BY <2>2, <2>3, <2>8 DEF ByClaim, Teller, Telling, About
    <3> QED BY <2>3, <2>4, <2>5, <2>6, <3>1, <3>4, <3>5 DEF ByClaim
  <2> QED BY <1>1, <2>2, <2>7, <2>8
<1> QED BY <1>4, <1>5, <1>6, <1>7, <1>8 DEF NotifierStep

LEMMA ByClaimNext == Streaming /\ ByClaim /\ [EventsNext]_eventVars => ByClaim'
<1> SUFFICES ASSUME Streaming, ByClaim, [EventsNext]_eventVars PROVE ByClaim'
  OBVIOUS
<1>1. ASSUME NEW n \in Notifiers, NotifierStep(n) PROVE ByClaim'
  BY <1>1, ByClaimNotifier
<1>2. CASE UNCHANGED <<notifier, claimed, told>>
  BY <1>2, TellersStay
<1>3. ASSUME NEW c \in Contracts, StreamStep(c) PROVE ByClaim'
  BY <1>2, <1>3, ShardMoves DEF Streaming, StreamShapes
<1>4. \/ \E n \in Notifiers : NotifierStep(n)
      \/ \E c \in Contracts : StreamStep(c)
      \/ UNCHANGED <<notifier, claimed, told>>
  BY DEF EventsNext, WriteEntry, Change, DeleteContract, Remove, ForgetDay, noticeVars, eventVars
<1> QED BY <1>1, <1>2, <1>3, <1>4

LEMMA ByClaimInit == EventsInit => ByClaim
BY DEF EventsInit, ByClaim, Teller, Telling, NoNotice

(* Whatever fails and whatever is delivered again, a person is told once   *)
(* at most of an entry on a channel (lambdas/govern_notifier).             *)
THEOREM NobodyIsToldTwice == EventsSpec => []ToldOnce
<1>1. ByClaim => ToldOnce
  BY DEF ByClaim, ToldOnce
<1> QED BY <1>1, StreamingInit, StreamingNext, ByClaimInit, ByClaimNext, PTL DEF EventsSpec

-----------------------------------------------------------------------------
(* Announced, strengthened.  After these a claim may stay that nobody told *)
(* anything under:                                                         *)
Losing == {"undo", "killed_notifying"}

(* but for them, an entry that the stream has published is on its way:     *)
Reached(e) == \E ch \in Channels : told[e][ch] > 0
Heading(e) == \/ Reached(e) \/ e \in aside
              \/ \E m \in queue : m.of = e
              \/ \E n \in Notifiers : notifier[n].pc # "idle" /\ About(n) = e
Passed(e)  == e[2] < shard[e[1]].at \/ (e[2] = shard[e[1]].at /\ shard[e[1]].pc = "rules")

Delivery == /\ \A e \in Logged : e[1] \in onBoard /\ EntryKind(e) \in Routed /\ Passed(e) => Heading(e)
            /\ \A e \in claimed : Reached(e) \/ \E n \in Notifiers : Telling(n) /\ About(n) = e
            /\ \A n \in Notifiers : notifier[n].pc = "record" => Reached(About(n))

LEMMA DeliveryStays ==
    ASSUME Delivery, log' = log, UNCHANGED <<shard, aside, queue, notifier, told, claimed>>, onBoard' \subseteq onBoard
    PROVE  Delivery'
<1>1. Logged' = Logged /\ \A e : EntryKind(e)' = EntryKind(e)
  BY SameLog DEF EntryKind
<1>2. \A e : (Passed(e)' <=> Passed(e)) /\ (Heading(e)' <=> Heading(e)) /\ (Reached(e)' <=> Reached(e))
  BY DEF Passed, Heading, Reached, About
<1>3. \A n \in Notifiers : (Telling(n)' <=> Telling(n)) /\ About(n)' = About(n)
  BY DEF Telling, About
<1> QED BY <1>1, <1>2, <1>3 DEF Delivery

LEMMA DeliveryWrite ==
    ASSUME Streaming, Delivery, NEW w \in Writers, WriteEntry(w)
    PROVE  Delivery'
<1>0. LogShape /\ ShardShape /\ StreamShapes
  BY DEF Streaming, StreamShapes
<1>1. UNCHANGED <<onBoard, shard, aside, queue, notifier, told, claimed>>
  BY DEF WriteEntry, streamVars, noticeVars
<1>2. /\ write[w].of \in Contracts /\ write[w].entry \in LogRecords
      /\ \/ log' = [log EXCEPT ![write[w].of] = Append(@, write[w].entry)]
         \/ log' = log
  BY <1>0, ShapesWrite
<1>3. CASE log' = log
  BY <1>1, <1>3, DeliveryStays
<1>4. CASE log' = [log EXCEPT ![write[w].of] = Append(@, write[w].entry)]
  <2>1. PICK c \in Contracts : c = write[w].of
    BY <1>2
  <2>2. PICK e : e = <<c, Len(log[c]) + 1>>
    OBVIOUS
  <2>3. Grown /\ Logged' = Logged \cup {<<c, Len(log[c]) + 1>>}
    BY <1>0, <1>2, <1>4, <2>1, Appended DEF LogShape
  <2>4. \A b \in Logged : EntryKind(b)' = EntryKind(b)
    BY <1>0, <2>3, LoggedStays DEF LogShape
  <2>5. \A b : (Passed(b)' <=> Passed(b)) /\ (Heading(b)' <=> Heading(b)) /\ (Reached(b)' <=> Reached(b))
    BY <1>1 DEF Passed, Heading, Reached, About
  <2>6. ~Passed(e)
    <3>1. shard[c].at \in Nat /\ Len(log[c]) \in Nat /\ shard[c].at <= Len(log[c]) + 1
          /\ (shard[c].at > Len(log[c]) => shard[c].pc = "count")
      BY <1>0, ShardIs DEF ShardShape, AtRecord
    <3> QED BY <2>2, <3>1 DEF Passed
  <2>7. \A n \in Notifiers : (Telling(n)' <=> Telling(n)) /\ About(n)' = About(n)
    BY <1>1 DEF Telling, About
  <2>8. Logged' = Logged \cup {e}
    BY <2>2, <2>3
  <2> QED BY <1>1, <2>4, <2>5, <2>6, <2>7, <2>8 DEF Delivery
<1> QED BY <1>2, <1>3, <1>4

LEMMA DeliveryStream ==
    ASSUME Streaming, Delivery, NEW c \in Contracts, StreamStep(c)
    PROVE  Delivery'
<1>0. LogShape /\ ShardShape /\ StreamShapes /\ NoticeShape
  BY DEF Streaming, StreamShapes
<1>1. /\ shard[c].at <= Len(log[c])
      /\ \A b \in Contracts \ {c} : shard'[b] = shard[b]
      /\ UNCHANGED <<onBoard, log, write, removal, claimed, notifier, told, changes>>
      /\ \/ aside' = aside
         \/ aside' = aside \cup {Entry(c)}
      /\ queue' # queue => Record(c).kind \in Routed /\ Enqueue(Entry(c))
      /\ \/ shard'[c].at <= shard[c].at /\ shard'[c].pc # "rules"
         \/ shard'[c].at = shard[c].at /\ shard[c].pc = "put"
               /\ (Record(c).kind \in Routed => Enqueue(Entry(c)))
         \/ shard'[c].at = shard[c].at + 1 /\ shard'[c].pc = "count"
               /\ (shard[c].pc = "rules" \/ aside' = aside \cup {Entry(c)})
      /\ shard' \in [Contracts -> Shards]
  BY <1>0, ShardMoves
<1>2. Entry(c) \in Logged /\ EntryKind(Entry(c)) = Record(c).kind /\ Entry(c)[1] = c /\ Entry(c)[2] = shard[c].at
  BY <1>0, <1>1, EntryLogged
<1>3. Enqueue(Entry(c)) /\ Record(c).kind \in Routed => \E m \in Letters : m.of = Entry(c) /\ queue' = queue \cup {m}
  BY <1>0, <1>2, Enqueued DEF NoticeShape, Waiting
<1>4. queue \subseteq queue' /\ aside \subseteq aside'
  BY <1>1, <1>3
<1>5. Logged' = Logged /\ (\A e : EntryKind(e)' = EntryKind(e)) /\ \A e : Reached(e)' <=> Reached(e)
  BY <1>1, SameLog DEF EntryKind, Reached
<1>6. \A n \in Notifiers : (Telling(n)' <=> Telling(n)) /\ About(n)' = About(n)
  BY <1>1 DEF Telling, About
<1>7. \A e : Heading(e) => Heading(e)'
  BY <1>1, <1>4, <1>5, <1>6 DEF Heading
<1>8. ASSUME NEW e \in Logged, e[1] \in onBoard, EntryKind(e) \in Routed, Passed(e)' PROVE Heading(e)'
  <2>1. e[1] \in Contracts /\ e[2] \in Nat \ {0} /\ e = <<e[1], e[2]>>
    BY DEF Logged
  <2>2. CASE Passed(e)
    BY <1>7, <1>8, <2>2 DEF Delivery
  <2>3. CASE ~Passed(e)
    <3>1. e[1] = c
      BY <1>1, <1>8, <2>1, <2>3 DEF Passed
    <3>2. shard[c].at \in Nat /\ shard'[c].at \in Nat
      BY <1>1, <1>0, ShardIs DEF Shards
    <3>3. /\ e[2] >= shard[c].at
          /\ e[2] < shard'[c].at \/ (e[2] = shard'[c].at /\ shard'[c].pc = "rules")
      BY <1>8, <2>1, <2>3, <3>1, <3>2 DEF Passed
    <3>4. e[2] = shard[c].at /\ e = Entry(c)
      BY <1>1, <2>1, <3>1, <3>2, <3>3 DEF Entry
    <3>5. ~(shard[c].pc = "rules")
      BY <2>3, <3>1, <3>4 DEF Passed
    <3>6. CASE shard'[c].at = shard[c].at /\ shard[c].pc = "put" /\ (Record(c).kind \in Routed => Enqueue(Entry(c)))
      BY <1>2, <1>3, <1>8, <3>4, <3>6 DEF Heading
    <3>7. CASE aside' = aside \cup {Entry(c)}
      BY <3>4, <3>7 DEF Heading
    <3>8. CASE shard'[c].at <= shard[c].at /\ shard'[c].pc # "rules"
      BY <3>2, <3>3, <3>4, <3>8
    <3> QED BY <1>1, <3>5, <3>6, <3>7, <3>8
  <2> QED BY <2>2, <2>3
<1> QED BY <1>1, <1>5, <1>6, <1>8 DEF Delivery

LEMMA DeliveryNotifier ==
    ASSUME Streaming, ByClaim, Delivery, EventFaults \cap Losing = {}, NEW n \in Notifiers, NotifierStep(n)
    PROVE  Delivery'
<1>0. LogShape /\ MarkShape /\ ShardShape /\ NoticeShape /\ StreamShapes /\ Logged \subseteq Entries
  BY LogIsBounded DEF Streaming, StreamShapes
<1>1. /\ StreamShapes' /\ Grown
      /\ UNCHANGED <<onBoard, write, seen, counter, shard, removal, changes>>
  BY <1>0, ShapesNotifier
<1>2. \A e : Passed(e)' <=> Passed(e)
  BY <1>1 DEF Passed
<1>3. notifier[n].pc # "idle" => About(n) \in Logged /\ About(n) \in Entries /\ About(n) = Message(n).of /\ Message(n) \in Letters
  BY <1>0, NoticeWorking DEF About, Message
<1>4. CASE \E m \in queue : Receive(n, m)
  <2>1. PICK m \in queue : Receive(n, m)
    BY <1>4
  <2>2. UNCHANGED <<log, told, claimed, aside>>
    BY <2>1 DEF Receive
  <2>3. /\ notifier[n].pc = "idle"
        /\ \A k \in Notifiers \ {n} : notifier'[k] = notifier[k]
        /\ queue \ {m} \subseteq queue'
        /\ IF m.of[1] \in onBoard
           THEN notifier'[n].pc = "claim" /\ notifier'[n].msg.of = m.of
           ELSE notifier'[n].pc = "idle"
    BY <1>0, <2>1, Received DEF NoNotice
  <2>4. Logged' = Logged /\ (\A e : EntryKind(e)' = EntryKind(e)) /\ \A e : Reached(e)' <=> Reached(e)
    BY <2>2, SameLog DEF EntryKind, Reached
  <2>5. \A k \in Notifiers \ {n} : (Telling(k)' <=> Telling(k)) /\ About(k)' = About(k)
    BY <2>3 DEF Telling, About
  <2>6. ~Telling(n) /\ notifier'[n].pc # "record"
    BY <2>3 DEF Telling
  <2>7. ASSUME NEW e \in Logged, e[1] \in onBoard, Heading(e) PROVE Heading(e)'
    <3>1. CASE \E x \in queue : x.of = e
      <4>1. PICK x \in queue : x.of = e
        BY <3>1
      <4>2. CASE x = m
        <5>1. notifier'[n].pc = "claim" /\ About(n)' = e
          BY <2>3, <2>7, <4>1, <4>2 DEF About
        <5> QED BY <5>1 DEF Heading
      <4>3. CASE x # m
        BY <2>3, <4>1, <4>3 DEF Heading
      <4> QED BY <4>2, <4>3
    <3>2. CASE \E k \in Notifiers : notifier[k].pc # "idle" /\ About(k) = e
      BY <2>3, <2>5, <3>2 DEF Heading
    <3>3. CASE Reached(e) \/ e \in aside
      BY <2>2, <2>4, <3>3 DEF Heading
    <3> QED BY <2>7, <3>1, <3>2, <3>3 DEF Heading
  <2>8. \A e \in claimed' : Reached(e)' \/ \E k \in Notifiers : Telling(k)' /\ About(k)' = e
    BY <2>2, <2>4, <2>5, <2>6 DEF Delivery
  <2>9. \A k \in Notifiers : notifier'[k].pc = "record" => Reached(About(k))'
    <3>1. ASSUME NEW k \in Notifiers \ {n}, notifier'[k].pc = "record" PROVE Reached(About(k))'
      BY <2>2, <2>3, <2>5, <3>1 DEF Delivery, Reached
    <3> QED BY <2>6, <3>1
  <2> QED BY <1>1, <1>2, <2>4, <2>7, <2>8, <2>9 DEF Delivery
<1>5. ASSUME log' = log, \A k \in Notifiers \ {n} : notifier'[k] = notifier[k],
             told \in [Entries -> [Channels -> Nat]], notifier[n].pc # "idle",
             \A e : Reached(e) => Reached(e)', queue \subseteq queue', aside \subseteq aside',
             \/ notifier'[n].pc # "idle" /\ About(n)' = About(n)
             \/ Heading(About(n)) => Reached(About(n)) \/ About(n) \in aside' \/ (\E m \in queue' : m.of = About(n))
                                     \/ \E k \in Notifiers \ {n} : notifier[k].pc # "idle" /\ About(k) = About(n),
             \A e \in claimed' : (e \in claimed /\ (e # About(n) \/ ~Telling(n))) \/ Reached(e)' \/ (Telling(n)' /\ About(n)' = e),
             notifier'[n].pc = "record" => Reached(About(n))' 
      PROVE  Delivery'
  <2>1. Logged' = Logged /\ (\A e : EntryKind(e)' = EntryKind(e))
    BY <1>5, SameLog DEF EntryKind
  <2>2. \A k \in Notifiers \ {n} : (Telling(k)' <=> Telling(k)) /\ About(k)' = About(k)
    BY <1>5 DEF Telling, About
  <2>3. ASSUME NEW e, Heading(e) PROVE Heading(e)'
    <3>1. CASE Reached(e) \/ e \in aside
      BY <1>5, <3>1 DEF Heading
    <3>2. CASE \E m \in queue : m.of = e
      BY <1>5, <3>2 DEF Heading
    <3>3. CASE \E k \in Notifiers \ {n} : notifier[k].pc # "idle" /\ About(k) = e
      BY <1>5, <2>2, <3>3 DEF Heading
    <3>4. CASE e = About(n) /\ notifier'[n].pc # "idle" /\ About(n)' = About(n)
      <4>1. About(n)' = e
        BY <3>4
      <4> QED BY <3>4, <4>1 DEF Heading
    <3>5. CASE e = About(n) /\ (Reached(About(n)) \/ About(n) \in aside' \/ (\E m \in queue' : m.of = About(n))
                                     \/ \E k \in Notifiers \ {n} : notifier[k].pc # "idle" /\ About(k) = About(n))
      <4>1. CASE Reached(e)
        BY <1>5, <4>1 DEF Heading
      <4>2. CASE e \in aside' \/ \E m \in queue' : m.of = e
        BY <4>2 DEF Heading
      <4>3. CASE \E k \in Notifiers \ {n} : notifier[k].pc # "idle" /\ About(k) = e
        BY <1>5, <2>2, <4>3 DEF Heading
      <4> QED BY <3>5, <4>1, <4>2, <4>3
    <3> QED BY <1>5, <2>3, <3>1, <3>2, <3>3, <3>4, <3>5 DEF Heading
  <2>4. \A e \in claimed' : Reached(e)' \/ \E k \in Notifiers : Telling(k)' /\ About(k)' = e
    <3> SUFFICES ASSUME NEW e \in claimed', ~Reached(e)', ~(Telling(n)' /\ About(n)' = e)
                 PROVE  \E k \in Notifiers : Telling(k)' /\ About(k)' = e
      OBVIOUS
    <3>1. e \in claimed /\ (e # About(n) \/ ~Telling(n)) /\ ~Reached(e)
      BY <1>5
    <3>2. PICK k \in Notifiers : Telling(k) /\ About(k) = e
      BY <3>1 DEF Delivery
    <3> QED BY <2>2, <3>1, <3>2
  <2>5. \A k \in Notifiers \ {n} : notifier'[k].pc = "record" => Reached(About(k))'
    <3> SUFFICES ASSUME NEW k \in Notifiers \ {n}, notifier'[k].pc = "record" PROVE Reached(About(k))'
      OBVIOUS
    <3>1. PICK e : e = About(k)
      OBVIOUS
    <3>2. Reached(e)
      BY <1>5, <3>1 DEF Delivery
    <3>3. Reached(e)' /\ e = About(k)'
      BY <1>5, <2>2, <3>1, <3>2
    <3> QED BY <3>3 DEF Reached
  <2>6. \A k \in Notifiers : notifier'[k].pc = "record" => Reached(About(k))'
    BY <1>5, <2>5
  <2> QED BY <1>1, <1>2, <2>1, <2>3, <2>4, <2>6 DEF Delivery
<1>6. CASE ClaimNotice(n)
  <2>1. UNCHANGED <<log, told>> /\ told \in [Entries -> [Channels -> Nat]]
    BY <1>0, <1>6 DEF ClaimNotice, NoticeShape
  <2>2. \A e : Reached(e) => Reached(e)'
    BY <2>1 DEF Reached
  <2>3. /\ notifier[n].pc = "claim"
        /\ \A k \in Notifiers \ {n} : notifier'[k] = notifier[k]
        /\ \/ /\ claimed' = claimed \cup {Message(n).of}
              /\ notifier'[n].pc = "send" /\ notifier'[n].msg = notifier[n].msg
              /\ UNCHANGED <<queue, aside>>
           \/ /\ notifier'[n].pc = "idle" /\ claimed' = claimed
              /\ \/ Message(n).of \in claimed /\ UNCHANGED <<queue, aside>>
                 \/ queue' = queue \cup {Message(n)} /\ aside' = aside
                 \/ queue' = queue /\ aside' = aside \cup {Message(n).of}
    BY <1>0, <1>6, Claiming DEF NoNotice
  <2>4. ~Telling(n) /\ notifier[n].pc # "idle" /\ notifier'[n].pc # "record" /\ About(n) = Message(n).of
    BY <2>3, <1>3 DEF Telling
  <2>5. queue \subseteq queue' /\ aside \subseteq aside'
    BY <2>3
  <2>6. CASE claimed' = claimed \cup {Message(n).of} /\ notifier'[n].pc = "send" /\ notifier'[n].msg = notifier[n].msg
    <3>1. About(n)' = About(n) /\ Telling(n)' /\ notifier'[n].pc # "idle"
      BY <2>6 DEF About, Telling
    <3> QED BY <1>5, <2>1, <2>2, <2>3, <2>4, <2>5, <2>6, <3>1
  <2>7. CASE claimed' = claimed /\ (Message(n).of \in aside' \/ Message(n) \in queue')
    BY <1>5, <2>1, <2>2, <2>3, <2>4, <2>5, <2>7
  <2>8. CASE claimed' = claimed /\ Message(n).of \in claimed
    <3>1. Reached(About(n)) \/ \E k \in Notifiers \ {n} : notifier[k].pc # "idle" /\ About(k) = About(n)
      BY <2>4, <2>8 DEF Delivery, Telling
    <3> QED BY <1>5, <2>1, <2>2, <2>3, <2>4, <2>5, <2>8, <3>1
  <2> QED BY <2>3, <2>6, <2>7, <2>8
<1>7. CASE ReleaseNotice(n) \/ NotifierKilled(n)
  <2>1. /\ notifier[n].pc # "idle" /\ notifier'[n].pc = "idle"
        /\ \A k \in Notifiers \ {n} : notifier'[k] = notifier[k]
        /\ UNCHANGED <<log, told>>
        /\ \/ queue' = queue \cup {Message(n)} /\ aside' = aside
           \/ queue' = queue /\ aside' = aside \cup {Message(n).of}
        /\ \/ notifier[n].pc = "release" /\ claimed' = claimed \ {Message(n).of}
           \/ notifier[n].pc \in {"claim", "record"} /\ claimed' = claimed
    BY <1>0, <1>7, GivenUp DEF NoNotice, Losing
  <2>2. (\A e : Reached(e) => Reached(e)') /\ told \in [Entries -> [Channels -> Nat]] /\ About(n) = Message(n).of
    BY <1>0, <1>3, <2>1 DEF Reached, NoticeShape
  <2>3. queue \subseteq queue' /\ aside \subseteq aside' /\ (About(n) \in aside' \/ \E m \in queue' : m.of = About(n))
    BY <2>1, <2>2
  <2>4. \A e \in claimed' : e \in claimed /\ (e # About(n) \/ ~Telling(n))
    BY <2>1, <2>2 DEF Telling
  <2> QED BY <1>5, <2>1, <2>2, <2>3, <2>4
<1>8. CASE \E ch \in Channels : Send(n, ch)
  <2>1. PICK ch \in Channels : Send(n, ch)
    BY <1>8
  <2>2. UNCHANGED <<log, queue, claimed, aside>> /\ told \in [Entries -> [Channels -> Nat]]
    BY <1>0, <2>1 DEF Send, NoticeShape
  <2>3. /\ notifier[n].pc = "send" /\ ch \in notifier[n].left
        /\ \A k \in Notifiers \ {n} : notifier'[k] = notifier[k]
        /\ notifier'[n].msg = notifier[n].msg
        /\ \/ /\ notifier'[n].used = notifier[n].used \cup {ch}
              /\ told' = [told EXCEPT ![Message(n).of][ch] = @ + 1]
           \/ notifier'[n].used = notifier[n].used /\ told' = told
        /\ notifier'[n].pc = IF notifier'[n].left # {} THEN "send"
                             ELSE IF notifier'[n].used = {} THEN "release" ELSE "record"
    BY <1>0, <2>1, Sending
  <2>4. About(n) \in Entries /\ About(n) = Message(n).of /\ About(n)' = About(n) /\ notifier'[n].pc # "idle"
        /\ \A x \in Channels : told[About(n)][x] > 0 <=> x \in notifier[n].used
    BY <1>3, <2>3 DEF ByClaim, Teller, About
  <2>5. told' \in [Entries -> [Channels -> Nat]] /\ \A e \in Entries, x \in Channels : told'[e][x] >= told[e][x]
    <3>1. CASE told' = told
      BY <2>2, <3>1
    <3>2. CASE told' = [told EXCEPT ![About(n)][ch] = @ + 1]
      <4>1. told' \in [Entries -> [Channels -> Nat]] /\ told'[About(n)][ch] = told[About(n)][ch] + 1
            /\ (\A x \in Channels \ {ch} : told'[About(n)][x] = told[About(n)][x])
            /\ \A e \in Entries \ {About(n)} : told'[e] = told[e]
        BY <2>2, <2>4, <3>2
      <4>2. ASSUME NEW x \in Channels PROVE told'[About(n)][x] >= told[About(n)][x]
        BY <2>2, <2>4, <4>1
      <4>3. ASSUME NEW e \in Entries \ {About(n)}, NEW x \in Channels PROVE told'[e][x] >= told[e][x]
        BY <2>2, <4>1
      <4> QED BY <4>1, <4>2, <4>3
    <3> QED BY <2>3, <2>4, <3>1, <3>2
  <2>6. \A e \in Entries : Reached(e) => Reached(e)'
    BY <2>2, <2>5 DEF Reached
  <2>7. notifier'[n].pc = "record" => Reached(About(n))'
    <3> SUFFICES ASSUME notifier'[n].pc = "record" PROVE \E x \in Channels : told'[About(n)][x] > 0
      BY <2>4 DEF Reached
    <3>1. CASE told' = told /\ notifier'[n].used = notifier[n].used
      <4>1. \E x \in notifier[n].used : x \in Channels
        BY <1>0, <2>3, <3>1 DEF NoticeShape
      <4> QED BY <2>4, <3>1, <4>1
    <3>2. CASE told' = [told EXCEPT ![About(n)][ch] = @ + 1]
      <4>1. told'[About(n)][ch] = told[About(n)][ch] + 1 /\ told[About(n)][ch] \in Nat
        BY <2>2, <2>4, <3>2
      <4> QED BY <4>1
    <3> QED BY <2>3, <2>4, <3>1, <3>2
  <2>8. notifier'[n].pc \in {"send", "release"} => Telling(n)'
    BY DEF Telling
  <2>9. \A e \in claimed' : (e \in claimed /\ (e # About(n) \/ ~Telling(n))) \/ Reached(e)' \/ (Telling(n)' /\ About(n)' = e)
    <3> SUFFICES ASSUME NEW e \in claimed', e = About(n) PROVE Reached(e)' \/ (Telling(n)' /\ About(n)' = e)
      BY <2>2
    <3>1. CASE notifier'[n].pc = "record"
      <4>1. \E x \in Channels : told'[About(n)'][x] > 0
        BY <2>7, <3>1 DEF Reached
      <4> QED BY <2>4, <4>1 DEF Reached
    <3>2. CASE notifier'[n].pc \in {"send", "release"}
      BY <2>4, <2>8, <3>2
    <3> QED BY <2>3, <3>1, <3>2
  <2>10. \A e : Reached(e) => Reached(e)'
    <3>1. CASE told' = told
      BY <3>1 DEF Reached
    <3>2. CASE told' = [told EXCEPT ![About(n)][ch] = @ + 1]
      <4> SUFFICES ASSUME NEW e, e \notin Entries, Reached(e) PROVE Reached(e)'
        BY <2>6
      <4>1. told'[e] = told[e]
        BY <2>2, <2>4, <3>2
      <4> QED BY <4>1 DEF Reached
    <3> QED BY <2>3, <2>4, <3>1, <3>2
  <2> QED BY <1>5, <2>2, <2>3, <2>4, <2>7, <2>9, <2>10
<1>9. CASE RecordNotice(n)
  <2>1. /\ notifier[n].pc = "record" /\ notifier'[n].pc = "idle"
        /\ \A k \in Notifiers \ {n} : notifier'[k] = notifier[k]
        /\ UNCHANGED <<queue, claimed, told, aside>>
        /\ \/ log' = log
           \/ \E c \in Contracts, x \in LogRecords :
                 log' = [log EXCEPT ![c] = Append(@, x)] /\ x.kind = "notification_sent"
    BY <1>0, <1>9, NotedIs DEF NoNotice
  <2>2. Reached(About(n)) /\ \A e : Reached(e)' <=> Reached(e)
    BY <2>1 DEF Delivery, Reached
  <2>3. \A k \in Notifiers \ {n} : (Telling(k)' <=> Telling(k)) /\ About(k)' = About(k)
    BY <2>1 DEF Telling, About
  <2>4. \A e : Heading(e) => Heading(e)'
    BY <2>1, <2>2, <2>3 DEF Heading
  <2>5. \A e \in Logged' : EntryKind(e)' \in Routed => e \in Logged /\ EntryKind(e) \in Routed
    <3>1. CASE log' = log
      BY <3>1, SameLog DEF EntryKind
    <3>2. ASSUME NEW c \in Contracts, NEW x \in LogRecords, log' = [log EXCEPT ![c] = Append(@, x)], x.kind = "notification_sent"
          PROVE  \A e \in Logged' : EntryKind(e)' \in Routed => e \in Logged /\ EntryKind(e) \in Routed
      <4>1. /\ Logged' = Logged \cup {<<c, Len(log[c]) + 1>>}
            /\ \A e : e = <<c, Len(log[c]) + 1>> => EntryKind(e)' = x.kind
        BY <1>0, <3>2, Appended DEF LogShape
      <4>2. \A e \in Logged : EntryKind(e)' = EntryKind(e)
        BY <1>0, <1>1, LoggedStays DEF LogShape
      <4> QED BY <3>2, <4>1, <4>2, KindsAre
    <3> QED BY <2>1, <3>1, <3>2
  <2>6. \A e \in claimed' : Reached(e)' \/ \E k \in Notifiers : Telling(k)' /\ About(k)' = e
    BY <2>1, <2>2, <2>3 DEF Delivery, Telling
  <2>7. \A k \in Notifiers : notifier'[k].pc = "record" => Reached(About(k))'
    <3> SUFFICES ASSUME NEW k \in Notifiers \ {n}, notifier'[k].pc = "record" PROVE Reached(About(k))'
      BY <2>1
    <3>1. PICK e : e = About(k)
      OBVIOUS
    <3>2. Reached(e)' /\ e = About(k)'
      BY <2>1, <2>2, <2>3, <3>1 DEF Delivery
    <3> QED BY <3>2 DEF Reached
  <2> QED BY <1>1, <1>2, <2>4, <2>5, <2>6, <2>7 DEF Delivery
<1> QED BY <1>4, <1>6, <1>7, <1>8, <1>9 DEF NotifierStep

LEMMA DeliveryNext ==
    ASSUME EventFaults \cap Losing = {}
    PROVE  Streaming /\ ByClaim /\ Delivery /\ [EventsNext]_eventVars => Delivery'
<1> SUFFICES ASSUME Streaming, ByClaim, Delivery, [EventsNext]_eventVars PROVE Delivery'
  OBVIOUS
<1>1. ASSUME NEW n \in Notifiers, NotifierStep(n) PROVE Delivery'
  BY <1>1, DeliveryNotifier
<1>2. ASSUME NEW c \in Contracts, StreamStep(c) PROVE Delivery'
  BY <1>2, DeliveryStream
<1>3. ASSUME NEW w \in Writers, WriteEntry(w) PROVE Delivery'
  BY <1>3, DeliveryWrite
<1>4. CASE UNCHANGED <<log, shard, aside, queue, notifier, told, claimed>> /\ onBoard' \subseteq onBoard
  BY <1>4, DeliveryStays
<1>5. \/ \E n \in Notifiers : NotifierStep(n)
      \/ \E c \in Contracts : StreamStep(c)
      \/ \E w \in Writers : WriteEntry(w)
      \/ UNCHANGED <<log, shard, aside, queue, notifier, told, claimed>> /\ onBoard' \subseteq onBoard
  BY DEF EventsNext, Change, DeleteContract, Remove, ForgetDay, noticeVars, streamVars, eventVars
<1> QED BY <1>1, <1>2, <1>3, <1>4, <1>5

LEMMA DeliveryInit == EventsInit => Delivery
BY DEF EventsInit, Delivery, Logged, NoNotice

(* Unless a claim is left behind by a notifier that was killed or whose    *)
(* undo failed, somebody is told of every routed entry of a contract on    *)
(* the board, or it lies in a dead-letter queue (handle_event).            *)
THEOREM NobodyIsForgotten ==
    ASSUME EventFaults \cap Losing = {}
    PROVE  EventsSpec => []Announced
<1>1. Streaming /\ Delivery => Announced
  <2> SUFFICES ASSUME Streaming, Delivery, Quiet, queue = {}, \A n \in Notifiers : notifier[n].pc = "idle",
                      NEW c \in onBoard, NEW i \in 1..Len(log[c]), log[c][i].kind \in Routed
               PROVE  (\E ch \in Channels : told[<<c, i>>][ch] > 0) \/ <<c, i>> \in aside
    BY DEF Announced
  <2>1. c \in Contracts /\ Len(log[c]) \in Nat /\ shard[c].at \in Nat
    BY ShardIs DEF Streaming, StreamShapes, LogShape
  <2>2. <<c, i>> \in Logged /\ EntryKind(<<c, i>>) \in Routed
    BY <2>1 DEF Logged, EntryKind
  <2>3. Passed(<<c, i>>)
    BY <2>1 DEF Passed, Quiet
  <2>4. Heading(<<c, i>>)
    BY <2>2, <2>3 DEF Delivery
  <2> QED BY <2>4 DEF Heading, Reached
<1>2. Streaming /\ ByClaim /\ Delivery /\ [EventsNext]_eventVars => Delivery'
  BY DeliveryNext
<1> QED BY <1>1, <1>2, StreamingInit, StreamingNext, ByClaimInit, ByClaimNext, DeliveryInit, PTL DEF EventsSpec

-----------------------------------------------------------------------------
(* TrendsAgree, strengthened.  These leave a counter wrong:                *)
Miscounting == {"lost_reply", "undo", "killed_counting", "stop", "race"}

(* but for them, and with one removal at a time, a day's counter is the    *)
(* number of entries that are counted less those that are taken back.      *)
DayOf(e)     == log[e[1]][e[2]].day
Weighty(e)   == Weight[EntryKind(e)] > 0
Uncounted(e) == shard[e[1]].at = e[2] /\ shard[e[1]].pc \in {"add", "undo"}
Handled(e)      == e[2] < shard[e[1]].at \/ (e[2] = shard[e[1]].at /\ shard[e[1]].pc \in {"put", "rules"})
Reckoned(d)   == {e \in seen : DayOf(e) = d /\ ~Uncounted(e)}
OfDay(c, d)  == {e \in Logged : e[1] = c /\ DayOf(e) = d /\ Weighty(e)}
Forgets(r)   == removal[r].pc = "forget"
TakenBack(c, d) == c \notin onBoard \/ \E r \in Removers : Forgets(r) /\ removal[r].of = c /\ d \notin removal[r].left
TakenOut(d)  == {e \in Logged : DayOf(e) = d /\ Weighty(e) /\ TakenBack(e[1], d)}

Marking  == /\ \A e \in seen : Weighty(e)
            /\ \A e \in Logged : /\ Uncounted(e) => e \in seen
                                 /\ Weighty(e) /\ Handled(e) => e \in seen \/ e \in aside
Removing == /\ \A r \in Removers : Forgets(r) =>
                  removal[r].of \in onBoard /\ \A d \in Days : removal[r].sum[d] = Cardinality(OfDay(removal[r].of, d))
            /\ \A w \in Writers : write[w] # Nobody =>
                  write[w].of \in onBoard /\ \A r \in Removers : Forgets(r) => removal[r].of # write[w].of
Summing  == \A d \in Days : counter[d] = Cardinality(Reckoned(d)) - Cardinality(TakenOut(d))

FailedIs(c) == /\ shard'[c].pc = "count"
               /\ \/ shard'[c].at = shard[c].at /\ aside' = aside
                  \/ shard'[c].at = shard[c].at + 1 /\ aside' = aside \cup {Entry(c)}

LEMMA StreamCases ==
    ASSUME StreamShapes, NEW c \in Contracts, StreamStep(c), EventFaults \cap Miscounting = {}
    PROVE  \/ /\ UNCHANGED <<seen, counter>> /\ aside \subseteq aside'
              /\ shard[c].pc \notin {"add", "undo"} /\ shard'[c].pc \notin {"add", "undo"}
              /\ \/ shard'[c].at <= shard[c].at /\ shard'[c].pc = "count"
                 \/ shard'[c].at = shard[c].at /\ shard'[c].pc = "put"
                       /\ (Weight[Record(c).kind] = 0 \/ Entry(c) \in seen)
                 \/ shard'[c].at = shard[c].at /\ shard[c].pc = "put"
                 \/ shard'[c].at = shard[c].at + 1 /\ shard'[c].pc = "count" /\ (shard[c].pc = "rules" \/ Entry(c) \in aside')
           \/ /\ UNCHANGED <<counter, aside>> /\ shard[c].pc = "count" /\ shard'[c].pc = "add"
              /\ shard'[c].at = shard[c].at /\ seen' = seen \cup {Entry(c)} /\ Entry(c) \notin seen
              /\ Weight[Record(c).kind] > 0
           \/ /\ UNCHANGED <<seen, aside>> /\ shard[c].pc = "add" /\ shard'[c].pc = "put" /\ shard'[c].at = shard[c].at
              /\ counter' = [counter EXCEPT ![Record(c).day] = @ + Weight[Record(c).kind]]
           \/ /\ UNCHANGED <<seen, counter, aside>> /\ shard[c].pc = "add" /\ shard'[c].pc = "undo" /\ shard'[c].at = shard[c].at
           \/ /\ UNCHANGED counter /\ shard[c].pc = "undo" /\ seen' = seen \ {Entry(c)} /\ FailedIs(c)
<1>0. LogShape /\ ShardShape
  BY DEF StreamShapes
<1>a. shard[c].at \in Nat /\ shard[c].from \in Nat /\ shard[c].from <= shard[c].at
  BY <1>0, ShardIs
<1>b. shard[c].at <= Len(log[c])
  BY <1>0, ShardMoves
<1>f. FailRecord(c) => FailedIs(c)
  BY <1>0, <1>b, Failing DEF FailedIs
<1>g. ASSUME NEW to \in {"put", "add", "undo", "rules"}, GoTo(c, to) PROVE shard'[c].pc = to /\ shard'[c].at = shard[c].at
  BY <1>0, <1>b, <1>g, GoingTo
<1>h. \A f \in Miscounting : ~EventFault(f)
  BY DEF EventFault
<1>1. CASE Claim(c)
  <2>0. shard[c].pc = "count" /\ counter' = counter
    BY <1>1 DEF Claim, AtStep
  <2>1. CASE GoTo(c, "put") /\ UNCHANGED <<seen, aside>> /\ (Weight[Record(c).kind] = 0 \/ ~MayCount(Entry(c)))
    BY <2>0, <2>1, <1>g DEF MayCount
  <2>2. CASE GoTo(c, "add") /\ seen' = seen \cup {Entry(c)} /\ UNCHANGED aside /\ MayCount(Entry(c)) /\ Weight[Record(c).kind] > 0
    BY <2>0, <2>2, <1>g DEF MayCount
  <2>3. CASE FailRecord(c) /\ UNCHANGED seen
    BY <2>0, <2>3, <1>f, <1>a DEF FailedIs
  <2> QED BY <1>1, <2>1, <2>2, <2>3 DEF Claim
<1>2. CASE Count(c)
  <2>0. shard[c].pc = "add" /\ UNCHANGED <<seen, aside>>
    BY <1>2 DEF Count, AtStep
  <2>1. \/ counter' = [counter EXCEPT ![Record(c).day] = @ + Weight[Record(c).kind]] /\ GoTo(c, "put")
        \/ GoTo(c, "undo") /\ UNCHANGED counter
    BY <1>2, <1>h DEF Count, Miscounting
  <2> QED BY <2>0, <2>1, <1>g
<1>3. CASE Release(c)
  <2>1. shard[c].pc = "undo" /\ counter' = counter /\ FailRecord(c) /\ seen' = seen \ {Entry(c)}
    BY <1>3, <1>h DEF Release, AtStep, Miscounting
  <2> QED BY <2>1, <1>f
<1>4. CASE Publish(c)
  <2>0. shard[c].pc = "put" /\ UNCHANGED <<seen, counter>>
    BY <1>4 DEF Publish, AtStep
  <2>1. (GoTo(c, "rules") /\ UNCHANGED aside) \/ FailRecord(c)
    BY <1>4 DEF Publish
  <2> QED BY <2>0, <2>1, <1>f, <1>g, <1>a DEF FailedIs
<1>5. CASE RunRules(c)
  <2>0. shard[c].pc = "rules" /\ UNCHANGED <<seen, counter>>
    BY <1>5 DEF RunRules, AtStep
  <2>1. CASE FailRecord(c)
    BY <2>0, <2>1, <1>f, <1>a DEF FailedIs
  <2>2. CASE ~FailRecord(c)
    <3>1. PICK from \in {shard[c].from, shard[c].at + 1} :
             shard' = [shard EXCEPT ![c] = [at |-> shard[c].at + 1, from |-> from, tries |-> 0, pc |-> "count"]]
      BY <1>5, <2>2 DEF RunRules
    <3>2. shard'[c].at = shard[c].at + 1 /\ shard'[c].pc = "count" /\ aside' = aside
      BY <1>0, <1>5, <2>2, <3>1 DEF ShardShape, RunRules
    <3> QED BY <2>0, <3>2
  <2> QED BY <2>1, <2>2
<1>6. CASE StreamKilled(c)
  <2>0. shard[c].pc \notin {"add", "undo"} /\ UNCHANGED <<seen, counter>>
    BY <1>6, <1>h DEF StreamKilled, Miscounting
  <2>1. CASE shard[c].tries + 1 < MaxAttempts
    <3>1. shard'[c].at = shard[c].from /\ shard'[c].pc = "count" /\ aside' = aside
      BY <1>0, <1>6, <2>1 DEF StreamKilled, ShardShape
    <3> QED BY <1>a, <2>0, <3>1
  <2>2. CASE ~(shard[c].tries + 1 < MaxAttempts)
    <3>1. FailRecord(c)
      BY <1>6, <2>2 DEF StreamKilled
    <3> QED BY <2>0, <3>1, <1>f, <1>a DEF FailedIs
  <2> QED BY <2>1, <2>2
<1> QED BY <1>1, <1>2, <1>3, <1>4, <1>5, <1>6 DEF StreamStep

LEMMA MarkingStays ==
    ASSUME Marking, log' = log, UNCHANGED <<seen, shard>>, aside \subseteq aside'
    PROVE  Marking'
<1>1. Logged' = Logged /\ \A e : (Weighty(e)' <=> Weighty(e)) /\ (Uncounted(e)' <=> Uncounted(e)) /\ (Handled(e)' <=> Handled(e))
  BY SameLog DEF Weighty, EntryKind, Uncounted, Handled
<1> QED BY <1>1 DEF Marking

(* A new entry is one the stream has not come to.                          *)
LEMMA Unread ==
    ASSUME LogShape, ShardShape, NEW c \in Contracts, NEW e, e = <<c, Len(log[c]) + 1>>
    PROVE  ~Uncounted(e) /\ ~Handled(e)
<1>1. shard[c].at \in Nat /\ Len(log[c]) \in Nat /\ shard[c].at <= Len(log[c]) + 1
      /\ (shard[c].at > Len(log[c]) => shard[c].pc = "count")
  BY ShardIs DEF ShardShape, AtRecord
<1> QED BY <1>1 DEF Uncounted, Handled

LEMMA MarkingGrows ==
    ASSUME Streaming, Marking, NEW c \in Contracts, NEW x \in LogRecords, log' = [log EXCEPT ![c] = Append(@, x)],
           UNCHANGED <<seen, shard, aside>>
    PROVE  Marking'
<1>0. LogShape /\ ShardShape /\ MarkShape
  BY DEF Streaming, StreamShapes
<1>1. PICK e : e = <<c, Len(log[c]) + 1>>
  OBVIOUS
<1>2. Grown /\ Logged' = Logged \cup {e}
  BY <1>0, <1>1, Appended DEF LogShape
<1>3. \A b \in Logged : Weighty(b)' <=> Weighty(b)
  BY <1>0, <1>2, LoggedStays DEF LogShape, Weighty
<1>4. ~Uncounted(e) /\ ~Handled(e)
  BY <1>0, <1>1, Unread
<1>5. \A b : (Uncounted(b)' <=> Uncounted(b)) /\ (Handled(b)' <=> Handled(b))
  BY DEF Uncounted, Handled
<1> QED BY <1>0, <1>2, <1>3, <1>4, <1>5 DEF Marking, MarkShape

LEMMA MarkingStream ==
    ASSUME Streaming, Marking, EventFaults \cap Miscounting = {}, NEW c \in Contracts, StreamStep(c)
    PROVE  Marking'
<1>0. LogShape /\ ShardShape /\ MarkShape /\ StreamShapes
  BY DEF Streaming, StreamShapes
<1>1. /\ shard[c].at <= Len(log[c])
      /\ \A b \in Contracts \ {c} : shard'[b] = shard[b]
      /\ log' = log /\ aside \subseteq aside'
      /\ shard' \in [Contracts -> Shards]
  BY <1>0, ShardMoves
<1>2. Entry(c) \in Logged /\ EntryKind(Entry(c)) = Record(c).kind /\ Entry(c)[1] = c /\ Entry(c)[2] = shard[c].at
  BY <1>0, <1>1, EntryLogged
<1>3. Logged' = Logged /\ \A e : Weighty(e)' <=> Weighty(e)
  BY <1>1, SameLog DEF Weighty, EntryKind
<1>4. shard[c].at \in Nat /\ shard'[c].at \in Nat
  BY <1>0, <1>1, ShardIs DEF Shards
<1>5. ASSUME NEW e \in Logged
      PROVE  /\ e[1] \in Contracts /\ e[2] \in Nat
             /\ e[1] = c /\ e[2] = shard[c].at => e = Entry(c)
             /\ e[1] # c => (Uncounted(e)' <=> Uncounted(e)) /\ (Handled(e)' <=> Handled(e))
  BY <1>1, <1>2 DEF Logged, Uncounted, Handled, Entry
<1>6. seen' = seen \/ seen' = seen \cup {Entry(c)} \/ seen' = seen \ {Entry(c)}
  BY <1>0, StreamCases
<1>7. \A e \in seen' : Weighty(e)
  <2>1. Weight[Record(c).kind] > 0 => Weighty(Entry(c))
    BY <1>2 DEF Weighty
  <2> QED BY <1>0, <2>1, StreamCases DEF Marking
<1>8. ASSUME NEW e \in Logged, e[1] # c
      PROVE  /\ Uncounted(e)' => e \in seen'
             /\ Weighty(e) /\ Handled(e)' => e \in seen' \/ e \in aside'
  BY <1>1, <1>2, <1>5, <1>6, <1>8 DEF Marking
<1>9. ASSUME NEW e \in Logged, e[1] = c
      PROVE  /\ Uncounted(e)' => e \in seen'
             /\ Weighty(e) /\ Handled(e)' => e \in seen' \/ e \in aside'
  <2>0. /\ Uncounted(e)' <=> shard'[c].at = e[2] /\ shard'[c].pc \in {"add", "undo"}
        /\ Uncounted(e) <=> shard[c].at = e[2] /\ shard[c].pc \in {"add", "undo"}
        /\ Handled(e)' <=> e[2] < shard'[c].at \/ (e[2] = shard'[c].at /\ shard'[c].pc \in {"put", "rules"})
        /\ Handled(e) <=> e[2] < shard[c].at \/ (e[2] = shard[c].at /\ shard[c].pc \in {"put", "rules"})
        /\ e[2] \in Nat /\ (e[2] = shard[c].at <=> e = Entry(c))
    BY <1>2, <1>5, <1>9 DEF Uncounted, Handled
  <2>1. (Uncounted(e) => e \in seen) /\ (Weighty(e) /\ Handled(e) => e \in seen \/ e \in aside)
    BY DEF Marking
  <2>2. CASE /\ UNCHANGED <<seen, counter>>
             /\ shard[c].pc \notin {"add", "undo"} /\ shard'[c].pc \notin {"add", "undo"}
             /\ \/ shard'[c].at <= shard[c].at /\ shard'[c].pc = "count"
                \/ shard'[c].at = shard[c].at /\ shard'[c].pc = "put"
                      /\ (Weight[Record(c).kind] = 0 \/ Entry(c) \in seen)
                \/ shard'[c].at = shard[c].at /\ shard[c].pc = "put"
                \/ shard'[c].at = shard[c].at + 1 /\ shard'[c].pc = "count" /\ (shard[c].pc = "rules" \/ Entry(c) \in aside')
    <3>1. CASE shard'[c].at <= shard[c].at /\ shard'[c].pc = "count"
      BY <1>1, <1>4, <2>0, <2>1, <2>2, <3>1
    <3>2. CASE shard'[c].at = shard[c].at /\ shard'[c].pc = "put" /\ (Weight[Record(c).kind] = 0 \/ Entry(c) \in seen)
      <4>1. Weighty(e) /\ e = Entry(c) => e \in seen
        BY <1>2, <3>2 DEF Weighty
      <4> QED BY <1>1, <1>4, <2>0, <2>1, <2>2, <3>2, <4>1
    <3>3. CASE shard'[c].at = shard[c].at /\ shard[c].pc = "put"
      BY <1>1, <1>4, <2>0, <2>1, <2>2, <3>3
    <3>4. CASE shard'[c].at = shard[c].at + 1 /\ shard'[c].pc = "count" /\ (shard[c].pc = "rules" \/ Entry(c) \in aside')
      <4>1. e[2] < shard'[c].at => e[2] < shard[c].at \/ e[2] = shard[c].at
        BY <1>4, <2>0, <3>4
      <4> QED BY <1>1, <2>0, <2>1, <2>2, <3>4, <4>1
    <3> QED BY <2>2, <3>1, <3>2, <3>3, <3>4
  <2>3. CASE shard[c].pc = "count" /\ shard'[c].pc = "add" /\ shard'[c].at = shard[c].at /\ seen' = seen \cup {Entry(c)}
    BY <1>1, <2>0, <2>1, <2>3
  <2>4. CASE shard[c].pc = "add" /\ shard'[c].pc = "put" /\ shard'[c].at = shard[c].at /\ seen' = seen
    BY <1>1, <2>0, <2>1, <2>4
  <2>5. CASE shard[c].pc = "add" /\ shard'[c].pc = "undo" /\ shard'[c].at = shard[c].at /\ seen' = seen
    BY <1>1, <2>0, <2>1, <2>5
  <2>6. CASE shard[c].pc = "undo" /\ seen' = seen \ {Entry(c)} /\ FailedIs(c)
    <3>1. CASE shard'[c].at = shard[c].at /\ shard'[c].pc = "count"
      BY <1>1, <1>4, <2>0, <2>1, <2>6, <3>1
    <3>2. CASE shard'[c].at = shard[c].at + 1 /\ shard'[c].pc = "count" /\ Entry(c) \in aside'
      <4>1. e[2] < shard'[c].at => e[2] < shard[c].at \/ e[2] = shard[c].at
        BY <1>4, <2>0, <3>2
      <4>2. e[2] < shard[c].at => e # Entry(c)
        BY <1>4, <2>0
      <4> QED BY <1>1, <2>0, <2>1, <2>6, <3>2, <4>1, <4>2
    <3> QED BY <2>6, <3>1, <3>2 DEF FailedIs
  <2> QED BY <1>0, StreamCases, <2>2, <2>3, <2>4, <2>5, <2>6
<1> QED BY <1>3, <1>7, <1>8, <1>9 DEF Marking

(* What a removal reads is the number of the contract's entries that count. *)
LEMMA CountsIs ==
    ASSUME LogShape, IsFiniteSet(Logged), NEW c \in Contracts, NEW d
    PROVE  Counts(c, d) = Cardinality(OfDay(c, d))
<1> DEFINE I == {i \in 1..Len(log[c]) : log[c][i].day = d /\ Weight[log[c][i].kind] > 0}
           f == [i \in I |-> <<c, i>>]
<1>1. Len(log[c]) \in Nat
  BY DEF LogShape
<1>2. IsFiniteSet(I)
  <2>1. I \in SUBSET (1..Len(log[c]))
    OBVIOUS
  <2>2. PICK n \in Int : n = Len(log[c])
    BY <1>1
  <2>3. IsFiniteSet(1..n)
    BY FS_Interval
  <2> QED BY <2>1, <2>2, <2>3, FS_Subset
<1>3. ASSUME NEW i \in I PROVE <<c, i>> \in OfDay(c, d)
  <2>1. i \in Nat \ {0} /\ i <= Len(log[c]) /\ log[c][i].day = d /\ Weight[log[c][i].kind] > 0
    BY <1>1
  <2>2. PICK e : e = <<c, i>>
    OBVIOUS
  <2>3. e \in Logged /\ e[1] = c /\ e[2] = i
    BY <2>1, <2>2 DEF Logged
  <2>4. DayOf(e) = d /\ Weighty(e)
    BY <2>1, <2>3 DEF DayOf, Weighty, EntryKind
  <2> QED BY <2>2, <2>3, <2>4 DEF OfDay
<1>4. \A e \in OfDay(c, d) : e[2] \in I /\ e = <<c, e[2]>>
  BY <1>1 DEF OfDay, Logged, DayOf, Weighty, EntryKind
<1>5. f \in Injection(I, OfDay(c, d))
  <2>1. f \in [I -> OfDay(c, d)]
    BY <1>3
  <2>2. \A i, j \in I : f[i] = f[j] => i = j
    OBVIOUS
  <2> QED BY <2>1, <2>2 DEF Injection, IsInjective
<1>6. f \in Surjection(I, OfDay(c, d))
  <2>1. ASSUME NEW e \in OfDay(c, d) PROVE \E i \in I : f[i] = e
    BY <1>4
  <2> QED BY <1>3, <2>1 DEF Surjection
<1>7. ExistsBijection(I, OfDay(c, d))
  BY <1>5, <1>6 DEF ExistsBijection, Bijection
<1>8. Cardinality(OfDay(c, d)) = Cardinality(I)
  BY <1>2, <1>7, FS_Bijection
<1> QED BY <1>8 DEF Counts

LEMMA SameDays ==
    ASSUME log' = log
    PROVE  /\ Logged' = Logged
           /\ \A e : (DayOf(e))' = DayOf(e) /\ (Weighty(e)' <=> Weighty(e))
           /\ \A c, d : OfDay(c, d)' = OfDay(c, d)
<1>1. Logged' = Logged
  BY SameLog
<1>2. \A e : (DayOf(e))' = DayOf(e) /\ (Weighty(e)' <=> Weighty(e))
  BY DEF DayOf, Weighty, EntryKind
<1> QED BY <1>1, <1>2 DEF OfDay

(* A new entry is one of its contract and its day, if it counts.           *)
LEMMA DaysGrow ==
    ASSUME LogShape, NEW c \in Contracts, NEW x \in LogRecords, log' = [log EXCEPT ![c] = Append(@, x)]
    PROVE  /\ \A e \in Logged : (DayOf(e))' = DayOf(e) /\ (Weighty(e)' <=> Weighty(e))
           /\ \A b, d : b # c \/ Weight[x.kind] = 0 => OfDay(b, d)' = OfDay(b, d)
<1>1. PICK e : e = <<c, Len(log[c]) + 1>>
  OBVIOUS
<1>2. Grown /\ Logged' = Logged \cup {e} /\ EntryKind(e)' = x.kind /\ e[1] = c
  <2>1. /\ Grown
        /\ Logged' = Logged \cup {<<c, Len(log[c]) + 1>>}
        /\ \A b : b = <<c, Len(log[c]) + 1>> => EntryKind(b)' = x.kind
    BY Appended DEF LogShape
  <2> QED BY <1>1, <2>1
<1>3. \A b \in Logged : EntryKind(b)' = EntryKind(b) /\ log'[b[1]][b[2]] = log[b[1]][b[2]]
  BY <1>2, LoggedStays DEF LogShape
<1>4. \A b \in Logged : (DayOf(b))' = DayOf(b) /\ (Weighty(b)' <=> Weighty(b))
  BY <1>3 DEF DayOf, Weighty
<1>5. Weight[x.kind] = 0 => ~Weighty(e)'
  BY <1>2 DEF Weighty
<1>6. ASSUME NEW b, NEW d, b # c \/ Weight[x.kind] = 0 PROVE OfDay(b, d)' = OfDay(b, d)
  BY <1>2, <1>4, <1>5, <1>6 DEF OfDay
<1> QED BY <1>4, <1>6

LEMMA RemovingStays ==
    ASSUME Removing, UNCHANGED <<onBoard, removal>>,
           \A w \in Writers : write'[w] = write[w] \/ write'[w] = Nobody,
           \A c, d : OfDay(c, d)' = OfDay(c, d) \/ \A r \in Removers : ~(Forgets(r) /\ removal[r].of = c)
    PROVE  Removing'
<1>1. \A r \in Removers : (Forgets(r)' <=> Forgets(r)) /\ removal'[r] = removal[r]
  BY DEF Forgets
<1>2. ASSUME NEW r \in Removers, Forgets(r), NEW d \in Days
      PROVE  (removal[r].sum[d] = Cardinality(OfDay(removal[r].of, d)))'
  <2>1. PICK c : c = removal[r].of
    OBVIOUS
  <2>2. removal[r].sum[d] = Cardinality(OfDay(c, d))
    BY <1>2, <2>1 DEF Removing
  <2>3. removal'[r].of = c /\ removal'[r].sum[d] = removal[r].sum[d]
    BY <1>1, <2>1
  <2>4. OfDay(c, d)' = OfDay(c, d)
    BY <1>2, <2>1
  <2>5. \A b : b = c => OfDay(b, d)' = OfDay(c, d)
    BY <2>4
  <2> QED BY <2>2, <2>3, <2>5
<1>3. \A r \in Removers : Forgets(r) => removal'[r].of \in onBoard'
  BY <1>1 DEF Removing
<1>4. \A w \in Writers : write'[w] # Nobody =>
          write'[w].of \in onBoard' /\ \A r \in Removers : Forgets(r)' => removal'[r].of # write'[w].of
  BY <1>1 DEF Removing
<1> QED BY <1>1, <1>2, <1>3, <1>4 DEF Removing

LEMMA RemovingWrite ==
    ASSUME Streaming, Removing, NEW w \in Writers, WriteEntry(w)
    PROVE  Removing'
<1>0. LogShape /\ StreamShapes
  BY DEF Streaming, StreamShapes
<1>1. UNCHANGED <<onBoard, removal>>
  BY DEF WriteEntry
<1>2. /\ write[w] # Nobody /\ write[w].of \in Contracts /\ write' = [write EXCEPT ![w] = Nobody]
      /\ \/ log' = [log EXCEPT ![write[w].of] = Append(@, write[w].entry)]
         \/ log' = log
      /\ write[w].entry \in LogRecords
  BY <1>0, ShapesWrite
<1>3. \A k \in Writers : write'[k] = write[k] \/ write'[k] = Nobody
  BY <1>0, <1>2 DEF LogShape
<1>4. \A r \in Removers : ~(Forgets(r) /\ removal[r].of = write[w].of)
  BY <1>2 DEF Removing
<1>5. CASE log' = log
  BY <1>1, <1>3, <1>5, SameDays, RemovingStays
<1>6. CASE log' = [log EXCEPT ![write[w].of] = Append(@, write[w].entry)]
  <2>1. \A b, d : b # write[w].of => OfDay(b, d)' = OfDay(b, d)
    BY <1>0, <1>2, <1>6, DaysGrow
  <2> QED BY <1>1, <1>3, <1>4, <2>1, RemovingStays
<1> QED BY <1>2, <1>5, <1>6

LEMMA RemovingNotifier ==
    ASSUME Streaming, Removing, NEW n \in Notifiers, NotifierStep(n)
    PROVE  Removing'
<1>0. LogShape /\ StreamShapes /\ Logged \subseteq Entries
  BY LogIsBounded DEF Streaming, StreamShapes
<1>1. UNCHANGED <<onBoard, write, removal>>
  BY <1>0, ShapesNotifier
<1>2. CASE log' = log
  BY <1>1, <1>2, SameDays, RemovingStays
<1>3. CASE RecordNotice(n) /\ log' # log
  <2>1. PICK c \in Contracts, x \in LogRecords :
            log' = [log EXCEPT ![c] = Append(@, x)] /\ x.kind = "notification_sent"
    BY <1>0, <1>3, NotedIs
  <2>2. Weight[x.kind] = 0
    BY <2>1 DEF Weight
  <2>3. \A b, d : OfDay(b, d)' = OfDay(b, d)
    BY <1>0, <2>1, <2>2, DaysGrow
  <2> QED BY <1>1, <2>3, RemovingStays
<1>4. RecordNotice(n) \/ log' = log
  BY DEF NotifierStep, Receive, ClaimNotice, ReleaseNotice, NotifierKilled, Send
<1> QED BY <1>2, <1>3, <1>4

LEMMA RemovingStream ==
    ASSUME Streaming, Removing, NEW c \in Contracts, StreamStep(c)
    PROVE  Removing'
<1>1. UNCHANGED <<onBoard, log, write, removal>>
  BY ShardMoves DEF Streaming, StreamShapes
<1> QED BY <1>1, SameDays, RemovingStays

(* Nobody changes a contract that is being removed.                        *)
LEMMA RemovingChange ==
    ASSUME Streaming, Removing, EventFaults \cap Miscounting = {},
           NEW w \in Writers, NEW c \in Contracts, NEW kind \in ChangeKinds, NEW d \in Days, Change(w, c, kind, d)
    PROVE  Removing'
<1>0. LogShape /\ StreamShapes
  BY DEF Streaming, StreamShapes
<1>1. UNCHANGED <<onBoard, log, removal>> /\ c \in onBoard
  BY DEF Change
<1>2. ~BeingRemoved(c)
  BY DEF Change, EventFault, Miscounting
<1>3. write' = [write EXCEPT ![w] = [of |-> c, entry |-> [kind |-> kind, day |-> d]]]
  BY <1>0, ShapesChange
<1>4. (\A a, b : OfDay(a, b)' = OfDay(a, b)) /\ \A r \in Removers : Forgets(r)' <=> Forgets(r)
  BY <1>1, SameDays DEF Forgets
<1>5. \A k \in Writers : write'[k] = write[k] \/ (k = w /\ write'[k].of = c)
  BY <1>0, <1>3 DEF LogShape
<1>6. \A r \in Removers : Forgets(r) => removal[r].of # c
  BY <1>2 DEF BeingRemoved
<1>7. \A k \in Writers : write'[k] # Nobody =>
          write'[k].of \in onBoard' /\ \A r \in Removers : Forgets(r)' => removal'[r].of # write'[k].of
  BY <1>1, <1>4, <1>5, <1>6 DEF Removing
<1>8. ASSUME NEW r \in Removers, Forgets(r), NEW b \in Days
      PROVE  (removal[r].sum[b] = Cardinality(OfDay(removal[r].of, b)))'
  <2>1. PICK a : a = removal[r].of
    OBVIOUS
  <2>2. removal[r].sum[b] = Cardinality(OfDay(a, b))
    BY <1>8, <2>1 DEF Removing
  <2>3. \A x : x = a => OfDay(x, b)' = OfDay(a, b)
    BY <1>4
  <2> QED BY <1>1, <2>1, <2>2, <2>3
<1>9. \A r \in Removers : Forgets(r) => removal'[r].of \in onBoard'
  BY <1>1 DEF Removing
<1> QED BY <1>4, <1>7, <1>8, <1>9 DEF Removing

(* A removal reads what the contract has counted, takes it back day by day *)
(* and deletes it.                                                         *)
LEMMA RemovingRemove ==
    ASSUME Streaming, Removing, EventFaults \cap Miscounting = {}, \A r, s \in Removers : r = s,
           NEW r \in Removers, NEW c \in Contracts, Remove(r, c)
    PROVE  /\ Removing'
           /\ removal'[r].pc = "forget" /\ removal'[r].of = c
           /\ removal'[r].left = {d \in Days : Cardinality(OfDay(c, d)) > 0}
<1>0. LogShape /\ StreamShapes /\ CounterShape /\ IsFiniteSet(Logged)
  BY LogIsBounded DEF Streaming, StreamShapes
<1> DEFINE sum == [d \in Days |-> Counts(c, d)]
           y == [pc |-> "forget", of |-> c, sum |-> sum, left |-> {d \in Days : sum[d] > 0}]
<1>1. UNCHANGED <<onBoard, log, write>> /\ c \in onBoard /\ removal' = [removal EXCEPT ![r] = y]
  BY DEF Remove
<1>2. \A d \in Days : sum[d] = Cardinality(OfDay(c, d))
  BY <1>0, CountsIs
<1>3. removal'[r] = y
  BY <1>0, <1>1 DEF CounterShape
<1>4. /\ removal'[r].pc = "forget" /\ removal'[r].of = c
      /\ removal'[r].left = {d \in Days : Cardinality(OfDay(c, d)) > 0}
      /\ \A d \in Days : removal'[r].sum[d] = Cardinality(OfDay(c, d))
  BY <1>2, <1>3
<1>5. ~BeingWritten(c)
  BY DEF Remove, Miscounting
<1>6. \A s \in Removers : s = r
  OBVIOUS
<1>7. \A a, d : OfDay(a, d)' = OfDay(a, d)
  BY <1>1, SameDays
<1>8. \A w \in Writers : write'[w] # Nobody => write'[w].of \in onBoard' /\ write'[w].of # c
  BY <1>1, <1>5 DEF Removing, BeingWritten
<1>9. ASSUME NEW s \in Removers, NEW d \in Days
      PROVE  (removal[s].sum[d] = Cardinality(OfDay(removal[s].of, d)))'
  <2>1. removal'[s].sum[d] = Cardinality(OfDay(c, d)) /\ removal'[s].of = c
    BY <1>4, <1>6
  <2>2. \A x : x = c => OfDay(x, d)' = OfDay(c, d)
    BY <1>7
  <2> QED BY <2>1, <2>2
<1>10. \A s \in Removers : removal'[s].of \in onBoard' /\ \A w \in Writers : write'[w] # Nobody => removal'[s].of # write'[w].of
  BY <1>1, <1>4, <1>6, <1>8
<1>11. Removing'
  BY <1>8, <1>9, <1>10 DEF Removing
<1> QED BY <1>4, <1>11

LEMMA RemovingForget ==
    ASSUME Streaming, Removing, EventFaults \cap Miscounting = {}, NEW r \in Removers, NEW d \in Days, ForgetDay(r, d)
    PROVE  /\ Removing'
           /\ \A s \in Removers : (Forgets(s)' <=> Forgets(s)) /\ removal'[s].of = removal[s].of
                                  /\ (s # r => removal'[s].left = removal[s].left)
           /\ removal'[r].left = removal[r].left \ {d}
<1>0. CounterShape
  BY DEF Streaming, StreamShapes
<1>1. UNCHANGED <<onBoard, log, write>> /\ removal' = [removal EXCEPT ![r].left = @ \ {d}]
  BY DEF ForgetDay, EventFault, Miscounting
<1>2. \A s \in Removers : removal[s] \in Removals
  BY <1>0 DEF CounterShape
<1>3. \A s \in Removers : /\ removal'[s].of = removal[s].of /\ removal'[s].sum = removal[s].sum
                          /\ removal'[s].pc = removal[s].pc /\ (s # r => removal'[s].left = removal[s].left)
  BY <1>0, <1>1, <1>2 DEF CounterShape, Removals
<1>4. removal'[r].left = removal[r].left \ {d}
  BY <1>0, <1>1, <1>2 DEF CounterShape, Removals
<1>5. \A s \in Removers : Forgets(s)' <=> Forgets(s)
  BY <1>3 DEF Forgets
<1>6. ASSUME NEW s \in Removers, Forgets(s), NEW b \in Days
      PROVE  (removal[s].sum[b] = Cardinality(OfDay(removal[s].of, b)))'
  <2>1. PICK a : a = removal[s].of
    OBVIOUS
  <2>2. removal[s].sum[b] = Cardinality(OfDay(a, b))
    BY <1>6, <2>1 DEF Removing
  <2>3. \A x : x = a => OfDay(x, b)' = OfDay(a, b)
    BY <1>1, SameDays
  <2> QED BY <1>3, <2>1, <2>2, <2>3
<1>7. \A s \in Removers : Forgets(s) => removal'[s].of \in onBoard'
  BY <1>1, <1>3 DEF Removing
<1>8. \A w \in Writers : write'[w] # Nobody =>
          write'[w].of \in onBoard' /\ \A s \in Removers : Forgets(s)' => removal'[s].of # write'[w].of
  BY <1>1, <1>3, <1>5 DEF Removing
<1>9. Removing'
  BY <1>5, <1>6, <1>7, <1>8 DEF Removing
<1> QED BY <1>3, <1>4, <1>5, <1>9

LEMMA RemovingDelete ==
    ASSUME Streaming, Removing, \A r, s \in Removers : r = s, NEW r \in Removers, DeleteContract(r)
    PROVE  /\ Removing'
           /\ \A s \in Removers : s = r /\ ~Forgets(s)'
<1>0. CounterShape
  BY DEF Streaming, StreamShapes
<1>1. /\ UNCHANGED <<log, write>> /\ Forgets(r) /\ onBoard' = onBoard \ {removal[r].of}
      /\ removal' = [removal EXCEPT ![r] = NoRemoval]
  BY DEF DeleteContract, Forgets
<1>2. \A s \in Removers : s = r
  OBVIOUS
<1>3. ~Forgets(r)'
  BY <1>0, <1>1 DEF Forgets, CounterShape, NoRemoval
<1>4. \A w \in Writers : write'[w] # Nobody => write'[w].of \in onBoard'
  BY <1>1 DEF Removing
<1> QED BY <1>2, <1>3, <1>4 DEF Removing

LEMMA SummingStays ==
    ASSUME Summing, counter' = counter,
           \A d \in Days : Reckoned(d)' = Reckoned(d) /\ TakenOut(d)' = TakenOut(d)
    PROVE  Summing'
BY DEF Summing

LEMMA SameCounted == log' = log /\ seen' = seen /\ shard' = shard => \A d : Reckoned(d)' = Reckoned(d)
<1> SUFFICES ASSUME log' = log, seen' = seen, shard' = shard, NEW d PROVE Reckoned(d)' = Reckoned(d)
  OBVIOUS
<1>1. \A e : (DayOf(e))' = DayOf(e) /\ (Uncounted(e)' <=> Uncounted(e))
  BY DEF DayOf, Uncounted
<1> QED BY <1>1 DEF Reckoned

LEMMA SameTakenOut == log' = log /\ onBoard' = onBoard /\ removal' = removal => \A d : TakenOut(d)' = TakenOut(d)
<1> SUFFICES ASSUME log' = log, onBoard' = onBoard, removal' = removal, NEW d PROVE TakenOut(d)' = TakenOut(d)
  OBVIOUS
<1>1. \A c : TakenBack(c, d)' <=> TakenBack(c, d)
  BY DEF TakenBack, Forgets
<1> QED BY <1>1, SameDays DEF TakenOut

LEMMA SummingGrows ==
    ASSUME Streaming, Summing, NEW c \in Contracts, NEW x \in LogRecords, log' = [log EXCEPT ![c] = Append(@, x)],
           UNCHANGED <<onBoard, removal, seen, shard, counter>>,
           Weight[x.kind] = 0 \/ \A d : ~TakenBack(c, d)
    PROVE  Summing'
<1>0. LogShape /\ MarkShape
  BY DEF Streaming, StreamShapes
<1>1. PICK e : e = <<c, Len(log[c]) + 1>>
  OBVIOUS
<1>2. Grown /\ Logged' = Logged \cup {e} /\ EntryKind(e)' = x.kind /\ e[1] = c
  <2>1. /\ Grown
        /\ Logged' = Logged \cup {<<c, Len(log[c]) + 1>>}
        /\ \A b : b = <<c, Len(log[c]) + 1>> => EntryKind(b)' = x.kind
    BY <1>0, Appended DEF LogShape
  <2> QED BY <1>1, <2>1
<1>3. \A b \in Logged : (DayOf(b))' = DayOf(b) /\ (Weighty(b)' <=> Weighty(b))
  BY <1>0, DaysGrow
<1>4. ASSUME NEW d \in Days PROVE Reckoned(d)' = Reckoned(d)
  <2>1. \A b : Uncounted(b)' <=> Uncounted(b)
    BY DEF Uncounted
  <2> QED BY <1>0, <1>3, <2>1 DEF Reckoned, MarkShape
<1>5. ASSUME NEW d \in Days PROVE TakenOut(d)' = TakenOut(d)
  <2>1. \A b : TakenBack(b, d)' <=> TakenBack(b, d)
    BY DEF TakenBack, Forgets
  <2>2. ~(Weighty(e)' /\ TakenBack(e[1], d))
    BY <1>2 DEF Weighty
  <2> QED BY <1>2, <1>3, <2>1, <2>2 DEF TakenOut
<1> QED BY <1>4, <1>5, SummingStays

LEMMA SummingWrite ==
    ASSUME Streaming, Removing, Summing, NEW w \in Writers, WriteEntry(w)
    PROVE  Summing'
<1>1. UNCHANGED <<onBoard, removal, seen, shard, counter>>
  BY DEF WriteEntry, streamVars
<1>2. /\ write[w] # Nobody /\ write[w].of \in Contracts
      /\ \/ log' = [log EXCEPT ![write[w].of] = Append(@, write[w].entry)]
         \/ log' = log
      /\ write[w].entry \in LogRecords
  BY ShapesWrite DEF Streaming
<1>3. \A d : ~TakenBack(write[w].of, d)
  BY <1>2 DEF Removing, TakenBack
<1> QED BY <1>1, <1>2, <1>3, SummingGrows, SummingStays, SameCounted, SameTakenOut

LEMMA SummingNotifier ==
    ASSUME Streaming, Summing, NEW n \in Notifiers, NotifierStep(n)
    PROVE  Summing'
<1>0. StreamShapes /\ Logged \subseteq Entries
  BY LogIsBounded DEF Streaming, StreamShapes
<1>1. UNCHANGED <<onBoard, removal, seen, shard, counter>>
  BY <1>0, ShapesNotifier
<1>2. CASE log' = log
  BY <1>1, <1>2, SummingStays, SameCounted, SameTakenOut
<1>3. CASE RecordNotice(n) /\ log' # log
  <2>1. PICK c \in Contracts, x \in LogRecords :
            log' = [log EXCEPT ![c] = Append(@, x)] /\ x.kind = "notification_sent"
    BY <1>0, <1>3, NotedIs
  <2>2. Weight[x.kind] = 0
    BY <2>1 DEF Weight
  <2> QED BY <1>1, <2>1, <2>2, SummingGrows
<1>4. RecordNotice(n) \/ log' = log
  BY DEF NotifierStep, Receive, ClaimNotice, ReleaseNotice, NotifierKilled, Send
<1> QED BY <1>2, <1>3, <1>4

LEMMA SummingStream ==
    ASSUME Streaming, Marking, Summing, EventFaults \cap Miscounting = {}, NEW c \in Contracts, StreamStep(c)
    PROVE  Summing'
<1>0. LogShape /\ ShardShape /\ MarkShape /\ CounterShape /\ StreamShapes /\ IsFiniteSet(Logged)
  BY LogIsBounded DEF Streaming, StreamShapes
<1>1. /\ shard[c].at <= Len(log[c])
      /\ \A b \in Contracts \ {c} : shard'[b] = shard[b]
      /\ UNCHANGED <<onBoard, log, removal>>
  BY <1>0, ShardMoves
<1>2. /\ Entry(c) \in Logged /\ EntryKind(Entry(c)) = Record(c).kind /\ Entry(c)[1] = c /\ Entry(c)[2] = shard[c].at
      /\ Record(c) \in LogRecords
  BY <1>0, <1>1, EntryLogged
<1>e. PICK x : x = Entry(c)
  OBVIOUS
<1>3. \A d : TakenOut(d)' = TakenOut(d)
  BY <1>1, SameTakenOut
<1>4. \A e : (DayOf(e))' = DayOf(e)
  BY <1>1, SameDays
<1>5. ASSUME NEW e \in Logged
      PROVE  /\ e[1] = c /\ e[2] = shard[c].at <=> e = Entry(c)
             /\ e[1] # c => (Uncounted(e)' <=> Uncounted(e))
             /\ e[1] = c => (Uncounted(e)' <=> shard'[c].at = e[2] /\ shard'[c].pc \in {"add", "undo"})
             /\ e[1] = c => (Uncounted(e) <=> shard[c].at = e[2] /\ shard[c].pc \in {"add", "undo"})
  BY <1>1, <1>2 DEF Logged, Uncounted, Entry
<1>6. CASE /\ UNCHANGED <<seen, counter>>
           /\ shard[c].pc \notin {"add", "undo"} /\ shard'[c].pc \notin {"add", "undo"}
  <2>1. \A d \in Days : Reckoned(d)' = Reckoned(d)
    BY <1>0, <1>4, <1>5, <1>6 DEF Reckoned, MarkShape
  <2> QED BY <1>3, <1>6, <2>1, SummingStays
<1>7. CASE /\ UNCHANGED counter /\ shard[c].pc = "count" /\ shard'[c].pc = "add"
           /\ shard'[c].at = shard[c].at /\ seen' = seen \cup {Entry(c)} /\ Entry(c) \notin seen
  <2>1. \A e \in seen : Uncounted(e)' <=> Uncounted(e)
    BY <1>0, <1>5, <1>7 DEF MarkShape
  <2>2. Uncounted(x)'
    BY <1>2, <1>5, <1>7, <1>e
  <2>3. \A d \in Days : Reckoned(d)' = Reckoned(d)
    BY <1>4, <1>7, <1>e, <2>1, <2>2 DEF Reckoned
  <2> QED BY <1>3, <1>7, <2>3, SummingStays
<1>8. CASE /\ seen' = seen /\ shard[c].pc = "add" /\ shard'[c].pc = "put" /\ shard'[c].at = shard[c].at
           /\ counter' = [counter EXCEPT ![Record(c).day] = @ + Weight[Record(c).kind]]
  <2>1. Uncounted(x) /\ ~Uncounted(x)' /\ x \in seen
    BY <1>2, <1>5, <1>8, <1>e DEF Marking
  <2>2. Weight[Record(c).kind] = 1
    <3>1. Weight[Record(c).kind] > 0 /\ Record(c).kind \in DOMAIN Weight
      BY <1>2, <1>e, <2>1 DEF Marking, Weighty, LogRecords
    <3> QED BY <3>1, Weighs
  <2>3. DayOf(x) = Record(c).day /\ Record(c).day \in Days
    BY <1>2, <1>e DEF DayOf, Entry, Record, LogRecords
  <2>4. \A e \in seen : e # x => (Uncounted(e)' <=> Uncounted(e))
    BY <1>0, <1>5, <1>8, <1>e DEF MarkShape
  <2>5. ASSUME NEW d \in Days, d # Record(c).day PROVE Reckoned(d)' = Reckoned(d) /\ counter'[d] = counter[d]
    <3>1. Reckoned(d)' = Reckoned(d)
      BY <1>4, <1>8, <2>3, <2>4, <2>5 DEF Reckoned
    <3> QED BY <1>0, <1>8, <2>5, <3>1 DEF CounterShape
  <2>6. PICK date \in Days : date = Record(c).day
    BY <2>3
  <2>7. Reckoned(date)' = Reckoned(date) \cup {x} /\ x \notin Reckoned(date)
    BY <1>4, <1>8, <2>1, <2>3, <2>4, <2>6 DEF Reckoned
  <2>8. IsFiniteSet(Reckoned(date))
    <3>1. Reckoned(date) \in SUBSET Logged
      BY <1>0 DEF Reckoned, MarkShape
    <3> QED BY <1>0, <3>1, FS_Subset
  <2>9. Cardinality(Reckoned(date)') = Cardinality(Reckoned(date)) + 1 /\ Cardinality(Reckoned(date)) \in Nat
    BY <2>7, <2>8, OneMore
  <2>10. counter'[date] = counter[date] + 1 /\ counter[date] \in Int
    BY <1>0, <1>8, <2>2, <2>6 DEF CounterShape
  <2>11. Cardinality(TakenOut(date)) \in Nat
    <3>1. TakenOut(date) \in SUBSET Logged
      BY DEF TakenOut
    <3>2. IsFiniteSet(TakenOut(date))
      BY <1>0, <3>1, FS_Subset
    <3> QED BY <3>2, FS_CardinalityType
  <2>12. counter'[date] = Cardinality(Reckoned(date)') - Cardinality(TakenOut(date)')
    BY <1>3, <2>9, <2>10, <2>11 DEF Summing
  <2>13. ASSUME NEW d \in Days, d # date PROVE counter'[d] = Cardinality(Reckoned(d)') - Cardinality(TakenOut(d)')
    BY <1>3, <2>5, <2>6, <2>13 DEF Summing
  <2> QED BY <2>12, <2>13 DEF Summing
<1>9. CASE UNCHANGED <<seen, counter>> /\ shard[c].pc = "add" /\ shard'[c].pc = "undo" /\ shard'[c].at = shard[c].at
  <2>1. \A e \in seen : Uncounted(e)' <=> Uncounted(e)
    BY <1>0, <1>5, <1>9 DEF MarkShape
  <2>2. \A d \in Days : Reckoned(d)' = Reckoned(d)
    BY <1>4, <1>9, <2>1 DEF Reckoned
  <2> QED BY <1>3, <1>9, <2>2, SummingStays
<1>10. CASE UNCHANGED counter /\ shard[c].pc = "undo" /\ seen' = seen \ {Entry(c)} /\ FailedIs(c)
  <2>1. Uncounted(Entry(c))
    BY <1>2, <1>5, <1>10
  <2>2. \A e \in seen : e # Entry(c) => (Uncounted(e)' <=> Uncounted(e))
    BY <1>0, <1>5, <1>10 DEF MarkShape, FailedIs
  <2>3. \A d \in Days : Reckoned(d)' = Reckoned(d)
    BY <1>4, <1>10, <2>1, <2>2 DEF Reckoned
  <2> QED BY <1>3, <1>10, <2>3, SummingStays
<1> QED BY <1>0, StreamCases, <1>6, <1>7, <1>8, <1>9, <1>10

LEMMA TakenOutFinite ==
    ASSUME IsFiniteSet(Logged), NEW c, NEW d
    PROVE  /\ IsFiniteSet(TakenOut(d)) /\ Cardinality(TakenOut(d)) \in Nat
           /\ IsFiniteSet(OfDay(c, d)) /\ Cardinality(OfDay(c, d)) \in Nat
<1>1. TakenOut(d) \in SUBSET Logged /\ OfDay(c, d) \in SUBSET Logged
  BY DEF TakenOut, OfDay
<1>2. IsFiniteSet(TakenOut(d)) /\ IsFiniteSet(OfDay(c, d))
  BY <1>1, FS_Subset
<1> QED BY <1>2, FS_CardinalityType

(* When a removal begins, only the days without entries are taken back.    *)
LEMMA SummingRemove ==
    ASSUME Streaming, Removing, Summing, EventFaults \cap Miscounting = {}, \A r, s \in Removers : r = s,
           NEW r \in Removers, NEW c \in Contracts, Remove(r, c)
    PROVE  Summing'
<1>0. IsFiniteSet(Logged)
  BY LogIsBounded DEF Streaming
<1>1. UNCHANGED <<onBoard, log, seen, shard, counter>> /\ removal[r].pc = "idle" /\ c \in onBoard
  BY DEF Remove, streamVars
<1>2. /\ removal'[r].pc = "forget" /\ removal'[r].of = c
      /\ removal'[r].left = {d \in Days : Cardinality(OfDay(c, d)) > 0}
  BY RemovingRemove
<1>3. \A s \in Removers : s = r
  OBVIOUS
<1>4. ASSUME NEW d \in Days PROVE TakenOut(d)' = TakenOut(d)
  <2>1. \A a : TakenBack(a, d) <=> a \notin onBoard
    BY <1>1, <1>3 DEF TakenBack, Forgets
  <2>2. \A a : TakenBack(a, d)' <=> a \notin onBoard \/ (a = c /\ ~(Cardinality(OfDay(c, d)) > 0))
    BY <1>1, <1>2, <1>3 DEF TakenBack, Forgets
  <2>3. ~(Cardinality(OfDay(c, d)) > 0) => OfDay(c, d) = {}
    <3>1. IsFiniteSet(OfDay(c, d)) /\ Cardinality(OfDay(c, d)) \in Nat
      BY <1>0, TakenOutFinite
    <3>2. ~(Cardinality(OfDay(c, d)) > 0) => Cardinality(OfDay(c, d)) = 0
      BY <3>1
    <3> QED BY <3>1, <3>2, FS_EmptySet
  <2>4. ~(Cardinality(OfDay(c, d)) > 0) => \A e \in Logged : ~(e[1] = c /\ DayOf(e) = d /\ Weighty(e))
    BY <2>3 DEF OfDay
  <2> QED BY <1>1, <2>1, <2>2, <2>4, SameDays DEF TakenOut
<1> QED BY <1>1, <1>4, SameCounted, SummingStays

LEMMA SummingForget ==
    ASSUME Streaming, Removing, Summing, EventFaults \cap Miscounting = {}, \A r, s \in Removers : r = s,
           NEW r \in Removers, NEW d \in Days, ForgetDay(r, d)
    PROVE  Summing'
<1>0. IsFiniteSet(Logged) /\ CounterShape /\ MarkShape
  BY LogIsBounded DEF Streaming, StreamShapes
<1>1. /\ UNCHANGED <<onBoard, log, seen, shard>> /\ Forgets(r) /\ d \in removal[r].left
      /\ counter' = [counter EXCEPT ![d] = @ - removal[r].sum[d]]
  BY DEF ForgetDay, Forgets
<1>2. PICK c : c = removal[r].of
  OBVIOUS
<1>3. c \in onBoard /\ removal[r].sum[d] = Cardinality(OfDay(c, d))
  BY <1>1, <1>2 DEF Removing
<1>4. Forgets(r)' /\ removal'[r].of = c /\ removal'[r].left = removal[r].left \ {d}
  BY <1>1, <1>2, RemovingForget
<1>5. \A s \in Removers : s = r
  OBVIOUS
<1>6. \A b : Reckoned(b)' = Reckoned(b)
  BY <1>1, SameCounted
<1>7. \A a, b : /\ TakenBack(a, b) <=> a \notin onBoard \/ (a = c /\ b \notin removal[r].left)
                /\ TakenBack(a, b)' <=> a \notin onBoard \/ (a = c /\ (b \notin removal[r].left \/ b = d))
  BY <1>1, <1>2, <1>4, <1>5 DEF TakenBack
<1>8. ASSUME NEW b \in Days, b # d PROVE TakenOut(b)' = TakenOut(b) /\ counter'[b] = counter[b]
  <2>1. TakenOut(b)' = TakenOut(b)
    BY <1>1, <1>7, <1>8, SameDays DEF TakenOut
  <2> QED BY <1>0, <1>1, <1>8, <2>1 DEF CounterShape
<1>9. TakenOut(d)' = TakenOut(d) \cup OfDay(c, d) /\ TakenOut(d) \cap OfDay(c, d) = {}
  BY <1>1, <1>3, <1>7, SameDays DEF TakenOut, OfDay
<1>10. /\ IsFiniteSet(TakenOut(d)) /\ Cardinality(TakenOut(d)) \in Nat
       /\ IsFiniteSet(OfDay(c, d)) /\ Cardinality(OfDay(c, d)) \in Nat
  BY <1>0, TakenOutFinite
<1>11. Cardinality(TakenOut(d)') = Cardinality(TakenOut(d)) + Cardinality(OfDay(c, d))
  <2>1. Cardinality(TakenOut(d) \cup OfDay(c, d))
            = Cardinality(TakenOut(d)) + Cardinality(OfDay(c, d)) - Cardinality(TakenOut(d) \cap OfDay(c, d))
    BY <1>10, FS_Union
  <2>2. Cardinality(TakenOut(d) \cap OfDay(c, d)) = 0
    BY <1>9, FS_EmptySet
  <2> QED BY <1>9, <1>10, <2>1, <2>2
<1>12. Cardinality(Reckoned(d)) \in Nat
  <2>1. Reckoned(d) \in SUBSET Logged
    BY <1>0 DEF Reckoned, MarkShape
  <2>2. IsFiniteSet(Reckoned(d))
    BY <1>0, <2>1, FS_Subset
  <2> QED BY <2>2, FS_CardinalityType
<1>13. counter'[d] = counter[d] - Cardinality(OfDay(c, d)) /\ counter[d] = Cardinality(Reckoned(d)) - Cardinality(TakenOut(d))
  BY <1>0, <1>1, <1>3 DEF CounterShape, Summing
<1>14. counter'[d] = Cardinality(Reckoned(d)') - Cardinality(TakenOut(d)')
  BY <1>6, <1>10, <1>11, <1>12, <1>13
<1>15. ASSUME NEW b \in Days, b # d PROVE counter'[b] = Cardinality(Reckoned(b)') - Cardinality(TakenOut(b)')
  BY <1>6, <1>8, <1>15 DEF Summing
<1> QED BY <1>14, <1>15 DEF Summing

LEMMA SummingDelete ==
    ASSUME Streaming, Removing, Summing, \A r, s \in Removers : r = s, NEW r \in Removers, DeleteContract(r)
    PROVE  Summing'
<1>1. /\ UNCHANGED <<log, seen, shard, counter>> /\ Forgets(r) /\ removal[r].left = {}
      /\ onBoard' = onBoard \ {removal[r].of}
  BY DEF DeleteContract, streamVars, Forgets
<1>2. \A s \in Removers : s = r /\ ~Forgets(s)'
  BY RemovingDelete
<1>3. ASSUME NEW d \in Days PROVE TakenOut(d)' = TakenOut(d)
  <2>1. \A a : TakenBack(a, d)' <=> TakenBack(a, d)
    BY <1>1, <1>2 DEF TakenBack
  <2> QED BY <1>1, <2>1, SameDays DEF TakenOut
<1> QED BY <1>1, <1>3, SameCounted, SummingStays

Reckoning == Marking /\ Removing /\ Summing

LEMMA ReckoningInit == EventsInit => Reckoning
<1> SUFFICES ASSUME EventsInit PROVE Reckoning
  OBVIOUS
<1>1. Logged = {} /\ seen = {}
  <2>1. \A c \in Contracts : log[c] = << >> /\ Len(log[c]) = 0
    BY DEF EventsInit
  <2> QED BY <2>1 DEF Logged, EventsInit
<1>2. \A d \in Days : Reckoned(d) = {} /\ TakenOut(d) = {} /\ counter[d] = 0
  BY <1>1 DEF Reckoned, TakenOut, EventsInit
<1>3. Summing
  BY <1>2, FS_EmptySet DEF Summing
<1>4. Marking
  BY <1>1 DEF Marking
<1>5. Removing
  BY DEF Removing, Forgets, EventsInit, NoRemoval
<1> QED BY <1>3, <1>4, <1>5 DEF Reckoning

LEMMA ReckoningNext ==
    ASSUME EventFaults \cap Miscounting = {}, \A r, s \in Removers : r = s,
           Streaming, Reckoning, [EventsNext]_eventVars
    PROVE  Reckoning'
<1>0. Marking /\ Removing /\ Summing /\ StreamShapes /\ Logged \subseteq Entries
  BY LogIsBounded DEF Reckoning, Streaming
<1>1. ASSUME NEW w \in Writers, WriteEntry(w) PROVE Marking' /\ Removing' /\ Summing'
  <2>1. /\ UNCHANGED <<seen, shard, aside>> /\ write[w].of \in Contracts /\ write[w].entry \in LogRecords
        /\ \/ log' = [log EXCEPT ![write[w].of] = Append(@, write[w].entry)]
           \/ log' = log
    <3>1. UNCHANGED <<seen, shard, aside>>
      BY <1>1 DEF WriteEntry, streamVars
    <3> QED BY <1>0, <1>1, <3>1, ShapesWrite
  <2>2. Marking'
    BY <1>0, <2>1, MarkingGrows, MarkingStays
  <2> QED BY <1>0, <1>1, <2>2, RemovingWrite, SummingWrite
<1>2. ASSUME NEW w \in Writers, NEW c \in Contracts, NEW kind \in ChangeKinds, NEW d \in Days, Change(w, c, kind, d)
      PROVE  Marking' /\ Removing' /\ Summing'
  <2>1. UNCHANGED <<onBoard, log, seen, shard, counter, removal, aside>>
    BY <1>2 DEF Change, streamVars
  <2>2. Marking' /\ Summing'
    BY <1>0, <2>1, MarkingStays, SummingStays, SameCounted, SameTakenOut
  <2> QED BY <1>0, <1>2, <2>2, RemovingChange
<1>3. ASSUME NEW c \in Contracts, StreamStep(c) PROVE Marking' /\ Removing' /\ Summing'
  BY <1>0, <1>3, MarkingStream, RemovingStream, SummingStream
<1>4. ASSUME NEW n \in Notifiers, NotifierStep(n) PROVE Marking' /\ Removing' /\ Summing'
  <2>1. UNCHANGED <<seen, shard>>
    BY <1>0, <1>4, ShapesNotifier
  <2>2. Marking'
    <3>1. CASE RecordNotice(n)
      <4>1. /\ aside' = aside
            /\ \/ log' = log
               \/ \E c \in Contracts, x \in LogRecords : log' = [log EXCEPT ![c] = Append(@, x)]
        BY <1>0, <3>1, NotedIs
      <4> QED BY <1>0, <2>1, <4>1, MarkingGrows, MarkingStays
    <3>2. CASE ~RecordNotice(n)
      <4>1. log' = log /\ aside \subseteq aside'
        BY <1>4, <3>2 DEF NotifierStep, Receive, ClaimNotice, ReleaseNotice, NotifierKilled, Send, FailMessage
      <4> QED BY <1>0, <2>1, <4>1, MarkingStays
    <3> QED BY <3>1, <3>2
  <2> QED BY <1>0, <1>4, <2>2, RemovingNotifier, SummingNotifier
<1>5. ASSUME NEW r \in Removers, DeleteContract(r) \/ (\E c \in Contracts : Remove(r, c)) \/ \E d \in Days : ForgetDay(r, d)
      PROVE  Marking' /\ Removing' /\ Summing'
  <2>1. UNCHANGED <<log, seen, shard, aside>>
    BY <1>5 DEF DeleteContract, Remove, ForgetDay, streamVars
  <2>2. Marking'
    BY <1>0, <2>1, MarkingStays
  <2>3. CASE DeleteContract(r)
    BY <1>0, <2>2, <2>3, RemovingDelete, SummingDelete
  <2>4. ASSUME NEW c \in Contracts, Remove(r, c) PROVE Removing' /\ Summing'
    BY <1>0, <2>4, RemovingRemove, SummingRemove
  <2>5. ASSUME NEW d \in Days, ForgetDay(r, d) PROVE Removing' /\ Summing'
    BY <1>0, <2>5, RemovingForget, SummingForget
  <2> QED BY <1>5, <2>2, <2>3, <2>4, <2>5
<1>6. CASE UNCHANGED eventVars
  <2>1. UNCHANGED <<onBoard, log, write, seen, counter, shard, removal, aside>>
    BY <1>6 DEF eventVars, streamVars
  <2>2. Marking' /\ Summing'
    BY <1>0, <2>1, MarkingStays, SummingStays, SameCounted, SameTakenOut
  <2>3. \A c, d : OfDay(c, d)' = OfDay(c, d)
    BY <2>1, SameDays
  <2>4. Removing'
    BY <1>0, <2>1, <2>3, RemovingStays
  <2> QED BY <2>2, <2>4 DEF Reckoning
<1> QED BY <1>1, <1>2, <1>3, <1>4, <1>5, <1>6 DEF EventsNext, Reckoning

(* Two sets apart have as many elements as their union.                    *)
LEMMA Apart ==
    ASSUME NEW S, NEW T, IsFiniteSet(S), IsFiniteSet(T), S \cap T = {}
    PROVE  /\ IsFiniteSet(S \cup T) /\ Cardinality(S) \in Nat /\ Cardinality(T) \in Nat
           /\ Cardinality(S \cup T) = Cardinality(S) + Cardinality(T)
<1>1. /\ IsFiniteSet(S \cup T)
      /\ Cardinality(S \cup T) = Cardinality(S) + Cardinality(T) - Cardinality(S \cap T)
  BY FS_Union
<1>2. Cardinality(S \cap T) = 0
  BY FS_EmptySet
<1>3. Cardinality(S) \in Nat /\ Cardinality(T) \in Nat
  BY FS_CardinalityType
<1> QED BY <1>1, <1>2, <1>3

LEMMA ReckoningAgrees == Streaming /\ Reckoning => TrendsAgree
<1> SUFFICES ASSUME Streaming, Reckoning, Quiet, \A e \in aside : e[1] \in onBoard, NEW d \in Days
             PROVE  /\ counter[d] <= Cardinality(OnDay(d, onBoard))
                    /\ counter[d] >= Cardinality(OnDay(d, onBoard) \ aside)
  BY DEF TrendsAgree
<1>0. /\ LogShape /\ MarkShape /\ ShardShape /\ Logged \subseteq Entries /\ IsFiniteSet(Logged)
      /\ Marking /\ Removing /\ Summing
  BY LogIsBounded DEF Streaming, StreamShapes, Reckoning
<1> DEFINE standing == OnDay(d, onBoard)
<1>1. ASSUME NEW e \in Logged PROVE Handled(e) /\ ~Uncounted(e)
  <2>1. e[1] \in Contracts /\ e[2] \in Nat /\ e[2] <= Len(log[e[1]]) /\ shard[e[1]].at > Len(log[e[1]])
    BY DEF Logged, Quiet
  <2>2. Len(log[e[1]]) \in Nat /\ shard[e[1]].at \in Nat
    BY <1>0, <2>1, ShardIs
  <2>3. e[2] < shard[e[1]].at
    BY <2>1, <2>2
  <2> QED BY <2>1, <2>2, <2>3 DEF Handled, Uncounted
<1>2. \A c : TakenBack(c, d) <=> c \notin onBoard
  BY DEF TakenBack, Forgets, Quiet
<1>3. standing = {e \in Logged : e[1] \in onBoard /\ DayOf(e) = d /\ Weighty(e)}
  <2>1. ASSUME NEW e \in Entries, e[2] <= Len(log[e[1]]) PROVE e \in Logged
    BY <2>1 DEF Entries, Logged
  <2>2. \A e \in Logged : e \in Entries /\ e[2] <= Len(log[e[1]])
    BY <1>0 DEF Logged
  <2> QED BY <2>1, <2>2 DEF OnDay, DayOf, Weighty, EntryKind
<1>4. Reckoned(d) \subseteq standing \cup TakenOut(d)
  BY <1>0, <1>2, <1>3 DEF Reckoned, TakenOut, Marking, MarkShape
<1>5. (standing \ aside) \cup TakenOut(d) \subseteq Reckoned(d)
  <2>1. ASSUME NEW e \in Logged, Weighty(e), DayOf(e) = d, e \notin aside PROVE e \in Reckoned(d)
    BY <1>0, <1>1, <2>1 DEF Reckoned, Marking
  <2>2. \A e \in TakenOut(d) : e \in Logged /\ Weighty(e) /\ DayOf(e) = d /\ e \notin aside
    BY <1>2 DEF TakenOut
  <2> QED BY <1>3, <2>1, <2>2
<1>6. standing \cap TakenOut(d) = {} /\ (standing \ aside) \cap TakenOut(d) = {}
  BY <1>2, <1>3 DEF TakenOut
<1>7. IsFiniteSet(standing) /\ IsFiniteSet(standing \ aside) /\ IsFiniteSet(TakenOut(d)) /\ IsFiniteSet(Reckoned(d))
  <2>1. standing \in SUBSET Logged /\ standing \ aside \in SUBSET Logged /\ TakenOut(d) \in SUBSET Logged /\ Reckoned(d) \in SUBSET Logged
    BY <1>0, <1>3 DEF TakenOut, Reckoned, MarkShape
  <2> QED BY <1>0, <2>1, FS_Subset
<1>8. /\ IsFiniteSet(standing \cup TakenOut(d))
      /\ Cardinality(standing \cup TakenOut(d)) = Cardinality(standing) + Cardinality(TakenOut(d))
      /\ Cardinality((standing \ aside) \cup TakenOut(d)) = Cardinality(standing \ aside) + Cardinality(TakenOut(d))
      /\ Cardinality(standing) \in Nat /\ Cardinality(standing \ aside) \in Nat /\ Cardinality(TakenOut(d)) \in Nat
  BY <1>6, <1>7, Apart
<1>9. Cardinality(Reckoned(d)) <= Cardinality(standing \cup TakenOut(d))
  BY <1>4, <1>8, FS_Subset
<1>10. Cardinality((standing \ aside) \cup TakenOut(d)) <= Cardinality(Reckoned(d))
  BY <1>5, <1>7, FS_Subset
<1>11. Cardinality(Reckoned(d)) \in Nat
  BY <1>7, FS_CardinalityType
<1>12. counter[d] = Cardinality(Reckoned(d)) - Cardinality(TakenOut(d))
  BY <1>0 DEF Summing
<1> QED BY <1>8, <1>9, <1>10, <1>11, <1>12

(* The counters of a day agree with the log once the stream has caught up, *)
(* whatever is delivered again and whoever dies, but for the reply of an   *)
(* ADD that is lost, a death between the claim of an entry and its ADD, a  *)
(* claim that is not released, a removal that stops half way, and a change *)
(* or another removal while one is under way (aggregates.record, forget).  *)
THEOREM CountersAgree ==
    ASSUME EventFaults \cap Miscounting = {}, \A r, s \in Removers : r = s
    PROVE  EventsSpec => []TrendsAgree
<1>1. Streaming /\ Reckoning /\ [EventsNext]_eventVars => Reckoning'
  BY ReckoningNext
<1> QED BY <1>1, StreamingInit, StreamingNext, ReckoningInit, ReckoningAgrees, PTL DEF EventsSpec
-----------------------------------------------------------------------------
(* Imports into the review matrix.                                         *)


(* The elements at some places of a list are those of the list there.      *)
LEMMA ElementsAre ==
    ASSUME NEW D, NEW s \in Seq(D), NEW places
    PROVE  /\ ElementsAt(s, places) \in Seq(D)
           /\ NamesOf(ElementsAt(s, places)) = {s[i] : i \in (1 .. Len(s)) \cap places}
<1> DEFINE V == Seq(D)
           none == <<>>
           K == Len(s)
           more(n, v) == IF n \in places THEN Append(v, s[n]) ELSE v
           step == [p \in (1 .. K) \X V |-> more(p[1], p[2])]
<1>1. K \in Nat /\ none \in V
  OBVIOUS
<1>2. \A n \in 1 .. K, v \in V : more(n, v) \in V
  OBVIOUS
<1> HIDE DEF V, none, K, more
<1>3. step \in Steps(V, K) /\ \A n \in 1 .. K, v \in V : step[<<n, v>>] = more(n, v)
  BY <1>2 DEF Steps
<1> HIDE DEF step
<1>4. PICK f \in Runs(V, K) : Unfolds(f, K, none, step)
  BY <1>1, <1>3, Recursion
<1>5. f \in [0 .. K -> V] /\ f[0] = none /\ \A n \in 1 .. K : f[n] = step[<<n, f[n - 1]>>]
  BY <1>4 DEF Runs, Unfolds
<1>6. ASSUME NEW n \in 0 .. K PROVE f[n] = IF n = 0 THEN none ELSE more(n, f[n - 1])
  <2>1. CASE n = 0
    BY <1>5, <2>1
  <2>2. CASE n # 0
    <3>1. n \in 1 .. K /\ n - 1 \in 0 .. K
      BY <1>1, <2>2
    <3> QED BY <1>3, <1>5, <2>2, <3>1
  <2> QED BY <2>1, <2>2
<1>7. f = [n \in 0 .. K |-> IF n = 0 THEN none ELSE more(n, f[n - 1])]
  BY <1>5, <1>6
<1> DEFINE F == CHOOSE g : g = [n \in 0 .. K |-> IF n = 0 THEN none ELSE more(n, g[n - 1])]
<1>8. F = [n \in 0 .. K |-> IF n = 0 THEN none ELSE more(n, F[n - 1])]
  BY <1>7
<1>9. ElementsAt(s, places) = F[K]
  BY DEF ElementsAt, none, more, K
<1> HIDE DEF F
<1>10. F[0] = none /\ \A n \in 1 .. K : F[n] = more(n, F[n - 1])
  BY <1>1, <1>8
<1> DEFINE sofar(n) == {s[i] : i \in (1 .. n) \cap places}
           Good == {p \in (0 .. K) \X V : NamesOf(p[2]) = sofar(p[1])}
<1>11. <<0, F[0]>> \in Good
  BY <1>1, <1>10 DEF NamesOf, none
<1>12. ASSUME NEW n \in 1 .. K, <<n - 1, F[n - 1]>> \in Good PROVE <<n, F[n]>> \in Good
  <2> DEFINE v == F[n - 1]
  <2>1. v \in Seq(D) /\ NamesOf(v) = sofar(n - 1) /\ s[n] \in D
    BY <1>12 DEF V, K
  <2>2. 1 .. n = (1 .. (n - 1)) \cup {n}
    BY <1>1
  <2>3. F[n] = IF n \in places THEN Append(v, s[n]) ELSE v
    BY <1>10 DEF more
  <2> HIDE DEF v
  <2>4. CASE n \notin places
    <3>1. (1 .. n) \cap places = (1 .. (n - 1)) \cap places
      BY <2>2, <2>4
    <3>2. sofar(n) = sofar(n - 1)
      BY <3>1
    <3>3. F[n] = v
      BY <2>3, <2>4
    <3> HIDE DEF sofar
    <3> QED BY <1>1, <2>1, <3>2, <3>3 DEF V
  <2>5. CASE n \in places
    <3>1. F[n] = Append(v, s[n])
      BY <2>3, <2>5
    <3>2. F[n] \in Seq(D) /\ NamesOf(F[n]) = NamesOf(v) \cup {s[n]}
      BY <2>1, <3>1, NamedAppend
    <3>3. (1 .. n) \cap places = ((1 .. (n - 1)) \cap places) \cup {n}
      BY <2>2, <2>5
    <3>4. sofar(n) = sofar(n - 1) \cup {s[n]}
      BY <3>3
    <3>5. NamesOf(F[n]) = sofar(n)
      BY <2>1, <3>2, <3>4
    <3> HIDE DEF sofar
    <3> QED BY <1>1, <3>2, <3>5 DEF V
  <2> QED BY <2>4, <2>5
<1> HIDE DEF Good
<1>13. <<K, F[K]>> \in Good
  BY <1>1, <1>11, <1>12, LoopKeeps
<1> QED BY <1>9, <1>13 DEF Good, K, V

(* In a playbook without duplicates a clause is known by its type.         *)
LEMMA OneOfType ==
    ASSUME NEW D, NEW book \in Seq(D), NoDuplicates(book),
           NEW i \in 1 .. Len(book), NEW j \in 1 .. Len(book), book[i].type = book[j].type
    PROVE  i = j
<1> DEFINE K == Len(book)
           f == [k \in 1 .. K |-> book[k].type]
           T == TypesIn(book)
<1>1. K \in Nat /\ DOMAIN book = 1 .. K
  OBVIOUS
<1>2. T = {book[k].type : k \in 1 .. K}
  BY <1>1 DEF TypesIn
<1>3. f \in Surjection(1 .. K, T)
  <2>1. f \in [1 .. K -> T] /\ \A k \in 1 .. K : f[k] = book[k].type
    BY <1>2
  <2>2. \A t \in T : \E k \in 1 .. K : f[k] = t
    BY <1>2, <2>1
  <2> HIDE DEF f, T
  <2> QED BY <2>1, <2>2 DEF Surjection
<1>4. IsFiniteSet(1 .. K) /\ Cardinality(1 .. K) = K
  <2>1. 1 \in Int /\ K \in Int /\ (IF 1 > K THEN 0 ELSE K - 1 + 1) = K
    BY <1>1
  <2> HIDE DEF K
  <2> QED BY <2>1, FS_Interval
<1>5. Cardinality(T) = Cardinality(1 .. K)
  BY <1>4 DEF NoDuplicates
<1> HIDE DEF T
<1>6. f \in Injection(1 .. K, T)
  <2> DEFINE S == 1 .. K
  <2>1. IsFiniteSet(S) /\ Cardinality(T) = Cardinality(S) /\ f \in Surjection(S, T)
    BY <1>3, <1>4, <1>5
  <2> HIDE DEF S, f
  <2>2. f \in Injection(S, T)
    BY <2>1, FS_Surjection
  <2> QED BY <2>2 DEF S
<1> QED BY <1>6 DEF Injection, IsInjective

(* Clauses and rows.                                                       *)
SheetRows == [type : RowTypes, flaw : {"none", "blank"} \cup ClauseFlaws \cup CellFlaws, text : Int]
Books == [Agreements -> Seq(SheetRows)]
Imports == [step : {"save"}, rows : Seq(SheetRows), agreement : Agreements, mode : {"replace", "merge"}, read : Books]

(* The playbooks are valid, a request has what it read, and what was       *)
(* reported is so.                                                         *)
ImportInv ==
    /\ playbooks \in Books /\ request \in [Importers -> Imports \cup {NoRequest}]
    /\ StoredIsValid /\ ReportIsTrue

(* What is imported is of rows taken, one for each type.                   *)
LEMMA Parsed ==
    ASSUME NEW sheet \in Seq(SheetRows)
    PROVE  /\ ParseImport(sheet) \in Seq(SheetRows)
           /\ NamesOf(ParseImport(sheet)) = {sheet[i] : i \in TakenRows(sheet)}
           /\ TakenRows(sheet) \subseteq Usable(sheet) /\ Usable(sheet) \subseteq 1 .. Len(sheet)
           /\ \A i, j \in TakenRows(sheet) : sheet[i].type = sheet[j].type => i = j
<1>1. Usable(sheet) \subseteq 1 .. Len(sheet) /\ TakenRows(sheet) \subseteq Usable(sheet)
  BY DEF Usable, TakenRows
<1>2. ASSUME NEW i \in TakenRows(sheet), NEW j \in TakenRows(sheet), sheet[i].type = sheet[j].type PROVE i = j
  <2>1. i <= j /\ j <= i /\ i \in Nat /\ j \in Nat
    BY <1>1, <1>2 DEF TakenRows
  <2> QED BY <2>1
<1>3. (1 .. Len(sheet)) \cap TakenRows(sheet) = TakenRows(sheet)
  BY <1>1
<1> QED BY <1>1, <1>2, <1>3, ElementsAre DEF ParseImport

(* The types of a playbook are those of its clauses.                       *)
LEMMA TypesAre ==
    ASSUME NEW D, NEW book \in Seq(D)
    PROVE  TypesIn(book) = {c.type : c \in NamesOf(book)}
<1>1. DOMAIN book = 1 .. Len(book)
  OBVIOUS
<1> QED BY <1>1 DEF TypesIn, NamesOf

(* A merge gives clauses that were there or are imported, keeps the types  *)
(* and has every imported one.                                             *)
LEMMA MergedAre ==
    ASSUME NEW D, NEW book \in Seq(D), NEW incoming \in Seq(D),
           \A x, y \in NamesOf(incoming) : x.type = y.type => x = y
    PROVE  LET m == MergeClauses(book, incoming)
           IN  /\ m \in Seq(D)
               /\ NamesOf(m) \subseteq NamesOf(book) \cup NamesOf(incoming)
               /\ NamesOf(incoming) \subseteq NamesOf(m)
               /\ TypesIn(book) \subseteq TypesIn(m)
<1> DEFINE K == Len(book)
           here(i) == IF book[i].type \in TypesIn(incoming) THEN OfType(incoming, book[i].type) ELSE book[i]
           head == [i \in DOMAIN book |-> here(i)]
           new == {k \in DOMAIN incoming : incoming[k].type \notin TypesIn(book)}
           tail == ElementsAt(incoming, new)
           m == MergeClauses(book, incoming)
<1>1. DOMAIN book = 1 .. K /\ K \in Nat /\ DOMAIN incoming = 1 .. Len(incoming) /\ Len(incoming) \in Nat
  OBVIOUS
<1>2. m = head \o tail
  BY DEF MergeClauses
<1>3. ASSUME NEW i \in 1 .. K, book[i].type \in TypesIn(incoming)
      PROVE  here(i) \in NamesOf(incoming) /\ here(i).type = book[i].type
  <2>1. PICK k \in DOMAIN incoming : incoming[k].type = book[i].type
    BY <1>3 DEF TypesIn
  <2>2. PICK j \in DOMAIN incoming : j = (CHOOSE n \in DOMAIN incoming : incoming[n].type = book[i].type)
                                     /\ incoming[j].type = book[i].type
    BY <2>1
  <2>3. here(i) = incoming[j]
    BY <1>3, <2>2 DEF OfType
  <2>4. incoming[j] \in NamesOf(incoming)
    BY <1>1 DEF NamesOf
  <2> HIDE DEF here
  <2> QED BY <2>2, <2>3, <2>4
<1>4. ASSUME NEW i \in 1 .. K, book[i].type \notin TypesIn(incoming)
      PROVE  here(i) = book[i]
  BY <1>4
<1>5. \A x \in NamesOf(incoming) : x \in D
  BY DEF NamesOf
<1>6. \A i \in 1 .. K : book[i] \in D /\ book[i] \in NamesOf(book)
  BY DEF NamesOf
<1> HIDE DEF here
<1>7. \A i \in 1 .. K : here(i) \in D /\ here(i) \in NamesOf(book) \cup NamesOf(incoming) /\ here(i).type = book[i].type
  BY <1>3, <1>4, <1>5, <1>6
<1>8. head \in Seq(D) /\ Len(head) = K /\ \A i \in 1 .. K : head[i] = here(i)
  BY <1>1, <1>7
<1>9. tail \in Seq(D) /\ NamesOf(tail) = {incoming[k] : k \in (1 .. Len(incoming)) \cap new}
  BY ElementsAre
<1> HIDE DEF head, tail
<1>10. m \in Seq(D) /\ NamesOf(m) = NamesOf(head) \cup NamesOf(tail)
  BY <1>2, <1>8, <1>9, NamedConcat
<1>11. NamesOf(head) = {here(i) : i \in 1 .. K}
  BY <1>8 DEF NamesOf
<1>12. NamesOf(tail) \subseteq NamesOf(incoming)
  BY <1>9 DEF NamesOf
<1>13. ASSUME NEW x \in NamesOf(incoming) PROVE x \in NamesOf(m)
  <2>1. PICK k \in 1 .. Len(incoming) : x = incoming[k]
    BY DEF NamesOf
  <2>2. CASE x.type \in TypesIn(book)
    <3>1. PICK i \in 1 .. K : book[i].type = x.type
      BY <1>1, <2>2 DEF TypesIn
    <3>2. x.type \in TypesIn(incoming)
      BY <1>1, <2>1 DEF TypesIn
    <3>3. here(i) \in NamesOf(incoming) /\ here(i).type = x.type
      BY <1>3, <3>1, <3>2
    <3>4. here(i) = x
      BY <3>3
    <3> QED BY <1>10, <1>11, <3>4
  <2>3. CASE x.type \notin TypesIn(book)
    <3>1. k \in new
      BY <1>1, <2>1, <2>3
    <3>2. x \in NamesOf(tail)
      BY <1>9, <2>1, <3>1
    <3> QED BY <1>10, <3>2
  <2> QED BY <2>2, <2>3
<1>14. ASSUME NEW t \in TypesIn(book) PROVE t \in TypesIn(m)
  <2>1. PICK i \in 1 .. K : t = book[i].type
    BY <1>1 DEF TypesIn
  <2>2. here(i) \in NamesOf(m) /\ here(i).type = t
    BY <1>7, <1>10, <1>11, <2>1
  <2>3. TypesIn(m) = {c.type : c \in NamesOf(m)}
    BY <1>10, TypesAre
  <2> QED BY <2>2, <2>3
<1>15. NamesOf(m) \subseteq NamesOf(book) \cup NamesOf(incoming)
  BY <1>7, <1>10, <1>11, <1>12
<1> QED BY <1>10, <1>13, <1>14, <1>15

(* What the answer of an import says, of the matrix it saved.              *)
Tells(r, book) ==
    /\ Skipped(r.rows) \cap TakenRows(r.rows) = {}
    /\ \A i \in DOMAIN r.rows : Blank(r.rows[i]) \/ i \in TakenRows(r.rows) \cup Skipped(r.rows)
    /\ \A i \in TakenRows(r.rows) : {j \in DOMAIN book : book[j].type = r.rows[i].type} = {j \in DOMAIN book : book[j] = r.rows[i]}
    /\ \A i \in TakenRows(r.rows) : \E j \in DOMAIN book : book[j] = r.rows[i]
    /\ \A j \in DOMAIN book : \/ \E i \in TakenRows(r.rows) : book[j] = r.rows[i]
                              \/ r.mode = "merge" /\ \E k \in DOMAIN r.read[r.agreement] : book[j] = r.read[r.agreement][k]
    /\ r.mode = "merge" => TypesIn(r.read[r.agreement]) \subseteq TypesIn(book)

(* ... which is true of the merged matrix.                                 *)
LEMMA AnswersAreTrue ==
    ASSUME NEW r \in Imports, ValidMatrix(Merged(r))
    PROVE  /\ Merged(r) \in Books
           /\ \A a \in Agreements \ {r.agreement} : Merged(r)[a] = r.read[a]
           /\ Tells(r, Merged(r)[r.agreement])
<1> DEFINE sheet == r.rows
           a == r.agreement
           old == r.read[a]
           incoming == ParseImport(sheet)
           book == Merged(r)[a]
           taken == TakenRows(sheet)
<1>1. /\ sheet \in Seq(SheetRows) /\ a \in Agreements /\ r.mode \in {"replace", "merge"}
      /\ r.read \in Books /\ old \in Seq(SheetRows)
  BY DEF Imports, Books
<1>2. /\ incoming \in Seq(SheetRows) /\ NamesOf(incoming) = {sheet[i] : i \in taken}
      /\ taken \subseteq Usable(sheet) /\ Usable(sheet) \subseteq 1 .. Len(sheet)
      /\ \A i, j \in taken : sheet[i].type = sheet[j].type => i = j
  BY <1>1, Parsed
<1>3. book = IF r.mode = "replace" THEN incoming ELSE MergeClauses(old, incoming)
  BY <1>1 DEF Merged, MergeImport, Books
<1>4. /\ \A o \in Agreements \ {a} : Merged(r)[o] = r.read[o]
      /\ Merged(r) = [r.read EXCEPT ![a] = book]
  BY <1>1 DEF Merged, MergeImport, Books
<1>5. NoDuplicates(book)
  BY <1>1 DEF ValidMatrix, ValidBook
<1> HIDE DEF sheet, a, old, incoming, book, taken
<1>6. \A x, y \in NamesOf(incoming) : x.type = y.type => x = y
  BY <1>2
<1>7. /\ book \in Seq(SheetRows)
      /\ NamesOf(book) \subseteq NamesOf(incoming) \cup (IF r.mode = "merge" THEN NamesOf(old) ELSE {})
      /\ NamesOf(incoming) \subseteq NamesOf(book)
      /\ r.mode = "merge" => TypesIn(old) \subseteq TypesIn(book)
  <2>1. CASE r.mode = "replace"
    <3>1. book = incoming
      BY <1>3, <2>1
    <3> QED BY <1>2, <2>1, <3>1
  <2>2. CASE r.mode = "merge"
    <3>1. book = MergeClauses(old, incoming)
      BY <1>3, <2>2
    <3>2. PICK m : m = MergeClauses(old, incoming)
      OBVIOUS
    <3>3. /\ m \in Seq(SheetRows) /\ NamesOf(m) \subseteq NamesOf(old) \cup NamesOf(incoming)
          /\ NamesOf(incoming) \subseteq NamesOf(m) /\ TypesIn(old) \subseteq TypesIn(m)
      BY <1>1, <1>2, <1>6, <3>2, MergedAre
    <3> QED BY <2>2, <3>1, <3>2, <3>3
  <2> QED BY <1>1, <2>1, <2>2
<1>8. DOMAIN book = 1 .. Len(book) /\ DOMAIN old = 1 .. Len(old) /\ DOMAIN sheet = 1 .. Len(sheet)
  BY <1>1, <1>7
<1>9. Merged(r) \in Books
  <2>1. r.read \in [Agreements -> Seq(SheetRows)]
    BY <1>1 DEF Books
  <2>2. [r.read EXCEPT ![a] = book] \in [Agreements -> Seq(SheetRows)]
    BY <1>7, <2>1
  <2> QED BY <1>4, <2>2 DEF Books
<1>10. \A i \in taken : \E j \in DOMAIN book : book[j] = sheet[i]
  BY <1>2, <1>7, <1>8 DEF NamesOf
<1>11. ASSUME NEW i \in taken
       PROVE  {j \in DOMAIN book : book[j].type = sheet[i].type} = {j \in DOMAIN book : book[j] = sheet[i]}
  <2>1. PICK k \in DOMAIN book : book[k] = sheet[i]
    BY <1>10
  <2>2. ASSUME NEW j \in DOMAIN book, book[j].type = sheet[i].type PROVE book[j] = sheet[i]
    <3>1. j \in 1 .. Len(book) /\ k \in 1 .. Len(book) /\ book[j].type = book[k].type
      BY <1>8, <2>1, <2>2
    <3>2. j = k
      BY <1>5, <1>7, <3>1, OneOfType
    <3> QED BY <2>1, <3>2
  <2> QED BY <2>2
<1>12. ASSUME NEW j \in DOMAIN book
       PROVE  \/ \E i \in taken : book[j] = sheet[i]
              \/ r.mode = "merge" /\ \E k \in DOMAIN old : book[j] = old[k]
  <2>1. book[j] \in NamesOf(book)
    BY <1>8 DEF NamesOf
  <2>2. CASE book[j] \in NamesOf(incoming)
    BY <1>2, <2>2
  <2>3. CASE r.mode = "merge" /\ book[j] \in NamesOf(old)
    BY <1>8, <2>3 DEF NamesOf
  <2> QED BY <1>7, <2>1, <2>2, <2>3
<1>13. Skipped(sheet) = {i \in DOMAIN sheet : ~Blank(sheet[i])} \ taken
  BY DEF Skipped, taken
<1>14. Tells(r, book)
  BY <1>7, <1>10, <1>11, <1>12, <1>13 DEF Tells, sheet, a, old, taken
<1> QED BY <1>4, <1>9, <1>14 DEF book, a

(* Nothing is imported at first.                                           *)
LEMMA ImportStarts == ImportInit => ImportInv
<1> SUFFICES ASSUME ImportInit PROVE ImportInv
  OBVIOUS
<1>1. \A t \in RowTypes : Clause(t, 0) \in SheetRows /\ Clause(t, 0).type = t /\ ValidClause(Clause(t, 0))
  BY DEF Clause, SheetRows, ValidClause, ClauseFlaws
<1>2. \A t \in RowTypes : <<Clause(t, 0)>> \in Seq(SheetRows)
  BY <1>1
<1>3. playbooks \in [Agreements -> {<<>>} \cup {<<Clause(t, 0)>> : t \in RowTypes}]
  BY DEF ImportInit
<1>4. playbooks \in Books
  <2>1. ASSUME NEW b \in {<<>>} \cup {<<Clause(t, 0)>> : t \in RowTypes} PROVE b \in Seq(SheetRows)
    <3>1. CASE b = <<>>
      BY <3>1
    <3>2. ASSUME NEW t \in RowTypes, b = <<Clause(t, 0)>> PROVE b \in Seq(SheetRows)
      BY <1>2, <3>2
    <3> QED BY <3>1, <3>2
  <2> DEFINE Firsts == {<<>>} \cup {<<Clause(t, 0)>> : t \in RowTypes}
  <2> HIDE DEF Firsts
  <2>2. playbooks \in [Agreements -> Firsts] /\ \A b \in Firsts : b \in Seq(SheetRows)
    BY <1>3, <2>1 DEF Firsts
  <2> QED BY <2>2 DEF Books
<1>5. ASSUME NEW a \in Agreements PROVE ValidBook(playbooks[a])
  <2>1. CASE playbooks[a] = <<>>
    <3>1. TypesIn(<<>>) = {} /\ Cardinality({}) = 0 /\ Len(<<>>) = 0
      BY FS_EmptySet DEF TypesIn
    <3> QED BY <2>1, <3>1, ImportAssumption DEF ValidBook, NoDuplicates
  <2>2. ASSUME NEW t \in RowTypes, playbooks[a] = <<Clause(t, 0)>> PROVE ValidBook(playbooks[a])
    <3> DEFINE b == <<Clause(t, 0)>>
    <3>1. DOMAIN b = {1} /\ b[1] = Clause(t, 0) /\ Len(b) = 1
      OBVIOUS
    <3> HIDE DEF b
    <3>2. TypesIn(b) = {t}
      BY <1>1, <3>1 DEF TypesIn
    <3>3. Cardinality(TypesIn(b)) = 1
      BY <3>2, FS_Singleton
    <3>4. ValidBook(b)
      BY <1>1, <3>1, <3>3, ImportAssumption DEF ValidBook, NoDuplicates
    <3> QED BY <2>2, <3>4 DEF b
  <2> QED BY <1>3, <2>1, <2>2
<1>6. request \in [Importers -> Imports \cup {NoRequest}] /\ reports = {}
  BY DEF ImportInit
<1> QED BY <1>4, <1>5, <1>6 DEF ImportInv, StoredIsValid, ValidMatrix, ReportIsTrue

(* A sheet is a list of rows.                                              *)
LEMMA SheetsAre ==
    ASSUME NEW n \in Nat, NEW sheet \in Sheet(n)
    PROVE  sheet \in Seq(SheetRows)
<1>1. sheet \in [1 .. n -> [type : RowTypes, flaw : {"none", "blank"} \cup ClauseFlaws \cup CellFlaws, text : 1 .. n]]
  BY DEF Sheet
<1>2. sheet \in [1 .. n -> SheetRows]
  BY <1>1 DEF SheetRows
<1> HIDE DEF SheetRows
<1> QED BY <1>2

(* Every step of the imports keeps the invariant.                          *)
LEMMA ImportStep == ImportInv /\ [ImportNext]_importVars => ImportInv'
<1> SUFFICES ASSUME ImportInv, [ImportNext]_importVars PROVE ImportInv'
  OBVIOUS
<1>0. /\ playbooks \in Books /\ request \in [Importers -> Imports \cup {NoRequest}]
      /\ ValidMatrix(playbooks) /\ ReportIsTrue
  BY DEF ImportInv, StoredIsValid
<1>1. ASSUME NEW books \in Books, PutMatrix(books) PROVE ImportInv'
  BY <1>0, <1>1 DEF PutMatrix, ImportInv, StoredIsValid, ReportIsTrue, ValidMatrix
<1>2. CASE Put
  <2>1. PICK a \in Agreements :
            \/ playbooks[a] # <<>> /\ PutMatrix([playbooks EXCEPT ![a] = Tail(@)])
            \/ \E type \in RowTypes : PutMatrix([playbooks EXCEPT ![a] = Append(@, Clause(type, -1))])
    BY <1>2 DEF Put
  <2>2. playbooks \in [Agreements -> Seq(SheetRows)]
    BY <1>0 DEF Books
  <2>3. ASSUME NEW b \in Seq(SheetRows), PutMatrix([playbooks EXCEPT ![a] = b]) PROVE ImportInv'
    <3>1. [playbooks EXCEPT ![a] = b] \in Books
      BY <2>2 DEF Books
    <3> QED BY <1>1, <2>3, <3>1
  <2>4. playbooks[a] # <<>> => Tail(playbooks[a]) \in Seq(SheetRows)
    BY <2>2
  <2>5. \A t \in RowTypes : Append(playbooks[a], Clause(t, -1)) \in Seq(SheetRows)
    <3>1. \A t \in RowTypes : Clause(t, -1) \in SheetRows
      BY DEF Clause, SheetRows
    <3> HIDE DEF SheetRows
    <3> QED BY <2>2, <3>1
  <2> QED BY <2>1, <2>3, <2>4, <2>5
<1>3. ASSUME NEW q \in Importers, ImportRead(q) PROVE ImportInv'
  <2>1. PICK n \in 1 .. MaxRows, a \in Agreements, mode \in {"replace", "merge"} : \E sheet \in Sheet(n) :
          request' = [request EXCEPT ![q] = [step |-> "save", rows |-> sheet, agreement |-> a, mode |-> mode, read |-> playbooks]]
    BY <1>3 DEF ImportRead
  <2>2. PICK sheet \in Sheet(n) :
          request' = [request EXCEPT ![q] = [step |-> "save", rows |-> sheet, agreement |-> a, mode |-> mode, read |-> playbooks]]
    BY <2>1
  <2>3. [step |-> "save", rows |-> sheet, agreement |-> a, mode |-> mode, read |-> playbooks] \in Imports
    BY <1>0, SheetsAre DEF Imports
  <2>4. request' \in [Importers -> Imports \cup {NoRequest}]
    BY <1>0, <2>2, <2>3
  <2>5. playbooks' = playbooks /\ reports' = {}
    BY <1>3 DEF ImportRead
  <2> QED BY <1>0, <2>4, <2>5 DEF ImportInv, StoredIsValid, ReportIsTrue, ValidMatrix
<1>4. ASSUME NEW q \in Importers, ImportRefused(q) PROVE ImportInv'
  <2>1. playbooks' = playbooks /\ reports' = reports /\ request' = [request EXCEPT ![q] = NoRequest]
    BY <1>4 DEF ImportRefused
  <2>2. request' \in [Importers -> Imports \cup {NoRequest}]
    BY <1>0, <2>1
  <2> QED BY <1>0, <2>1, <2>2 DEF ImportInv, StoredIsValid, ReportIsTrue, ValidMatrix
<1>5. ASSUME NEW q \in Importers, ImportSave(q) PROVE ImportInv'
  <2>1. PICK r : r = request[q]
    OBVIOUS
  <2>2. r \in Imports
    BY <1>0, <1>5, <2>1 DEF ImportSave, NoRequest
  <2>3. /\ ValidMatrix(Merged(r)) /\ playbooks' = Merged(r)
        /\ request' = [request EXCEPT ![q] = NoRequest]
        /\ reports' = {[agreement |-> r.agreement, rows |-> r.rows, mode |-> r.mode, imported |-> TakenRows(r.rows),
                        skipped |-> Skipped(r.rows), before |-> r.read, after |-> Merged(r)]}
    BY <1>5, <2>1 DEF ImportSave
  <2>4. /\ Merged(r) \in Books /\ Tells(r, Merged(r)[r.agreement])
        /\ \A a \in Agreements \ {r.agreement} : Merged(r)[a] = r.read[a]
    BY <2>2, <2>3, AnswersAreTrue
  <2>5. request' \in [Importers -> Imports \cup {NoRequest}]
    BY <1>0, <2>3
  <2>6. ReportIsTrue'
    BY <2>3, <2>4 DEF ReportIsTrue, Tells
  <2>7. StoredIsValid'
    BY <2>3 DEF StoredIsValid, ValidMatrix
  <2> QED BY <2>3, <2>4, <2>5, <2>6, <2>7 DEF ImportInv
<1>6. CASE UNCHANGED importVars
  BY <1>0, <1>6 DEF importVars, ImportInv, StoredIsValid, ReportIsTrue, ValidMatrix
<1> QED BY <1>2, <1>3, <1>4, <1>5, <1>6 DEF ImportNext

(* Whatever is saved in between and however often a sheet is imported, the *)
(* stored playbooks pass their validation, and what an import answered is  *)
(* true of the matrix it saved (matrix.py, govern_api).                    *)
THEOREM ImportsAreTrue == ImportSpec => []ImportsHold
<1>1. ImportInv => ImportsHold
  BY DEF ImportInv, ImportsHold
<1> QED BY <1>1, ImportStarts, ImportStep, PTL DEF ImportSpec
-----------------------------------------------------------------------------
(* The tenant.                                                             *)
LEMMA PortalAlone == Tenant => PortalSpec
<1>1. TenantInit => PortalInit
  BY DEF TenantInit
<1>2. [TenantNext]_tenantVars => [PortalNext]_portalVars
  BY DEF TenantNext, tenantVars, tableVars
<1> QED BY <1>1, <1>2, PTL DEF Tenant, PortalSpec

LEMMA MatrixAlone == Tenant => MatrixSpec
<1>1. TenantInit => MatrixInit
  BY DEF TenantInit
<1>2. [TenantNext]_tenantVars => [MatrixNext]_matrixVars
  BY DEF TenantNext, tenantVars, tableVars
<1> QED BY <1>1, <1>2, PTL DEF Tenant, MatrixSpec

LEMMA OrgAlone == Tenant => OrgSpec
<1>1. TenantInit => OrgInit
  BY DEF TenantInit
<1>2. [TenantNext]_tenantVars => [OrgNext]_orgVars
  BY DEF TenantNext, tenantVars, tableVars
<1> QED BY <1>1, <1>2, PTL DEF Tenant, OrgSpec

LEMMA ViewsAlone == Tenant => ViewsSpec
<1>1. TenantInit => ViewsInit
  BY DEF TenantInit
<1>2. [TenantNext]_tenantVars => [ViewsNext]_viewVars
  BY DEF TenantNext, tenantVars, tableVars
<1> QED BY <1>1, <1>2, PTL DEF Tenant, ViewsSpec

LEMMA AccessAlone == Tenant => AccessSpec
<1>1. TenantInit => AccessInit
  BY DEF TenantInit
<1>2. [TenantNext]_tenantVars => [AccessNext]_accessVars
  BY DEF TenantNext, tenantVars, tableVars
<1> QED BY <1>1, <1>2, PTL DEF Tenant, AccessSpec

LEMMA ConnectorsAlone == Tenant => ConnectorSpec
<1>1. TenantInit => ConnectorInit
  BY DEF TenantInit
<1>2. [TenantNext]_tenantVars => [ConnectorNext]_connVars
  BY DEF TenantNext, tenantVars, tableVars
<1> QED BY <1>1, <1>2, PTL DEF Tenant, ConnectorSpec

LEMMA DutyAlone == Tenant => DutySpec
<1>1. TenantInit => DutyInit
  BY DEF TenantInit
<1>2. [TenantNext]_tenantVars => [DutyNext]_dutyVars
  BY DEF TenantNext, tenantVars, tableVars
<1> QED BY <1>1, <1>2, PTL DEF Tenant, DutySpec

LEMMA EventsAlone == Tenant => EventsSpec
<1>1. TenantInit => EventsInit
  BY DEF TenantInit
<1>2. [TenantNext]_tenantVars => [EventsNext]_eventVars
  BY DEF TenantNext, tenantVars, tableVars
<1> QED BY <1>1, <1>2, PTL DEF Tenant, EventsSpec

LEMMA ImportsAlone == Tenant => ImportSpec
<1>1. TenantInit => ImportInit
  BY DEF TenantInit
<1>2. [TenantNext]_tenantVars => [ImportNext]_importVars
  BY DEF TenantNext, tenantVars, tableVars
<1> QED BY <1>1, <1>2, PTL DEF Tenant, ImportSpec

(* Nothing that was taken back returns: not a revoked link's use, not a    *)
(* version of the matrix, not the creator's admin role, not a deleted view.*)
THEOREM NothingComesBack == Tenant => NothingReturns
BY PortalAlone, MatrixAlone, OrgAlone, ViewsAlone, RevokingIsFinal, HistoryIsKept, OneCreator, DeletedStay, PTL DEF NothingReturns

(* A saved view is shown to the audience it says, and a project and its    *)
(* documents only to those who belong to it.                               *)
THEOREM AudiencesAreKept == Tenant => []AudiencesHold
<1>1. ViewsHold /\ AccessHolds => AudiencesHold
  BY DEF AudiencesHold
<1> QED BY <1>1, ViewsAlone, AccessAlone, ViewsStand, AccessIsSound, PTL

(* The pointer of the review matrix names a stored version, and an import  *)
(* saved a valid matrix and told the truth about it.                       *)
THEOREM MatricesAreKept == Tenant => []ReviewMatrixHolds
<1>1. MatrixHolds /\ ImportsHold => ReviewMatrixHolds
  BY DEF ReviewMatrixHolds
<1> QED BY <1>1, MatrixAlone, ImportsAlone, MatrixStands, ImportsAreTrue, PTL

(* The sweep and the refresh of the due dates, and the pulls of the        *)
(* connectors, pass nothing over and announce nothing twice, but for the   *)
(* ways their properties name.                                             *)
THEOREM SweepsAreKept == Tenant => []SweepsHold
<1>1. ObligationsHold /\ NothingSkipped => SweepsHold
  BY DEF SweepsHold
<1> QED BY <1>1, DutyAlone, ConnectorsAlone, ObligationsStand, PullsSkipNothing, PTL

(* The counters agree with the changes, nobody is told twice, and whoever  *)
(* is to be told is, once all is quiet, whatever arrives again and whoever *)
(* stops half way, but for the faults that leave a counter wrong or a      *)
(* claim without a notice (govern_stream, govern_notifier).                *)
THEOREM StreamsAgree ==
    ASSUME EventFaults \cap (Losing \cup Miscounting) = {}, \A r, s \in Removers : r = s
    PROVE  Tenant => []StreamHolds
<1>1. EventFaults \cap Losing = {} /\ EventFaults \cap Miscounting = {}
  OBVIOUS
<1>2. (EventsSpec => []TrendsAgree) /\ (EventsSpec => []ToldOnce) /\ (EventsSpec => []Announced)
  BY <1>1, CountersAgree, NobodyIsToldTwice, NobodyIsForgotten
<1>3. TrendsAgree /\ ToldOnce /\ Announced => StreamHolds
  BY DEF StreamHolds
<1> QED BY <1>2, <1>3, EventsAlone, PTL
=============================================================================
