--------------------------- MODULE PipelineSafety ---------------------------
(***************************************************************************)
(* Proofs about Pipeline, for any number of runs, requests, files, faults  *)
(* and version numbers: the types, and the safety properties they carry.   *)
(***************************************************************************)
EXTENDS Pipeline, WellFoundedInduction, TLAPS

(* A nonempty set of version numbers has a greatest one.                   *)
LEMMA NewestExists ==
    ASSUME NEW S \in SUBSET Numbers, S # {}
    PROVE  Newest(S) \in S /\ \A n \in S : n <= Newest(S)
<1> USE LimitsAssumption
<1> DEFINE Below == {i \in Nat : \E n \in S : i = MaxVersions - n}
<1>1. Below \subseteq Nat /\ Below # {}
  <2>1. PICK n \in S : TRUE
    OBVIOUS
  <2>2. MaxVersions - n \in Nat
    BY <2>1 DEF Numbers
  <2> QED BY <2>1, <2>2
<1>2. PICK i \in Below : \A j \in Below : ~ (<<j, i>> \in OpToRel(<, Nat))
  BY <1>1, NatLessThanWellFounded, WFMin
<1>3. PICK n \in S : i = MaxVersions - n
  OBVIOUS
<1>4. ASSUME NEW m \in S PROVE m <= n
  <2>1. MaxVersions - m \in Below
    BY DEF Numbers
  <2>2. ~ (MaxVersions - m < i)
    BY <1>2, <2>1, <1>1 DEF OpToRel
  <2> QED BY <1>3, <2>2 DEF Numbers
<1> QED BY <1>4 DEF Newest

(* The next version number is one, and none that was seen.                 *)
LEMMA NextVersionIsNew ==
    ASSUME NEW S \in SUBSET Numbers, NextVersion(S) <= MaxVersions
    PROVE  NextVersion(S) \in Numbers /\ NextVersion(S) \notin S
<1> USE LimitsAssumption
<1>1. CASE S = {}
  BY <1>1 DEF NextVersion, Numbers
<1>2. CASE S # {}
  <2>1. Newest(S) \in S /\ \A n \in S : n <= Newest(S)
    BY <1>2, NewestExists
  <2>2. NextVersion(S) = Newest(S) + 1
    BY <1>2 DEF NextVersion
  <2>3. Newest(S) \in 1..MaxVersions
    BY <2>1 DEF Numbers
  <2>4. NextVersion(S) \in 1..MaxVersions
    BY <2>2, <2>3
  <2>5. ~ (Newest(S) + 1 <= Newest(S))
    BY <2>3
  <2>6. NextVersion(S) \notin S
    BY <2>1, <2>2, <2>5
  <2> QED BY <2>4, <2>6 DEF Numbers
<1> QED BY <1>1, <1>2

(* The contexts the actions make have their type.                          *)
LEMMA ContextTypes == NoRun \in RunContexts /\ NoRequest \in Requests
BY DEF NoRun, NoRequest, RunContexts, Requests, Stages, Statuses

(* The files of nobody.                                                    *)
LEMMA NoFilesType == NoFiles \in [Artefacts -> Runs \cup {None}]
BY DEF NoFiles

(* The initial state has the types.                                        *)
LEMMA TypeInit == Init => TypeOK
<1> SUFFICES ASSUME Init PROVE TypeOK
  OBVIOUS
<1>1. MetaTypes
  BY DEF Init, MetaTypes, Statuses
<1>2. StoreTypes
  BY NoFilesType DEF Init, StoreTypes
<1>3. CounterTypes
  BY DEF Init, CounterTypes
<1>4. ProcTypes
  BY ContextTypes DEF Init, ProcTypes, RunLabels, CallerLabels, Carries, GoesBy
<1> QED BY <1>1, <1>2, <1>3, <1>4 DEF TypeOK

(* A step of one run: the others and the requests keep what they have.     *)
LEMMA RunMoves ==
    ASSUME ProcTypes, NEW r \in Runs, NEW l \in RunLabels, Goto(r, l),
           NEW x \in RunContexts, Carries(l, x),
           ctx' = [ctx EXCEPT ![r] = x], UNCHANGED req
    PROVE  ProcTypes'
<1>1. pc' \in [Runs \cup Callers -> RunLabels \cup CallerLabels]
  BY DEF ProcTypes, Goto
<1>2. ctx' \in [Runs -> RunContexts] /\ req' \in [Callers -> Requests]
  BY DEF ProcTypes
<1>3. ASSUME NEW q \in Runs PROVE pc'[q] \in RunLabels /\ Carries(pc'[q], ctx'[q])
  BY DEF ProcTypes, Goto
<1>4. ASSUME NEW c \in Callers PROVE pc'[c] \in CallerLabels /\ GoesBy(pc'[c], req'[c])
  BY ProcsAssumption DEF ProcTypes, Goto
<1> QED BY <1>1, <1>2, <1>3, <1>4 DEF ProcTypes

(* ... that leaves what it carries as it is.                               *)
LEMMA RunGoes ==
    ASSUME ProcTypes, NEW r \in Runs, NEW l \in RunLabels, Goto(r, l),
           Carries(l, ctx[r]), UNCHANGED <<ctx, req>>
    PROVE  ProcTypes'
<1>1. ctx[r] \in RunContexts /\ ctx' = [ctx EXCEPT ![r] = ctx[r]]
  BY DEF ProcTypes
<1> QED BY <1>1, RunMoves

(* A step of one request: the others and the runs keep what they have.     *)
LEMMA RequestMoves ==
    ASSUME ProcTypes, NEW c \in Callers, NEW l \in CallerLabels, Goto(c, l),
           NEW q \in Requests, GoesBy(l, q),
           req' = [req EXCEPT ![c] = q], UNCHANGED ctx
    PROVE  ProcTypes'
<1>1. pc' \in [Runs \cup Callers -> RunLabels \cup CallerLabels]
  BY DEF ProcTypes, Goto
<1>2. ctx' \in [Runs -> RunContexts] /\ req' \in [Callers -> Requests]
  BY DEF ProcTypes
<1>3. ASSUME NEW r \in Runs PROVE pc'[r] \in RunLabels /\ Carries(pc'[r], ctx'[r])
  BY ProcsAssumption DEF ProcTypes, Goto
<1>4. ASSUME NEW d \in Callers PROVE pc'[d] \in CallerLabels /\ GoesBy(pc'[d], req'[d])
  BY DEF ProcTypes, Goto
<1> QED BY <1>1, <1>2, <1>3, <1>4 DEF ProcTypes

(* ... that leaves what it goes by as it is.                               *)
LEMMA RequestGoes ==
    ASSUME ProcTypes, NEW c \in Callers, NEW l \in CallerLabels, Goto(c, l),
           GoesBy(l, req[c]), UNCHANGED <<ctx, req>>
    PROVE  ProcTypes'
<1>1. req[c] \in Requests /\ req' = [req EXCEPT ![c] = req[c]]
  BY DEF ProcTypes
<1> QED BY <1>1, RequestMoves

(* The end of a request.                                                   *)
LEMMA RequestEnds ==
    ASSUME ProcTypes, NEW c \in Callers, Finish(c), UNCHANGED ctx
    PROVE  ProcTypes'
<1>1. GoesBy("idle", NoRequest) /\ "idle" \in CallerLabels
  BY DEF GoesBy, CallerLabels
<1> QED BY <1>1, ContextTypes, RequestMoves DEF Finish

(* The end of a run, its failure, and the end of a stage.                  *)
LEMMA RunEnds ==
    ASSUME ProcTypes, NEW r \in Runs, End(r), UNCHANGED req
    PROVE  ProcTypes'
<1>1. Carries("done", NoRun) /\ "done" \in RunLabels
  BY DEF Carries, RunLabels
<1> QED BY <1>1, ContextTypes, RunMoves DEF End

(* See RunEnds.                                                            *)
LEMMA RunFails ==
    ASSUME ProcTypes, NEW r \in Runs, NEW again \in BOOLEAN, Failing(r, again), UNCHANGED req
    PROVE  ProcTypes'
<1> DEFINE x == [ctx[r] EXCEPT !.again = again]
<1>1. ctx[r] \in RunContexts
  BY DEF ProcTypes
<1>2. x \in RunContexts
  BY <1>1 DEF RunContexts
<1>3. Carries("fail", x) /\ "fail" \in RunLabels
  BY DEF Carries, RunLabels
<1>4. Goto(r, "fail") /\ ctx' = [ctx EXCEPT ![r] = x]
  BY DEF Failing
<1> HIDE DEF x
<1> QED BY <1>2, <1>3, <1>4, RunMoves

(* See RunEnds.                                                            *)
LEMMA RunAdvances ==
    ASSUME ProcTypes, StoreTypes, NEW r \in Runs, NEW ok \in BOOLEAN,
           ctx[r].stage # "persist", Advance(r, ok), UNCHANGED req
    PROVE  ProcTypes' /\ parked' \subseteq Runs
<1> DEFINE x == [NoRun EXCEPT !.stage = NextStage[ctx[r].stage], !.ok = ok]
<1>1. ctx[r].stage \in Stages
  BY DEF ProcTypes, RunContexts
<1>2. NextStage[ctx[r].stage] \in Stages
  BY <1>1 DEF NextStage, Stages
<1>3. x \in RunContexts
  BY <1>2 DEF NoRun, RunContexts
<1>4. Carries("begin", x) /\ "begin" \in RunLabels
  BY DEF Carries, RunLabels
<1>5. Goto(r, "begin") /\ ctx' = [ctx EXCEPT ![r] = x]
  BY DEF Advance
<1>6. parked' \subseteq Runs
  BY DEF Advance, StoreTypes
<1> HIDE DEF x
<1> QED BY <1>3, <1>4, <1>5, <1>6, RunMoves

(* A write of the status.                                                  *)
LEMMA StatusTypes ==
    ASSUME MetaTypes, NEW s \in Statuses, SetStatus(s)
    PROVE  status' \in Statuses /\ fresh' \in BOOLEAN
BY DEF MetaTypes, SetStatus

(* A fault is counted.                                                     *)
LEMMA FaultTypes ==
    ASSUME CounterTypes, NEW kind, Fault(kind)
    PROVE  faults' \in Nat
BY DEF CounterTypes, Fault

(* A run starts.                                                           *)
LEMMA TypeStart ==
    ASSUME TypeOK, NEW r \in Runs, Start(r)
    PROVE  TypeOK'
<1>0. MetaTypes /\ StoreTypes /\ CounterTypes /\ ProcTypes
  BY DEF TypeOK
<1>1. MetaTypes'
  BY <1>0 DEF Start, MetaTypes, metaVars
<1>2. StoreTypes'
  BY <1>0 DEF Start, StoreTypes, storeVars, fileVars
<1>3. CounterTypes'
  <2>1. crossed' \in BOOLEAN /\ missed' = missed /\ unclaimed' \in {unclaimed, TRUE}
    BY DEF Start
  <2>2. events' \in Nat /\ faults' \in Nat
    BY <1>0, FaultTypes DEF Start, CounterTypes
  <2> QED BY <1>0, <2>1, <2>2 DEF CounterTypes
<1>4. ProcTypes'
  <2>1. ctx[r] \in RunContexts /\ Carries("begin", ctx[r]) /\ "begin" \in RunLabels
    BY <1>0 DEF ProcTypes, Carries, RunLabels
  <2> QED BY <1>0, <2>1, RunGoes DEF Start
<1> QED BY <1>1, <1>2, <1>3, <1>4 DEF TypeOK

(* A stage begins.                                                         *)
LEMMA TypeBegin ==
    ASSUME TypeOK, NEW r \in Runs, Begin(r)
    PROVE  TypeOK'
<1>0. MetaTypes /\ StoreTypes /\ CounterTypes /\ ProcTypes
  BY DEF TypeOK
<1>1. MetaTypes'
  <2>1. StatusOf[ctx[r].stage] \in Statuses
    BY <1>0 DEF ProcTypes, RunContexts, StatusOf, Stages, Statuses
  <2>2. status' \in Statuses /\ fresh' \in BOOLEAN
    BY <1>0, <2>1, StatusTypes DEF Begin, MetaTypes
  <2> QED BY <1>0, <2>2 DEF Begin, MetaTypes
<1>2. StoreTypes'
  BY <1>0 DEF Begin, StoreTypes, storeVars, fileVars
<1>3. CounterTypes'
  BY <1>0 DEF Begin, CounterTypes, histVars
<1>4. ProcTypes'
  <2>1. CASE Goto(r, "work") /\ UNCHANGED ctx
    <3>1. Carries("work", ctx[r]) /\ "work" \in RunLabels
      BY DEF Carries, RunLabels
    <3> QED BY <1>0, <2>1, <3>1, RunGoes DEF Begin
  <2>2. CASE Failing(r, FALSE)
    BY <1>0, <2>2, RunFails DEF Begin
  <2> QED BY <2>1, <2>2 DEF Begin
<1> QED BY <1>1, <1>2, <1>3, <1>4 DEF TypeOK

(* A stage does its work.                                                  *)
LEMMA TypeWork ==
    ASSUME TypeOK, NEW r \in Runs, Work(r)
    PROVE  TypeOK'
<1>0. MetaTypes /\ StoreTypes /\ CounterTypes /\ ProcTypes
  BY DEF TypeOK
<1>1. MetaTypes'
  BY <1>0 DEF Work, MetaTypes, metaVars
<1>2. StoreTypes'
  <2>1. CASE Failing(r, FALSE) /\ UNCHANGED <<fixed, parked>>
    BY <1>0, <2>1 DEF Work, StoreTypes
  <2>2. CASE /\ fixed' = [k \in Artefacts |-> IF k \in Writes[ctx[r].stage] THEN r ELSE fixed[k]]
             /\ parked' = parked \cup {r}
    BY <1>0, <2>2 DEF Work, StoreTypes
  <2> QED BY <2>1, <2>2 DEF Work, Advance
<1>3. CounterTypes'
  BY <1>0 DEF Work, CounterTypes, histVars
<1>4. ProcTypes'
  <2>1. CASE Failing(r, FALSE)
    BY <1>0, <2>1, RunFails DEF Work
  <2>2. CASE Advance(r, ctx[r].ok)
    <3>1. ctx[r].ok \in BOOLEAN
      BY <1>0 DEF ProcTypes, RunContexts
    <3> QED BY <1>0, <2>2, <3>1, RunAdvances DEF Work
  <2> QED BY <2>1, <2>2 DEF Work
<1> QED BY <1>1, <1>2, <1>3, <1>4 DEF TypeOK

(* embed writes its records.                                               *)
LEMMA TypeIndex ==
    ASSUME TypeOK, NEW r \in Runs, Index(r)
    PROVE  TypeOK'
<1>0. MetaTypes /\ StoreTypes /\ CounterTypes /\ ProcTypes
  BY DEF TypeOK
<1>1. MetaTypes'
  BY <1>0 DEF Index, MetaTypes, metaVars
<1>a. ProcTypes' /\ parked' \subseteq Runs
  <2>1. CASE Goto(r, "sweep") /\ UNCHANGED <<ctx, parked>>
    <3>1. Carries("sweep", ctx[r]) /\ "sweep" \in RunLabels
      BY DEF Index, Carries, RunLabels
    <3> QED BY <1>0, <2>1, <3>1, RunGoes DEF Index, StoreTypes
  <2>2. CASE \E whole \in BOOLEAN : Advance(r, whole)
    <3>1. ctx[r].stage # "persist"
      BY DEF Index
    <3> QED BY <1>0, <2>2, <3>1, RunAdvances DEF Index
  <2> QED BY <2>1, <2>2 DEF Index
<1>2. StoreTypes'
  BY <1>0, <1>a DEF Index, StoreTypes
<1>3. CounterTypes'
  BY <1>0, FaultTypes DEF Index, CounterTypes, histVars
<1>4. ProcTypes'
  BY <1>a
<1> QED BY <1>1, <1>2, <1>3, <1>4 DEF TypeOK

(* embed writes none.                                                      *)
LEMMA TypeIndexNone ==
    ASSUME TypeOK, NEW r \in Runs, IndexNone(r)
    PROVE  TypeOK'
<1>0. MetaTypes /\ StoreTypes /\ CounterTypes /\ ProcTypes
  BY DEF TypeOK
<1>1. MetaTypes'
  BY <1>0 DEF IndexNone, MetaTypes, metaVars
<1>a. ProcTypes' /\ parked' \subseteq Runs
  <2>1. ctx[r].stage # "persist"
    BY DEF IndexNone
  <2> QED BY <1>0, <2>1, RunAdvances DEF IndexNone
<1>2. StoreTypes'
  BY <1>0, <1>a DEF IndexNone, StoreTypes
<1>3. CounterTypes'
  BY <1>0 DEF IndexNone, CounterTypes, histVars
<1>4. ProcTypes'
  BY <1>a
<1> QED BY <1>1, <1>2, <1>3, <1>4 DEF TypeOK

(* embed sweeps the records of other runs.                                 *)
LEMMA TypeSweep ==
    ASSUME TypeOK, NEW r \in Runs, Sweep(r)
    PROVE  TypeOK'
<1>0. MetaTypes /\ StoreTypes /\ CounterTypes /\ ProcTypes
  BY DEF TypeOK
<1>1. MetaTypes'
  BY <1>0 DEF Sweep, MetaTypes, metaVars
<1>a. ProcTypes' /\ parked' \subseteq Runs
  <2>1. ctx[r].stage # "persist"
    BY <1>0 DEF Sweep, ProcTypes, Carries
  <2> QED BY <1>0, <2>1, RunAdvances DEF Sweep
<1>2. StoreTypes'
  BY <1>0, <1>a DEF Sweep, Swept, StoreTypes
<1>3. CounterTypes'
  BY <1>0, FaultTypes DEF Sweep, CounterTypes, histVars
<1>4. ProcTypes'
  BY <1>a
<1> QED BY <1>1, <1>2, <1>3, <1>4 DEF TypeOK

(* persist reads the version rows and META.                                *)
LEMMA TypeRead ==
    ASSUME TypeOK, NEW r \in Runs, Read(r)
    PROVE  TypeOK'
<1>0. MetaTypes /\ StoreTypes /\ CounterTypes /\ ProcTypes
  BY DEF TypeOK
<1>1. MetaTypes'
  BY <1>0 DEF Read, MetaTypes, metaVars
<1>2. StoreTypes'
  BY <1>0 DEF Read, StoreTypes, storeVars, fileVars
<1>3. CounterTypes'
  <2>1. \/ UNCHANGED <<faults, crossed>>
        \/ Fault("old_read") /\ crossed' = TRUE
    BY DEF Read
  <2> QED BY <1>0, <2>1, FaultTypes DEF Read, CounterTypes
<1>4. ProcTypes'
  <2>1. PICK seen \in SUBSET Taken :
           /\ NextVersion(seen) <= MaxVersions
           /\ IF exists
              THEN /\ Goto(r, "put")
                   /\ ctx' = [ctx EXCEPT ![r].n = NextVersion(seen), ![r].keep = edited]
              ELSE Failing(r, FALSE)
    BY DEF Read
  <2>2. CASE ~exists
    BY <1>0, <2>1, <2>2, RunFails DEF Read
  <2>3. CASE exists
    <3> DEFINE x == [ctx[r] EXCEPT !.n = NextVersion(seen), !.keep = edited]
    <3>1. NextVersion(seen) \in Numbers
      BY <2>1, NextVersionIsNew DEF Taken
    <3>2. x \in RunContexts
      <4>1. ctx[r] \in RunContexts /\ edited \in BOOLEAN
        BY <1>0 DEF ProcTypes, MetaTypes
      <4>2. NextVersion(seen) \in Nat
        BY <3>1, LimitsAssumption DEF Numbers
      <4> QED BY <4>1, <4>2 DEF RunContexts
    <3>3. Carries("put", x) /\ "put" \in RunLabels
      <4>1. x.n = NextVersion(seen) /\ x.stage = ctx[r].stage
        BY <1>0 DEF ProcTypes, RunContexts
      <4>2. ctx[r].stage = "persist"
        BY DEF Read
      <4> QED BY <3>1, <4>1, <4>2 DEF Carries, RunLabels
    <3>4. Goto(r, "put") /\ ctx' = [ctx EXCEPT ![r] = x]
      BY <1>0, <2>1, <2>3 DEF ProcTypes
    <3>5. UNCHANGED req
      BY DEF Read
    <3> HIDE DEF x
    <3> QED BY <1>0, <3>2, <3>3, <3>4, <3>5, RunMoves
  <2> QED BY <2>2, <2>3
<1> QED BY <1>1, <1>2, <1>3, <1>4 DEF TypeOK

(* persist stores its version row.                                         *)
LEMMA TypePut ==
    ASSUME TypeOK, NEW r \in Runs, Put(r)
    PROVE  TypeOK'
<1>0. MetaTypes /\ StoreTypes /\ CounterTypes /\ ProcTypes
  BY DEF TypeOK
<1>1. MetaTypes'
  BY <1>0 DEF Put, MetaTypes, metaVars
<1>2. StoreTypes'
  <2>1. rows' \in [Numbers -> Runs \cup {None}]
    BY <1>0 DEF Put, StoreTypes
  <2> QED BY <1>0, <2>1 DEF Put, StoreTypes, fileVars
<1>3. CounterTypes'
  <2>1. missed' \in BOOLEAN
    BY DEF Put, Missing
  <2> QED BY <1>0, <2>1 DEF Put, CounterTypes
<1>4. ProcTypes'
  <2>1. ctx[r] \in RunContexts /\ Carries("put", ctx[r])
    BY <1>0 DEF Put, ProcTypes
  <2>2. CASE Claims(r)
    <3> DEFINE x == [ctx[r] EXCEPT !.left = Artefacts]
    <3>1. x \in RunContexts
      BY <2>1 DEF RunContexts
    <3>2. Carries("copy", x) /\ "copy" \in RunLabels
      BY <2>1, FilesAssumption DEF RunContexts, Carries, RunLabels
    <3>3. Goto(r, "copy") /\ ctx' = [ctx EXCEPT ![r] = x] /\ UNCHANGED req
      BY <2>2 DEF Put
    <3> HIDE DEF x
    <3> QED BY <1>0, <3>1, <3>2, <3>3, RunMoves
  <2>3. CASE ~Claims(r)
    <3>1. Carries("release", ctx[r]) /\ "release" \in RunLabels
      BY <2>1 DEF Carries, RunLabels
    <3> QED BY <1>0, <2>3, <3>1, RunGoes DEF Put
  <2> QED BY <2>2, <2>3
<1> QED BY <1>1, <1>2, <1>3, <1>4 DEF TypeOK

(* A superseded run gives the document back.                               *)
LEMMA TypeRelease ==
    ASSUME TypeOK, NEW r \in Runs, Release(r)
    PROVE  TypeOK'
<1>0. MetaTypes /\ StoreTypes /\ CounterTypes /\ ProcTypes
  BY DEF TypeOK
<1>1. MetaTypes'
  <2>1. status' \in Statuses /\ fresh' \in BOOLEAN
    <3>1. "READY" \in Statuses
      BY DEF Statuses
    <3> QED BY <1>0, <3>1, StatusTypes DEF Release, MetaTypes
  <2> QED BY <1>0, <2>1 DEF Release, MetaTypes
<1>2. StoreTypes'
  BY <1>0 DEF Release, StoreTypes, storeVars, fileVars
<1>3. CounterTypes'
  BY <1>0 DEF Release, CounterTypes, histVars
<1>4. ProcTypes'
  <2>1. Carries("reply", ctx[r]) /\ "reply" \in RunLabels
    BY <1>0 DEF Release, ProcTypes, Carries, RunLabels
  <2> QED BY <1>0, <2>1, RunGoes DEF Release
<1> QED BY <1>1, <1>2, <1>3, <1>4 DEF TypeOK

(* persist copies a file.                                                  *)
LEMMA TypeCopy ==
    ASSUME TypeOK, NEW r \in Runs, Copy(r)
    PROVE  TypeOK'
<1>0. MetaTypes /\ StoreTypes /\ CounterTypes /\ ProcTypes
  BY DEF TypeOK
<1>1. MetaTypes'
  BY <1>0 DEF Copy, MetaTypes, metaVars
<1>a. PICK k \in ctx[r].left :
          /\ ctx' = [ctx EXCEPT ![r].left = @ \ {k}]
          /\ \/ /\ copies' = [copies EXCEPT ![ctx[r].n][k] =
                                IF fixed[k] = None THEN @ ELSE fixed[k]]
                /\ UNCHANGED faults
             \/ Fault("copy") /\ UNCHANGED copies
          /\ pc' = [pc EXCEPT ![r] = IF ctx[r].left = {k} THEN "save" ELSE "copy"]
  BY DEF Copy
<1>b. ctx[r] \in RunContexts /\ Carries("copy", ctx[r])
  BY <1>0 DEF Copy, ProcTypes
<1>c. k \in Artefacts /\ ctx[r].n \in Numbers
  BY <1>b DEF RunContexts, Carries
<1>2. StoreTypes'
  <2>1. copies' \in [Numbers -> [Artefacts -> Runs \cup {None}]]
    <3>1. CASE UNCHANGED copies
      BY <1>0, <3>1 DEF StoreTypes
    <3>2. CASE copies' = [copies EXCEPT ![ctx[r].n][k] = IF fixed[k] = None THEN @ ELSE fixed[k]]
      <4>1. copies[ctx[r].n] \in [Artefacts -> Runs \cup {None}] /\ fixed[k] \in Runs \cup {None}
        BY <1>0, <1>c DEF StoreTypes
      <4>2. [copies[ctx[r].n] EXCEPT ![k] = IF fixed[k] = None THEN copies[ctx[r].n][k] ELSE fixed[k]]
               \in [Artefacts -> Runs \cup {None}]
        BY <4>1, <1>c
      <4> QED BY <1>0, <1>c, <3>2, <4>2 DEF StoreTypes
    <3> QED BY <1>a, <3>1, <3>2
  <2> QED BY <1>0, <2>1 DEF Copy, StoreTypes
<1>3. CounterTypes'
  <2>1. missed' \in BOOLEAN
    BY DEF Copy, Missing
  <2>2. faults' \in Nat
    BY <1>0, <1>a, FaultTypes DEF CounterTypes
  <2> QED BY <1>0, <2>1, <2>2 DEF Copy, CounterTypes
<1>4. ProcTypes'
  <2> DEFINE x == [ctx[r] EXCEPT !.left = @ \ {k}]
             l == IF ctx[r].left = {k} THEN "save" ELSE "copy"
  <2>1. x \in RunContexts
    BY <1>b DEF RunContexts
  <2>2. Carries(l, x) /\ l \in RunLabels
    <3>1. x.left = ctx[r].left \ {k} /\ x.n = ctx[r].n /\ x.stage = ctx[r].stage
      BY <1>b DEF RunContexts
    <3>2. ctx[r].stage = "persist" /\ ctx[r].left # {}
      BY <1>b DEF Carries
    <3>3. l \in {"save", "copy"} /\ (l = "copy" => x.left # {})
      BY <1>a, <3>1
    <3> HIDE DEF x, l
    <3> QED BY <1>c, <3>1, <3>2, <3>3 DEF Carries, RunLabels
  <2>3. Goto(r, l) /\ ctx' = [ctx EXCEPT ![r] = x] /\ UNCHANGED req
    BY <1>a, <1>0 DEF Copy, Goto, ProcTypes
  <2> HIDE DEF x, l
  <2> QED BY <1>0, <2>1, <2>2, <2>3, RunMoves
<1> QED BY <1>1, <1>2, <1>3, <1>4 DEF TypeOK

(* persist saves the analysis.                                             *)
LEMMA TypeSave ==
    ASSUME TypeOK, NEW r \in Runs, Save(r)
    PROVE  TypeOK'
<1>0. MetaTypes /\ StoreTypes /\ CounterTypes /\ ProcTypes
  BY DEF TypeOK
<1>a. ctx[r] \in RunContexts /\ Carries("save", ctx[r])
  BY <1>0 DEF Save, ProcTypes
<1>b. ctx[r].n \in Nat /\ ctx[r].ok \in BOOLEAN
  BY <1>a DEF RunContexts
<1>1. MetaTypes'
  <2>1. CASE exists
    <3>1. status' \in Statuses /\ fresh' \in BOOLEAN
      <4>1. "READY" \in Statuses
        BY DEF Statuses
      <4> QED BY <1>0, <2>1, <4>1, StatusTypes DEF Save
    <3> QED BY <1>0, <1>b, <2>1, <3>1 DEF Save, Searchable, MetaTypes
  <2>2. CASE ~exists
    BY <1>0, <2>2 DEF Save, MetaTypes
  <2> QED BY <2>1, <2>2
<1>2. StoreTypes'
  BY <1>0 DEF Save, StoreTypes
<1>3. CounterTypes'
  <2>1. missed' \in BOOLEAN
    BY DEF Save, Missing
  <2> QED BY <1>0, <2>1 DEF Save, CounterTypes
<1>4. ProcTypes'
  <2>1. CASE exists
    <3>1. Carries("reply", ctx[r]) /\ "reply" \in RunLabels
      BY DEF Carries, RunLabels
    <3> QED BY <1>0, <2>1, <3>1, RunGoes DEF Save
  <2>2. CASE ~exists
    BY <1>0, <2>2, RunFails DEF Save
  <2> QED BY <2>1, <2>2
<1> QED BY <1>1, <1>2, <1>3, <1>4 DEF TypeOK

(* The state machine takes the result.                                     *)
LEMMA TypeReply ==
    ASSUME TypeOK, NEW r \in Runs, Reply(r)
    PROVE  TypeOK'
<1>0. MetaTypes /\ StoreTypes /\ CounterTypes /\ ProcTypes
  BY DEF TypeOK
<1>1. MetaTypes'
  BY <1>0 DEF Reply, MetaTypes, metaVars
<1>2. StoreTypes'
  BY <1>0 DEF Reply, StoreTypes, storeVars, fileVars
<1>3. CounterTypes'
  BY <1>0 DEF Reply, CounterTypes, histVars
<1>4. ProcTypes'
  BY <1>0, RunEnds DEF Reply
<1> QED BY <1>1, <1>2, <1>3, <1>4 DEF TypeOK

(* The handler's exception branch.                                         *)
LEMMA TypeFail ==
    ASSUME TypeOK, NEW r \in Runs, Fail(r)
    PROVE  TypeOK'
<1>0. MetaTypes /\ StoreTypes /\ CounterTypes /\ ProcTypes
  BY DEF TypeOK
<1>1. MetaTypes'
  <2>1. fresh' \in BOOLEAN
    BY DEF Fail
  <2> QED BY <1>0, <2>1 DEF Fail, MetaTypes
<1>2. StoreTypes'
  BY <1>0, NoFilesType DEF Fail, StoreTypes
<1>3. CounterTypes'
  <2>1. missed' \in BOOLEAN
    BY DEF Fail
  <2> QED BY <1>0, <2>1 DEF Fail, CounterTypes
<1>4. ProcTypes'
  <2>1. CASE Goto(r, "mark") /\ UNCHANGED ctx
    <3>1. Carries("mark", ctx[r]) /\ "mark" \in RunLabels
      BY DEF Carries, RunLabels
    <3> QED BY <1>0, <2>1, <3>1, RunGoes DEF Fail
  <2>2. CASE Goto(r, "begin") /\ ctx' = [ctx EXCEPT ![r].tries = @ + 1]
    <3> DEFINE x == [ctx[r] EXCEPT !.tries = @ + 1]
    <3>1. ctx[r] \in RunContexts
      BY <1>0 DEF ProcTypes
    <3>2. x \in RunContexts
      BY <3>1 DEF RunContexts
    <3>3. Carries("begin", x) /\ "begin" \in RunLabels
      BY DEF Carries, RunLabels
    <3>4. ctx' = [ctx EXCEPT ![r] = x] /\ UNCHANGED req
      BY <2>2 DEF Fail
    <3> HIDE DEF x
    <3> QED BY <1>0, <2>2, <3>2, <3>3, <3>4, RunMoves
  <2> QED BY <2>1, <2>2 DEF Fail
<1> QED BY <1>1, <1>2, <1>3, <1>4 DEF TypeOK

(* MarkFailed.                                                             *)
LEMMA TypeMark ==
    ASSUME TypeOK, NEW r \in Runs, Mark(r)
    PROVE  TypeOK'
<1>0. MetaTypes /\ StoreTypes /\ CounterTypes /\ ProcTypes
  BY DEF TypeOK
<1>1. MetaTypes'
  <2>1. "FAILED" \in Statuses
    BY DEF Statuses
  <2>2. status' \in Statuses /\ fresh' \in BOOLEAN
    BY <1>0, <2>1, StatusTypes DEF Mark
  <2> QED BY <1>0, <2>2 DEF Mark, MetaTypes
<1>2. StoreTypes'
  BY <1>0 DEF Mark, StoreTypes, storeVars, fileVars
<1>3. CounterTypes'
  BY <1>0 DEF Mark, CounterTypes, histVars
<1>4. ProcTypes'
  BY <1>0, RunEnds DEF Mark
<1> QED BY <1>1, <1>2, <1>3, <1>4 DEF TypeOK

(* A stage raises.                                                         *)
LEMMA TypeRaise ==
    ASSUME TypeOK, NEW r \in Runs, Raise(r)
    PROVE  TypeOK'
<1>0. MetaTypes /\ StoreTypes /\ CounterTypes /\ ProcTypes
  BY DEF TypeOK
<1>1. MetaTypes'
  BY <1>0 DEF Raise, MetaTypes, metaVars
<1>2. StoreTypes'
  BY <1>0 DEF Raise, StoreTypes, storeVars, fileVars
<1>3. CounterTypes'
  BY <1>0, FaultTypes DEF Raise, CounterTypes, histVars
<1>4. ProcTypes'
  BY <1>0, RunFails DEF Raise
<1> QED BY <1>1, <1>2, <1>3, <1>4 DEF TypeOK

(* An invocation dies.                                                     *)
LEMMA TypeCrash ==
    ASSUME TypeOK, NEW r \in Runs, Crash(r)
    PROVE  TypeOK'
<1>0. MetaTypes /\ StoreTypes /\ CounterTypes /\ ProcTypes
  BY DEF TypeOK
<1>1. MetaTypes'
  BY <1>0 DEF Crash, MetaTypes, metaVars
<1>2. StoreTypes'
  BY <1>0 DEF Crash, StoreTypes, storeVars, fileVars
<1>3. CounterTypes'
  <2>1. missed' \in BOOLEAN /\ unclaimed' \in BOOLEAN
    BY DEF Crash, Missing
  <2>2. faults' \in Nat
    BY <1>0, FaultTypes DEF Crash
  <2> QED BY <1>0, <2>1, <2>2 DEF Crash, CounterTypes
<1>4. ProcTypes'
  <2>1. Carries("mark", ctx[r]) /\ "mark" \in RunLabels
    BY <1>0 DEF Crash, ProcTypes, Carries, RunLabels
  <2> QED BY <1>0, <2>1, RunGoes DEF Crash
<1> QED BY <1>1, <1>2, <1>3, <1>4 DEF TypeOK

(* The stage is run again.                                                 *)
LEMMA TypeAgain ==
    ASSUME TypeOK, NEW r \in Runs, Again(r)
    PROVE  TypeOK'
<1>0. MetaTypes /\ StoreTypes /\ CounterTypes /\ ProcTypes
  BY DEF TypeOK
<1>1. MetaTypes'
  BY <1>0 DEF Again, MetaTypes, metaVars
<1>2. StoreTypes'
  BY <1>0 DEF Again, StoreTypes, storeVars, fileVars
<1>3. CounterTypes'
  <2>1. unclaimed' \in BOOLEAN
    BY DEF Again
  <2>2. faults' \in Nat
    BY <1>0, FaultTypes DEF Again
  <2> QED BY <1>0, <2>1, <2>2 DEF Again, CounterTypes
<1>4. ProcTypes'
  <2>1. Carries("begin", ctx[r]) /\ "begin" \in RunLabels
    BY <1>0 DEF Again, ProcTypes, Carries, RunLabels
  <2> QED BY <1>0, <2>1, RunGoes DEF Again
<1> QED BY <1>1, <1>2, <1>3, <1>4 DEF TypeOK

(* Re-analysis is asked for.                                               *)
LEMMA TypeReprocess ==
    ASSUME TypeOK, NEW c \in Callers, Reprocess(c)
    PROVE  TypeOK'
<1>0. MetaTypes /\ StoreTypes /\ CounterTypes /\ ProcTypes
  BY DEF TypeOK
<1>1. MetaTypes'
  BY <1>0 DEF Reprocess, MetaTypes, metaVars
<1>2. StoreTypes'
  BY <1>0 DEF Reprocess, StoreTypes, storeVars, fileVars
<1>3. CounterTypes'
  BY <1>0 DEF Reprocess, CounterTypes, histVars
<1>4. ProcTypes'
  <2> DEFINE q == [req[c] EXCEPT !.was = status]
  <2>1. req[c] \in Requests /\ GoesBy(pc[c], req[c])
    BY <1>0 DEF ProcTypes
  <2>2. q \in Requests
    BY <1>0, <2>1 DEF Requests, MetaTypes
  <2>3. GoesBy("claim", q) /\ "claim" \in CallerLabels
    BY <1>0, <2>1 DEF Reprocess, Requests, GoesBy, CallerLabels
  <2>4. Goto(c, "claim") /\ req' = [req EXCEPT ![c] = q] /\ UNCHANGED ctx
    BY <1>0 DEF Reprocess, ProcTypes
  <2> HIDE DEF q
  <2> QED BY <1>0, <2>2, <2>3, <2>4, RequestMoves
<1> QED BY <1>1, <1>2, <1>3, <1>4 DEF TypeOK

(* The document is claimed, or not.                                        *)
LEMMA TypeClaim ==
    ASSUME TypeOK, NEW c \in Callers, Claim(c)
    PROVE  TypeOK'
<1>0. MetaTypes /\ StoreTypes /\ CounterTypes /\ ProcTypes
  BY DEF TypeOK
<1>1. MetaTypes'
  <2>1. "PENDING" \in Statuses
    BY DEF Statuses
  <2>2. status' \in Statuses /\ fresh' \in BOOLEAN
    BY <1>0, <2>1, StatusTypes DEF Claim, MetaTypes
  <2> QED BY <1>0, <2>2 DEF Claim, MetaTypes
<1>2. StoreTypes'
  BY <1>0 DEF Claim, StoreTypes, storeVars, fileVars
<1>3. CounterTypes'
  BY <1>0 DEF Claim, CounterTypes, histVars
<1>4. ProcTypes'
  <2>1. CASE Finish(c)
    BY <1>0, <2>1, RequestEnds DEF Claim
  <2>2. CASE Goto(c, "copy_raw") /\ UNCHANGED req
    <3>1. GoesBy("copy_raw", req[c]) /\ "copy_raw" \in CallerLabels
      BY DEF GoesBy, CallerLabels
    <3> QED BY <1>0, <2>2, <3>1, RequestGoes DEF Claim
  <2> QED BY <2>1, <2>2 DEF Claim
<1> QED BY <1>1, <1>2, <1>3, <1>4 DEF TypeOK

(* The upload is re-written in place.                                      *)
LEMMA TypeCopyRaw ==
    ASSUME TypeOK, NEW c \in Callers, CopyRaw(c)
    PROVE  TypeOK'
<1>0. MetaTypes /\ StoreTypes /\ CounterTypes /\ ProcTypes
  BY DEF TypeOK
<1>1. MetaTypes'
  BY <1>0 DEF CopyRaw, MetaTypes, metaVars
<1>2. StoreTypes'
  BY <1>0 DEF CopyRaw, StoreTypes, storeVars, fileVars
<1>3. CounterTypes'
  <2>1. unclaimed' \in {unclaimed, TRUE} /\ UNCHANGED <<crossed, missed>>
    BY DEF CopyRaw
  <2>2. events' \in Nat /\ faults' \in Nat
    BY <1>0, FaultTypes DEF CopyRaw, CounterTypes
  <2> QED BY <1>0, <2>1, <2>2 DEF CounterTypes
<1>4. ProcTypes'
  <2>1. CASE Finish(c)
    BY <1>0, <2>1, RequestEnds DEF CopyRaw
  <2>2. CASE Goto(c, "unclaim") /\ UNCHANGED req
    <3>1. GoesBy("unclaim", req[c]) /\ "unclaim" \in CallerLabels
      BY DEF GoesBy, CallerLabels
    <3> QED BY <1>0, <2>2, <3>1, RequestGoes DEF CopyRaw
  <2> QED BY <2>1, <2>2 DEF CopyRaw
<1> QED BY <1>1, <1>2, <1>3, <1>4 DEF TypeOK

(* The claim is released.                                                  *)
LEMMA TypeUnclaim ==
    ASSUME TypeOK, NEW c \in Callers, Unclaim(c)
    PROVE  TypeOK'
<1>0. MetaTypes /\ StoreTypes /\ CounterTypes /\ ProcTypes
  BY DEF TypeOK
<1>1. MetaTypes'
  <2>1. req[c].was \in Statuses
    BY <1>0 DEF ProcTypes, Requests
  <2>2. status' \in Statuses /\ fresh' \in BOOLEAN
    BY <1>0, <2>1, StatusTypes DEF Unclaim, MetaTypes
  <2> QED BY <1>0, <2>2 DEF Unclaim, MetaTypes
<1>2. StoreTypes'
  BY <1>0 DEF Unclaim, StoreTypes, storeVars, fileVars
<1>3. CounterTypes'
  BY <1>0 DEF Unclaim, CounterTypes, histVars
<1>4. ProcTypes'
  BY <1>0, RequestEnds DEF Unclaim
<1> QED BY <1>1, <1>2, <1>3, <1>4 DEF TypeOK

(* A person edits the title.                                               *)
LEMMA TypeEdit ==
    ASSUME TypeOK, Edit
    PROVE  TypeOK'
<1>0. MetaTypes /\ StoreTypes /\ CounterTypes /\ ProcTypes
  BY DEF TypeOK
<1>1. MetaTypes'
  BY <1>0 DEF Edit, MetaTypes, metaVars
<1>2. StoreTypes'
  BY <1>0 DEF Edit, StoreTypes, storeVars, fileVars
<1>3. CounterTypes'
  BY <1>0 DEF Edit, CounterTypes, histVars
<1>4. ProcTypes'
  BY <1>0 DEF Edit, ProcTypes, Carries, GoesBy
<1> QED BY <1>1, <1>2, <1>3, <1>4 DEF TypeOK

(* The upload link is used again.                                          *)
LEMMA TypeUploadAgain ==
    ASSUME TypeOK, UploadAgain
    PROVE  TypeOK'
<1>0. MetaTypes /\ StoreTypes /\ CounterTypes /\ ProcTypes
  BY DEF TypeOK
<1>1. MetaTypes'
  BY <1>0 DEF UploadAgain, MetaTypes, metaVars
<1>2. StoreTypes'
  BY <1>0 DEF UploadAgain, StoreTypes, storeVars, fileVars
<1>3. CounterTypes'
  BY <1>0 DEF UploadAgain, CounterTypes, histVars
<1>4. ProcTypes'
  BY <1>0 DEF UploadAgain, ProcTypes, Carries, GoesBy
<1> QED BY <1>1, <1>2, <1>3, <1>4 DEF TypeOK

(* The grace period passes.                                                *)
LEMMA TypeGoQuiet ==
    ASSUME TypeOK, GoQuiet
    PROVE  TypeOK'
<1>0. MetaTypes /\ StoreTypes /\ CounterTypes /\ ProcTypes
  BY DEF TypeOK
<1>1. MetaTypes'
  BY <1>0 DEF GoQuiet, MetaTypes, metaVars
<1>2. StoreTypes'
  BY <1>0 DEF GoQuiet, StoreTypes, storeVars, fileVars
<1>3. CounterTypes'
  BY <1>0, FaultTypes DEF GoQuiet, CounterTypes, histVars
<1>4. ProcTypes'
  BY <1>0 DEF GoQuiet, ProcTypes, Carries, GoesBy
<1> QED BY <1>1, <1>2, <1>3, <1>4 DEF TypeOK

(* A version is to be deleted.                                             *)
LEMMA TypeDeleteVersion ==
    ASSUME TypeOK, NEW c \in Callers, NEW n \in Numbers, DeleteVersion(c, n)
    PROVE  TypeOK'
<1>0. MetaTypes /\ StoreTypes /\ CounterTypes /\ ProcTypes
  BY DEF TypeOK
<1>1. MetaTypes'
  BY <1>0 DEF DeleteVersion, MetaTypes, metaVars
<1>2. StoreTypes'
  BY <1>0 DEF DeleteVersion, StoreTypes, storeVars, fileVars
<1>3. CounterTypes'
  <2>1. crossed' \in BOOLEAN
    BY <1>0 DEF DeleteVersion, CounterTypes
  <2> QED BY <1>0, <2>1 DEF DeleteVersion, CounterTypes
<1>4. ProcTypes'
  <2>1. CASE Taken = {n}
    <3>1. GoesBy("purge", req[c]) /\ "purge" \in CallerLabels
      BY DEF GoesBy, CallerLabels
    <3> QED BY <1>0, <2>1, <3>1, RequestGoes DEF DeleteVersion
  <2>2. CASE Taken # {n}
    <3> DEFINE q == [req[c] EXCEPT !.n = n, !.run = rows[n]]
    <3>1. req[c] \in Requests
      BY <1>0 DEF ProcTypes
    <3>2. rows[n] \in Runs
      BY <1>0 DEF DeleteVersion, Taken, StoreTypes
    <3>3. n \in Nat
      BY LimitsAssumption DEF Numbers
    <3>4. q \in Requests
      BY <3>1, <3>2, <3>3 DEF Requests
    <3>5. GoesBy("drop_row", q) /\ "drop_row" \in CallerLabels
      BY <3>1, <3>2 DEF Requests, GoesBy, CallerLabels
    <3>6. Goto(c, "drop_row") /\ req' = [req EXCEPT ![c] = q] /\ UNCHANGED ctx
      BY <1>0, <2>2 DEF DeleteVersion, ProcTypes
    <3> HIDE DEF q
    <3> QED BY <1>0, <3>4, <3>5, <3>6, RequestMoves
  <2> QED BY <2>1, <2>2
<1> QED BY <1>1, <1>2, <1>3, <1>4 DEF TypeOK

(* The version row is deleted.                                             *)
LEMMA TypeDropRow ==
    ASSUME TypeOK, NEW c \in Callers, DropRow(c)
    PROVE  TypeOK'
<1>0. MetaTypes /\ StoreTypes /\ CounterTypes /\ ProcTypes
  BY DEF TypeOK
<1>1. MetaTypes'
  BY <1>0 DEF DropRow, MetaTypes, metaVars
<1>2. StoreTypes'
  BY <1>0 DEF DropRow, StoreTypes, storeVars, fileVars
<1>3. CounterTypes'
  BY <1>0 DEF DropRow, CounterTypes, histVars
<1>4. ProcTypes'
  <2>1. GoesBy("look", req[c]) /\ "look" \in CallerLabels
    BY <1>0 DEF DropRow, ProcTypes, GoesBy, CallerLabels
  <2> QED BY <1>0, <2>1, RequestGoes DEF DropRow
<1> QED BY <1>1, <1>2, <1>3, <1>4 DEF TypeOK

(* The rows left are read.                                                 *)
LEMMA TypeLook ==
    ASSUME TypeOK, NEW c \in Callers, Look(c)
    PROVE  TypeOK'
<1>0. MetaTypes /\ StoreTypes /\ CounterTypes /\ ProcTypes
  BY DEF TypeOK
<1>1. MetaTypes'
  BY <1>0 DEF Look, MetaTypes, metaVars
<1>2. StoreTypes'
  BY <1>0 DEF Look, StoreTypes, storeVars, fileVars
<1>3. CounterTypes'
  BY <1>0 DEF Look, CounterTypes, histVars
<1>4. ProcTypes'
  <2>1. CASE Taken = {}
    BY <1>0, <2>1, RequestEnds DEF Look
  <2>2. CASE Taken # {}
    <3> DEFINE q == [req[c] EXCEPT !.from = Newest(Taken),
                                   !.other = rows[Newest(Taken)],
                                   !.left = IF Newest(Taken) < req[c].n THEN Artefacts ELSE {}]
    <3>1. req[c] \in Requests /\ GoesBy("look", req[c])
      BY <1>0 DEF Look, ProcTypes
    <3>2. Newest(Taken) \in Taken
      BY <2>2, NewestExists DEF Taken
    <3>3. Newest(Taken) \in Numbers /\ rows[Newest(Taken)] \in Runs
      BY <1>0, <3>2 DEF Taken, StoreTypes
    <3>4. Newest(Taken) \in Nat
      BY <3>3, LimitsAssumption DEF Numbers
    <3>5. q \in Requests
      BY <3>1, <3>3, <3>4 DEF Requests
    <3>6. /\ q.n = req[c].n /\ q.run = req[c].run
          /\ q.from = Newest(Taken) /\ q.other = rows[Newest(Taken)]
      BY <3>1 DEF Requests
    <3>7. Goto(c, "restore") /\ req' = [req EXCEPT ![c] = q] /\ UNCHANGED ctx
      BY <1>0, <2>2 DEF Look, ProcTypes
    <3> HIDE DEF q
    <3>8. GoesBy("restore", q) /\ "restore" \in CallerLabels
      BY <3>1, <3>3, <3>6 DEF GoesBy, CallerLabels
    <3> QED BY <1>0, <3>5, <3>7, <3>8, RequestMoves
  <2> QED BY <2>1, <2>2
<1> QED BY <1>1, <1>2, <1>3, <1>4 DEF TypeOK

(* A file of the version before is restored.                               *)
LEMMA TypeRestore ==
    ASSUME TypeOK, NEW c \in Callers, Restore(c)
    PROVE  TypeOK'
<1>0. MetaTypes /\ StoreTypes /\ CounterTypes /\ ProcTypes
  BY DEF TypeOK
<1>1. MetaTypes'
  BY <1>0 DEF Restore, MetaTypes, metaVars
<1>a. PICK k \in req[c].left :
          \/ /\ fixed' = [fixed EXCEPT ![k] = Restored(c, k)]
             /\ req' = [req EXCEPT ![c].left = @ \ {k},
                                   ![c].ok = @ \/ copies[req[c].from][k] # None]
             /\ UNCHANGED faults
          \/ /\ Fault("copy")
             /\ req' = [req EXCEPT ![c].left = @ \ {k}]
             /\ UNCHANGED fixed
  BY DEF Restore
<1>b. req[c] \in Requests /\ GoesBy("restore", req[c])
  BY <1>0 DEF Restore, ProcTypes
<1>c. k \in Artefacts /\ req[c].from \in Numbers
  BY <1>b DEF Requests, GoesBy
<1>2. StoreTypes'
  <2>1. copies[req[c].from][k] \in Runs \cup {None} /\ fixed[k] \in Runs \cup {None}
    BY <1>0, <1>c DEF StoreTypes
  <2>2. Restored(c, k) \in Runs \cup {None}
    BY <2>1 DEF Restored
  <2>3. fixed' \in [Artefacts -> Runs \cup {None}]
    BY <1>0, <1>a, <1>c, <2>2 DEF StoreTypes
  <2> QED BY <1>0, <2>3 DEF Restore, StoreTypes
<1>3. CounterTypes'
  <2>1. faults' \in Nat
    BY <1>0, <1>a, FaultTypes DEF CounterTypes
  <2> QED BY <1>0, <2>1 DEF Restore, CounterTypes, histVars
<1>4. ProcTypes'
  <2>1. PICK ok \in BOOLEAN : req' = [req EXCEPT ![c] = [req[c] EXCEPT !.left = @ \ {k}, !.ok = ok]]
    <3>1. CASE req' = [req EXCEPT ![c].left = @ \ {k},
                                  ![c].ok = @ \/ copies[req[c].from][k] # None]
      <4> DEFINE ok == req[c].ok \/ copies[req[c].from][k] # None
      <4>1. req' = [req EXCEPT ![c] = [req[c] EXCEPT !.left = @ \ {k}, !.ok = ok]]
        BY <1>0, <1>b, <3>1 DEF ProcTypes, Requests
      <4>2. ok \in BOOLEAN
        OBVIOUS
      <4> QED BY <4>1, <4>2
    <3>2. CASE req' = [req EXCEPT ![c].left = @ \ {k}]
      <4>1. req[c].ok \in BOOLEAN
        BY <1>b DEF Requests
      <4>2. req' = [req EXCEPT ![c] = [req[c] EXCEPT !.left = @ \ {k}, !.ok = req[c].ok]]
        BY <1>0, <1>b, <3>2 DEF ProcTypes, Requests
      <4> QED BY <4>1, <4>2
    <3> QED BY <1>a, <3>1, <3>2
  <2> DEFINE q == [req[c] EXCEPT !.left = @ \ {k}, !.ok = ok]
  <2>2. q \in Requests
    BY <1>b DEF Requests
  <2>3. /\ q.n = req[c].n /\ q.run = req[c].run /\ q.from = req[c].from
        /\ q.other = req[c].other
    BY <1>b DEF Requests
  <2>4. req' = [req EXCEPT ![c] = q] /\ UNCHANGED ctx
    BY <2>1 DEF Restore
  <2>5. "restore" \in CallerLabels /\ Goto(c, "restore")
    BY <1>0 DEF Restore, CallerLabels, Goto, ProcTypes
  <2> HIDE DEF q
  <2>6. GoesBy("restore", q)
    BY <1>b, <2>3 DEF GoesBy
  <2> QED BY <1>0, <2>2, <2>4, <2>5, <2>6, RequestMoves
<1> QED BY <1>1, <1>2, <1>3, <1>4 DEF TypeOK

(* The deleted run's records are removed.                                  *)
LEMMA TypeUnindex ==
    ASSUME TypeOK, NEW c \in Callers, Unindex(c)
    PROVE  TypeOK'
<1>0. MetaTypes /\ StoreTypes /\ CounterTypes /\ ProcTypes
  BY DEF TypeOK
<1>1. MetaTypes'
  BY <1>0 DEF Unindex, MetaTypes, metaVars
<1>b. req[c] \in Requests /\ GoesBy("restore", req[c])
  BY <1>0 DEF Unindex, ProcTypes
<1>2. StoreTypes'
  <2>1. index' \subseteq Runs
    BY <1>0 DEF Unindex, StoreTypes
  <2>2. copies' \in [Numbers -> [Artefacts -> Runs \cup {None}]]
    BY <1>0, NoFilesType DEF Unindex, StoreTypes
  <2> QED BY <1>0, <2>1, <2>2 DEF Unindex, StoreTypes
<1>3. CounterTypes'
  BY <1>0, FaultTypes DEF Unindex, CounterTypes, histVars
<1>4. ProcTypes'
  <2>1. RemovesRecords(c) \in BOOLEAN
    BY DEF RemovesRecords
  <2>2. PICK ok \in BOOLEAN : req' = [req EXCEPT ![c].ok = ok]
    BY <2>1 DEF Unindex
  <2> DEFINE q == [req[c] EXCEPT !.ok = ok]
  <2>3. q \in Requests
    BY <1>b DEF Requests
  <2>4. /\ q.n = req[c].n /\ q.run = req[c].run /\ q.from = req[c].from
        /\ q.other = req[c].other
    BY <1>b DEF Requests
  <2>5. req' = [req EXCEPT ![c] = q] /\ UNCHANGED ctx /\ Goto(c, "roll")
    BY <2>2 DEF Unindex
  <2> HIDE DEF q
  <2>6. GoesBy("roll", q) /\ "roll" \in CallerLabels
    BY <1>b, <2>4 DEF GoesBy, CallerLabels
  <2> QED BY <1>0, <2>3, <2>5, <2>6, RequestMoves
<1> QED BY <1>1, <1>2, <1>3, <1>4 DEF TypeOK

(* META names the newest version left.                                     *)
LEMMA TypeRoll ==
    ASSUME TypeOK, NEW c \in Callers, Roll(c)
    PROVE  TypeOK'
<1>0. MetaTypes /\ StoreTypes /\ CounterTypes /\ ProcTypes
  BY DEF TypeOK
<1>1. MetaTypes'
  <2>1. req[c].from \in Nat
    BY <1>0 DEF ProcTypes, Requests, GoesBy, Roll
  <2>2. searchable' \in BOOLEAN
    BY <1>0 DEF Roll, MetaTypes
  <2> QED BY <1>0, <2>1, <2>2 DEF Roll, MetaTypes
<1>2. StoreTypes'
  BY <1>0 DEF Roll, StoreTypes, storeVars, fileVars
<1>3. CounterTypes'
  BY <1>0 DEF Roll, CounterTypes, histVars
<1>4. ProcTypes'
  BY <1>0, RequestEnds DEF Roll
<1> QED BY <1>1, <1>2, <1>3, <1>4 DEF TypeOK

(* The document is to be deleted.                                          *)
LEMMA TypeDeleteDocument ==
    ASSUME TypeOK, NEW c \in Callers, DeleteDocument(c)
    PROVE  TypeOK'
<1>0. MetaTypes /\ StoreTypes /\ CounterTypes /\ ProcTypes
  BY DEF TypeOK
<1>1. MetaTypes'
  BY <1>0 DEF DeleteDocument, MetaTypes, metaVars
<1>2. StoreTypes'
  BY <1>0 DEF DeleteDocument, StoreTypes, storeVars, fileVars
<1>3. CounterTypes'
  BY <1>0 DEF DeleteDocument, CounterTypes, histVars
<1>4. ProcTypes'
  <2>1. GoesBy("purge", req[c]) /\ "purge" \in CallerLabels
    BY <1>0 DEF DeleteDocument, ProcTypes, GoesBy, CallerLabels
  <2> QED BY <1>0, <2>1, RequestGoes DEF DeleteDocument
<1> QED BY <1>1, <1>2, <1>3, <1>4 DEF TypeOK

(* The files are removed.                                                  *)
LEMMA TypePurge ==
    ASSUME TypeOK, NEW c \in Callers, Purge(c)
    PROVE  TypeOK'
<1>0. MetaTypes /\ StoreTypes /\ CounterTypes /\ ProcTypes
  BY DEF TypeOK
<1>1. MetaTypes'
  BY <1>0 DEF Purge, MetaTypes, metaVars
<1>2. StoreTypes'
  BY <1>0, NoFilesType DEF Purge, StoreTypes, storeVars, fileVars
<1>3. CounterTypes'
  BY <1>0 DEF Purge, CounterTypes, histVars
<1>4. ProcTypes'
  <2>1. GoesBy("purge_index", req[c]) /\ "purge_index" \in CallerLabels
    BY <1>0 DEF Purge, ProcTypes, GoesBy, CallerLabels
  <2> QED BY <1>0, <2>1, RequestGoes DEF Purge
<1> QED BY <1>1, <1>2, <1>3, <1>4 DEF TypeOK

(* The search records are removed.                                         *)
LEMMA TypePurgeIndex ==
    ASSUME TypeOK, NEW c \in Callers, PurgeIndex(c)
    PROVE  TypeOK'
<1>0. MetaTypes /\ StoreTypes /\ CounterTypes /\ ProcTypes
  BY DEF TypeOK
<1>1. MetaTypes'
  BY <1>0 DEF PurgeIndex, MetaTypes, metaVars
<1>2. StoreTypes'
  BY <1>0 DEF PurgeIndex, StoreTypes, storeVars, fileVars
<1>3. CounterTypes'
  BY <1>0, FaultTypes DEF PurgeIndex, CounterTypes, histVars
<1>4. ProcTypes'
  <2>1. GoesBy("list", req[c]) /\ "list" \in CallerLabels
    BY <1>0 DEF PurgeIndex, ProcTypes, GoesBy, CallerLabels
  <2> QED BY <1>0, <2>1, RequestGoes DEF PurgeIndex
<1> QED BY <1>1, <1>2, <1>3, <1>4 DEF TypeOK

(* The rows are listed.                                                    *)
LEMMA TypeList ==
    ASSUME TypeOK, NEW c \in Callers, List(c)
    PROVE  TypeOK'
<1>0. MetaTypes /\ StoreTypes /\ CounterTypes /\ ProcTypes
  BY DEF TypeOK
<1>1. MetaTypes'
  BY <1>0 DEF List, MetaTypes, metaVars
<1>2. StoreTypes'
  BY <1>0 DEF List, StoreTypes, storeVars, fileVars
<1>3. CounterTypes'
  BY <1>0 DEF List, CounterTypes, histVars
<1>4. ProcTypes'
  <2> DEFINE q == [req[c] EXCEPT !.found = Taken]
  <2>1. q \in Requests
    BY <1>0 DEF ProcTypes, Requests, Taken
  <2>2. GoesBy("remove", q) /\ "remove" \in CallerLabels
    BY DEF GoesBy, CallerLabels
  <2>3. Goto(c, "remove") /\ req' = [req EXCEPT ![c] = q] /\ UNCHANGED ctx
    BY DEF List
  <2> HIDE DEF q
  <2> QED BY <1>0, <2>1, <2>2, <2>3, RequestMoves
<1> QED BY <1>1, <1>2, <1>3, <1>4 DEF TypeOK

(* What was found is removed.                                              *)
LEMMA TypeRemove ==
    ASSUME TypeOK, NEW c \in Callers, Remove(c)
    PROVE  TypeOK'
<1>0. MetaTypes /\ StoreTypes /\ CounterTypes /\ ProcTypes
  BY DEF TypeOK
<1>1. MetaTypes'
  BY <1>0 DEF Remove, MetaTypes, metaVars
<1>2. StoreTypes'
  BY <1>0 DEF Remove, StoreTypes, storeVars, fileVars
<1>3. CounterTypes'
  BY <1>0 DEF Remove, CounterTypes, histVars
<1>4. ProcTypes'
  BY <1>0, RequestEnds DEF Remove
<1> QED BY <1>1, <1>2, <1>3, <1>4 DEF TypeOK

(* A request dies.                                                         *)
LEMMA TypeStop ==
    ASSUME TypeOK, NEW c \in Callers, Stop(c)
    PROVE  TypeOK'
<1>0. MetaTypes /\ StoreTypes /\ CounterTypes /\ ProcTypes
  BY DEF TypeOK
<1>1. MetaTypes'
  BY <1>0 DEF Stop, MetaTypes, metaVars
<1>2. StoreTypes'
  BY <1>0 DEF Stop, StoreTypes, storeVars, fileVars
<1>3. CounterTypes'
  <2>1. crossed' \in BOOLEAN
    BY DEF Stop
  <2>2. faults' \in Nat
    BY <1>0, FaultTypes DEF Stop
  <2> QED BY <1>0, <2>1, <2>2 DEF Stop, CounterTypes
<1>4. ProcTypes'
  BY <1>0, RequestEnds DEF Stop
<1> QED BY <1>1, <1>2, <1>3, <1>4 DEF TypeOK

(* Every step keeps the types.                                             *)
LEMMA TypeNext == TypeOK /\ [Next]_vars => TypeOK'
<1> SUFFICES ASSUME TypeOK, [Next]_vars PROVE TypeOK'
  OBVIOUS
<1>1. CASE UNCHANGED vars
  BY <1>1 DEF vars, metaVars, storeVars, fileVars, histVars, TypeOK, MetaTypes, StoreTypes,
              CounterTypes, ProcTypes, Carries, GoesBy
<1>2. ASSUME NEW r \in Runs, Start(r) \/ GoOn(r) \/ Raise(r) \/ Crash(r) \/ Again(r)
      PROVE  TypeOK'
  BY <1>2, TypeStart, TypeBegin, TypeWork, TypeIndex, TypeIndexNone, TypeSweep,
     TypeRead, TypePut, TypeRelease, TypeCopy, TypeSave, TypeReply,
     TypeFail, TypeMark, TypeRaise, TypeCrash, TypeAgain
     DEF GoOn
<1>3. ASSUME NEW c \in Callers, Ask(c) \/ Serve(c) \/ Stop(c)
      PROVE  TypeOK'
  BY <1>3, TypeReprocess, TypeClaim, TypeCopyRaw, TypeUnclaim, TypeDeleteVersion,
     TypeDropRow, TypeLook, TypeRestore, TypeUnindex, TypeRoll,
     TypeDeleteDocument, TypePurge, TypePurgeIndex, TypeList, TypeRemove,
     TypeStop
     DEF Ask, Serve
<1>4. CASE Edit \/ UploadAgain \/ GoQuiet
  BY <1>4, TypeEdit, TypeUploadAgain, TypeGoQuiet
<1> QED BY <1>1, <1>2, <1>3, <1>4 DEF Next

(* Every reachable state has its types, and every run and request has what *)
(* its next step needs.                                                    *)
THEOREM TypeCorrect == Safe => []TypeOK
<1>1. Init => TypeOK
  BY TypeInit
<1>2. TypeOK /\ [Next]_vars => TypeOK'
  BY TypeNext
<1> QED BY <1>1, <1>2, PTL DEF Safe

(* A run or a request that holds the document.                             *)
HeldLabels == {"begin", "work", "sweep", "put", "release", "copy", "save", "fail", "mark"}
ClaimLabels == {"copy_raw", "unclaim"}

(* Holders, by label.                                                      *)
LEMMA HoldersByLabel ==
    ASSUME TypeOK
    PROVE  Holders = {r \in Runs : pc[r] \in HeldLabels} \cup {c \in Callers : pc[c] \in ClaimLabels}
BY DEF TypeOK, ProcTypes, Holders, Active, HeldLabels, ClaimLabels, RunLabels

(* ... and in the next state.                                              *)
LEMMA NextHoldersByLabel ==
    ASSUME TypeOK'
    PROVE  Holders' = {r \in Runs : pc'[r] \in HeldLabels}
                      \cup {c \in Callers : pc'[c] \in ClaimLabels}
BY DEF TypeOK, ProcTypes, Holders, Active, HeldLabels, ClaimLabels, RunLabels

(* OneRun, strengthened: whoever holds the document, or the event that     *)
(* will start a run, is alone, and META says so, so that nobody can claim  *)
(* it.                                                                     *)
Alone == ~unclaimed =>
    /\ \A p, q \in Holders : p = q
    /\ events <= 1
    /\ events = 1 => Holders = {}
    /\ exists /\ (events = 1 \/ Holders # {}) => status \in InFlight /\ fresh

(* A step that lets nobody in and leaves META saying that a run is under   *)
(* way, or saying what it said.                                            *)
LEMMA AloneFrame ==
    ASSUME Alone, Holders' \subseteq Holders, events' = events,
           unclaimed => unclaimed', exists' => exists,
           exists' => \/ status' \in InFlight /\ fresh'
                      \/ status' = status /\ (fresh => fresh')
    PROVE  Alone'
BY DEF Alone

(* A step by which the holder leaves.                                      *)
LEMMA AloneLeaves ==
    ASSUME Alone, NEW p \in Holders, Holders' \subseteq Holders \ {p}, events' = events,
           events \in Nat, unclaimed => unclaimed'
    PROVE  Alone'
BY DEF Alone

(* A step of one run among the holders.                                    *)
LEMMA HolderMoves ==
    ASSUME TypeOK, TypeOK', NEW r \in Runs, NEW l, Goto(r, l),
           pc[r] \in HeldLabels \/ l \notin HeldLabels
    PROVE  /\ Holders' \subseteq Holders
           /\ l \notin HeldLabels => Holders' \subseteq Holders \ {r}
           /\ pc[r] \in HeldLabels => r \in Holders
<1>1. pc' = [pc EXCEPT ![r] = l] /\ pc \in [Runs \cup Callers -> RunLabels \cup CallerLabels]
  BY DEF Goto, TypeOK, ProcTypes
<1> QED BY <1>1, HoldersByLabel, NextHoldersByLabel, ProcsAssumption

(* A step of one request among the holders.                                *)
LEMMA ClaimMoves ==
    ASSUME TypeOK, TypeOK', NEW c \in Callers, NEW l, Goto(c, l),
           pc[c] \in ClaimLabels \/ l \notin ClaimLabels
    PROVE  /\ Holders' \subseteq Holders
           /\ l \notin ClaimLabels => Holders' \subseteq Holders \ {c}
           /\ pc[c] \in ClaimLabels => c \in Holders
<1>1. pc' = [pc EXCEPT ![c] = l] /\ pc \in [Runs \cup Callers -> RunLabels \cup CallerLabels]
  BY DEF Goto, TypeOK, ProcTypes
<1> QED BY <1>1, HoldersByLabel, NextHoldersByLabel, ProcsAssumption

(* A step that moves nobody.                                               *)
LEMMA NobodyMoves ==
    ASSUME UNCHANGED pc
    PROVE  Holders' = Holders
BY DEF Holders, Active

(* An event starts a run.                                                  *)
LEMMA AloneStart ==
    ASSUME TypeOK, TypeOK', Alone, NEW r \in Runs, Start(r)
    PROVE  Alone'
<1>1. CASE unclaimed'
  BY <1>1 DEF Alone
<1>2. CASE ~unclaimed'
  <2>1. /\ ~unclaimed /\ events' = events - 1 /\ events > 0 /\ events \in Nat
        /\ UNCHANGED metaVars /\ pc' = [pc EXCEPT ![r] = "begin"]
    BY <1>2 DEF Start, Goto, TypeOK, CounterTypes
  <2>2. events = 1 /\ Holders = {}
    BY <2>1 DEF Alone
  <2>3. Holders' \subseteq {r}
    BY <2>1, <2>2, HoldersByLabel, NextHoldersByLabel, ProcsAssumption DEF TypeOK, ProcTypes
  <2> QED BY <2>1, <2>2, <2>3 DEF Alone, metaVars
<1> QED BY <1>1, <1>2

(* A stage does its work.                                                  *)
LEMMA AloneWork ==
    ASSUME TypeOK, TypeOK', Alone, NEW r \in Runs, Work(r)
    PROVE  Alone'
<1>1. Holders' \subseteq Holders
  <2>1. PICK l : Goto(r, l)
    BY DEF Work, Advance, Failing
  <2>2. pc[r] \in HeldLabels
    BY DEF Work, HeldLabels
  <2> QED BY <2>1, <2>2, HolderMoves
<1>2. /\ UNCHANGED <<exists, events, unclaimed>>
      /\ exists' => UNCHANGED <<status, fresh>>
  BY DEF Work, metaVars, histVars
<1> QED BY <1>1, <1>2, AloneFrame

(* embed writes its records.                                               *)
LEMMA AloneIndex ==
    ASSUME TypeOK, TypeOK', Alone, NEW r \in Runs, Index(r)
    PROVE  Alone'
<1>1. Holders' \subseteq Holders
  <2>1. PICK l : Goto(r, l)
    BY DEF Index, Advance
  <2>2. pc[r] \in HeldLabels
    BY DEF Index, HeldLabels
  <2> QED BY <2>1, <2>2, HolderMoves
<1>2. /\ UNCHANGED <<exists, events, unclaimed>>
      /\ exists' => UNCHANGED <<status, fresh>>
  BY DEF Index, metaVars, histVars
<1> QED BY <1>1, <1>2, AloneFrame

(* embed writes none.                                                      *)
LEMMA AloneIndexNone ==
    ASSUME TypeOK, TypeOK', Alone, NEW r \in Runs, IndexNone(r)
    PROVE  Alone'
<1>1. Holders' \subseteq Holders
  <2>1. PICK l : Goto(r, l)
    BY DEF IndexNone, Advance
  <2>2. pc[r] \in HeldLabels
    BY DEF IndexNone, HeldLabels
  <2> QED BY <2>1, <2>2, HolderMoves
<1>2. /\ UNCHANGED <<exists, events, unclaimed>>
      /\ exists' => UNCHANGED <<status, fresh>>
  BY DEF IndexNone, metaVars, histVars
<1> QED BY <1>1, <1>2, AloneFrame

(* embed sweeps the records of other runs.                                 *)
LEMMA AloneSweep ==
    ASSUME TypeOK, TypeOK', Alone, NEW r \in Runs, Sweep(r)
    PROVE  Alone'
<1>1. Holders' \subseteq Holders
  <2>1. PICK l : Goto(r, l)
    BY DEF Sweep, Advance
  <2>2. pc[r] \in HeldLabels
    BY DEF Sweep, HeldLabels
  <2> QED BY <2>1, <2>2, HolderMoves
<1>2. /\ UNCHANGED <<exists, events, unclaimed>>
      /\ exists' => UNCHANGED <<status, fresh>>
  BY DEF Sweep, metaVars, histVars
<1> QED BY <1>1, <1>2, AloneFrame

(* persist reads the version rows and META.                                *)
LEMMA AloneRead ==
    ASSUME TypeOK, TypeOK', Alone, NEW r \in Runs, Read(r)
    PROVE  Alone'
<1>1. Holders' \subseteq Holders
  <2>1. PICK l : Goto(r, l)
    BY DEF Read, Failing
  <2>2. pc[r] \in HeldLabels
    BY DEF Read, HeldLabels
  <2> QED BY <2>1, <2>2, HolderMoves
<1>2. /\ UNCHANGED <<exists, events, unclaimed>>
      /\ exists' => UNCHANGED <<status, fresh>>
  BY DEF Read, metaVars, histVars
<1> QED BY <1>1, <1>2, AloneFrame

(* persist stores its version row.                                         *)
LEMMA AlonePut ==
    ASSUME TypeOK, TypeOK', Alone, NEW r \in Runs, Put(r)
    PROVE  Alone'
<1>1. Holders' \subseteq Holders
  <2>1. PICK l : Goto(r, l)
    BY DEF Put
  <2>2. pc[r] \in HeldLabels
    BY DEF Put, HeldLabels
  <2> QED BY <2>1, <2>2, HolderMoves
<1>2. /\ UNCHANGED <<exists, events, unclaimed>>
      /\ exists' => UNCHANGED <<status, fresh>>
  BY DEF Put, metaVars
<1> QED BY <1>1, <1>2, AloneFrame

(* persist copies a file.                                                  *)
LEMMA AloneCopy ==
    ASSUME TypeOK, TypeOK', Alone, NEW r \in Runs, Copy(r)
    PROVE  Alone'
<1>1. Holders' \subseteq Holders
  <2>1. PICK l : Goto(r, l)
    BY DEF Copy, Goto
  <2>2. pc[r] \in HeldLabels
    BY DEF Copy, HeldLabels
  <2> QED BY <2>1, <2>2, HolderMoves
<1>2. /\ UNCHANGED <<exists, events, unclaimed>>
      /\ exists' => UNCHANGED <<status, fresh>>
  BY DEF Copy, metaVars
<1> QED BY <1>1, <1>2, AloneFrame

(* The handler's exception branch.                                         *)
LEMMA AloneFail ==
    ASSUME TypeOK, TypeOK', Alone, NEW r \in Runs, Fail(r)
    PROVE  Alone'
<1>1. Holders' \subseteq Holders
  <2>1. PICK l : Goto(r, l)
    BY DEF Fail
  <2>2. pc[r] \in HeldLabels
    BY DEF Fail, HeldLabels
  <2> QED BY <2>1, <2>2, HolderMoves
<1>2. /\ UNCHANGED <<exists, events, unclaimed>>
      /\ exists' => status' = status /\ (fresh => fresh')
  BY DEF Fail
<1> QED BY <1>1, <1>2, AloneFrame

(* A stage raises.                                                         *)
LEMMA AloneRaise ==
    ASSUME TypeOK, TypeOK', Alone, NEW r \in Runs, Raise(r)
    PROVE  Alone'
<1>1. Holders' \subseteq Holders
  <2>1. PICK l : Goto(r, l)
    BY DEF Raise, Failing
  <2>2. pc[r] \in HeldLabels
    BY DEF Raise, HeldLabels, InStage
  <2> QED BY <2>1, <2>2, HolderMoves
<1>2. /\ UNCHANGED <<exists, events, unclaimed>>
      /\ exists' => UNCHANGED <<status, fresh>>
  BY DEF Raise, metaVars, histVars, InStage
<1> QED BY <1>1, <1>2, AloneFrame

(* A superseded run gives the document back.                               *)
LEMMA AloneRelease ==
    ASSUME TypeOK, TypeOK', Alone, NEW r \in Runs, Release(r)
    PROVE  Alone'
<1>1. pc[r] \in HeldLabels /\ Goto(r, "reply") /\ "reply" \notin HeldLabels
  BY DEF Release, HeldLabels
<1>2. r \in Holders /\ Holders' \subseteq Holders \ {r}
  BY <1>1, HolderMoves
<1>3. UNCHANGED <<events, unclaimed>> /\ events \in Nat
  BY DEF Release, histVars, TypeOK, CounterTypes
<1> QED BY <1>2, <1>3, AloneLeaves

(* MarkFailed.                                                             *)
LEMMA AloneMark ==
    ASSUME TypeOK, TypeOK', Alone, NEW r \in Runs, Mark(r)
    PROVE  Alone'
<1>1. pc[r] \in HeldLabels /\ Goto(r, "done") /\ "done" \notin HeldLabels
  BY DEF Mark, HeldLabels, End
<1>2. r \in Holders /\ Holders' \subseteq Holders \ {r}
  BY <1>1, HolderMoves
<1>3. UNCHANGED <<events, unclaimed>> /\ events \in Nat
  BY DEF Mark, histVars, TypeOK, CounterTypes
<1> QED BY <1>2, <1>3, AloneLeaves

(* A stage begins, and says so.                                            *)
LEMMA AloneBegin ==
    ASSUME TypeOK, TypeOK', Alone, NEW r \in Runs, Begin(r)
    PROVE  Alone'
<1>1. Holders' \subseteq Holders
  <2>1. PICK l : Goto(r, l)
    BY DEF Begin, Failing
  <2>2. pc[r] \in HeldLabels
    BY DEF Begin, HeldLabels
  <2> QED BY <2>1, <2>2, HolderMoves
<1>2. StatusOf[ctx[r].stage] \in InFlight
  <2>1. ctx[r].stage \in Stages
    BY DEF TypeOK, ProcTypes, RunContexts
  <2> QED BY <2>1 DEF StatusOf, Stages, InFlight, Statuses
<1>3. /\ UNCHANGED <<exists, events, unclaimed>>
      /\ exists' => (status' \in InFlight /\ fresh') \/ UNCHANGED <<status, fresh>>
  BY <1>2 DEF Begin, SetStatus, histVars
<1> QED BY <1>1, <1>3, AloneFrame

(* The analysis is saved, or the document was deleted.                     *)
LEMMA AloneSave ==
    ASSUME TypeOK, TypeOK', Alone, NEW r \in Runs, Save(r)
    PROVE  Alone'
<1>1. pc[r] \in HeldLabels /\ UNCHANGED <<exists, events, unclaimed>> /\ events \in Nat
  BY DEF Save, HeldLabels, TypeOK, CounterTypes
<1>2. CASE exists
  <2>1. Goto(r, "reply") /\ "reply" \notin HeldLabels
    BY <1>2 DEF Save, HeldLabels
  <2>2. r \in Holders /\ Holders' \subseteq Holders \ {r}
    BY <1>1, <2>1, HolderMoves
  <2> QED BY <1>1, <2>2, AloneLeaves
<1>3. CASE ~exists
  <2>1. Goto(r, "fail") /\ ~exists'
    BY <1>1, <1>3 DEF Save, Failing
  <2>2. Holders' \subseteq Holders
    BY <1>1, <2>1, HolderMoves
  <2> QED BY <1>1, <1>3, <2>1, <2>2, AloneFrame
<1> QED BY <1>2, <1>3

(* The state machine takes the result.                                     *)
LEMMA AloneReply ==
    ASSUME TypeOK, TypeOK', Alone, NEW r \in Runs, Reply(r)
    PROVE  Alone'
<1>1. Goto(r, "done") /\ "done" \notin HeldLabels
  BY DEF Reply, End, HeldLabels
<1>2. Holders' \subseteq Holders
  BY <1>1, HolderMoves
<1>3. UNCHANGED <<exists, status, fresh, events, unclaimed>>
  BY DEF Reply, metaVars, histVars
<1> QED BY <1>2, <1>3, AloneFrame

(* An invocation dies.                                                     *)
LEMMA AloneCrash ==
    ASSUME TypeOK, TypeOK', Alone, NEW r \in Runs, Crash(r)
    PROVE  Alone'
<1>1. CASE pc[r] = "reply"
  BY <1>1 DEF Crash, Alone
<1>2. CASE pc[r] # "reply"
  <2>1. pc[r] \in HeldLabels /\ Goto(r, "mark")
    BY <1>2 DEF Crash, InStage, HeldLabels
  <2>2. Holders' \subseteq Holders
    BY <2>1, HolderMoves
  <2>3. UNCHANGED <<exists, status, fresh, events>> /\ (unclaimed => unclaimed')
    BY DEF Crash, metaVars
  <2> QED BY <2>2, <2>3, AloneFrame
<1> QED BY <1>1, <1>2

(* The stage is run again.                                                 *)
LEMMA AloneAgain ==
    ASSUME TypeOK, TypeOK', Alone, NEW r \in Runs, Again(r)
    PROVE  Alone'
<1>1. CASE pc[r] = "reply"
  BY <1>1 DEF Again, Alone
<1>2. CASE pc[r] # "reply"
  <2>1. pc[r] \in HeldLabels /\ Goto(r, "begin")
    BY <1>2 DEF Again, InStage, HeldLabels
  <2>2. Holders' \subseteq Holders
    BY <2>1, HolderMoves
  <2>3. UNCHANGED <<exists, status, fresh, events>> /\ (unclaimed => unclaimed')
    BY DEF Again, metaVars
  <2> QED BY <2>2, <2>3, AloneFrame
<1> QED BY <1>1, <1>2

(* A step of one request that neither holds the document afterwards nor    *)
(* says anything about a run.                                              *)
LEMMA AloneAside ==
    ASSUME TypeOK, TypeOK', Alone, NEW c \in Callers, NEW l, l \notin ClaimLabels,
           Goto(c, l), UNCHANGED <<events, unclaimed>>, exists' => exists,
           exists' => status' = status /\ (fresh => fresh')
    PROVE  Alone'
<1>1. Holders' \subseteq Holders
  BY ClaimMoves
<1> QED BY <1>1, AloneFrame

(* Requests that claim nothing.                                            *)
LEMMA AloneRequest ==
    ASSUME TypeOK, TypeOK', Alone, NEW c \in Callers,
           \/ Reprocess(c) \/ DeleteDocument(c)
           \/ \E n \in Numbers : DeleteVersion(c, n)
           \/ DropRow(c) \/ Look(c) \/ Unindex(c) \/ Roll(c)
           \/ Purge(c) \/ PurgeIndex(c) \/ List(c) \/ Remove(c) \/ Stop(c)
    PROVE  Alone'
<1>1. CASE Reprocess(c)
  <2>1. "claim" \notin ClaimLabels /\ Goto(c, "claim")
    BY <1>1 DEF Reprocess, ClaimLabels
  <2>2. UNCHANGED <<events, unclaimed>> /\ (exists' => exists)
    BY <1>1 DEF Reprocess, metaVars, histVars
  <2>3. exists' => status' = status /\ (fresh => fresh')
    BY <1>1 DEF Reprocess, metaVars
  <2> QED BY <2>1, <2>2, <2>3, AloneAside
<1>2. CASE DeleteDocument(c)
  <2>1. "purge" \notin ClaimLabels /\ Goto(c, "purge")
    BY <1>2 DEF DeleteDocument, ClaimLabels
  <2>2. UNCHANGED <<events, unclaimed>> /\ (exists' => exists)
    BY <1>2 DEF DeleteDocument, metaVars, histVars
  <2>3. exists' => status' = status /\ (fresh => fresh')
    BY <1>2 DEF DeleteDocument, metaVars
  <2> QED BY <2>1, <2>2, <2>3, AloneAside
<1>3. CASE DropRow(c)
  <2>1. "look" \notin ClaimLabels /\ Goto(c, "look")
    BY <1>3 DEF DropRow, ClaimLabels
  <2>2. UNCHANGED <<events, unclaimed>> /\ (exists' => exists)
    BY <1>3 DEF DropRow, metaVars, histVars
  <2>3. exists' => status' = status /\ (fresh => fresh')
    BY <1>3 DEF DropRow, metaVars
  <2> QED BY <2>1, <2>2, <2>3, AloneAside
<1>4. CASE Look(c)
  <2>1. PICK l \in {"idle", "restore"} : Goto(c, l)
    BY <1>4 DEF Look, Finish
  <2>2. UNCHANGED <<events, unclaimed>> /\ (exists' => exists)
    BY <1>4 DEF Look, metaVars, histVars
  <2>3. exists' => status' = status /\ (fresh => fresh')
    BY <1>4 DEF Look, metaVars
  <2>4. l \notin ClaimLabels
    BY DEF ClaimLabels
  <2> QED BY <2>1, <2>2, <2>3, <2>4, AloneAside
<1>5. CASE Unindex(c)
  <2>1. "roll" \notin ClaimLabels /\ Goto(c, "roll")
    BY <1>5 DEF Unindex, ClaimLabels
  <2>2. UNCHANGED <<events, unclaimed>> /\ (exists' => exists)
    BY <1>5 DEF Unindex, metaVars, histVars
  <2>3. exists' => status' = status /\ (fresh => fresh')
    BY <1>5 DEF Unindex, metaVars
  <2> QED BY <2>1, <2>2, <2>3, AloneAside
<1>6. CASE Roll(c)
  <2>1. "idle" \notin ClaimLabels /\ Goto(c, "idle")
    BY <1>6 DEF Roll, ClaimLabels, Finish
  <2>2. UNCHANGED <<events, unclaimed>> /\ (exists' => exists)
    BY <1>6 DEF Roll, metaVars, histVars
  <2>3. exists' => status' = status /\ (fresh => fresh')
    BY <1>6 DEF Roll, metaVars
  <2> QED BY <2>1, <2>2, <2>3, AloneAside
<1>7. CASE Purge(c)
  <2>1. "purge_index" \notin ClaimLabels /\ Goto(c, "purge_index")
    BY <1>7 DEF Purge, ClaimLabels
  <2>2. UNCHANGED <<events, unclaimed>> /\ (exists' => exists)
    BY <1>7 DEF Purge, metaVars, histVars
  <2>3. exists' => status' = status /\ (fresh => fresh')
    BY <1>7 DEF Purge, metaVars
  <2> QED BY <2>1, <2>2, <2>3, AloneAside
<1>8. CASE PurgeIndex(c)
  <2>1. "list" \notin ClaimLabels /\ Goto(c, "list")
    BY <1>8 DEF PurgeIndex, ClaimLabels
  <2>2. UNCHANGED <<events, unclaimed>> /\ (exists' => exists)
    BY <1>8 DEF PurgeIndex, metaVars, histVars
  <2>3. exists' => status' = status /\ (fresh => fresh')
    BY <1>8 DEF PurgeIndex, metaVars
  <2> QED BY <2>1, <2>2, <2>3, AloneAside
<1>9. CASE List(c)
  <2>1. "remove" \notin ClaimLabels /\ Goto(c, "remove")
    BY <1>9 DEF List, ClaimLabels
  <2>2. UNCHANGED <<events, unclaimed>> /\ (exists' => exists)
    BY <1>9 DEF List, metaVars, histVars
  <2>3. exists' => status' = status /\ (fresh => fresh')
    BY <1>9 DEF List, metaVars
  <2> QED BY <2>1, <2>2, <2>3, AloneAside
<1>10. CASE Remove(c)
  <2>1. "idle" \notin ClaimLabels /\ Goto(c, "idle")
    BY <1>10 DEF Remove, ClaimLabels, Finish
  <2>2. UNCHANGED <<events, unclaimed>> /\ (exists' => exists)
    BY <1>10 DEF Remove, metaVars, histVars
  <2>3. exists' => status' = status /\ (fresh => fresh')
    BY <1>10 DEF Remove, metaVars
  <2> QED BY <2>1, <2>2, <2>3, AloneAside
<1>11. CASE Stop(c)
  <2>1. "idle" \notin ClaimLabels /\ Goto(c, "idle")
    BY <1>11 DEF Stop, ClaimLabels, Finish
  <2>2. UNCHANGED <<events, unclaimed>> /\ (exists' => exists)
    BY <1>11 DEF Stop, metaVars, histVars
  <2>3. exists' => status' = status /\ (fresh => fresh')
    BY <1>11 DEF Stop, metaVars
  <2> QED BY <2>1, <2>2, <2>3, AloneAside
<1>12. ASSUME NEW n \in Numbers, DeleteVersion(c, n)
      PROVE  Alone'
  <2>1. PICK l \in {"purge", "drop_row"} : Goto(c, l)
    BY <1>12 DEF DeleteVersion
  <2>2. l \notin ClaimLabels
    BY DEF ClaimLabels
  <2>3. UNCHANGED <<exists, status, fresh, events, unclaimed>>
    BY <1>12 DEF DeleteVersion, metaVars
  <2> QED BY <2>1, <2>2, <2>3, AloneAside
<1> QED BY <1>1, <1>2, <1>3, <1>4, <1>5, <1>6, <1>7, <1>8, <1>9, <1>10, <1>11, <1>12

(* A request claims the document: nobody held it, and no event was on its  *)
(* way.                                                                    *)
LEMMA AloneClaim ==
    ASSUME TypeOK, TypeOK', Alone, NEW c \in Callers, Claim(c)
    PROVE  Alone'
<1>1. UNCHANGED <<exists, events, unclaimed>> /\ events \in Nat
  BY DEF Claim, histVars, TypeOK, CounterTypes
<1>2. CASE ~(exists /\ Claimable)
  <2>1. Goto(c, "idle") /\ "idle" \notin ClaimLabels /\ UNCHANGED <<status, fresh>>
    BY <1>2 DEF Claim, Finish, ClaimLabels
  <2> QED BY <1>1, <2>1, AloneAside
<1>3. CASE exists /\ Claimable /\ ~unclaimed
  <2>1. events # 1 /\ Holders = {} /\ events <= 1
    BY <1>3 DEF Alone, Claimable
  <2>2. pc' = [pc EXCEPT ![c] = "copy_raw"]
    BY <1>3 DEF Claim, Goto
  <2>3. Holders' \subseteq {c}
    BY <2>1, <2>2, HoldersByLabel, NextHoldersByLabel, ProcsAssumption DEF TypeOK, ProcTypes
  <2>4. status' = "PENDING" /\ fresh'
    BY <1>3 DEF Claim, SetStatus
  <2>5. status' \in InFlight
    BY <2>4 DEF InFlight, Statuses
  <2> QED BY <1>1, <2>1, <2>3, <2>4, <2>5 DEF Alone
<1>4. CASE unclaimed
  BY <1>1, <1>4 DEF Alone
<1> QED BY <1>2, <1>3, <1>4

(* ... rewrites the upload, and hands the document over to the event,      *)
LEMMA AloneCopyRaw ==
    ASSUME TypeOK, TypeOK', Alone, NEW c \in Callers, CopyRaw(c)
    PROVE  Alone'
<1>1. UNCHANGED <<exists, status, fresh>> /\ events \in Nat /\ pc[c] \in ClaimLabels
  BY DEF CopyRaw, metaVars, TypeOK, CounterTypes, ClaimLabels
<1>2. CASE Goto(c, "unclaim") /\ UNCHANGED <<events, unclaimed>>
  <2>1. Holders' \subseteq Holders
    BY <1>1, <1>2, ClaimMoves
  <2> QED BY <1>1, <1>2, <2>1, AloneFrame
<1>3. CASE unclaimed'
  BY <1>3 DEF Alone
<1>4. CASE events' = events + 1 /\ Finish(c) /\ UNCHANGED unclaimed /\ ~unclaimed
  <2>1. Goto(c, "idle") /\ "idle" \notin ClaimLabels
    BY <1>4 DEF Finish, ClaimLabels
  <2>2. Holders' \subseteq Holders \ {c} /\ c \in Holders
    BY <1>1, <2>1, ClaimMoves
  <2>3. events = 0 /\ Holders' = {}
    BY <1>1, <1>4, <2>2 DEF Alone
  <2>4. exists => status \in InFlight /\ fresh
    BY <1>4, <2>2 DEF Alone
  <2> QED BY <1>1, <1>4, <2>3, <2>4 DEF Alone
<1>5. CASE UNCHANGED unclaimed /\ unclaimed
  BY <1>5 DEF Alone
<1> QED BY <1>2, <1>3, <1>4, <1>5 DEF CopyRaw

(* ... or releases it.                                                     *)
LEMMA AloneUnclaim ==
    ASSUME TypeOK, TypeOK', Alone, NEW c \in Callers, Unclaim(c)
    PROVE  Alone'
<1>1. pc[c] \in ClaimLabels /\ Goto(c, "idle") /\ "idle" \notin ClaimLabels
  BY DEF Unclaim, Finish, ClaimLabels
<1>2. c \in Holders /\ Holders' \subseteq Holders \ {c}
  BY <1>1, ClaimMoves
<1>3. UNCHANGED <<events, unclaimed>> /\ events \in Nat
  BY DEF Unclaim, histVars, TypeOK, CounterTypes
<1> QED BY <1>2, <1>3, AloneLeaves

(* Steps that move nobody, and time.                                       *)
LEMMA AloneStill ==
    ASSUME TypeOK, TypeOK', Alone,
           \/ \E c \in Callers : Restore(c)
           \/ Edit \/ UploadAgain \/ GoQuiet \/ UNCHANGED vars
    PROVE  Alone'
<1>1. ASSUME NEW c \in Callers, Restore(c)
      PROVE  Alone'
  <2>1. UNCHANGED <<pc, exists, status, fresh, events, unclaimed>>
    BY <1>1 DEF Restore, metaVars, histVars
  <2> QED BY <2>1, NobodyMoves, AloneFrame
<1>2. CASE Edit
  <2>1. UNCHANGED <<pc, exists, status, events, unclaimed>> /\ fresh'
    BY <1>2 DEF Edit, histVars
  <2> QED BY <2>1, NobodyMoves, AloneFrame
<1>3. CASE UploadAgain
  BY <1>3 DEF UploadAgain, Alone
<1>4. CASE GoQuiet
  <2>1. UNCHANGED <<pc, events>> /\ Holders = {}
    BY <1>4 DEF GoQuiet, Holders
  <2>2. events = 0 \/ unclaimed'
    BY <1>4 DEF GoQuiet
  <2>3. Holders' = {}
    BY <2>1, NobodyMoves
  <2> QED BY <2>1, <2>2, <2>3 DEF Alone
<1>5. CASE UNCHANGED vars
  <2>1. UNCHANGED <<pc, exists, status, fresh, events, unclaimed>>
    BY <1>5 DEF vars, metaVars, histVars
  <2> QED BY <2>1, NobodyMoves, AloneFrame
<1> QED BY <1>1, <1>2, <1>3, <1>4, <1>5

(* At first there is the upload's event, and nobody.                       *)
LEMMA AloneInit == Init => Alone
<1> SUFFICES ASSUME Init PROVE Alone
  OBVIOUS
<1>1. Holders = {}
  BY ProcsAssumption DEF Init, Holders, Active
<1>2. status \in InFlight
  BY DEF Init, InFlight, Statuses
<1> QED BY <1>1, <1>2 DEF Init, Alone

(* Every step keeps it.                                                    *)
LEMMA AloneNext ==
    ASSUME TypeOK, TypeOK', Alone, [Next]_vars
    PROVE  Alone'
<1>1. ASSUME NEW r \in Runs, GoOn(r)
      PROVE  Alone'
  BY <1>1, AloneBegin, AloneWork, AloneIndex, AloneIndexNone, AloneSweep, AloneRead,
     AlonePut, AloneRelease, AloneCopy, AloneSave, AloneReply, AloneFail, AloneMark
     DEF GoOn
<1>2. ASSUME NEW r \in Runs, Start(r) \/ Raise(r) \/ Crash(r) \/ Again(r)
      PROVE  Alone'
  BY <1>2, AloneStart, AloneRaise, AloneCrash, AloneAgain
<1>3. ASSUME NEW c \in Callers, Ask(c) \/ Serve(c) \/ Stop(c)
      PROVE  Alone'
  <2>1. CASE Ask(c)
    BY <2>1, AloneRequest DEF Ask
  <2>2. CASE Serve(c)
    BY <2>2, AloneClaim, AloneCopyRaw, AloneUnclaim, AloneStill, AloneRequest DEF Serve
  <2> QED BY <1>3, <2>1, <2>2, AloneRequest
<1>4. CASE Edit \/ UploadAgain \/ GoQuiet \/ UNCHANGED vars
  BY <1>4, AloneStill
<1> QED BY <1>1, <1>2, <1>3, <1>4 DEF Next

(* If every run was started by the upload or by a claim, no two runs of a  *)
(* document overlap, however many requests ask for one (claim_doc_run).    *)
THEOREM RunsApart == Safe => []OneRun
<1>1. TypeOK /\ TypeOK' /\ Alone /\ [Next]_vars => Alone'
  BY AloneNext
<1>2. Alone => OneRun
  BY DEF Alone, OneRun
<1> QED BY TypeCorrect, AloneInit, <1>1, <1>2, PTL DEF Safe
-----------------------------------------------------------------------------
(* A step of p leaves the other runs and requests where they are, and what *)
(* the runs carry.                                                         *)
Elsewhere(p) == /\ \A q \in (Runs \cup Callers) \ {p} : pc'[q] = pc[q]
                /\ \A q \in Runs \ {p} : ctx'[q] = ctx[q]

(* A run that has its version number, or that a row stands for.            *)
Numbered == {"put", "release", "copy", "save"}

(* Steps of p that have nothing to do with version rows.                   *)
Mild(p) == /\ Elsewhere(p)
           /\ pc'[p] \notin Numbered \cup {"drop_row", "look", "restore", "roll"}
           /\ UNCHANGED <<rows, exists, latest, analysis>>
           /\ unclaimed => unclaimed'

(* A run that goes to l.                                                   *)
LEMMA MildRun ==
    ASSUME TypeOK, NEW r \in Runs, NEW l, Goto(r, l),
           l \notin Numbered \cup {"drop_row", "look", "restore", "roll"},
           \A q \in Runs \ {r} : ctx'[q] = ctx[q],
           UNCHANGED <<rows, exists, latest, analysis>>, unclaimed => unclaimed'
    PROVE  Mild(r)
<1>1. pc' = [pc EXCEPT ![r] = l] /\ pc \in [Runs \cup Callers -> RunLabels \cup CallerLabels]
  BY DEF Goto, TypeOK, ProcTypes
<1>2. Elsewhere(r) /\ pc'[r] = l
  BY <1>1 DEF Elsewhere
<1> QED BY <1>2 DEF Mild

(* A request that goes to l.                                               *)
LEMMA MildRequest ==
    ASSUME TypeOK, NEW c \in Callers, NEW l, Goto(c, l),
           l \notin Numbered \cup {"drop_row", "look", "restore", "roll"},
           UNCHANGED ctx,
           UNCHANGED <<rows, exists, latest, analysis>>, unclaimed => unclaimed'
    PROVE  Mild(c)
<1>1. pc' = [pc EXCEPT ![c] = l] /\ pc \in [Runs \cup Callers -> RunLabels \cup CallerLabels]
  BY DEF Goto, TypeOK, ProcTypes
<1>2. Elsewhere(c) /\ pc'[c] = l
  BY <1>1 DEF Elsewhere
<1> QED BY <1>2 DEF Mild

(* What a run does until persist knows its number.                         *)
LEMMA RunIsMild ==
    ASSUME TypeOK, NEW r \in Runs,
           \/ Start(r) \/ Begin(r) \/ Work(r) \/ Index(r) \/ IndexNone(r) \/ Sweep(r)
           \/ Release(r) \/ Reply(r) \/ Fail(r) \/ Mark(r)
           \/ Raise(r) \/ Crash(r) \/ Again(r)
    PROVE  Mild(r)
<1> USE DEF Numbered
<1>0. ctx \in [Runs -> RunContexts]
  BY DEF TypeOK, ProcTypes
<1>1. CASE Start(r)
  <2>1. PICK l \in {"begin"} : Goto(r, l)
    BY <1>1 DEF Start
  <2>2. \A q \in Runs \ {r} : ctx'[q] = ctx[q]
    BY <1>0, <1>1 DEF Start
  <2>3. UNCHANGED <<rows, exists, latest, analysis>> /\ (unclaimed => unclaimed')
    BY <1>1 DEF Start, metaVars, storeVars, histVars
  <2> QED BY <2>1, <2>2, <2>3, MildRun
<1>2. CASE Begin(r)
  <2>1. PICK l \in {"work", "fail"} : Goto(r, l)
    BY <1>2 DEF Begin, Failing
  <2>2. \A q \in Runs \ {r} : ctx'[q] = ctx[q]
    BY <1>0, <1>2 DEF Begin, Failing
  <2>3. UNCHANGED <<rows, exists, latest, analysis>> /\ (unclaimed => unclaimed')
    BY <1>2 DEF Begin, metaVars, storeVars, histVars
  <2> QED BY <2>1, <2>2, <2>3, MildRun
<1>3. CASE Work(r)
  <2>1. PICK l \in {"begin", "fail"} : Goto(r, l)
    BY <1>3 DEF Work, Advance, Failing
  <2>2. \A q \in Runs \ {r} : ctx'[q] = ctx[q]
    BY <1>0, <1>3 DEF Work, Advance, Failing
  <2>3. UNCHANGED <<rows, exists, latest, analysis>> /\ (unclaimed => unclaimed')
    BY <1>3 DEF Work, metaVars, storeVars, histVars
  <2> QED BY <2>1, <2>2, <2>3, MildRun
<1>4. CASE Index(r)
  <2>1. PICK l \in {"begin", "sweep"} : Goto(r, l)
    BY <1>4 DEF Index, Advance
  <2>2. \A q \in Runs \ {r} : ctx'[q] = ctx[q]
    BY <1>0, <1>4 DEF Index, Advance
  <2>3. UNCHANGED <<rows, exists, latest, analysis>> /\ (unclaimed => unclaimed')
    BY <1>4 DEF Index, metaVars, storeVars, histVars
  <2> QED BY <2>1, <2>2, <2>3, MildRun
<1>5. CASE IndexNone(r)
  <2>1. PICK l \in {"begin"} : Goto(r, l)
    BY <1>5 DEF IndexNone, Advance
  <2>2. \A q \in Runs \ {r} : ctx'[q] = ctx[q]
    BY <1>0, <1>5 DEF IndexNone, Advance
  <2>3. UNCHANGED <<rows, exists, latest, analysis>> /\ (unclaimed => unclaimed')
    BY <1>5 DEF IndexNone, metaVars, storeVars, histVars
  <2> QED BY <2>1, <2>2, <2>3, MildRun
<1>6. CASE Sweep(r)
  <2>1. PICK l \in {"begin"} : Goto(r, l)
    BY <1>6 DEF Sweep, Advance
  <2>2. \A q \in Runs \ {r} : ctx'[q] = ctx[q]
    BY <1>0, <1>6 DEF Sweep, Advance
  <2>3. UNCHANGED <<rows, exists, latest, analysis>> /\ (unclaimed => unclaimed')
    BY <1>6 DEF Sweep, metaVars, storeVars, histVars
  <2> QED BY <2>1, <2>2, <2>3, MildRun
<1>7. CASE Release(r)
  <2>1. PICK l \in {"reply"} : Goto(r, l)
    BY <1>7 DEF Release
  <2>2. \A q \in Runs \ {r} : ctx'[q] = ctx[q]
    BY <1>0, <1>7 DEF Release
  <2>3. UNCHANGED <<rows, exists, latest, analysis>> /\ (unclaimed => unclaimed')
    BY <1>7 DEF Release, metaVars, storeVars, histVars
  <2> QED BY <2>1, <2>2, <2>3, MildRun
<1>8. CASE Reply(r)
  <2>1. PICK l \in {"done"} : Goto(r, l)
    BY <1>8 DEF Reply, End
  <2>2. \A q \in Runs \ {r} : ctx'[q] = ctx[q]
    BY <1>0, <1>8 DEF Reply, End
  <2>3. UNCHANGED <<rows, exists, latest, analysis>> /\ (unclaimed => unclaimed')
    BY <1>8 DEF Reply, metaVars, storeVars, histVars
  <2> QED BY <2>1, <2>2, <2>3, MildRun
<1>9. CASE Fail(r)
  <2>1. PICK l \in {"begin", "mark"} : Goto(r, l)
    BY <1>9 DEF Fail
  <2>2. \A q \in Runs \ {r} : ctx'[q] = ctx[q]
    BY <1>0, <1>9 DEF Fail
  <2>3. UNCHANGED <<rows, exists, latest, analysis>> /\ (unclaimed => unclaimed')
    BY <1>9 DEF Fail, metaVars, storeVars, histVars
  <2> QED BY <2>1, <2>2, <2>3, MildRun
<1>10. CASE Mark(r)
  <2>1. PICK l \in {"done"} : Goto(r, l)
    BY <1>10 DEF Mark, End
  <2>2. \A q \in Runs \ {r} : ctx'[q] = ctx[q]
    BY <1>0, <1>10 DEF Mark, End
  <2>3. UNCHANGED <<rows, exists, latest, analysis>> /\ (unclaimed => unclaimed')
    BY <1>10 DEF Mark, metaVars, storeVars, histVars
  <2> QED BY <2>1, <2>2, <2>3, MildRun
<1>11. CASE Raise(r)
  <2>1. PICK l \in {"fail"} : Goto(r, l)
    BY <1>11 DEF Raise, Failing
  <2>2. \A q \in Runs \ {r} : ctx'[q] = ctx[q]
    BY <1>0, <1>11 DEF Raise, Failing
  <2>3. UNCHANGED <<rows, exists, latest, analysis>> /\ (unclaimed => unclaimed')
    BY <1>11 DEF Raise, metaVars, storeVars, histVars
  <2> QED BY <2>1, <2>2, <2>3, MildRun
<1>12. CASE Crash(r)
  <2>1. PICK l \in {"mark"} : Goto(r, l)
    BY <1>12 DEF Crash
  <2>2. \A q \in Runs \ {r} : ctx'[q] = ctx[q]
    BY <1>0, <1>12 DEF Crash
  <2>3. UNCHANGED <<rows, exists, latest, analysis>> /\ (unclaimed => unclaimed')
    BY <1>12 DEF Crash, metaVars, storeVars, histVars
  <2> QED BY <2>1, <2>2, <2>3, MildRun
<1>13. CASE Again(r)
  <2>1. PICK l \in {"begin"} : Goto(r, l)
    BY <1>13 DEF Again
  <2>2. \A q \in Runs \ {r} : ctx'[q] = ctx[q]
    BY <1>0, <1>13 DEF Again
  <2>3. UNCHANGED <<rows, exists, latest, analysis>> /\ (unclaimed => unclaimed')
    BY <1>13 DEF Again, metaVars, storeVars, histVars
  <2> QED BY <2>1, <2>2, <2>3, MildRun
<1> QED BY <1>1, <1>2, <1>3, <1>4, <1>5, <1>6, <1>7, <1>8, <1>9, <1>10, <1>11, <1>12, <1>13

(* What a request does that deletes no rows.                               *)
LEMMA RequestIsMild ==
    ASSUME TypeOK, NEW c \in Callers,
           \/ Reprocess(c) \/ Claim(c) \/ CopyRaw(c) \/ Unclaim(c)
           \/ DeleteDocument(c) \/ Purge(c) \/ PurgeIndex(c) \/ List(c) \/ Stop(c)
    PROVE  Mild(c)
<1> USE DEF Numbered
<1>1. CASE Reprocess(c)
  <2>1. PICK l \in {"claim"} : Goto(c, l)
    BY <1>1 DEF Reprocess
  <2>2. UNCHANGED ctx
    BY <1>1 DEF Reprocess
  <2>3. UNCHANGED <<rows, exists, latest, analysis>> /\ (unclaimed => unclaimed')
    BY <1>1 DEF Reprocess, metaVars, storeVars, histVars
  <2> QED BY <2>1, <2>2, <2>3, MildRequest
<1>2. CASE Claim(c)
  <2>1. PICK l \in {"copy_raw", "idle"} : Goto(c, l)
    BY <1>2 DEF Claim, Finish
  <2>2. UNCHANGED ctx
    BY <1>2 DEF Claim
  <2>3. UNCHANGED <<rows, exists, latest, analysis>> /\ (unclaimed => unclaimed')
    BY <1>2 DEF Claim, metaVars, storeVars, histVars
  <2> QED BY <2>1, <2>2, <2>3, MildRequest
<1>3. CASE CopyRaw(c)
  <2>1. PICK l \in {"idle", "unclaim"} : Goto(c, l)
    BY <1>3 DEF CopyRaw, Finish
  <2>2. UNCHANGED ctx
    BY <1>3 DEF CopyRaw
  <2>3. UNCHANGED <<rows, exists, latest, analysis>> /\ (unclaimed => unclaimed')
    BY <1>3 DEF CopyRaw, metaVars, storeVars, histVars
  <2> QED BY <2>1, <2>2, <2>3, MildRequest
<1>4. CASE Unclaim(c)
  <2>1. PICK l \in {"idle"} : Goto(c, l)
    BY <1>4 DEF Unclaim, Finish
  <2>2. UNCHANGED ctx
    BY <1>4 DEF Unclaim
  <2>3. UNCHANGED <<rows, exists, latest, analysis>> /\ (unclaimed => unclaimed')
    BY <1>4 DEF Unclaim, metaVars, storeVars, histVars
  <2> QED BY <2>1, <2>2, <2>3, MildRequest
<1>5. CASE DeleteDocument(c)
  <2>1. PICK l \in {"purge"} : Goto(c, l)
    BY <1>5 DEF DeleteDocument
  <2>2. UNCHANGED ctx
    BY <1>5 DEF DeleteDocument
  <2>3. UNCHANGED <<rows, exists, latest, analysis>> /\ (unclaimed => unclaimed')
    BY <1>5 DEF DeleteDocument, metaVars, storeVars, histVars
  <2> QED BY <2>1, <2>2, <2>3, MildRequest
<1>6. CASE Purge(c)
  <2>1. PICK l \in {"purge_index"} : Goto(c, l)
    BY <1>6 DEF Purge
  <2>2. UNCHANGED ctx
    BY <1>6 DEF Purge
  <2>3. UNCHANGED <<rows, exists, latest, analysis>> /\ (unclaimed => unclaimed')
    BY <1>6 DEF Purge, metaVars, storeVars, histVars
  <2> QED BY <2>1, <2>2, <2>3, MildRequest
<1>7. CASE PurgeIndex(c)
  <2>1. PICK l \in {"list"} : Goto(c, l)
    BY <1>7 DEF PurgeIndex
  <2>2. UNCHANGED ctx
    BY <1>7 DEF PurgeIndex
  <2>3. UNCHANGED <<rows, exists, latest, analysis>> /\ (unclaimed => unclaimed')
    BY <1>7 DEF PurgeIndex, metaVars, storeVars, histVars
  <2> QED BY <2>1, <2>2, <2>3, MildRequest
<1>8. CASE List(c)
  <2>1. PICK l \in {"remove"} : Goto(c, l)
    BY <1>8 DEF List
  <2>2. UNCHANGED ctx
    BY <1>8 DEF List
  <2>3. UNCHANGED <<rows, exists, latest, analysis>> /\ (unclaimed => unclaimed')
    BY <1>8 DEF List, metaVars, storeVars, histVars
  <2> QED BY <2>1, <2>2, <2>3, MildRequest
<1>9. CASE Stop(c)
  <2>1. PICK l \in {"idle"} : Goto(c, l)
    BY <1>9 DEF Stop, Finish
  <2>2. UNCHANGED ctx
    BY <1>9 DEF Stop
  <2>3. UNCHANGED <<rows, exists, latest, analysis>> /\ (unclaimed => unclaimed')
    BY <1>9 DEF Stop, metaVars, storeVars, histVars
  <2> QED BY <2>1, <2>2, <2>3, MildRequest
<1> QED BY <1>1, <1>2, <1>3, <1>4, <1>5, <1>6, <1>7, <1>8, <1>9
-----------------------------------------------------------------------------
(* NoneSuperseded, strengthened: the number that persist has computed is   *)
(* free until its row is stored.                                           *)
Unbeaten == ~unclaimed /\ "old_read" \notin Faults =>
    \A r \in Runs : pc[r] # "release" /\ (pc[r] = "put" => rows[ctx[r].n] = None)

(* A step by which no run gets a number, and no row is stored.             *)
LEMMA UnbeatenFrame ==
    ASSUME TypeOK, Unbeaten, unclaimed => unclaimed',
           \A q \in Runs : pc'[q] \in {"put", "release"} => pc'[q] = pc[q] /\ ctx'[q] = ctx[q],
           \A n \in Numbers : rows'[n] \in {rows[n], None}
    PROVE  Unbeaten'
<1> SUFFICES ASSUME ~unclaimed', "old_read" \notin Faults, NEW q \in Runs
             PROVE  pc'[q] # "release" /\ (pc'[q] = "put" => rows'[ctx'[q].n] = None)
  BY DEF Unbeaten
<1>1. pc[q] # "release" /\ (pc[q] = "put" => rows[ctx[q].n] = None)
  BY DEF Unbeaten
<1>2. pc[q] = "put" => ctx[q].n \in Numbers
  BY DEF TypeOK, ProcTypes, Carries
<1> QED BY <1>1, <1>2

(* A step that has nothing to do with version rows.                        *)
LEMMA UnbeatenMild ==
    ASSUME TypeOK, Unbeaten, NEW p \in Runs \cup Callers, Mild(p)
    PROVE  Unbeaten'
<1>1. \A q \in Runs : pc'[q] \in {"put", "release"} => pc'[q] = pc[q] /\ ctx'[q] = ctx[q]
  BY DEF Mild, Elsewhere, Numbered
<1>2. UNCHANGED rows /\ (unclaimed => unclaimed')
  BY DEF Mild
<1> QED BY <1>1, <1>2, UnbeatenFrame

(* persist computes a number that no row has.                              *)
LEMMA UnbeatenRead ==
    ASSUME TypeOK, Unbeaten, NEW r \in Runs, Read(r)
    PROVE  Unbeaten'
<1> SUFFICES ASSUME ~unclaimed', "old_read" \notin Faults, NEW q \in Runs
             PROVE  pc'[q] # "release" /\ (pc'[q] = "put" => rows'[ctx'[q].n] = None)
  BY DEF Unbeaten
<1>1. UNCHANGED <<rows, unclaimed>>
  BY DEF Read, storeVars
<1>2. PICK l \in {"put", "fail"} : pc' = [pc EXCEPT ![r] = l]
  BY DEF Read, Failing, Goto
<1>3. pc \in [Runs \cup Callers -> RunLabels \cup CallerLabels] /\ ctx \in [Runs -> RunContexts]
  BY DEF TypeOK, ProcTypes
<1>4. CASE q # r
  <2>1. pc'[q] = pc[q] /\ ctx'[q] = ctx[q]
    BY <1>2, <1>3, <1>4 DEF Read, Failing
  <2> QED BY <1>1, <2>1 DEF Unbeaten
<1>5. CASE q = r /\ l = "put"
  <2>1. NextVersion(Taken) <= MaxVersions /\ pc'[r] = "put"
    BY <1>2, <1>3, <1>5 DEF Read, Fault
  <2>2. exists
    BY <1>2, <1>3, <1>5 DEF Read, Failing, Goto
  <2>3. ctx' = [ctx EXCEPT ![r].n = NextVersion(Taken), ![r].keep = edited]
    BY <2>2 DEF Read, Fault
  <2>4. ctx'[r].n = NextVersion(Taken)
    BY <1>3, <2>3 DEF RunContexts
  <2>5. Taken \in SUBSET Numbers
    BY DEF Taken
  <2>6. NextVersion(Taken) \in Numbers /\ NextVersion(Taken) \notin Taken
    BY <2>1, <2>5, NextVersionIsNew
  <2> QED BY <1>1, <1>5, <2>1, <2>4, <2>6 DEF Taken
<1>6. CASE q = r /\ l = "fail"
  BY <1>2, <1>3, <1>6
<1> QED BY <1>4, <1>5, <1>6

(* The row is stored: no other run has computed that number.               *)
LEMMA UnbeatenPut ==
    ASSUME TypeOK, Alone, Unbeaten, NEW r \in Runs, Put(r)
    PROVE  Unbeaten'
<1> SUFFICES ASSUME ~unclaimed', "old_read" \notin Faults, NEW q \in Runs
             PROVE  pc'[q] # "release" /\ pc'[q] # "put"
  BY DEF Unbeaten
<1>1. UNCHANGED unclaimed /\ pc[r] = "put"
  BY DEF Put
<1>2. rows[ctx[r].n] = None
  BY <1>1 DEF Unbeaten
<1>3. pc' = [pc EXCEPT ![r] = "copy"]
  BY <1>2 DEF Put, Claims, Goto
<1>4. pc \in [Runs \cup Callers -> RunLabels \cup CallerLabels]
  BY DEF TypeOK, ProcTypes
<1>5. CASE q # r
  <2>1. pc'[q] = pc[q] /\ pc[q] # "release"
    BY <1>1, <1>3, <1>4, <1>5 DEF Unbeaten
  <2>2. pc[q] # "put"
    BY <1>1, <1>5, HoldersByLabel DEF Alone, HeldLabels
  <2> QED BY <2>1, <2>2
<1>6. CASE q = r
  BY <1>3, <1>4, <1>6
<1> QED BY <1>5, <1>6

(* A run goes on from its copies, and saves.                               *)
LEMMA UnbeatenCopySave ==
    ASSUME TypeOK, Unbeaten, NEW r \in Runs, Copy(r) \/ Save(r)
    PROVE  Unbeaten'
<1>1. PICK l \in {"copy", "save", "reply", "fail"} : pc' = [pc EXCEPT ![r] = l]
  BY DEF Copy, Save, Failing, Goto
<1>2. pc \in [Runs \cup Callers -> RunLabels \cup CallerLabels] /\ ctx \in [Runs -> RunContexts]
  BY DEF TypeOK, ProcTypes
<1>3. UNCHANGED <<rows, unclaimed>>
  BY DEF Copy, Save
<1>4. \A q \in Runs \ {r} : ctx'[q] = ctx[q]
  BY <1>2 DEF Copy, Save, Failing
<1>5. \A q \in Runs : pc'[q] \in {"put", "release"} => pc'[q] = pc[q] /\ ctx'[q] = ctx[q]
  BY <1>1, <1>2, <1>4
<1> QED BY <1>3, <1>5, UnbeatenFrame

(* Requests that delete rows, and steps of nobody.                         *)
LEMMA UnbeatenOther ==
    ASSUME TypeOK, Unbeaten,
           \/ \E c \in Callers :
                 \/ \E n \in Numbers : DeleteVersion(c, n)
                 \/ DropRow(c) \/ Look(c) \/ Restore(c) \/ Unindex(c) \/ Roll(c)
                 \/ Remove(c)
           \/ Edit \/ UploadAgain \/ GoQuiet \/ UNCHANGED vars
    PROVE  Unbeaten'
<1>1. UNCHANGED ctx
  BY DEF DeleteVersion, DropRow, Look, Restore, Unindex, Roll, Remove, Edit, UploadAgain,
         GoQuiet, vars
<1>2. unclaimed => unclaimed'
  BY DEF DeleteVersion, DropRow, Look, Restore, Unindex, Roll, Remove, Edit, UploadAgain,
         GoQuiet, vars, histVars
<1>3. \A q \in Runs : pc'[q] = pc[q]
  <2>1. pc \in [Runs \cup Callers -> RunLabels \cup CallerLabels]
    BY DEF TypeOK, ProcTypes
  <2>2. CASE UNCHANGED pc
    BY <2>2
  <2>3. ASSUME NEW c \in Callers, NEW l, Goto(c, l)
        PROVE  \A q \in Runs : pc'[q] = pc[q]
    BY <2>1, <2>3, ProcsAssumption DEF Goto
  <2> QED BY <2>2, <2>3
       DEF DeleteVersion, DropRow, Look, Restore, Unindex, Roll, Remove, Edit,
           UploadAgain, GoQuiet, Finish, vars
<1>4. \A n \in Numbers : rows'[n] \in {rows[n], None}
  <2>1. rows \in [Numbers -> Runs \cup {None}]
    BY DEF TypeOK, StoreTypes
  <2>2. CASE UNCHANGED rows
    BY <2>2
  <2>3. ASSUME NEW c \in Callers, DropRow(c) \/ Remove(c)
        PROVE  \A n \in Numbers : rows'[n] \in {rows[n], None}
    BY <2>1, <2>3 DEF DropRow, Remove
  <2> QED BY <2>2, <2>3
       DEF DeleteVersion, Look, Restore, Unindex, Roll, Edit, UploadAgain, GoQuiet,
           vars, storeVars
<1> QED BY <1>1, <1>2, <1>3, <1>4, UnbeatenFrame

(* Every step keeps it.                                                    *)
LEMMA UnbeatenNext ==
    ASSUME TypeOK, Alone, Unbeaten, [Next]_vars
    PROVE  Unbeaten'
<1>1. ASSUME NEW r \in Runs, Start(r) \/ GoOn(r) \/ Raise(r) \/ Crash(r) \/ Again(r)
      PROVE  Unbeaten'
  BY <1>1, RunIsMild, UnbeatenMild, UnbeatenRead, UnbeatenPut, UnbeatenCopySave DEF GoOn
<1>2. ASSUME NEW c \in Callers, Ask(c) \/ Serve(c) \/ Stop(c)
      PROVE  Unbeaten'
  BY <1>2, RequestIsMild, UnbeatenMild, UnbeatenOther DEF Ask, Serve
<1>3. CASE Edit \/ UploadAgain \/ GoQuiet \/ UNCHANGED vars
  BY <1>3, UnbeatenOther
<1> QED BY <1>1, <1>2, <1>3 DEF Next

(* A run that no other run overlapped does not lose the race for a version *)
(* number (persist.py), whatever is deleted meanwhile.                     *)
THEOREM RunsStand == Safe => []NoneSuperseded
<1>1. Init => Unbeaten
  BY DEF Init, Unbeaten
<1>2. TypeOK /\ TypeOK' /\ Alone /\ [Next]_vars => Alone'
  BY AloneNext
<1>3. TypeOK /\ Alone /\ Unbeaten /\ [Next]_vars => Unbeaten'
  BY UnbeatenNext
<1>4. Unbeaten => NoneSuperseded
  BY DEF Unbeaten, NoneSuperseded
<1> QED BY TypeCorrect, AloneInit, <1>1, <1>2, <1>3, <1>4, PTL DEF Safe
-----------------------------------------------------------------------------
(* MetaHasItsVersion, strengthened, when nobody deletes a version: the row *)
(* that persist has stored stays its own while the document exists.        *)
Kept ==
    /\ \A c \in Callers : ~DeletesVersion(c)
    /\ exists =>
          /\ \A r \in Runs : pc[r] \in {"copy", "save"} => rows[ctx[r].n] = r
          /\ latest > 0 => latest \in Numbers /\ analysis \in Runs /\ rows[latest] = analysis

(* A step that leaves META's version and every row as they are, or deletes *)
(* the document.                                                           *)
LEMMA KeptFrame ==
    ASSUME TypeOK, Kept,
           \A c \in Callers : pc'[c] \notin {"drop_row", "look", "restore", "roll"},
           exists' => exists /\ UNCHANGED <<rows, latest, analysis>>,
           \A q \in Runs : pc'[q] \in {"copy", "save"} =>
                               pc[q] \in {"copy", "save"} /\ ctx'[q].n = ctx[q].n
    PROVE  Kept'
BY DEF Kept, DeletesVersion

(* A step that has nothing to do with version rows.                        *)
LEMMA KeptMild ==
    ASSUME TypeOK, Kept, NEW p \in Runs \cup Callers, Mild(p)
    PROVE  Kept'
<1>1. \A c \in Callers : pc'[c] \notin {"drop_row", "look", "restore", "roll"}
  BY DEF Mild, Elsewhere, Kept, DeletesVersion
<1>2. \A q \in Runs : pc'[q] \in {"copy", "save"} =>
                          pc[q] \in {"copy", "save"} /\ ctx'[q].n = ctx[q].n
  BY DEF Mild, Elsewhere, Numbered
<1>3. UNCHANGED <<exists, rows, latest, analysis>>
  BY DEF Mild
<1> QED BY <1>1, <1>2, <1>3, KeptFrame

(* Requests are not moved by a run.                                        *)
LEMMA KeptCallers ==
    ASSUME TypeOK, Kept, NEW r \in Runs, NEW l, Goto(r, l)
    PROVE  \A c \in Callers : pc'[c] \notin {"drop_row", "look", "restore", "roll"}
BY ProcsAssumption DEF Goto, TypeOK, ProcTypes, Kept, DeletesVersion

(* persist computes its number.                                            *)
LEMMA KeptRead ==
    ASSUME TypeOK, Kept, NEW r \in Runs, Read(r)
    PROVE  Kept'
<1>1. PICK l \in {"put", "fail"} : Goto(r, l)
  BY DEF Read, Failing
<1>2. pc \in [Runs \cup Callers -> RunLabels \cup CallerLabels] /\ ctx \in [Runs -> RunContexts]
  BY DEF TypeOK, ProcTypes
<1>3. \A q \in Runs \ {r} : ctx'[q] = ctx[q]
  BY <1>2 DEF Read, Failing
<1>4. \A q \in Runs : pc'[q] \in {"copy", "save"} =>
                          pc[q] \in {"copy", "save"} /\ ctx'[q].n = ctx[q].n
  BY <1>1, <1>2, <1>3 DEF Goto
<1>5. UNCHANGED <<exists, rows, latest, analysis>>
  BY DEF Read, metaVars, storeVars
<1> QED BY <1>1, <1>4, <1>5, KeptCallers, KeptFrame

(* The row is stored: a row that was there is left.                        *)
LEMMA KeptPut ==
    ASSUME TypeOK, Kept, NEW r \in Runs, Put(r)
    PROVE  Kept'
<1>1. PICK l \in {"copy", "release"} : Goto(r, l)
  BY DEF Put
<1>2. pc \in [Runs \cup Callers -> RunLabels \cup CallerLabels] /\ ctx \in [Runs -> RunContexts]
  BY DEF TypeOK, ProcTypes
<1>3. /\ rows \in [Numbers -> Runs \cup {None}] /\ ctx[r].n \in Numbers
      /\ \A q \in Runs : pc[q] \in {"copy", "save"} => ctx[q].n \in Numbers
  BY DEF TypeOK, StoreTypes, ProcTypes, Carries, Put
<1>4. UNCHANGED <<exists, latest, analysis>>
  BY DEF Put, metaVars
<1>5. \A n \in Numbers : rows[n] # None => rows'[n] = rows[n]
  BY <1>3 DEF Put
<1>6. \A c \in Callers : ~DeletesVersion(c)'
  BY <1>1, KeptCallers DEF DeletesVersion
<1>7. ASSUME exists', NEW q \in Runs, pc'[q] \in {"copy", "save"}
      PROVE  rows'[ctx'[q].n] = q
  <2>1. CASE q # r
    <3>1. pc'[q] = pc[q] /\ ctx'[q] = ctx[q]
      BY <1>1, <1>2, <2>1 DEF Put, Goto
    <3>2. rows[ctx[q].n] = q /\ q # None
      BY <1>4, <1>7, <3>1, ProcsAssumption DEF Kept
    <3> QED BY <1>3, <1>5, <1>7, <3>1, <3>2
  <2>2. CASE q = r
    <3>1. Claims(r)
      BY <1>2, <1>7, <2>2 DEF Put, Goto
    <3>2. rows'[ctx[r].n] = r
      BY <1>3, <3>1 DEF Put, Claims
    <3>3. ctx'[r].n = ctx[r].n
      BY <1>2, <3>1 DEF Put, RunContexts
    <3> QED BY <2>2, <3>2, <3>3
  <2> QED BY <2>1, <2>2
<1>8. exists' /\ latest' > 0 =>
        latest' \in Numbers /\ analysis' \in Runs /\ rows'[latest'] = analysis'
  BY <1>4, <1>5, ProcsAssumption DEF Kept
<1> QED BY <1>6, <1>7, <1>8 DEF Kept

(* A file is copied.                                                       *)
LEMMA KeptCopy ==
    ASSUME TypeOK, Kept, NEW r \in Runs, Copy(r)
    PROVE  Kept'
<1>1. PICK l \in {"copy", "save"} : Goto(r, l)
  BY DEF Copy, Goto
<1>2. pc \in [Runs \cup Callers -> RunLabels \cup CallerLabels] /\ ctx \in [Runs -> RunContexts]
  BY DEF TypeOK, ProcTypes
<1>3. PICK k : ctx' = [ctx EXCEPT ![r].left = @ \ {k}]
  BY DEF Copy
<1>4. \A q \in Runs : ctx'[q].n = ctx[q].n
  BY <1>2, <1>3 DEF RunContexts
<1>5. \A q \in Runs : pc'[q] \in {"copy", "save"} => pc[q] \in {"copy", "save"}
  BY <1>1, <1>2 DEF Copy, Goto
<1>6. UNCHANGED <<exists, rows, latest, analysis>>
  BY DEF Copy, metaVars
<1> QED BY <1>1, <1>4, <1>5, <1>6, KeptCallers, KeptFrame

(* META gets the analysis and the number its row is stored under.          *)
LEMMA KeptSave ==
    ASSUME TypeOK, Kept, NEW r \in Runs, Save(r)
    PROVE  Kept'
<1>1. PICK l \in {"reply", "fail"} : Goto(r, l)
  BY DEF Save, Failing
<1>2. /\ pc \in [Runs \cup Callers -> RunLabels \cup CallerLabels]
      /\ ctx \in [Runs -> RunContexts] /\ ctx[r].n \in Numbers /\ pc[r] = "save"
  BY DEF TypeOK, ProcTypes, Carries, Save
<1>3. \A q \in Runs \ {r} : ctx'[q] = ctx[q]
  BY <1>2 DEF Save, Failing
<1>4. \A q \in Runs : pc'[q] \in {"copy", "save"} =>
                          pc[q] \in {"copy", "save"} /\ ctx'[q].n = ctx[q].n
  BY <1>1, <1>2, <1>3 DEF Goto
<1>5. \A c \in Callers : pc'[c] \notin {"drop_row", "look", "restore", "roll"}
  BY <1>1, KeptCallers
<1>6. UNCHANGED <<exists, rows>>
  BY DEF Save
<1>7. CASE exists
  <2>1. latest' = ctx[r].n /\ analysis' = r /\ rows[ctx[r].n] = r
    BY <1>2, <1>7 DEF Save, Kept
  <2> QED BY <1>2, <1>4, <1>5, <1>6, <1>7, <2>1 DEF Kept, DeletesVersion
<1>8. CASE ~exists
  BY <1>4, <1>5, <1>6, <1>8, KeptFrame
<1> QED BY <1>7, <1>8

(* Requests that delete, and steps of nobody.                              *)
LEMMA KeptOther ==
    ASSUME TypeOK, Kept, "delete_version" \notin Ops,
           \/ \E c \in Callers :
                 \/ \E n \in Numbers : DeleteVersion(c, n)
                 \/ DropRow(c) \/ Look(c) \/ Restore(c) \/ Unindex(c) \/ Roll(c)
                 \/ Remove(c)
           \/ Edit \/ UploadAgain \/ GoQuiet \/ UNCHANGED vars
    PROVE  Kept'
<1>1. ASSUME NEW c \in Callers, Remove(c)
      PROVE  Kept'
  <2>1. pc' = [pc EXCEPT ![c] = "idle"] /\ ~exists'
    BY <1>1 DEF Remove, Finish, Goto
  <2>2. pc \in [Runs \cup Callers -> RunLabels \cup CallerLabels]
    BY DEF TypeOK, ProcTypes
  <2> QED BY <2>1, <2>2 DEF Kept, DeletesVersion
<1>2. ASSUME NEW c \in Callers, DropRow(c) \/ Look(c) \/ Restore(c) \/ Unindex(c) \/ Roll(c)
      PROVE  FALSE
  BY <1>2 DEF DropRow, Look, Restore, Unindex, Roll, Kept, DeletesVersion
<1>3. CASE Edit \/ UploadAgain \/ GoQuiet \/ UNCHANGED vars
  <2>1. UNCHANGED <<pc, ctx, exists, rows, latest, analysis>>
    BY <1>3 DEF Edit, UploadAgain, GoQuiet, vars, metaVars, storeVars
  <2> QED BY <2>1 DEF Kept, DeletesVersion
<1> QED BY <1>1, <1>2, <1>3 DEF DeleteVersion

(* Every step keeps it.                                                    *)
LEMMA KeptNext ==
    ASSUME TypeOK, Kept, "delete_version" \notin Ops, [Next]_vars
    PROVE  Kept'
<1>1. ASSUME NEW r \in Runs, Start(r) \/ GoOn(r) \/ Raise(r) \/ Crash(r) \/ Again(r)
      PROVE  Kept'
  BY <1>1, RunIsMild, KeptMild, KeptRead, KeptPut, KeptCopy, KeptSave DEF GoOn
<1>2. ASSUME NEW c \in Callers, Ask(c) \/ Serve(c) \/ Stop(c)
      PROVE  Kept'
  BY <1>2, RequestIsMild, KeptMild, KeptOther DEF Ask, Serve
<1>3. CASE Edit \/ UploadAgain \/ GoQuiet \/ UNCHANGED vars
  BY <1>3, KeptOther
<1> QED BY <1>1, <1>2, <1>3 DEF Next

(* Unless versions are deleted, the analysis a document shows is the one   *)
(* its latest version row stands for, also when runs overlap               *)
(* (shared/dynamodb.py, put_version; persist.py).                          *)
THEOREM MetaKeepsItsVersion ==
    ASSUME "delete_version" \notin Ops
    PROVE  Safe => []MetaHasItsVersion
<1>1. Init => Kept
  BY ProcsAssumption DEF Init, Kept, DeletesVersion
<1>2. TypeOK /\ Kept /\ [Next]_vars => Kept'
  BY KeptNext
<1>3. Kept => MetaHasItsVersion
  BY DEF Kept, MetaHasItsVersion
<1> QED BY TypeCorrect, <1>1, <1>2, <1>3, PTL DEF Safe
-----------------------------------------------------------------------------
(* DeletedLeavesNothing, strengthened.  A delete is past the point where   *)
(* it removed the files, or the document is gone:                          *)
Purging == ~exists \/ \E c \in Callers : DeletesDocument(c)

(* runs that have not stored their version row unseen, and will notice;    *)
Working == {"begin", "work", "sweep", "put", "copy", "save", "fail"}
UnderWay == \E r \in Runs : pc[r] \in Working

NoCopies == [n \in Numbers |-> NoFiles]
NothingKept == fixed = NoFiles /\ copies = NoCopies /\ parked = {}

(* whatever is there after that was written by one of them.                *)
Purged == ~missed =>
    /\ Purging => UnderWay \/ NothingKept
    /\ Purging /\ raw => unclaimed
    /\ ~exists \/ (\E c \in Callers : pc[c] \in {"list", "remove"}) =>
            UnderWay \/ index = {} \/ "search" \in Faults
    /\ \A c \in Callers : pc[c] = "remove" => Taken \subseteq req[c].found
    /\ ~exists => Taken = {}

(* A step that takes no delete any further.                                *)
LEMMA PurgedFrame ==
    ASSUME Purged, missed => missed', unclaimed => unclaimed', exists' = exists,
           \A c \in Callers : pc'[c] \in {"purge_index", "list", "remove"} =>
                                  pc'[c] = pc[c] /\ req'[c] = req[c],
           Taken' \subseteq Taken, raw' => raw \/ unclaimed',
           \/ UnderWay'
           \/ /\ UnderWay => UnderWay'
              /\ NothingKept => NothingKept'
              /\ index = {} => index' = {}
    PROVE  Purged'
<1> SUFFICES ASSUME ~missed' PROVE Purged'
  BY DEF Purged
<1>1. Purging' => Purging
  BY DEF Purging, DeletesDocument
<1>2. ~exists' \/ (\E c \in Callers : pc'[c] \in {"list", "remove"}) =>
          ~exists \/ (\E c \in Callers : pc[c] \in {"list", "remove"})
  OBVIOUS
<1>3. ~exists \/ (\E c \in Callers : pc[c] \in {"list", "remove"}) =>
        UnderWay' \/ index' = {} \/ "search" \in Faults
  BY DEF Purged
<1>4. \A c \in Callers : pc'[c] = "remove" => Taken' \subseteq req'[c].found
  BY DEF Purged
<1>5. Purging => UnderWay' \/ NothingKept'
  BY DEF Purged
<1>6. Purging /\ raw' => unclaimed'
  BY DEF Purged
<1>7. ~exists' => Taken' = {}
  BY DEF Purged
<1> QED BY <1>1, <1>2, <1>3, <1>4, <1>5, <1>6, <1>7 DEF Purged

(* A step while no delete has come that far.                               *)
LEMMA PurgedBefore ==
    ASSUME ~Purging'
    PROVE  Purged'
BY DEF Purged, Purging, DeletesDocument

(* A run does not move the requests.                                       *)
LEMMA RequestsStay ==
    ASSUME TypeOK, NEW r \in Runs, NEW l, Goto(r, l)
    PROVE  /\ \A c \in Callers : pc'[c] = pc[c]
           /\ \A q \in Runs \ {r} : pc'[q] = pc[q]
           /\ pc'[r] = l
BY ProcsAssumption DEF Goto, TypeOK, ProcTypes

(* ... nor a request the runs.                                             *)
LEMMA RunsStay ==
    ASSUME TypeOK, NEW c \in Callers, NEW l, Goto(c, l)
    PROVE  /\ \A r \in Runs : pc'[r] = pc[r]
           /\ \A d \in Callers \ {c} : pc'[d] = pc[d]
           /\ pc'[c] = l
BY ProcsAssumption DEF Goto, TypeOK, ProcTypes

(* A run that goes on, or begins, before persist stores anything.          *)
LEMMA PurgedGoesOn ==
    ASSUME TypeOK, Purged, NEW r \in Runs,
           \/ Start(r) \/ Begin(r) \/ Work(r) \/ Index(r) \/ IndexNone(r) \/ Sweep(r)
           \/ Read(r) \/ Raise(r) \/ Again(r)
    PROVE  Purged'
<1>1. PICK l \in Working : Goto(r, l)
  BY DEF Start, Begin, Work, Index, IndexNone, Sweep, Read, Raise, Again, Failing, Advance,
         Working
<1>2. UnderWay'
  BY <1>1, RequestsStay DEF UnderWay
<1>3. UNCHANGED <<exists, rows, raw, req, missed>>
  BY DEF Start, Begin, Work, Index, IndexNone, Sweep, Read, Raise, Again, metaVars,
         storeVars, fileVars, histVars
<1>4. unclaimed => unclaimed'
  BY DEF Start, Begin, Work, Index, IndexNone, Sweep, Read, Raise, Again, histVars
<1>5. Taken' = Taken
  BY <1>3 DEF Taken
<1> QED BY <1>1, <1>2, <1>3, <1>4, <1>5, RequestsStay, PurgedFrame

(* A run that would not notice: the delete that it missed is remembered.   *)
LEMMA PurgedMissed ==
    ASSUME TypeOK, Purged, NEW r \in Runs, Put(r) \/ Copy(r) \/ Save(r) \/ Crash(r)
    PROVE  Purged'
<1>1. PICK l : Goto(r, l)
  BY DEF Put, Copy, Save, Crash, Goto, Failing
<1>2. Missing /\ UNCHANGED exists
  BY DEF Put, Copy, Save, Crash, metaVars
<1>3. CASE Purging
  BY <1>2, <1>3 DEF Missing, Purging, Purged
<1>4. CASE ~Purging
  BY <1>1, <1>2, <1>4, RequestsStay, PurgedBefore DEF Purging, DeletesDocument
<1> QED BY <1>3, <1>4

(* A run that is through, or was superseded.                               *)
LEMMA PurgedThrough ==
    ASSUME TypeOK, Purged, NEW r \in Runs, Release(r) \/ Reply(r) \/ Mark(r)
    PROVE  Purged'
<1>1. pc[r] \notin Working
  BY DEF Release, Reply, Mark, Working
<1>2. PICK l : Goto(r, l)
  BY DEF Release, Reply, Mark, End
<1>3. UnderWay => UnderWay'
  BY <1>1, <1>2, RequestsStay DEF UnderWay
<1>4. UNCHANGED <<exists, rows, raw, req, missed, unclaimed, fixed, copies, index>>
  BY DEF Release, Reply, Mark, metaVars, storeVars, fileVars, histVars
<1>5. parked' \subseteq parked
  BY DEF Release, Reply, Mark, storeVars, fileVars
<1>6. Taken' = Taken
  BY <1>4 DEF Taken
<1>7. NothingKept => NothingKept'
  BY <1>4, <1>5 DEF NothingKept, NoCopies, NoFiles
<1> QED BY <1>2, <1>3, <1>4, <1>6, <1>7, RequestsStay, PurgedFrame

(* A run that fails clears up, if the document is gone.                    *)
LEMMA PurgedFail ==
    ASSUME TypeOK, Purged, NEW r \in Runs, Fail(r)
    PROVE  Purged'
<1>1. PICK l : Goto(r, l)
  BY DEF Fail
<1>2. UNCHANGED <<exists, rows, raw, req, unclaimed>> /\ (missed => missed')
  BY DEF Fail
<1>3. CASE ~exists
  <2>1. NothingKept' /\ index' = {}
    BY <1>3 DEF Fail, Discards, NothingKept, NoCopies, NoFiles
  <2>2. Taken' = Taken
    BY <1>2 DEF Taken
  <2>3. CASE missed'
    BY <2>3 DEF Purged
  <2>4. CASE ~missed'
    BY <1>1, <1>2, <1>3, <2>1, <2>2, <2>4, RequestsStay DEF Purged, Purging
  <2> QED BY <2>3, <2>4
<1>4. CASE exists /\ Purging
  BY <1>4 DEF Fail, Purging, Purged
<1>5. CASE exists /\ ~Purging
  BY <1>1, <1>2, <1>5, RequestsStay, PurgedBefore DEF Purging, DeletesDocument
<1> QED BY <1>3, <1>4, <1>5

(* A request that touches no store.                                        *)
LEMMA PurgedAside ==
    ASSUME TypeOK, Purged, NEW c \in Callers,
           \/ Reprocess(c) \/ Claim(c) \/ CopyRaw(c) \/ Unclaim(c) \/ DeleteDocument(c)
           \/ \E n \in Numbers : DeleteVersion(c, n)
           \/ Look(c) \/ Roll(c) \/ Stop(c)
    PROVE  Purged'
<1>1. PICK l \in CallerLabels \ {"purge_index", "list", "remove"} : Goto(c, l)
  BY DEF Reprocess, Claim, CopyRaw, Unclaim, DeleteDocument, DeleteVersion, Look, Roll, Stop,
         Finish, CallerLabels
<1>2. UNCHANGED <<exists, rows, raw, fixed, copies, parked, index, missed>>
  BY DEF Reprocess, Claim, CopyRaw, Unclaim, DeleteDocument, DeleteVersion, Look, Roll, Stop,
         metaVars, storeVars, fileVars, histVars
<1>3. unclaimed => unclaimed'
  BY DEF Reprocess, Claim, CopyRaw, Unclaim, DeleteDocument, DeleteVersion, Look, Roll, Stop,
         histVars
<1>4. \A d \in Callers \ {c} : req'[d] = req[d]
  BY DEF Reprocess, Claim, CopyRaw, Unclaim, DeleteDocument, DeleteVersion, Look, Roll, Stop,
         Finish, TypeOK, ProcTypes
<1>5. Taken' = Taken /\ (NothingKept => NothingKept')
  BY <1>2 DEF Taken, NothingKept, NoCopies, NoFiles
<1>6. UnderWay' = UnderWay
  BY <1>1, RunsStay DEF UnderWay
<1> QED BY <1>1, <1>2, <1>3, <1>4, <1>5, <1>6, RunsStay, PurgedFrame

(* A version is deleted: there is nothing to restore once the copies are   *)
(* gone.                                                                   *)
LEMMA PurgedVersion ==
    ASSUME TypeOK, Purged, NEW c \in Callers, DropRow(c) \/ Restore(c) \/ Unindex(c)
    PROVE  Purged'
<1>1. /\ UNCHANGED <<exists, raw, parked, missed, unclaimed>>
      /\ pc[c] \in {"drop_row", "restore"}
  BY DEF DropRow, Restore, Unindex, metaVars, storeVars, fileVars, histVars
<1>2. pc'[c] \in {"look", "restore", "roll"} /\ \A p \in (Runs \cup Callers) \ {c} : pc'[p] = pc[p]
  BY ProcsAssumption DEF DropRow, Restore, Unindex, Goto, TypeOK, ProcTypes
<1>3. \A d \in Callers \ {c} : req'[d] = req[d]
  BY DEF DropRow, Restore, Unindex, TypeOK, ProcTypes
<1>4. Taken' \subseteq Taken
  BY DEF DropRow, Restore, Unindex, Taken, TypeOK, StoreTypes
<1>5. index' \subseteq index
  BY DEF DropRow, Restore, Unindex, storeVars
<1>6. UnderWay' = UnderWay
  BY <1>2, ProcsAssumption DEF UnderWay
<1>7. ASSUME NothingKept PROVE NothingKept'
  <2>1. CASE DropRow(c)
    BY <1>7, <2>1 DEF DropRow, fileVars, NothingKept, NoCopies, NoFiles
  <2>2. CASE Unindex(c)
    <3>1. copies' = [copies EXCEPT ![req[c].n] = NoFiles] /\ UNCHANGED <<fixed, parked>>
      BY <2>2 DEF Unindex
    <3> QED BY <1>7, <3>1 DEF NothingKept, NoCopies, NoFiles
  <2>3. CASE Restore(c)
    <3>1. req[c].from \in Numbers /\ req[c].left \subseteq Artefacts
      BY <2>3 DEF Restore, TypeOK, ProcTypes, GoesBy, Requests
    <3>2. \A k \in req[c].left : Restored(c, k) = fixed[k]
      BY <1>7, <3>1 DEF Restored, NothingKept, NoCopies, NoFiles
    <3>3. UNCHANGED <<copies, parked>>
      BY <2>3 DEF Restore
    <3>4. fixed' = fixed
      BY <1>7, <2>3, <3>1, <3>2 DEF Restore, NothingKept, NoFiles
    <3> QED BY <1>7, <3>3, <3>4 DEF NothingKept, NoCopies, NoFiles
  <2> QED BY <2>1, <2>2, <2>3
<1> QED BY <1>1, <1>2, <1>3, <1>4, <1>5, <1>6, <1>7, ProcsAssumption, PurgedFrame

(* The steps of a delete.                                                  *)
LEMMA PurgedDelete ==
    ASSUME TypeOK, Purged, NEW c \in Callers,
           Purge(c) \/ PurgeIndex(c) \/ List(c) \/ Remove(c)
    PROVE  Purged'
<1> SUFFICES ASSUME ~missed' PROVE Purged'
  BY DEF Purged
<1>1. UNCHANGED <<missed, unclaimed>>
  BY DEF Purge, PurgeIndex, List, Remove, histVars
<1>2. PICK l : Goto(c, l)
  BY DEF Purge, PurgeIndex, List, Remove, Finish
<1>3. /\ \A r \in Runs : pc'[r] = pc[r]
      /\ \A d \in Callers \ {c} : pc'[d] = pc[d]
      /\ pc'[c] = l
  BY <1>2, RunsStay
<1>4. UnderWay' = UnderWay
  BY <1>3 DEF UnderWay
<1>5. CASE Purge(c)
  <2>1. pc'[c] = "purge_index" /\ pc[c] = "purge"
    BY <1>3, <1>5 DEF Purge, Goto, TypeOK, ProcTypes
  <2>2. /\ NothingKept' /\ ~raw'
        /\ UNCHANGED <<exists, rows, index, req>>
    BY <1>5 DEF Purge, metaVars, NothingKept, NoCopies, NoFiles
  <2>3. Taken' = Taken
    BY <2>2 DEF Taken
  <2>4. \A d \in Callers : pc'[d] \in {"list", "remove"} => pc[d] = pc'[d]
    BY <1>3, <2>1
  <2>5. ~exists' \/ (\E d \in Callers : pc'[d] \in {"list", "remove"}) =>
            UnderWay' \/ index' = {} \/ "search" \in Faults
    BY <1>1, <1>4, <2>2, <2>4 DEF Purged
  <2>6. \A d \in Callers : pc'[d] = "remove" => Taken' \subseteq req'[d].found
    BY <1>1, <2>2, <2>3, <2>4 DEF Purged
  <2>7. ~exists' => Taken' = {}
    BY <1>1, <2>2, <2>3 DEF Purged
  <2> QED BY <2>2, <2>5, <2>6, <2>7 DEF Purged
<1>6. CASE PurgeIndex(c)
  <2>1. pc'[c] = "list" /\ pc[c] = "purge_index"
    BY <1>3, <1>6 DEF PurgeIndex, Goto, TypeOK, ProcTypes
  <2>2. /\ UNCHANGED <<exists, rows, req, fixed, copies, parked, raw>>
        /\ index' = {} \/ "search" \in Faults
    BY <1>6 DEF PurgeIndex, metaVars, fileVars, Fault
  <2>3. Taken' = Taken /\ (NothingKept => NothingKept')
    BY <2>2 DEF Taken, NothingKept, NoCopies, NoFiles
  <2>4. Purging
    BY <2>1 DEF Purging, DeletesDocument
  <2>5. \A d \in Callers : pc'[d] = "remove" => Taken' \subseteq req'[d].found
    BY <1>1, <1>3, <2>1, <2>2, <2>3 DEF Purged
  <2>6. (~exists' => Taken' = {}) /\ (UnderWay' \/ NothingKept') /\ (raw' => unclaimed')
    BY <1>1, <1>4, <2>2, <2>3, <2>4 DEF Purged
  <2> QED BY <2>2, <2>5, <2>6 DEF Purged
<1>7. CASE List(c)
  <2>1. pc'[c] = "remove" /\ pc[c] = "list"
    BY <1>3, <1>7 DEF List, Goto, TypeOK, ProcTypes
  <2>2. UNCHANGED <<exists, rows, fixed, copies, parked, raw, index>>
    BY <1>7 DEF List, metaVars, storeVars, fileVars
  <2>3. req'[c].found = Taken /\ \A d \in Callers \ {c} : req'[d] = req[d]
    BY <1>7 DEF List, TypeOK, ProcTypes, Requests
  <2>4. Taken' = Taken /\ (NothingKept => NothingKept')
    BY <2>2 DEF Taken, NothingKept, NoCopies, NoFiles
  <2>5. Purging
    BY <2>1 DEF Purging, DeletesDocument
  <2>6. \A d \in Callers : pc'[d] = "remove" => Taken' \subseteq req'[d].found
    BY <1>1, <1>3, <2>3, <2>4 DEF Purged
  <2>7. (~exists' => Taken' = {}) /\ (UnderWay' \/ NothingKept') /\ (raw' => unclaimed')
    BY <1>1, <1>4, <2>2, <2>4, <2>5 DEF Purged
  <2>8. UnderWay' \/ index' = {} \/ "search" \in Faults
    BY <1>1, <1>4, <2>1, <2>2 DEF Purged
  <2> QED BY <2>6, <2>7, <2>8 DEF Purged
<1>8. CASE Remove(c)
  <2>1. pc'[c] = "idle" /\ pc[c] = "remove"
    BY <1>3, <1>8 DEF Remove, Finish, Goto, TypeOK, ProcTypes
  <2>2. UNCHANGED <<fixed, copies, parked, raw, index>>
    BY <1>8 DEF Remove, fileVars
  <2>3. Taken \subseteq req[c].found
    BY <1>1, <2>1 DEF Purged
  <2>4. Taken' = {}
    BY <1>8, <2>3 DEF Remove, Taken
  <2>5. Purging
    BY <2>1 DEF Purging, DeletesDocument
  <2>6. NothingKept => NothingKept'
    BY <2>2 DEF NothingKept, NoCopies, NoFiles
  <2>7. (UnderWay' \/ NothingKept') /\ (raw' => unclaimed')
    BY <1>1, <1>4, <2>2, <2>5, <2>6 DEF Purged
  <2>8. UnderWay' \/ index' = {} \/ "search" \in Faults
    BY <1>1, <1>4, <2>1, <2>2 DEF Purged
  <2> QED BY <2>4, <2>7, <2>8 DEF Purged
<1> QED BY <1>5, <1>6, <1>7, <1>8

(* Steps of nobody: a second upload is remembered.                         *)
LEMMA PurgedStill ==
    ASSUME Purged, Edit \/ UploadAgain \/ GoQuiet \/ UNCHANGED vars
    PROVE  Purged'
<1>1. UNCHANGED <<exists, rows, fixed, copies, parked, index, missed, pc, req>>
  BY DEF Edit, UploadAgain, GoQuiet, vars, metaVars, storeVars, fileVars, histVars
<1>2. (unclaimed => unclaimed') /\ (raw' => raw \/ unclaimed')
  BY DEF Edit, UploadAgain, GoQuiet, vars, storeVars, fileVars, histVars
<1>3. Taken' = Taken /\ (NothingKept => NothingKept') /\ (UnderWay => UnderWay')
  BY <1>1 DEF Taken, NothingKept, NoCopies, NoFiles, UnderWay
<1> QED BY <1>1, <1>2, <1>3, PurgedFrame

(* Every step keeps it.                                                    *)
LEMMA PurgedNext ==
    ASSUME TypeOK, Purged, [Next]_vars
    PROVE  Purged'
<1>1. ASSUME NEW r \in Runs, Start(r) \/ GoOn(r) \/ Raise(r) \/ Crash(r) \/ Again(r)
      PROVE  Purged'
  BY <1>1, PurgedGoesOn, PurgedMissed, PurgedThrough, PurgedFail DEF GoOn
<1>2. ASSUME NEW c \in Callers, Ask(c) \/ Serve(c) \/ Stop(c)
      PROVE  Purged'
  BY <1>2, PurgedAside, PurgedVersion, PurgedDelete DEF Ask, Serve
<1>3. CASE Edit \/ UploadAgain \/ GoQuiet \/ UNCHANGED vars
  BY <1>3, PurgedStill
<1> QED BY <1>1, <1>2, <1>3 DEF Next

(* When a deleted document's runs have ended, nothing of it is left,       *)
(* whatever failed meanwhile: a run that was under way notices, and        *)
(* removes what it wrote after the delete (pipeline/handler.py,            *)
(* _discard_if_deleted; api/handler.py, _purge_storage).                   *)
THEOREM DeletesAreWhole == Safe => []DeletedLeavesNothing
<1>1. Init => Purged
  BY ProcsAssumption DEF Init, Purged, Purging, DeletesDocument
<1>2. TypeOK /\ Purged /\ [Next]_vars => Purged'
  BY PurgedNext
<1>3. TypeOK /\ Purged => DeletedLeavesNothing
  <2> SUFFICES ASSUME TypeOK, Purged, ~exists, ~missed, Quiet
               PROVE  /\ Taken = {} /\ parked = {}
                      /\ "search" \notin Faults => index = {}
                      /\ fixed = NoFiles /\ copies = [n \in Numbers |-> NoFiles]
                      /\ raw => unclaimed
    BY DEF DeletedLeavesNothing
  <2>1. ~UnderWay
    BY DEF UnderWay, Working, Quiet, Active
  <2> QED BY <2>1 DEF Purged, Purging, NothingKept, NoCopies
<1> QED BY TypeCorrect, <1>1, <1>2, <1>3, PTL DEF Safe
-----------------------------------------------------------------------------
(* Served, strengthened.  The faults that break it: a run that fails after *)
(* its version row is stored, a copy that is missing and a search index    *)
(* that was not written each leave a version that cannot be served again.  *)
Breaking == {"error", "crash", "service", "search", "copy"}

(* Nothing has happened that Served excludes, for now or for good.         *)
Ongoing == ~unclaimed /\ ~crossed /\ ~missed /\ ~Purging

(* The files that a run has written when it comes to a stage.              *)
Before == [parse |-> {}, classify |-> {"parsed"},
           embed |-> {"parsed", "classification"}, graph |-> {"parsed", "classification"},
           diff |-> {"parsed", "classification"},
           timeline |-> {"parsed", "classification", "diff"}, persist |-> ArtefactNames]

(* A run's files and records are its own, and so is its version row, which *)
(* is the newest.                                                          *)
RunWhole(r) ==
    /\ pc[r] # "release"
    /\ pc[r] = "idle" => ctx[r].stage = "parse" /\ ~ctx[r].ok
    /\ pc[r] \in Working =>
          /\ \A k \in Artefacts : k \in Before[ctx[r].stage] => fixed[k] = r
          /\ ctx[r].ok => index = {r} /\ ctx[r].stage \notin {"parse", "classify", "embed"}
    /\ pc[r] = "sweep" => r \in index
    /\ pc[r] = "put" => \A m \in Taken : m < ctx[r].n
    /\ pc[r] \in {"copy", "save"} => rows[ctx[r].n] = r /\ \A m \in Taken : m <= ctx[r].n

(* A version's copies are those of its run, but for files still to copy.   *)
CopiesWhole == \A n \in Taken, k \in Artefacts :
    \/ copies[n][k] = rows[n]
    \/ \E r \in Runs : pc[r] = "copy" /\ ctx[r].n = n /\ k \in ctx[r].left

(* One version at a time is deleted, and under no run.                     *)
OneDelete == \A c \in Callers : DeletesVersion(c) =>
    /\ \A r \in Runs : ~Active(r)
    /\ \A d \in Callers : DeletesVersion(d) => d = c

(* What is served is of run r.                                             *)
AllOf(r) == /\ \A k \in Artefacts : fixed[k] = r
            /\ searchable => index = {r}

Serving == Taken # {} /\ latest = Newest(Taken) /\ AllOf(rows[latest])

(* What a request to delete a version goes by: before its row is removed,  *)
AtDropRow(q) == /\ rows[q.n] = q.run /\ Taken # {q.n}
                /\ q.left = {} /\ ~q.ok
                /\ status = "READY" => Serving

(* before it looks for the newest row left,                                *)
AtLook(q) == /\ rows[q.n] = None /\ Taken # {}
             /\ q.left = {} /\ ~q.ok
             /\ status = "READY" => IF Newest(Taken) < q.n THEN AllOf(q.run) ELSE Serving

LooksAt(q) == Taken # {} /\ q.from = Newest(Taken) /\ q.other = rows[q.from]

(* while it restores that one's files,                                     *)
AtRestore(q) ==
    /\ LooksAt(q) /\ rows[q.n] = None
    /\ status = "READY" =>
          (/\ \A k \in Artefacts : k \notin q.left => fixed[k] = q.other
           /\ searchable => index = {IF q.ok \/ q.left # {} THEN q.run ELSE q.other})

(* and before it rolls META back.                                          *)
AtRoll(q) ==
    /\ LooksAt(q)
    /\ status = "READY" =>
          (/\ \A k \in Artefacts : fixed[k] = q.other
           /\ searchable /\ ~q.ok => index = {q.other})

Deleting(c) == /\ pc[c] = "idle" => req[c].left = {} /\ ~req[c].ok
               /\ pc[c] = "drop_row" => AtDropRow(req[c])
               /\ pc[c] = "look" => AtLook(req[c])
               /\ pc[c] = "restore" => AtRestore(req[c])
               /\ pc[c] = "roll" => AtRoll(req[c])

Delivered == status = "READY" /\ (\A c \in Callers : ~DeletesVersion(c)) => Serving

Whole == /\ raw /\ \A c \in Callers : pc[c] # "unclaim"
         /\ \A r \in Runs : RunWhole(r)
         /\ CopiesWhole
         /\ OneDelete
         /\ \A c \in Callers : Deleting(c)
         /\ Delivered

(* What Served excludes stays so.                                          *)
LEMMA OngoingBefore ==
    ASSUME TypeOK, [Next]_vars, Ongoing'
    PROVE  Ongoing
<1>1. (unclaimed => unclaimed') /\ (crossed => crossed') /\ (missed => missed')
  <2>1. CASE UNCHANGED vars
    BY <2>1 DEF vars, histVars
  <2>2. ASSUME NEW r \in Runs, Start(r) \/ GoOn(r) \/ Raise(r) \/ Crash(r) \/ Again(r)
        PROVE  (unclaimed => unclaimed') /\ (crossed => crossed') /\ (missed => missed')
    <3>1. unclaimed => unclaimed'
      BY <2>2 DEF Start, GoOn, Begin, Work, Index, IndexNone, Sweep, Read, Put, Release, Copy,
         Save, Reply, Fail, Mark, Raise, Crash, Again, Missing, histVars
    <3>2. crossed => crossed'
      BY <2>2 DEF Start, GoOn, Begin, Work, Index, IndexNone, Sweep, Read, Put, Release, Copy,
         Save, Reply, Fail, Mark, Raise, Crash, Again, Missing, histVars
    <3>3. missed => missed'
      BY <2>2 DEF Start, GoOn, Begin, Work, Index, IndexNone, Sweep, Read, Put, Release, Copy,
         Save, Reply, Fail, Mark, Raise, Crash, Again, Missing, histVars
    <3> QED BY <3>1, <3>2, <3>3
  <2>3. ASSUME NEW c \in Callers, Ask(c) \/ Serve(c) \/ Stop(c)
        PROVE  (unclaimed => unclaimed') /\ (crossed => crossed') /\ (missed => missed')
    <3>1. unclaimed => unclaimed'
      BY <2>3 DEF Ask, Serve, Reprocess, DeleteDocument, DeleteVersion, Claim, CopyRaw, Unclaim,
         DropRow, Look, Restore, Unindex, Roll, Purge, PurgeIndex, List, Remove, Stop, histVars
    <3>2. crossed => crossed'
      BY <2>3 DEF Ask, Serve, Reprocess, DeleteDocument, DeleteVersion, Claim, CopyRaw, Unclaim,
         DropRow, Look, Restore, Unindex, Roll, Purge, PurgeIndex, List, Remove, Stop, histVars
    <3>3. missed => missed'
      BY <2>3 DEF Ask, Serve, Reprocess, DeleteDocument, DeleteVersion, Claim, CopyRaw, Unclaim,
         DropRow, Look, Restore, Unindex, Roll, Purge, PurgeIndex, List, Remove, Stop, histVars
    <3> QED BY <3>1, <3>2, <3>3
  <2>4. CASE Edit \/ UploadAgain \/ GoQuiet
    BY <2>4 DEF Edit, UploadAgain, GoQuiet, histVars
  <2> QED BY <2>1, <2>2, <2>3, <2>4 DEF Next
<1>2. ~exists => ~exists'
  <2>1. CASE UNCHANGED vars
    BY <2>1 DEF vars, metaVars
  <2>2. ASSUME NEW r \in Runs, Start(r) \/ GoOn(r) \/ Raise(r) \/ Crash(r) \/ Again(r)
        PROVE  ~exists => ~exists'
    BY <2>2 DEF Start, GoOn, Begin, Work, Index, IndexNone, Sweep, Read, Put, Release, Copy,
       Save, Reply, Fail, Mark, Raise, Crash, Again, metaVars
  <2>3. ASSUME NEW c \in Callers, Ask(c) \/ Serve(c) \/ Stop(c)
        PROVE  ~exists => ~exists'
    BY <2>3 DEF Ask, Serve, Reprocess, DeleteDocument, DeleteVersion, Claim, CopyRaw, Unclaim,
       DropRow, Look, Restore, Unindex, Roll, Purge, PurgeIndex, List, Remove, Stop, metaVars
  <2>4. CASE Edit \/ UploadAgain \/ GoQuiet
    BY <2>4 DEF Edit, UploadAgain, GoQuiet, metaVars
  <2> QED BY <2>1, <2>2, <2>3, <2>4 DEF Next
<1>3. ASSUME NEW d \in Callers, DeletesDocument(d)
      PROVE  DeletesDocument(d)' \/ ~exists' \/ crossed'
  <2>1. CASE UNCHANGED pc
    BY <1>3, <2>1 DEF DeletesDocument
  <2>2. ASSUME NEW r \in Runs, NEW l, Goto(r, l)
        PROVE  DeletesDocument(d)'
    BY <1>3, <2>2, RequestsStay DEF DeletesDocument
  <2>3. ASSUME NEW r \in Runs, Start(r) \/ GoOn(r) \/ Raise(r) \/ Crash(r) \/ Again(r)
        PROVE  \E l : Goto(r, l)
    BY <2>3 DEF Start, GoOn, Begin, Work, Index, IndexNone, Sweep, Read, Put, Release, Copy,
       Save, Reply, Fail, Mark, Raise, Crash, Again, Failing, Advance, End, Goto
  <2>4. ASSUME NEW c \in Callers, c # d, NEW l, Goto(c, l)
        PROVE  DeletesDocument(d)'
    BY <1>3, <2>4, RunsStay DEF DeletesDocument
  <2>5. ASSUME NEW c \in Callers, Ask(c) \/ Serve(c) \/ Stop(c)
        PROVE  UNCHANGED pc \/ \E l : Goto(c, l)
    BY <2>5 DEF Ask, Serve, Reprocess, DeleteDocument, DeleteVersion, Claim, CopyRaw, Unclaim,
       DropRow, Look, Restore, Unindex, Roll, Purge, PurgeIndex, List, Remove, Stop, Finish
  <2>6. CASE Ask(d) \/ Serve(d) \/ Stop(d)
    <3>1. \/ PurgeIndex(d) \/ List(d) \/ Remove(d) \/ Stop(d)
      BY <1>3, <2>6 DEF DeletesDocument, Ask, Serve, Reprocess, DeleteDocument, DeleteVersion,
         Claim, CopyRaw, Unclaim, DropRow, Look, Restore, Unindex, Roll, Purge
    <3>2. CASE PurgeIndex(d)
      BY <3>2, RunsStay DEF PurgeIndex, DeletesDocument
    <3>3. CASE List(d)
      BY <3>3, RunsStay DEF List, DeletesDocument
    <3>4. CASE Remove(d)
      BY <3>4 DEF Remove
    <3>5. CASE Stop(d)
      BY <1>3, <3>5 DEF Stop
    <3> QED BY <3>1, <3>2, <3>3, <3>4, <3>5
  <2>7. CASE Edit \/ UploadAgain \/ GoQuiet \/ UNCHANGED vars
    BY <2>1, <2>7 DEF Edit, UploadAgain, GoQuiet, vars
  <2>8. ASSUME NEW r \in Runs, Start(r) \/ GoOn(r) \/ Raise(r) \/ Crash(r) \/ Again(r)
        PROVE  DeletesDocument(d)'
    BY <2>2, <2>3, <2>8
  <2>9. ASSUME NEW c \in Callers, c # d, Ask(c) \/ Serve(c) \/ Stop(c)
        PROVE  DeletesDocument(d)'
    <3>1. PICK l : UNCHANGED pc \/ Goto(c, l)
      BY <2>5, <2>9
    <3>2. CASE UNCHANGED pc
      BY <1>3, <3>2 DEF DeletesDocument
    <3>3. CASE Goto(c, l)
      BY <2>4, <2>9, <3>3
    <3> QED BY <3>1, <3>2, <3>3
  <2> QED BY <2>6, <2>7, <2>8, <2>9 DEF Next
<1> QED BY <1>1, <1>2, <1>3 DEF Ongoing, Purging
-----------------------------------------------------------------------------
(* Steps of runs.                                                          *)

(* No version is deleted under a run.                                      *)
LEMMA NotUnderRun ==
    ASSUME OneDelete, NEW r \in Runs, Active(r)
    PROVE  \A c \in Callers : ~DeletesVersion(c)
BY DEF OneDelete

(* A step of a run that leaves runs and copies whole.                      *)
LEMMA WholeRun ==
    ASSUME TypeOK, Whole, NEW r \in Runs, NEW l, Goto(r, l),
           \A c \in Callers : ~DeletesVersion(c),
           UNCHANGED <<raw, req>>, RunWhole(r)', \A q \in Runs \ {r} : RunWhole(q)',
           CopiesWhole', status' = "READY" => Serving'
    PROVE  Whole'
<1>1. \A c \in Callers : pc'[c] = pc[c]
  BY RequestsStay
<1>2. \A c \in Callers : ~DeletesVersion(c)'
  BY <1>1 DEF DeletesVersion
<1>3. OneDelete'
  BY <1>2 DEF OneDelete
<1>4. \A c \in Callers : Deleting(c)'
  BY <1>1, <1>2 DEF Whole, Deleting, DeletesVersion
<1>5. raw' /\ \A c \in Callers : pc'[c] # "unclaim"
  BY <1>1 DEF Whole
<1>6. Delivered'
  BY DEF Delivered
<1> QED BY <1>3, <1>4, <1>5, <1>6 DEF Whole

(* While a run holds the document no other does.                           *)
LEMMA OthersWhole ==
    ASSUME TypeOK, Alone, Ongoing, Whole, NEW r \in Runs, pc[r] \in HeldLabels,
           NEW l, Goto(r, l), \A q \in Runs \ {r} : ctx'[q] = ctx[q]
    PROVE  /\ \A q \in Runs \ {r} : RunWhole(q)'
           /\ \A q \in Runs \ {r} : pc[q] \notin HeldLabels /\ pc'[q] = pc[q]
           /\ \A c \in Callers : ~DeletesVersion(c)
           /\ status \in InFlight
<1>1. r \in Holders
  BY HoldersByLabel
<1>2. \A q \in Runs \ {r} : pc[q] \notin HeldLabels
  BY <1>1, HoldersByLabel DEF Alone, Ongoing
<1>3. \A q \in Runs \ {r} : pc'[q] = pc[q]
  BY RequestsStay
<1>4. ASSUME NEW q \in Runs \ {r}
      PROVE  RunWhole(q)'
  <2>1. pc'[q] \notin HeldLabels /\ (pc'[q] = "idle" => ctx'[q].stage = "parse" /\ ~ctx'[q].ok)
    BY <1>2, <1>3 DEF Whole, RunWhole
  <2> QED BY <2>1 DEF RunWhole, HeldLabels, Working
<1>5. Active(r)
  BY DEF Active, HeldLabels
<1>6. status \in InFlight
  BY <1>1 DEF Alone, Ongoing, Purging
<1> QED BY <1>2, <1>3, <1>4, <1>5, <1>6, NotUnderRun DEF Whole

(* A step of the run that holds the document, before it saves.             *)
LEMMA WholeHolder ==
    ASSUME TypeOK, Alone, Ongoing, Whole, NEW r \in Runs, pc[r] \in HeldLabels,
           NEW l, Goto(r, l), \A q \in Runs \ {r} : ctx'[q] = ctx[q],
           UNCHANGED <<raw, req>>, RunWhole(r)', CopiesWhole', status' # "READY"
    PROVE  Whole'
BY OthersWhole, WholeRun

(* ... and before its copies.                                              *)
LEMMA CopiesStay ==
    ASSUME TypeOK, Alone, Ongoing, Whole, NEW r \in Runs, pc[r] \in HeldLabels \ {"copy"},
           NEW l, Goto(r, l), \A q \in Runs \ {r} : ctx'[q] = ctx[q],
           UNCHANGED <<rows, copies>>
    PROVE  CopiesWhole'
<1>1. \A q \in Runs : pc[q] # "copy"
  BY OthersWhole DEF HeldLabels
<1>2. Taken' = Taken
  BY DEF Taken
<1> QED BY <1>1, <1>2 DEF Whole, CopiesWhole

(* A step that writes no file, no record and no row.                       *)
LEMMA WholeIdle ==
    ASSUME TypeOK, Alone, Ongoing, Whole, NEW r \in Runs,
           pc[r] \in Working \ {"copy"} \/ pc[r] = "mark",
           NEW l \in {"begin", "work", "fail", "mark", "done"}, Goto(r, l),
           pc[r] = "mark" => l = "done",
           \A q \in Runs \ {r} : ctx'[q] = ctx[q],
           l # "done" => ctx'[r].stage = ctx[r].stage /\ ctx'[r].ok = ctx[r].ok,
           UNCHANGED <<raw, req, rows, fixed, copies, index>>,
           status' = "READY" => status = "READY"
    PROVE  Whole'
<1>1. pc[r] \in HeldLabels \ {"copy"}
  BY DEF HeldLabels, Working
<1>2. pc'[r] = l
  BY RequestsStay
<1>3. RunWhole(r)'
  <2>1. CASE l \notin Working
    BY <1>2, <2>1 DEF RunWhole, Working
  <2>2. CASE l \in Working
    <3>1. pc[r] \in Working /\ ctx'[r].stage = ctx[r].stage /\ ctx'[r].ok = ctx[r].ok
      BY <2>2 DEF Working
    <3> QED BY <1>2, <3>1 DEF Whole, RunWhole
  <2> QED BY <2>1, <2>2
<1>4. CopiesWhole'
  BY <1>1, CopiesStay
<1>5. status' # "READY"
  BY <1>1, OthersWhole DEF InFlight
<1> QED BY <1>1, <1>3, <1>4, <1>5, WholeHolder

(* What a run carries is a context.                                        *)
LEMMA Contexts ==
    ASSUME TypeOK
    PROVE  /\ ctx \in [Runs -> RunContexts]
           /\ \A r \in Runs : ctx[r] \in RunContexts /\ ctx[r].stage \in Stages
           /\ rows \in [Numbers -> Runs \cup {None}]
           /\ Taken \in SUBSET Numbers
BY DEF TypeOK, ProcTypes, StoreTypes, RunContexts, Taken

(* A stage begins.                                                         *)
LEMMA WholeBegin ==
    ASSUME TypeOK, Alone, Ongoing, Whole, NEW r \in Runs, Begin(r)
    PROVE  Whole'
<1>1. PICK l \in {"work", "fail"} : Goto(r, l)
  BY DEF Begin, Failing
<1>2. UNCHANGED <<raw, req, rows, fixed, copies, index>> /\ pc[r] \in Working \ {"copy"}
  BY DEF Begin, storeVars, fileVars, Working
<1>3. /\ \A q \in Runs \ {r} : ctx'[q] = ctx[q]
      /\ ctx'[r].stage = ctx[r].stage /\ ctx'[r].ok = ctx[r].ok
  BY Contexts DEF Begin, Failing, RunContexts
<1>4. status' = "READY" => status = "READY"
  <2>1. StatusOf[ctx[r].stage] # "READY"
    BY Contexts DEF StatusOf, Stages
  <2> QED BY <2>1 DEF Begin, SetStatus
<1> QED BY <1>1, <1>2, <1>3, <1>4, WholeIdle DEF Working

(* A stage raises: the AI service is not available.                        *)
LEMMA WholeRaise ==
    ASSUME TypeOK, Alone, Ongoing, Whole, Faults \cap Breaking = {}, NEW r \in Runs, Raise(r)
    PROVE  Whole'
<1>1. Goto(r, "fail") /\ pc[r] = "work"
  BY DEF Raise, Failing, Fault, Breaking
<1>2. UNCHANGED <<raw, req, rows, fixed, copies, index, status>>
  BY DEF Raise, metaVars, storeVars, fileVars
<1>3. /\ \A q \in Runs \ {r} : ctx'[q] = ctx[q]
      /\ ctx'[r].stage = ctx[r].stage /\ ctx'[r].ok = ctx[r].ok
  BY Contexts DEF Raise, Failing, RunContexts
<1> QED BY <1>1, <1>2, <1>3, WholeIdle DEF Working

(* The stage is tried again, or the run ends.                              *)
LEMMA WholeFail ==
    ASSUME TypeOK, Alone, Ongoing, Whole, NEW r \in Runs, Fail(r)
    PROVE  Whole'
<1>1. PICK l \in {"begin", "mark"} : Goto(r, l)
  BY DEF Fail
<1>2. UNCHANGED <<raw, req, rows, fixed, copies, index, status>> /\ pc[r] = "fail"
  BY DEF Fail, Discards, Ongoing, Purging
<1>3. /\ \A q \in Runs \ {r} : ctx'[q] = ctx[q]
      /\ ctx'[r].stage = ctx[r].stage /\ ctx'[r].ok = ctx[r].ok
  BY Contexts DEF Fail, RunContexts
<1> QED BY <1>1, <1>2, <1>3, WholeIdle DEF Working

(* MarkFailed.                                                             *)
LEMMA WholeMark ==
    ASSUME TypeOK, Alone, Ongoing, Whole, NEW r \in Runs, Mark(r)
    PROVE  Whole'
<1>1. Goto(r, "done") /\ pc[r] = "mark"
  BY DEF Mark, End
<1>2. UNCHANGED <<raw, req, rows, fixed, copies, index>>
  BY DEF Mark, storeVars, fileVars
<1>3. \A q \in Runs \ {r} : ctx'[q] = ctx[q]
  BY Contexts DEF Mark, End
<1>4. status' = "READY" => status = "READY"
  BY DEF Mark, SetStatus
<1> QED BY <1>1, <1>2, <1>3, <1>4, WholeIdle

(* A stage has written its file, and the next one has it.                  *)
LEMMA WholeWork ==
    ASSUME TypeOK, Alone, Ongoing, Whole, NEW r \in Runs, Work(r)
    PROVE  Whole'
<1>1. pc[r] = "work" /\ ctx[r].stage \in Stages \ {"embed", "persist"} /\ raw
  BY Contexts DEF Work, Whole
<1>2. /\ fixed' = [k \in Artefacts |-> IF k \in Writes[ctx[r].stage] THEN r ELSE fixed[k]]
      /\ Goto(r, "begin")
      /\ ctx' = [ctx EXCEPT ![r] = [NoRun EXCEPT !.stage = NextStage[ctx[r].stage],
                                                 !.ok = ctx[r].ok]]
  BY <1>1 DEF Work, Advance
<1>3. UNCHANGED <<raw, req, rows, copies, index, status>>
  BY DEF Work, metaVars
<1>4. \A q \in Runs \ {r} : ctx'[q] = ctx[q]
  BY <1>2, Contexts
<1>5. ctx'[r].stage = NextStage[ctx[r].stage] /\ ctx'[r].ok = ctx[r].ok
  BY <1>2, Contexts DEF NoRun
<1>6. pc[r] \in HeldLabels \ {"copy"} /\ pc'[r] = "begin"
  BY <1>1, <1>2, RequestsStay DEF HeldLabels
<1>7. RunWhole(r)'
  <2>1. /\ \A k \in Artefacts : k \in Before[ctx[r].stage] => fixed[k] = r
        /\ ctx[r].ok => index = {r} /\ ctx[r].stage \notin {"parse", "classify", "embed"}
    BY <1>1 DEF Whole, RunWhole, Working
  <2>2. Before[NextStage[ctx[r].stage]] \subseteq Before[ctx[r].stage] \cup Writes[ctx[r].stage]
    BY <1>1, NamesAssumption DEF Before, NextStage, Writes, Stages, ArtefactNames
  <2>3. \A k \in Artefacts : k \in Before[ctx'[r].stage] => fixed'[k] = r
    BY <1>2, <1>5, <2>1, <2>2
  <2>4. ctx'[r].ok => index' = {r} /\ ctx'[r].stage \notin {"parse", "classify", "embed"}
    BY <1>1, <1>3, <1>5, <2>1 DEF NextStage, Stages
  <2> QED BY <1>6, <2>3, <2>4 DEF RunWhole
<1>8. CopiesWhole'
  BY <1>2, <1>3, <1>4, <1>6, CopiesStay
<1>9. status' # "READY"
  BY <1>2, <1>3, <1>4, <1>6, OthersWhole DEF InFlight
<1> QED BY <1>2, <1>3, <1>4, <1>6, <1>7, <1>8, <1>9, WholeHolder

(* embed: the records that are swept to are the run's.                     *)
LEMMA WholeEmbed ==
    ASSUME TypeOK, Alone, Ongoing, Whole, Faults \cap Breaking = {}, NEW r \in Runs,
           Index(r) \/ IndexNone(r) \/ Sweep(r)
    PROVE  Whole'
<1>1. pc[r] \in {"work", "sweep"} /\ ctx[r].stage = "embed"
  BY DEF Index, IndexNone, Sweep, TypeOK, ProcTypes, Carries
<1>2. PICK l \in {"begin", "sweep"} : Goto(r, l)
  BY DEF Index, IndexNone, Sweep, Advance
<1>3. UNCHANGED <<raw, req, rows, fixed, copies, status>>
  BY DEF Index, IndexNone, Sweep, metaVars
<1>4. \A q \in Runs \ {r} : ctx'[q] = ctx[q]
  BY Contexts DEF Index, IndexNone, Sweep, Advance
<1>5. pc[r] \in HeldLabels \ {"copy"} /\ pc'[r] = l
  BY <1>1, <1>2, RequestsStay DEF HeldLabels
<1>6. RunWhole(r)'
  <2>1. /\ \A k \in Artefacts : k \in Before["embed"] => fixed[k] = r
        /\ ~ctx[r].ok /\ (pc[r] = "sweep" => r \in index)
    BY <1>1 DEF Whole, RunWhole, Working
  <2>2. Before["graph"] = Before["embed"] /\ NextStage["embed"] = "graph"
    BY DEF Before, NextStage
  <2>3. CASE Index(r)
    <3>1. pc'[r] = "sweep" /\ UNCHANGED ctx /\ r \in index'
      BY <2>3, RequestsStay DEF Index, Fault, Breaking
    <3> QED BY <1>1, <1>3, <2>1, <3>1 DEF RunWhole
  <2>4. CASE IndexNone(r)
    <3>1. pc'[r] = "begin" /\ ctx'[r].stage = "graph" /\ ~ctx'[r].ok
      BY <1>1, <2>2, <2>4, Contexts, RequestsStay DEF IndexNone, Advance, NoRun
    <3> QED BY <1>3, <2>1, <2>2, <3>1 DEF RunWhole
  <2>5. CASE Sweep(r)
    <3>1. pc'[r] = "begin" /\ ctx'[r].stage = "graph"
      BY <1>1, <2>2, <2>5, Contexts, RequestsStay DEF Sweep, Advance, NoRun
    <3>2. index' = {r}
      BY <2>1, <2>5 DEF Sweep, Swept, Fault, Breaking
    <3> QED BY <1>3, <2>1, <2>2, <3>1, <3>2 DEF RunWhole
  <2> QED BY <2>3, <2>4, <2>5
<1>7. CopiesWhole'
  BY <1>2, <1>3, <1>4, <1>5, CopiesStay
<1>8. status' # "READY"
  BY <1>2, <1>3, <1>4, <1>5, OthersWhole DEF InFlight
<1> QED BY <1>2, <1>3, <1>4, <1>5, <1>6, <1>7, <1>8, WholeHolder
(* The next version number is above all that were seen.                    *)
LEMMA NextVersionIsAbove ==
    ASSUME NEW S \in SUBSET Numbers
    PROVE  \A m \in S : m < NextVersion(S)
<1> USE LimitsAssumption
<1>1. CASE S = {}
  BY <1>1
<1>2. CASE S # {}
  <2>1. Newest(S) \in S /\ \A m \in S : m <= Newest(S)
    BY <1>2, NewestExists
  <2>2. NextVersion(S) = Newest(S) + 1
    BY <1>2 DEF NextVersion
  <2>3. Newest(S) \in 1..MaxVersions /\ S \subseteq 1..MaxVersions
    BY <2>1 DEF Numbers
  <2>4. ASSUME NEW m \in S PROVE m < NextVersion(S)
    <3>1. m <= Newest(S) /\ m \in 1..MaxVersions
      BY <2>1, <2>3
    <3> QED BY <2>2, <2>3, <3>1
  <2> QED BY <2>4
<1> QED BY <1>1, <1>2

(* A version number that is a row's, and no row's is above, is the newest. *)
LEMMA NewestIs ==
    ASSUME NEW S \in SUBSET Numbers, NEW n \in S, \A m \in S : m <= n
    PROVE  Newest(S) = n
<1>1. Newest(S) \in S /\ \A m \in S : m <= Newest(S)
  BY NewestExists
<1>2. S \subseteq Nat
  BY LimitsAssumption DEF Numbers
<1>3. Newest(S) <= n /\ n <= Newest(S) /\ n \in Nat /\ Newest(S) \in Nat
  BY <1>1, <1>2
<1> QED BY <1>3

(* persist computes a number above every row's.                            *)
LEMMA WholeRead ==
    ASSUME TypeOK, Alone, Ongoing, Ongoing', Whole, NEW r \in Runs, Read(r)
    PROVE  Whole'
<1>1. pc[r] = "work" /\ ctx[r].stage = "persist" /\ Goto(r, "put")
  BY DEF Read, Ongoing, Purging
<1>2. ctx' = [ctx EXCEPT ![r].n = NextVersion(Taken), ![r].keep = edited]
  BY DEF Read, Ongoing, Purging
<1>3. UNCHANGED <<raw, req, rows, fixed, copies, index, status>>
  BY DEF Read, metaVars, storeVars, fileVars
<1>4. /\ \A q \in Runs \ {r} : ctx'[q] = ctx[q]
      /\ ctx'[r].stage = ctx[r].stage /\ ctx'[r].ok = ctx[r].ok
      /\ ctx'[r].n = NextVersion(Taken)
  BY <1>2, Contexts DEF RunContexts
<1>5. pc[r] \in HeldLabels \ {"copy"} /\ pc'[r] = "put" /\ pc[r] \in Working
  BY <1>1, RequestsStay DEF HeldLabels, Working
<1>6. Taken' = Taken
  BY <1>3 DEF Taken
<1>7. RunWhole(r)'
  <2>1. \A m \in Taken' : m < ctx'[r].n
    BY <1>4, <1>6, Contexts, NextVersionIsAbove
  <2> QED BY <1>3, <1>4, <1>5, <2>1 DEF Whole, RunWhole
<1>8. CopiesWhole'
  BY <1>1, <1>3, <1>4, <1>5, CopiesStay
<1>9. status' # "READY"
  BY <1>1, <1>3, <1>4, <1>5, OthersWhole DEF InFlight
<1> QED BY <1>1, <1>3, <1>4, <1>5, <1>7, <1>8, <1>9, WholeHolder

(* The row is stored; its files are still to copy.                         *)
LEMMA WholePut ==
    ASSUME TypeOK, Alone, Ongoing, Whole, NEW r \in Runs, Put(r)
    PROVE  Whole'
<1>1. pc[r] = "put" /\ ctx[r].n \in Numbers /\ ctx[r].stage = "persist"
  BY DEF Put, TypeOK, ProcTypes, Carries
<1>2. \A m \in Taken : m < ctx[r].n
  BY <1>1 DEF Whole, RunWhole
<1>3. ctx[r].n \in Nat
  BY <1>1, LimitsAssumption DEF Numbers
<1>4. ctx[r].n \notin Taken
  <2>1. ~ (ctx[r].n < ctx[r].n)
    BY <1>3
  <2> QED BY <1>2, <2>1
<1>5. rows[ctx[r].n] = None
  BY <1>1, <1>4 DEF Taken
<1>6. /\ rows' = [rows EXCEPT ![ctx[r].n] = r]
      /\ ctx' = [ctx EXCEPT ![r].left = Artefacts]
      /\ Goto(r, "copy")
  BY <1>5 DEF Put, Claims
<1>7. UNCHANGED <<raw, req, fixed, copies, index, status>>
  BY DEF Put, metaVars, fileVars
<1>8. /\ \A q \in Runs \ {r} : ctx'[q] = ctx[q]
      /\ ctx'[r].stage = ctx[r].stage /\ ctx'[r].ok = ctx[r].ok /\ ctx'[r].n = ctx[r].n
      /\ ctx'[r].left = Artefacts
  BY <1>6, Contexts DEF RunContexts
<1>9. pc[r] \in HeldLabels /\ pc[r] \in Working /\ pc'[r] = "copy"
  BY <1>1, <1>6, RequestsStay DEF HeldLabels, Working
<1>10. /\ Taken' = Taken \cup {ctx[r].n} /\ rows'[ctx[r].n] = r
       /\ \A m \in Taken : rows'[m] = rows[m]
  BY <1>1, <1>4, <1>6, Contexts, ProcsAssumption DEF Taken
<1>11. RunWhole(r)'
  <2>1. \A m \in Taken' : m <= ctx[r].n
    <3>1. Taken \subseteq Nat
      BY Contexts, LimitsAssumption DEF Numbers
    <3> QED BY <1>2, <1>3, <1>10, <3>1
  <2> QED BY <1>7, <1>8, <1>9, <1>10, <2>1 DEF Whole, RunWhole, Working
<1>12. CopiesWhole'
  <2>1. \A q \in Runs : pc[q] # "copy"
    BY <1>1, <1>6, <1>8, <1>9, OthersWhole DEF HeldLabels
  <2>2. \A m \in Taken, k \in Artefacts : copies'[m][k] = rows'[m]
    BY <1>7, <1>10, <2>1 DEF Whole, CopiesWhole
  <2> QED BY <1>8, <1>9, <1>10, <2>2 DEF CopiesWhole
<1>13. status' # "READY"
  BY <1>6, <1>7, <1>8, <1>9, OthersWhole DEF InFlight
<1> QED BY <1>6, <1>7, <1>8, <1>9, <1>11, <1>12, <1>13, WholeHolder

(* A file is copied: it is the run's own.                                  *)
LEMMA WholeCopy ==
    ASSUME TypeOK, Alone, Ongoing, Whole, Faults \cap Breaking = {}, NEW r \in Runs, Copy(r)
    PROVE  Whole'
<1>1. /\ pc[r] = "copy" /\ ctx[r].n \in Numbers /\ ctx[r].stage = "persist"
      /\ ctx[r].left \subseteq Artefacts
  BY DEF Copy, TypeOK, ProcTypes, Carries, RunContexts
<1>2. PICK k \in ctx[r].left :
        /\ ctx' = [ctx EXCEPT ![r].left = @ \ {k}]
        /\ copies' = [copies EXCEPT ![ctx[r].n][k] = IF fixed[k] = None THEN @ ELSE fixed[k]]
        /\ pc' = [pc EXCEPT ![r] = IF ctx[r].left = {k} THEN "save" ELSE "copy"]
  BY DEF Copy, Fault, Breaking
<1>3. UNCHANGED <<raw, req, rows, fixed, index, status>>
  BY DEF Copy, metaVars
<1>4. /\ \A q \in Runs \ {r} : ctx'[q] = ctx[q]
      /\ ctx'[r].stage = ctx[r].stage /\ ctx'[r].ok = ctx[r].ok /\ ctx'[r].n = ctx[r].n
      /\ ctx'[r].left = ctx[r].left \ {k}
  BY <1>2, Contexts DEF RunContexts
<1>5. PICK l \in {"copy", "save"} : l = IF ctx[r].left = {k} THEN "save" ELSE "copy"
  OBVIOUS
<1>6. Goto(r, l) /\ pc'[r] = l /\ pc[r] \in HeldLabels
  BY <1>1, <1>2, <1>5, RequestsStay DEF Goto, HeldLabels
<1>7. /\ \A j \in Artefacts : fixed[j] = r
      /\ rows[ctx[r].n] = r /\ \A m \in Taken : m <= ctx[r].n
      /\ ctx[r].ok => index = {r}
  BY <1>1, NamesAssumption DEF Whole, RunWhole, Working, Before
<1>8. Taken' = Taken
  BY <1>3 DEF Taken
<1>9. RunWhole(r)'
  BY <1>1, <1>3, <1>4, <1>6, <1>7, <1>8 DEF RunWhole
<1>10. \A q \in Runs \ {r} : pc[q] # "copy"
  BY <1>4, <1>6, OthersWhole DEF HeldLabels
<1>11. CopiesWhole'
  <2> SUFFICES ASSUME NEW m \in Taken, NEW j \in Artefacts
               PROVE  copies'[m][j] = rows[m] \/ (l = "copy" /\ ctx[r].n = m /\ j \in ctx[r].left \ {k})
    BY <1>3, <1>4, <1>6, <1>8 DEF CopiesWhole
  <2>1. copies[m][j] = rows[m] \/ (ctx[r].n = m /\ j \in ctx[r].left)
    BY <1>10 DEF Whole, CopiesWhole
  <2>2. copies \in [Numbers -> [Artefacts -> Runs \cup {None}]]
    BY DEF TypeOK, StoreTypes
  <2>3. CASE m = ctx[r].n /\ j = k
    <3>1. fixed[k] = r /\ r # None
      BY <1>7, <2>3, ProcsAssumption
    <3>2. copies'[m][k] = r
      BY <1>1, <1>2, <2>2, <2>3, <3>1
    <3> QED BY <1>7, <2>3, <3>2
  <2>4. CASE m # ctx[r].n \/ j # k
    <3>1. copies'[m][j] = copies[m][j]
      BY <1>1, <1>2, <2>2, <2>4, Contexts
    <3>2. ctx[r].n = m /\ j \in ctx[r].left => l = "copy" /\ j \in ctx[r].left \ {k}
      BY <1>5, <2>4
    <3> QED BY <2>1, <3>1, <3>2
  <2> QED BY <2>3, <2>4
<1>12. status' # "READY"
  BY <1>3, <1>4, <1>6, OthersWhole DEF InFlight
<1> QED BY <1>3, <1>4, <1>6, <1>9, <1>11, <1>12, WholeHolder

(* META gets the analysis: all of it is the run's.                         *)
LEMMA WholeSave ==
    ASSUME TypeOK, Alone, Ongoing, Whole, NEW r \in Runs, Save(r)
    PROVE  Whole'
<1>1. pc[r] = "save" /\ ctx[r].n \in Numbers /\ ctx[r].stage = "persist" /\ exists
  BY DEF Save, TypeOK, ProcTypes, Carries, Ongoing, Purging
<1>2. /\ latest' = ctx[r].n /\ searchable' = ctx[r].ok
      /\ Goto(r, "reply") /\ UNCHANGED ctx
  BY <1>1 DEF Save, Searchable
<1>3. UNCHANGED <<raw, req, rows, fixed, copies, index>>
  BY DEF Save
<1>4. /\ \A j \in Artefacts : fixed[j] = r
      /\ rows[ctx[r].n] = r /\ \A m \in Taken : m <= ctx[r].n
      /\ ctx[r].ok => index = {r}
  BY <1>1, NamesAssumption DEF Whole, RunWhole, Working, Before
<1>5. pc[r] \in HeldLabels \ {"copy"} /\ pc'[r] = "reply"
  BY <1>1, <1>2, RequestsStay DEF HeldLabels
<1>6. Taken' = Taken /\ ctx[r].n \in Taken
  BY <1>1, <1>3, <1>4, ProcsAssumption DEF Taken
<1>7. Serving'
  <2>1. Newest(Taken) = ctx[r].n
    BY <1>4, <1>6, Contexts, NewestIs
  <2> QED BY <1>2, <1>3, <1>4, <1>6, <2>1 DEF Serving, AllOf
<1>8. RunWhole(r)'
  BY <1>5 DEF RunWhole, Working
<1>9. CopiesWhole'
  BY <1>2, <1>3, <1>5, CopiesStay
<1>10. /\ \A q \in Runs \ {r} : RunWhole(q)'
       /\ \A c \in Callers : ~DeletesVersion(c)
  BY <1>2, <1>5, OthersWhole
<1> QED BY <1>2, <1>3, <1>7, <1>8, <1>9, <1>10, WholeRun

(* The state machine takes the result.                                     *)
LEMMA WholeReply ==
    ASSUME TypeOK, Whole, NEW r \in Runs, Reply(r)
    PROVE  Whole'
<1>1. Goto(r, "done") /\ pc[r] = "reply" /\ ctx' = [ctx EXCEPT ![r] = NoRun]
  BY DEF Reply, End
<1>2. UNCHANGED <<raw, req, rows, fixed, copies, index, status, latest, searchable>>
  BY DEF Reply, metaVars, storeVars, fileVars
<1>3. \A q \in Runs \ {r} : ctx'[q] = ctx[q] /\ pc'[q] = pc[q]
  BY <1>1, Contexts, RequestsStay
<1>4. pc'[r] = "done"
  BY <1>1, RequestsStay
<1>5. Taken' = Taken
  BY <1>2 DEF Taken
<1>6. RunWhole(r)'
  BY <1>4 DEF RunWhole, Working
<1>7. \A q \in Runs \ {r} : RunWhole(q)'
  BY <1>2, <1>3, <1>5 DEF Whole, RunWhole
<1>8. CopiesWhole'
  BY <1>1, <1>2, <1>3, <1>5 DEF Whole, CopiesWhole
<1>9. \A c \in Callers : ~DeletesVersion(c)
  BY <1>1, NotUnderRun DEF Active, Whole
<1>10. status' = "READY" => Serving'
  BY <1>2, <1>5, <1>9 DEF Whole, Delivered, Serving, AllOf
<1> QED BY <1>1, <1>2, <1>6, <1>7, <1>8, <1>9, <1>10, WholeRun

(* An event starts a run: nobody held the document.                        *)
LEMMA WholeStart ==
    ASSUME TypeOK, Alone, Ongoing, Ongoing', Whole, NEW r \in Runs, Start(r)
    PROVE  Whole'
<1>1. /\ Goto(r, "begin") /\ pc[r] = "idle" /\ events > 0 /\ UNCHANGED ctx
      /\ \A c \in Callers : ~DeletesVersion(c)
  BY DEF Start, Ongoing
<1>2. UNCHANGED <<raw, req, rows, fixed, copies, index, status>>
  BY DEF Start, metaVars, storeVars, fileVars
<1>3. events = 1 /\ Holders = {} /\ status \in InFlight
  BY <1>1 DEF Alone, Ongoing, Purging, TypeOK, CounterTypes
<1>4. \A q \in Runs : pc[q] \notin HeldLabels
  BY <1>3, HoldersByLabel
<1>5. pc'[r] = "begin" /\ \A q \in Runs \ {r} : pc'[q] = pc[q]
  BY <1>1, RequestsStay
<1>6. RunWhole(r)'
  BY <1>1, <1>5 DEF Whole, RunWhole, Before
<1>7. \A q \in Runs \ {r} : RunWhole(q)'
  BY <1>1, <1>4, <1>5 DEF Whole, RunWhole, HeldLabels, Working
<1>8. CopiesWhole'
  <2>1. \A q \in Runs : pc[q] # "copy"
    BY <1>4 DEF HeldLabels
  <2>2. Taken' = Taken
    BY <1>2 DEF Taken
  <2> QED BY <1>2, <2>1, <2>2 DEF Whole, CopiesWhole
<1>9. status' # "READY"
  BY <1>2, <1>3 DEF InFlight
<1> QED BY <1>1, <1>2, <1>6, <1>7, <1>8, <1>9, WholeRun

(* Every step of a run.                                                    *)
LEMMA WholeOfRun ==
    ASSUME TypeOK, Alone, Ongoing, Ongoing', Whole, Faults \cap Breaking = {},
           NEW r \in Runs, Start(r) \/ GoOn(r) \/ Raise(r) \/ Crash(r) \/ Again(r)
    PROVE  Whole'
<1>1. ~Release(r) /\ ~Crash(r) /\ ~Again(r)
  BY DEF Release, Crash, Again, Fault, Breaking, Whole, RunWhole
<1> QED BY <1>1, WholeStart, WholeBegin, WholeWork, WholeEmbed, WholeRead, WholePut, WholeCopy,
           WholeSave, WholeReply, WholeFail, WholeMark, WholeRaise DEF GoOn
-----------------------------------------------------------------------------
(* Steps of requests.                                                      *)

VersionLabels == {"drop_row", "look", "restore", "roll"}

(* A step that touches no store leaves the runs whole.                     *)
LEMMA RunsWholeStay ==
    ASSUME Whole, \A r \in Runs : pc'[r] = pc[r],
           UNCHANGED <<ctx, rows, fixed, copies, index>>
    PROVE  /\ \A r \in Runs : RunWhole(r)'
           /\ CopiesWhole'
           /\ Taken' = Taken
<1>1. Taken' = Taken
  BY DEF Taken
<1>2. \A r \in Runs : RunWhole(r)'
  BY <1>1 DEF Whole, RunWhole
<1>3. CopiesWhole'
  BY <1>1 DEF Whole, CopiesWhole
<1> QED BY <1>1, <1>2, <1>3

(* A request that neither deletes a version nor makes the document READY.  *)
LEMMA WholeAside ==
    ASSUME TypeOK, Whole, NEW c \in Callers, pc[c] \notin VersionLabels,
           NEW l, l \notin VersionLabels \cup {"unclaim"}, Goto(c, l),
           UNCHANGED <<raw, ctx, rows, fixed, copies, index, latest, searchable>>,
           status' = "READY" => status = "READY",
           \A d \in Callers \ {c} : req'[d] = req[d],
           l = "idle" => req'[c].left = {} /\ ~req'[c].ok
    PROVE  Whole'
<1>1. /\ \A r \in Runs : pc'[r] = pc[r]
      /\ \A d \in Callers \ {c} : pc'[d] = pc[d]
      /\ pc'[c] = l
  BY RunsStay
<1>2. \A r \in Runs : RunWhole(r)'
  BY <1>1, RunsWholeStay
<1>3. CopiesWhole' /\ Taken' = Taken
  BY <1>1, RunsWholeStay
<1>4. \A d \in Callers : DeletesVersion(d)' <=> DeletesVersion(d)
  BY <1>1 DEF DeletesVersion, VersionLabels
<1>5. OneDelete'
  BY <1>1, <1>4 DEF Whole, OneDelete, Active
<1>6. Serving => Serving'
  BY <1>3 DEF Serving, AllOf
<1>7. ASSUME NEW d \in Callers \ {c}
      PROVE  Deleting(d)'
  <2>1. pc'[d] = pc[d] /\ req'[d] = req[d]
    BY <1>1
  <2>2. Deleting(d)
    BY DEF Whole
  <2>3. pc[d] = "drop_row" => AtDropRow(req[d])'
    BY <1>6, <2>1, <2>2 DEF Deleting, AtDropRow, Taken
  <2>4. pc[d] = "look" => AtLook(req[d])'
    <3>1. AllOf(req[d].run) => AllOf(req[d].run)'
      BY <2>1 DEF AllOf
    <3> QED BY <1>3, <1>6, <2>1, <2>2, <3>1 DEF Deleting, AtLook
  <2>5. pc[d] = "restore" => AtRestore(req[d])'
    BY <1>3, <2>1, <2>2 DEF Deleting, AtRestore, LooksAt
  <2>6. pc[d] = "roll" => AtRoll(req[d])'
    BY <1>3, <2>1, <2>2 DEF Deleting, AtRoll, LooksAt
  <2> QED BY <2>1, <2>2, <2>3, <2>4, <2>5, <2>6 DEF Deleting
<1>8. Deleting(c)'
  BY <1>1 DEF Deleting, VersionLabels
<1>9. Delivered'
  BY <1>4, <1>6 DEF Whole, Delivered
<1>10. raw' /\ \A d \in Callers : pc'[d] # "unclaim"
  BY <1>1 DEF Whole
<1> QED BY <1>2, <1>3, <1>5, <1>7, <1>8, <1>9, <1>10 DEF Whole

(* A request is what it is typed to be, and a finished one is forgotten.   *)
LEMMA RequestTypes ==
    ASSUME TypeOK
    PROVE  /\ req \in [Callers -> Requests]
           /\ NoRequest.left = {} /\ ~NoRequest.ok
BY DEF TypeOK, ProcTypes, NoRequest

(* Requests that re-analyze, or are about to delete the document.          *)
LEMMA WholeAsk ==
    ASSUME TypeOK, Ongoing, Ongoing', Whole, Faults \cap Breaking = {}, NEW c \in Callers,
           \/ Reprocess(c) \/ Claim(c) \/ CopyRaw(c) \/ DeleteDocument(c) \/ Stop(c)
    PROVE  Whole'
<1>1. UNCHANGED <<raw, ctx, rows, fixed, copies, index, latest, searchable>>
  BY DEF Reprocess, Claim, CopyRaw, DeleteDocument, Stop, metaVars, storeVars, fileVars
<1>2. status' = "READY" => status = "READY"
  BY DEF Reprocess, Claim, CopyRaw, DeleteDocument, Stop, metaVars, SetStatus
<1>3. \A d \in Callers \ {c} : req'[d] = req[d]
  BY RequestTypes DEF Reprocess, Claim, CopyRaw, DeleteDocument, Stop, Finish
<1>4. pc[c] \notin VersionLabels
  BY DEF Reprocess, Claim, CopyRaw, DeleteDocument, Stop, VersionLabels, DeletesVersion, Ongoing
<1>5. PICK l \in {"idle", "claim", "copy_raw", "purge"} :
          Goto(c, l) /\ (l = "idle" => req' = [req EXCEPT ![c] = NoRequest])
  BY DEF Reprocess, Claim, CopyRaw, DeleteDocument, Stop, Finish, Fault, Breaking, Whole,
         Ongoing
<1>6. l = "idle" => req'[c].left = {} /\ ~req'[c].ok
  BY <1>5, RequestTypes
<1> QED BY <1>1, <1>2, <1>3, <1>4, <1>5, <1>6, WholeAside DEF VersionLabels

(* Steps of nobody.                                                        *)
LEMMA WholeStill ==
    ASSUME Ongoing', Whole, Edit \/ UploadAgain \/ GoQuiet \/ UNCHANGED vars
    PROVE  Whole'
<1>1. UNCHANGED <<raw, ctx, req, pc, rows, fixed, copies, index, latest, searchable, status>>
  BY DEF Edit, UploadAgain, GoQuiet, vars, metaVars, storeVars, fileVars, Ongoing
<1>2. /\ \A r \in Runs : RunWhole(r)'
      /\ CopiesWhole' /\ Taken' = Taken
  BY <1>1, RunsWholeStay
<1>3. \A d \in Callers : DeletesVersion(d)' <=> DeletesVersion(d)
  BY <1>1 DEF DeletesVersion
<1>4. OneDelete'
  BY <1>1, <1>3 DEF Whole, OneDelete, Active
<1>5. Serving' <=> Serving
  BY <1>1, <1>2 DEF Serving, AllOf
<1>6. ASSUME NEW d \in Callers
      PROVE  Deleting(d)'
  <2>1. Deleting(d)
    BY DEF Whole
  <2>2. AllOf(req[d].run)' <=> AllOf(req[d].run)
    BY <1>1 DEF AllOf
  <2>3. AtDropRow(req[d]) => AtDropRow(req[d])'
    BY <1>1, <1>2, <1>5 DEF AtDropRow
  <2>4. AtLook(req[d]) => AtLook(req[d])'
    BY <1>1, <1>2, <1>5, <2>2 DEF AtLook
  <2>5. AtRestore(req[d]) => AtRestore(req[d])'
    BY <1>1, <1>2 DEF AtRestore, LooksAt
  <2>6. AtRoll(req[d]) => AtRoll(req[d])'
    BY <1>1, <1>2 DEF AtRoll, LooksAt
  <2> QED BY <1>1, <2>1, <2>3, <2>4, <2>5, <2>6 DEF Deleting
<1>7. Delivered'
  BY <1>1, <1>3, <1>5 DEF Whole, Delivered
<1> QED BY <1>1, <1>2, <1>4, <1>6, <1>7 DEF Whole

(* A step of the one request that deletes a version: there are no runs.    *)
LEMMA WholeDeleting ==
    ASSUME TypeOK, Whole, NEW c \in Callers,
           \A r \in Runs : ~Active(r),
           \A d \in Callers \ {c} : ~DeletesVersion(d),
           pc' \in [Runs \cup Callers -> RunLabels \cup CallerLabels],
           \A p \in (Runs \cup Callers) \ {c} : pc'[p] = pc[p],
           pc'[c] \in VersionLabels \cup {"idle"},
           UNCHANGED <<raw, ctx>>, \A d \in Callers \ {c} : req'[d] = req[d],
           Taken' \subseteq Taken,
           \A n \in Taken' : rows'[n] = rows[n] /\ copies'[n] = copies[n],
           Deleting(c)', pc'[c] = "idle" /\ status' = "READY" => Serving'
    PROVE  Whole'
<1>1. \A r \in Runs : pc'[r] = pc[r] /\ pc[r] \in {"idle", "done"}
  BY ProcsAssumption DEF Active
<1>2. \A r \in Runs : RunWhole(r)'
  BY <1>1 DEF Whole, RunWhole, Working
<1>3. CopiesWhole'
  <2>1. ASSUME NEW n \in Taken', NEW k \in Artefacts
        PROVE  copies'[n][k] = rows'[n]
    <3>1. copies[n][k] = rows[n]
      BY <1>1, <2>1 DEF Whole, CopiesWhole
    <3> QED BY <2>1, <3>1
  <2> QED BY <2>1 DEF CopiesWhole
<1>4. \A d \in Callers \ {c} : pc'[d] = pc[d] /\ ~DeletesVersion(d)'
  BY DEF DeletesVersion
<1>5. OneDelete'
  BY <1>1, <1>4 DEF OneDelete, Active
<1>6. ASSUME NEW d \in Callers \ {c}
      PROVE  Deleting(d)'
  <2>1. pc[d] = "idle" => req[d].left = {} /\ ~req[d].ok
    BY DEF Whole, Deleting
  <2> QED BY <1>4, <2>1 DEF Deleting, DeletesVersion
<1>7. Delivered'
  BY DEF Delivered, DeletesVersion, VersionLabels
<1>8. raw' /\ \A d \in Callers : pc'[d] # "unclaim"
  BY <1>4 DEF Whole, VersionLabels
<1> QED BY <1>2, <1>3, <1>5, <1>6, <1>7, <1>8 DEF Whole

(* A request that deletes a version is alone.                              *)
LEMMA DeletesAlone ==
    ASSUME TypeOK, Whole, NEW c \in Callers, pc[c] \in VersionLabels
    PROVE  /\ \A r \in Runs : ~Active(r)
           /\ \A d \in Callers \ {c} : ~DeletesVersion(d)
           /\ req[c].n \in Numbers /\ req[c].run \in Runs /\ req[c].left \subseteq Artefacts
           /\ pc[c] \in {"restore", "roll"} => req[c].from \in Numbers /\ req[c].other \in Runs
           /\ \A n \in Taken : \A k \in Artefacts : copies[n][k] = rows[n]
<1>1. DeletesVersion(c)
  BY DEF DeletesVersion, VersionLabels
<1>2. /\ \A r \in Runs : ~Active(r)
      /\ \A d \in Callers \ {c} : ~DeletesVersion(d)
  BY <1>1 DEF Whole, OneDelete
<1>3. /\ req[c].n \in Numbers /\ req[c].run \in Runs /\ req[c].left \subseteq Artefacts
      /\ pc[c] \in {"restore", "roll"} => req[c].from \in Numbers /\ req[c].other \in Runs
  BY DEF TypeOK, ProcTypes, GoesBy, VersionLabels, Requests
<1>4. \A n \in Taken : \A k \in Artefacts : copies[n][k] = rows[n]
  BY <1>2 DEF Whole, CopiesWhole, Active
<1> QED BY <1>2, <1>3, <1>4

(* DELETE of a version that is not the only one.                           *)
LEMMA WholeDeleteVersion ==
    ASSUME TypeOK, Ongoing', Whole, NEW c \in Callers, NEW n \in Numbers, DeleteVersion(c, n)
    PROVE  Whole'
<1>1. UNCHANGED <<raw, ctx, rows, fixed, copies, index, latest, searchable, status>>
  BY DEF DeleteVersion, metaVars, storeVars, fileVars
<1>2. pc[c] = "idle" /\ n \in Taken /\ rows[n] # None
  BY DEF DeleteVersion, Taken
<1>3. CASE Taken = {n}
  <2>1. Goto(c, "purge") /\ UNCHANGED req
    BY <1>3 DEF DeleteVersion
  <2> QED BY <1>1, <1>2, <2>1, WholeAside DEF VersionLabels
<1>4. CASE Taken # {n}
  <2>1. /\ Goto(c, "drop_row")
        /\ req' = [req EXCEPT ![c].n = n, ![c].run = rows[n]]
        /\ \A r \in Runs : ~Active(r)
        /\ \A d \in Callers : ~DeletesVersion(d)
    <3>1. /\ Goto(c, "drop_row")
          /\ req' = [req EXCEPT ![c].n = n, ![c].run = rows[n]]
          /\ crossed' = (crossed \/ (\E r \in Runs : Active(r))
                                 \/ (\E d \in Callers : DeletesVersion(d)))
      BY <1>4 DEF DeleteVersion
    <3> QED BY <3>1 DEF Ongoing
  <2>2. /\ pc'[c] = "drop_row" /\ \A p \in (Runs \cup Callers) \ {c} : pc'[p] = pc[p]
        /\ pc' \in [Runs \cup Callers -> RunLabels \cup CallerLabels]
    BY <2>1 DEF Goto, TypeOK, ProcTypes, CallerLabels
  <2>3. /\ \A d \in Callers \ {c} : req'[d] = req[d]
        /\ req'[c].n = n /\ req'[c].run = rows[n]
        /\ req'[c].left = req[c].left /\ req'[c].ok = req[c].ok
    BY <2>1, RequestTypes DEF Requests
  <2>4. req[c].left = {} /\ ~req[c].ok
    BY <1>2 DEF Whole, Deleting
  <2>5. Taken' = Taken
    BY <1>1 DEF Taken
  <2>6. status' = "READY" => Serving'
    BY <1>1, <2>1, <2>5 DEF Whole, Delivered, Serving, AllOf
  <2>7. Deleting(c)'
    BY <1>1, <1>4, <2>2, <2>3, <2>4, <2>5, <2>6 DEF Deleting, AtDropRow
  <2> QED BY <1>1, <2>1, <2>2, <2>3, <2>5, <2>6, <2>7, WholeDeleting DEF VersionLabels
<1> QED BY <1>3, <1>4

(* A step of one request: the others stay where they are.                  *)
LEMMA OneMoves ==
    ASSUME TypeOK, NEW c \in Callers, NEW l \in CallerLabels, Goto(c, l)
    PROVE  /\ pc' \in [Runs \cup Callers -> RunLabels \cup CallerLabels]
           /\ \A p \in (Runs \cup Callers) \ {c} : pc'[p] = pc[p]
           /\ pc'[c] = l
BY DEF Goto, TypeOK, ProcTypes

(* Its row is removed: was it the newest?                                  *)
LEMMA WholeDropRow ==
    ASSUME TypeOK, Whole, NEW c \in Callers, DropRow(c)
    PROVE  Whole'
<1> DEFINE n == req[c].n
<1>1. pc[c] = "drop_row" /\ pc[c] \in VersionLabels
  BY DEF DropRow, VersionLabels
<1>2. AtDropRow(req[c]) /\ n \in Numbers /\ req[c].run \in Runs
  BY <1>1, DeletesAlone DEF Whole, Deleting
<1>3. /\ rows' = [rows EXCEPT ![n] = None]
      /\ UNCHANGED <<raw, ctx, req, fixed, copies, index, latest, searchable, status>>
      /\ Goto(c, "look")
  BY DEF DropRow, metaVars, fileVars
<1>4. /\ Taken' = Taken \ {n} /\ n \in Taken /\ rows'[n] = None
      /\ \A m \in Taken' : rows'[m] = rows[m]
  BY <1>2, <1>3, Contexts, ProcsAssumption DEF Taken, AtDropRow
<1>5. Taken' # {}
  BY <1>2, <1>4 DEF AtDropRow
<1>6. ASSUME status = "READY"
      PROVE  (IF Newest(Taken) < n THEN AllOf(req[c].run) ELSE Serving)'
  <2>1. Serving /\ rows[n] = req[c].run
    BY <1>2, <1>6 DEF AtDropRow
  <2>2. Taken \in SUBSET Numbers /\ Taken' \in SUBSET Numbers /\ Numbers \subseteq Nat
    BY <1>4, Contexts, LimitsAssumption DEF Numbers
  <2>3. /\ Newest(Taken) \in Taken /\ \A m \in Taken : m <= Newest(Taken)
        /\ Newest(Taken') \in Taken' /\ \A m \in Taken' : m <= Newest(Taken')
    BY <1>4, <1>5, <2>2, NewestExists
  <2>6. n \in Nat /\ Newest(Taken') \in Nat /\ \A m \in Taken : m \in Nat
    BY <1>2, <2>2, <2>3
  <2>4. CASE Newest(Taken') < n
    <3>1. \A m \in Taken : m <= n
      <4>1. ASSUME NEW m \in Taken, m # n
            PROVE  m <= n
        <5>1. m <= Newest(Taken')
          BY <1>4, <2>3, <4>1
        <5> QED BY <2>6, <2>4, <4>1, <5>1
      <4> QED BY <2>6, <4>1
    <3>2. Newest(Taken) = n
      BY <1>4, <2>2, <3>1, NewestIs
    <3>3. AllOf(req[c].run)
      BY <2>1, <3>2 DEF Serving
    <3>4. AllOf(req[c].run)'
      BY <1>3, <3>3 DEF AllOf
    <3> QED BY <1>3, <2>4, <3>4
  <2>5. CASE ~(Newest(Taken') < n)
    <3>1. n <= Newest(Taken')
      BY <2>6, <2>5
    <3>2. \A m \in Taken : m <= Newest(Taken')
      BY <1>4, <2>3, <3>1
    <3>3. Newest(Taken) = Newest(Taken')
      BY <1>4, <2>2, <2>3, <3>2, NewestIs
    <3>4. Serving'
      BY <1>3, <1>4, <1>5, <2>1, <2>3, <3>3 DEF Serving, AllOf
    <3> QED BY <1>3, <2>5, <3>4
  <2> QED BY <2>4, <2>5
<1>7. pc'[c] = "look"
  BY <1>3, OneMoves DEF CallerLabels
<1>8. AtLook(req[c])'
  BY <1>2, <1>3, <1>4, <1>5, <1>6 DEF AtLook, AtDropRow
<1>9. Deleting(c)'
  BY <1>7, <1>8 DEF Deleting
<1>10. /\ \A r \in Runs : ~Active(r)
       /\ \A d \in Callers \ {c} : ~DeletesVersion(d)
  BY <1>1, DeletesAlone
<1>11. /\ pc' \in [Runs \cup Callers -> RunLabels \cup CallerLabels]
       /\ \A p \in (Runs \cup Callers) \ {c} : pc'[p] = pc[p]
  BY <1>3, OneMoves DEF CallerLabels
<1> HIDE DEF n
<1> QED BY <1>3, <1>4, <1>7, <1>9, <1>10, <1>11, WholeDeleting DEF VersionLabels

(* The newest row left is looked up.                                       *)
LEMMA WholeLook ==
    ASSUME TypeOK, Whole, NEW c \in Callers, Look(c)
    PROVE  Whole'
<1>1. pc[c] = "look" /\ pc[c] \in VersionLabels
  BY DEF Look, VersionLabels
<1>2. AtLook(req[c]) /\ req[c].n \in Numbers
  BY <1>1, DeletesAlone DEF Whole, Deleting
<1>3. /\ Goto(c, "restore")
      /\ req' = [req EXCEPT ![c].from = Newest(Taken), ![c].other = rows[Newest(Taken)],
                            ![c].left = IF Newest(Taken) < req[c].n THEN Artefacts ELSE {}]
      /\ UNCHANGED <<raw, ctx, rows, fixed, copies, index, latest, searchable, status>>
  BY <1>2 DEF Look, AtLook, metaVars, storeVars, fileVars
<1>4. /\ \A d \in Callers \ {c} : req'[d] = req[d]
      /\ req'[c].n = req[c].n /\ req'[c].run = req[c].run /\ req'[c].ok = req[c].ok
      /\ req'[c].from = Newest(Taken) /\ req'[c].other = rows[Newest(Taken)]
      /\ req'[c].left = IF Newest(Taken) < req[c].n THEN Artefacts ELSE {}
  BY <1>3, RequestTypes DEF Requests
<1>5. Taken' = Taken
  BY <1>3 DEF Taken
<1>6. pc'[c] = "restore"
  BY <1>3, OneMoves DEF CallerLabels
<1>7. AtRestore(req[c])'
  <2>1. LooksAt(req[c])' /\ rows'[req'[c].n] = None
    BY <1>2, <1>3, <1>4, <1>5 DEF LooksAt, AtLook
  <2>2. ASSUME status = "READY"
        PROVE  /\ \A k \in Artefacts : k \notin req'[c].left => fixed[k] = req'[c].other
               /\ searchable => index = {IF req'[c].ok \/ req'[c].left # {}
                                        THEN req'[c].run ELSE req'[c].other}
    <3>1. CASE Newest(Taken) < req[c].n
      <4>1. AllOf(req[c].run) /\ req'[c].left = Artefacts
        BY <1>2, <1>4, <2>2, <3>1 DEF AtLook
      <4> QED BY <1>4, <4>1, FilesAssumption DEF AllOf
    <3>2. CASE ~(Newest(Taken) < req[c].n)
      <4>1. Serving /\ req'[c].left = {} /\ ~req'[c].ok
        BY <1>2, <1>4, <2>2, <3>2 DEF AtLook
      <4> QED BY <1>4, <4>1 DEF Serving, AllOf
    <3> QED BY <3>1, <3>2
  <2> QED BY <1>3, <2>1, <2>2 DEF AtRestore
<1>8. Deleting(c)'
  BY <1>6, <1>7 DEF Deleting
<1>9. /\ \A r \in Runs : ~Active(r)
      /\ \A d \in Callers \ {c} : ~DeletesVersion(d)
  BY <1>1, DeletesAlone
<1>10. /\ pc' \in [Runs \cup Callers -> RunLabels \cup CallerLabels]
       /\ \A p \in (Runs \cup Callers) \ {c} : pc'[p] = pc[p]
  BY <1>3, OneMoves DEF CallerLabels
<1> QED BY <1>3, <1>4, <1>5, <1>6, <1>8, <1>9, <1>10, WholeDeleting DEF VersionLabels

(* A file of it is restored.                                               *)
LEMMA WholeRestore ==
    ASSUME TypeOK, Whole, Faults \cap Breaking = {}, NEW c \in Callers, Restore(c)
    PROVE  Whole'
<1>1. pc[c] = "restore" /\ pc[c] \in VersionLabels
  BY DEF Restore, VersionLabels
<1>2. AtRestore(req[c])
  BY <1>1 DEF Whole, Deleting
<1>3. PICK k \in req[c].left :
        /\ fixed' = [fixed EXCEPT ![k] = Restored(c, k)]
        /\ req' = [req EXCEPT ![c].left = @ \ {k},
                              ![c].ok = @ \/ copies[req[c].from][k] # None]
  BY DEF Restore, Fault, Breaking
<1>4. UNCHANGED <<pc, raw, ctx, rows, copies, index, latest, searchable, status>>
  BY DEF Restore, metaVars
<1>5. /\ \A d \in Callers \ {c} : req'[d] = req[d]
      /\ req'[c].n = req[c].n /\ req'[c].run = req[c].run
      /\ req'[c].from = req[c].from /\ req'[c].other = req[c].other
      /\ req'[c].left = req[c].left \ {k}
  BY <1>3, RequestTypes DEF Requests
<1>6. Taken' = Taken
  BY <1>4 DEF Taken
<1>7. /\ req[c].from \in Taken /\ k \in Artefacts
      /\ copies[req[c].from][k] = req[c].other /\ req[c].other # None
  <2>1. req[c].from \in Taken
    BY <1>2, Contexts, NewestExists DEF AtRestore, LooksAt
  <2>2. req[c].other \in Runs /\ k \in Artefacts /\ copies[req[c].from][k] = rows[req[c].from]
    BY <1>1, <2>1, DeletesAlone
  <2> QED BY <1>2, <2>1, <2>2, ProcsAssumption DEF AtRestore, LooksAt
<1>8. req'[c].ok /\ Restored(c, k) = req[c].other
  <2>1. req'[c].ok = (req[c].ok \/ copies[req[c].from][k] # None)
    BY <1>3, RequestTypes DEF Requests
  <2> QED BY <1>7, <2>1 DEF Restored
<1>9. \A j \in Artefacts : fixed'[j] = IF j = k THEN req[c].other ELSE fixed[j]
  BY <1>3, <1>8 DEF TypeOK, StoreTypes
<1>10. AtRestore(req[c])'
  <2>1. LooksAt(req[c])' /\ rows'[req'[c].n] = None
    BY <1>2, <1>4, <1>5, <1>6 DEF AtRestore, LooksAt
  <2>2. status = "READY" =>
          /\ \A j \in Artefacts : j \notin req'[c].left => fixed'[j] = req'[c].other
          /\ searchable => index = {req'[c].run}
    BY <1>2, <1>5, <1>9 DEF AtRestore
  <2> QED BY <1>4, <1>8, <2>1, <2>2 DEF AtRestore
<1>11. Deleting(c)'
  BY <1>1, <1>4, <1>10 DEF Deleting
<1>12. /\ \A r \in Runs : ~Active(r)
       /\ \A d \in Callers \ {c} : ~DeletesVersion(d)
  BY <1>1, DeletesAlone
<1>13. pc' \in [Runs \cup Callers -> RunLabels \cup CallerLabels]
  BY <1>4 DEF TypeOK, ProcTypes
<1> QED BY <1>1, <1>4, <1>5, <1>6, <1>11, <1>12, <1>13, WholeDeleting DEF VersionLabels

(* The deleted run's records are removed, and its copies.                  *)
LEMMA WholeUnindex ==
    ASSUME TypeOK, Whole, Faults \cap Breaking = {}, NEW c \in Callers, Unindex(c)
    PROVE  Whole'
<1>1. pc[c] = "restore" /\ pc[c] \in VersionLabels /\ req[c].left = {}
  BY DEF Unindex, VersionLabels
<1>2. AtRestore(req[c]) /\ req[c].n \in Numbers
  BY <1>1, DeletesAlone DEF Whole, Deleting
<1>3. /\ index' = IF RemovesRecords(c) THEN index \ {req[c].run} ELSE index
      /\ req' = [req EXCEPT ![c].ok = RemovesRecords(c)]
      /\ copies' = [copies EXCEPT ![req[c].n] = NoFiles]
      /\ Goto(c, "roll")
      /\ UNCHANGED <<raw, ctx, rows, fixed, latest, searchable, status>>
  BY DEF Unindex, Fault, Breaking, metaVars
<1>4. /\ \A d \in Callers \ {c} : req'[d] = req[d]
      /\ req'[c].from = req[c].from /\ req'[c].other = req[c].other
  BY <1>3, RequestTypes DEF Requests
<1>5. req'[c].ok = RemovesRecords(c)
  BY <1>3, RequestTypes DEF Requests
<1>6. Taken' = Taken /\ req[c].n \notin Taken
  BY <1>2, <1>3 DEF Taken, AtRestore
<1>7. \A n \in Taken' : rows'[n] = rows[n] /\ copies'[n] = copies[n]
  BY <1>3, <1>6, Contexts DEF TypeOK, StoreTypes
<1>8. pc'[c] = "roll"
  BY <1>3, OneMoves DEF CallerLabels
<1>9. AtRoll(req[c])'
  <2>1. LooksAt(req[c])'
    BY <1>2, <1>3, <1>4, <1>6 DEF AtRestore, LooksAt
  <2>2. ASSUME status = "READY"
        PROVE  \A k \in Artefacts : fixed[k] = req[c].other
    BY <1>1, <1>2, <2>2 DEF AtRestore
  <2>3. ASSUME status = "READY", searchable, ~RemovesRecords(c)
        PROVE  index' = {req[c].other}
    <3>1. index' = index
      BY <1>3, <2>3
    <3>2. CASE req[c].ok
      <4>1. index = {req[c].run}
        BY <1>2, <2>3, <3>2 DEF AtRestore
      <4>2. req[c].run = req[c].other
        BY <2>3, <3>2, <4>1 DEF RemovesRecords
      <4> QED BY <3>1, <4>1, <4>2
    <3>3. CASE ~req[c].ok
      BY <1>1, <1>2, <2>3, <3>1, <3>3 DEF AtRestore
    <3> QED BY <3>2, <3>3
  <2> QED BY <1>3, <1>4, <1>5, <2>1, <2>2, <2>3 DEF AtRoll
<1>10. Deleting(c)'
  BY <1>8, <1>9 DEF Deleting
<1>11. /\ \A r \in Runs : ~Active(r)
       /\ \A d \in Callers \ {c} : ~DeletesVersion(d)
  BY <1>1, DeletesAlone
<1>12. /\ pc' \in [Runs \cup Callers -> RunLabels \cup CallerLabels]
       /\ \A p \in (Runs \cup Callers) \ {c} : pc'[p] = pc[p]
  BY <1>3, OneMoves DEF CallerLabels
<1> QED BY <1>3, <1>4, <1>6, <1>7, <1>8, <1>10, <1>11, <1>12, WholeDeleting DEF VersionLabels

(* META names it.                                                          *)
LEMMA WholeRoll ==
    ASSUME TypeOK, Ongoing, Whole, NEW c \in Callers, Roll(c)
    PROVE  Whole'
<1>1. pc[c] = "roll" /\ pc[c] \in VersionLabels
  BY DEF Roll, VersionLabels
<1>2. AtRoll(req[c])
  BY <1>1 DEF Whole, Deleting
<1>3. /\ latest' = req[c].from /\ searchable' = (searchable /\ ~req[c].ok)
      /\ Goto(c, "idle") /\ req' = [req EXCEPT ![c] = NoRequest]
      /\ UNCHANGED <<raw, ctx, rows, fixed, copies, index, status>>
  BY DEF Roll, Ongoing, Purging, Finish, storeVars, fileVars
<1>4. /\ \A d \in Callers \ {c} : req'[d] = req[d]
      /\ req'[c].left = {} /\ ~req'[c].ok
  BY <1>3, RequestTypes
<1>5. Taken' = Taken
  BY <1>3 DEF Taken
<1>6. pc'[c] = "idle"
  BY <1>3, OneMoves DEF CallerLabels
<1>7. status' = "READY" => Serving'
  BY <1>2, <1>3, <1>5 DEF AtRoll, LooksAt, Serving, AllOf
<1>8. Deleting(c)'
  BY <1>4, <1>6 DEF Deleting
<1>9. /\ \A r \in Runs : ~Active(r)
      /\ \A d \in Callers \ {c} : ~DeletesVersion(d)
  BY <1>1, DeletesAlone
<1>10. /\ pc' \in [Runs \cup Callers -> RunLabels \cup CallerLabels]
       /\ \A p \in (Runs \cup Callers) \ {c} : pc'[p] = pc[p]
  BY <1>3, OneMoves DEF CallerLabels
<1> QED BY <1>3, <1>4, <1>5, <1>6, <1>7, <1>8, <1>9, <1>10, WholeDeleting DEF VersionLabels
-----------------------------------------------------------------------------
(* Every step keeps it, or leaves what Served is about.                    *)
LEMMA WholeNext ==
    ASSUME TypeOK, Alone, Faults \cap Breaking = {}, Ongoing => Whole, [Next]_vars
    PROVE  Ongoing' => Whole'
<1> SUFFICES ASSUME Ongoing' PROVE Whole'
  OBVIOUS
<1>1. Ongoing /\ Whole
  BY OngoingBefore
<1>2. ASSUME NEW r \in Runs, Start(r) \/ GoOn(r) \/ Raise(r) \/ Crash(r) \/ Again(r)
      PROVE  Whole'
  BY <1>1, <1>2, WholeOfRun
<1>3. ASSUME NEW c \in Callers, Ask(c) \/ Serve(c) \/ Stop(c)
      PROVE  Whole'
  <2>1. ~Unclaim(c) /\ ~PurgeIndex(c) /\ ~List(c) /\ ~Remove(c)
    BY <1>1 DEF Unclaim, PurgeIndex, List, Remove, Whole, Ongoing, Purging, DeletesDocument
  <2>2. ~Purge(c)
    <3>1. Purge(c) => DeletesDocument(c)'
      BY RunsStay DEF Purge, DeletesDocument
    <3> QED BY <3>1 DEF Ongoing, Purging
  <2> QED BY <1>1, <1>3, <2>1, <2>2, WholeAsk, WholeDeleteVersion, WholeDropRow, WholeLook,
             WholeRestore, WholeUnindex, WholeRoll DEF Ask, Serve
<1>4. CASE Edit \/ UploadAgain \/ GoQuiet \/ UNCHANGED vars
  BY <1>1, <1>4, WholeStill
<1> QED BY <1>2, <1>3, <1>4 DEF Next

(* At first nothing is served.                                             *)
LEMMA WholeInit == Init => Whole
<1> SUFFICES ASSUME Init PROVE Whole
  OBVIOUS
<1>1. /\ raw /\ (\A c \in Callers : pc[c] = "idle") /\ (\A r \in Runs : pc[r] = "idle")
      /\ \A r \in Runs : ctx[r] = NoRun
      /\ \A c \in Callers : req[c] = NoRequest
      /\ Taken = {} /\ status = "PENDING"
  BY DEF Init, Taken
<1>2. \A r \in Runs : RunWhole(r)
  BY <1>1 DEF RunWhole, Working, NoRun
<1>3. CopiesWhole /\ OneDelete /\ Delivered
  BY <1>1 DEF CopiesWhole, OneDelete, DeletesVersion, Delivered
<1>4. \A c \in Callers : Deleting(c)
  BY <1>1 DEF Deleting, NoRequest
<1> QED BY <1>1, <1>2, <1>3, <1>4 DEF Whole

(* Whatever the runs, the requests and the faults that leave every version *)
(* complete: what a READY document serves is of one run (persist.py; the   *)
(* copies and the roll-back of shared/dynamodb.py, delete_doc_version).    *)
THEOREM OneAnalysisIsServed ==
    ASSUME Faults \cap Breaking = {}
    PROVE  Safe => []Served
<1>1. Init => (Ongoing => Whole)
  BY WholeInit
<1>2. TypeOK /\ TypeOK' /\ Alone /\ [Next]_vars => Alone'
  BY AloneNext
<1>3. TypeOK /\ Alone /\ (Ongoing => Whole) /\ [Next]_vars => (Ongoing => Whole)'
  BY WholeNext
<1>4. (Ongoing => Whole) => Served
  <2> SUFFICES ASSUME Settled, Ongoing => Whole
               PROVE  /\ Taken # {} /\ latest = Newest(Taken)
                      /\ \A k \in Artefacts : fixed[k] = rows[latest]
                      /\ searchable => rows[latest] \in index
                      /\ searchable /\ "search" \notin Faults => index = {rows[latest]}
    BY DEF Served
  <2>1. Ongoing
    BY DEF Settled, Ongoing, Purging
  <2>2. Serving
    BY <2>1 DEF Settled, Whole, Delivered
  <2> QED BY <2>2 DEF Serving, AllOf
<1> QED BY TypeCorrect, AloneInit, <1>1, <1>2, <1>3, <1>4, PTL DEF Safe
=============================================================================
