------------------------ MODULE ScheduleTriggerProofs ------------------------
(***************************************************************************)
(* Proofs about ScheduleTrigger, for any number of repositories, schedulers *)
(* and clients, any score ranges and any batch size: the type invariant,    *)
(* that nothing recorded while a schedule was off is evaluated, that a      *)
(* match triggers once, and that an evaluation is made under the schedule   *)
(* in force.                                                                *)
(*                                                                         *)
(* The reason is the row lock.  From the moment a scheduler takes a row     *)
(* into its batch until it commits, it holds the schedule of that row, so   *)
(* no request can change it; what was eligible when the row was re-checked  *)
(* is eligible at the commit.  And a request that enables a schedule stores *)
(* the start of its own transaction, which is later than every event that   *)
(* was recorded while no such request existed.                              *)
(***************************************************************************)
EXTENDS ScheduleTrigger, FiniteSetTheorems, TLAPS

-----------------------------------------------------------------------------
(* The inductive invariant.                                                *)

Request == [stage : {"select", "insert", "locked"}, repo : Repository,
            enabled : BOOLEAN, range : ScoreRange, at : 1 .. MaxClock]

Tick == [stage : {"idle", "scan", "down"}, pending : SUBSET Event,
         batch : SUBSET Evaluation]

TypeInv ==
  /\ clock \in Time
  /\ schedule \in [Repository -> Schedule]
  /\ lock \in [Repository -> Scheduler \cup Client \cup {NoOne}]
  /\ arriving \subseteq Event /\ events \subseteq Event
  /\ idle \subseteq Event /\ jobs \subseteq Event
  /\ request \in [Client -> {NoRequest} \cup Request]
  /\ tick \in [Scheduler -> Tick]
  /\ evaluations \subseteq Evaluation

\* Every recorded time is in the past.
TimeInv == \A e \in arriving \cup events \cup idle : e.at <= clock

\* A request that has reached the row holds its lock.
RequestInv ==
  \A c \in Client : request[c].stage = "locked" => lock[request[c].repo] = c

\* What a scheduler has taken into its batch holds under the schedule it locks.
Holds(s, v) ==
  /\ v.event \in events /\ v.event \notin tick[s].pending
  /\ lock[v.event.repo] = s
  /\ Eligible(schedule[v.event.repo], v.event)
  /\ v.range = schedule[v.event.repo].range

Once(S) == \A u, v \in S : u.event = v.event => u = v

TickInv ==
  \A s \in Scheduler :
    /\ IsFiniteSet(tick[s].batch) /\ Cardinality(tick[s].batch) <= BatchSize
    /\ tick[s].pending \subseteq events
    /\ \A v \in tick[s].batch : Holds(s, v)
    /\ Once(tick[s].batch)

\* No schedule, present or requested, covers an event of an idle period.
IdleInv ==
  \A e \in idle :
    /\ ~Eligible(schedule[e.repo], e)
    /\ \A c \in Client :
         request[c] # NoRequest /\ request[c].repo = e.repo =>
           e.at < request[c].at

\* The evaluated events are visible, none is of an idle period, and each has
\* one evaluation and a job exactly if it matched.
EvaluationInv ==
  /\ Evaluated \subseteq events
  /\ NothingReplayed
  /\ OneTriggerPerMatch

IInv ==
  /\ TypeInv /\ TimeInv /\ RequestInv /\ TickInv /\ IdleInv /\ EvaluationInv

-----------------------------------------------------------------------------
(* Types.                                                                  *)

\* The records of the initial and of the resting states are of their types.
LEMMA RestingTypes ==
  /\ NoTick \in Tick /\ DownTick \in Tick
  /\ NoTick.batch = {} /\ NoTick.pending = {} /\ DownTick.batch = {} /\ DownTick.pending = {}
  /\ NoRequest \notin Request /\ NoRequest.stage = "none"
  BY DEF NoTick, DownTick, Tick, NoRequest, Request

\* Releasing a lock leaves the locks of the others.
LEMMA Released ==
  ASSUME TypeInv, NEW o, Release(o)
  PROVE  /\ lock' \in [Repository -> Scheduler \cup Client \cup {NoOne}]
         /\ \A r \in Repository : lock[r] # o => lock'[r] = lock[r]
         /\ \A r \in Repository : lock[r] = o => lock'[r] = NoOne
  BY DEF TypeInv, Release

\* A clock that has not run out moves by one.
LEMMA TimeTaken ==
  ASSUME TypeInv, TakeTime
  PROVE  /\ clock \in Nat /\ clock' \in Time /\ clock' = clock + 1
         /\ clock + 1 \in 1 .. MaxClock
  BY BatchAssumption DEF TypeInv, TakeTime, Time

\* What a scheduler finds out about a row, and what LockRow does with it.
Found(e) == [event |-> e, range |-> schedule[e.repo].range,
             matched |-> Matches(e.score, schedule[e.repo].range)]

LEMMA LockRowEffect ==
  ASSUME TypeInv, NEW s \in Scheduler, LockRow(s)
  PROVE  \E e \in tick[s].pending :
           /\ e \in Event /\ e.repo \in Repository /\ Found(e) \in Evaluation
           /\ tick[s].stage = "scan" /\ ~Scanned(s)
           /\ lock' \in [Repository -> Scheduler \cup Client \cup {NoOne}]
           /\ tick' \in [Scheduler -> Tick]
           /\ \A r \in Repository :
                \/ lock'[r] = lock[r]
                \/ r = e.repo /\ lock[r] \in {NoOne, s} /\ lock'[r] = s
           /\ \A u \in Scheduler \ {s} : tick'[u] = tick[u]
           /\ tick'[s].pending = tick[s].pending \ {e}
           /\ \/ tick'[s].batch = tick[s].batch
              \/ /\ tick'[s].batch = tick[s].batch \cup {Found(e)}
                 /\ lock'[e.repo] = s /\ Eligible(schedule[e.repo], e)
           /\ UNCHANGED <<clock, scheduleVars, eventVars, evaluations, jobs>>
<1> USE DEF TypeInv
<1>1. PICK e \in tick[s].pending :
        /\ lock' = IF lock[e.repo] \in {NoOne, s} THEN [lock EXCEPT ![e.repo] = s] ELSE lock
        /\ tick' = [tick EXCEPT
             ![s].pending = @ \ {e},
             ![s].batch = IF lock[e.repo] \in {NoOne, s} /\ Eligible(schedule[e.repo], e)
                          THEN @ \cup {Found(e)} ELSE @]
  BY DEF LockRow, Found
<1>2. tick[s] \in Tick /\ e \in Event /\ e.repo \in Repository
  BY DEF Tick, Event
<1>3. Found(e) \in Evaluation
  BY <1>2 DEF Evaluation, Schedule, Matches, Found
<1> DEFINE pending == tick[s].pending \ {e}
           batch == IF lock[e.repo] \in {NoOne, s} /\ Eligible(schedule[e.repo], e)
                    THEN tick[s].batch \cup {Found(e)} ELSE tick[s].batch
<1>4. tick' = [tick EXCEPT ![s] = [tick[s] EXCEPT !.pending = pending, !.batch = batch]]
  BY <1>1
<1>5. /\ pending \in SUBSET Event /\ batch \in SUBSET Evaluation
  BY <1>2, <1>3 DEF Tick
<1> HIDE DEF pending, batch
<1>6. [tick[s] EXCEPT !.pending = pending, !.batch = batch] \in Tick
  BY <1>2, <1>5 DEF Tick
<1>7. /\ tick' \in [Scheduler -> Tick]
      /\ \A u \in Scheduler \ {s} : tick'[u] = tick[u]
      /\ tick'[s].pending = pending /\ tick'[s].batch = batch
  BY <1>2, <1>4, <1>6 DEF Tick
<1>8. /\ lock' \in [Repository -> Scheduler \cup Client \cup {NoOne}]
      /\ \A r \in Repository :
           \/ lock'[r] = lock[r]
           \/ r = e.repo /\ lock[r] \in {NoOne, s} /\ lock'[r] = s
      /\ lock[e.repo] \in {NoOne, s} => lock'[e.repo] = s
  BY <1>1, <1>2
<1>9. /\ tick[s].stage = "scan" /\ ~Scanned(s)
      /\ UNCHANGED <<clock, scheduleVars, eventVars, evaluations, jobs>>
  BY DEF LockRow
<1> QED BY <1>2, <1>3, <1>7, <1>8, <1>9 DEF pending, batch

LEMMA TypeStep ==
  ASSUME TypeInv, [Next]_vars
  PROVE  TypeInv'
<1> USE DEF TypeInv
<1>1. ASSUME NEW r \in Repository, NEW score \in Score, NEW baseline \in BOOLEAN,
             BeginDrift(r, score, baseline)
      PROVE  TypeInv'
  <2> DEFINE e == [repo |-> r, at |-> clock + 1, score |-> score, baseline |-> baseline]
  <2>1. TakeTime /\ arriving' = arriving \cup {e} /\ idle' \in {idle, idle \cup {e}}
        /\ UNCHANGED <<lock, scheduleVars, events, triggerVars>>
    BY <1>1 DEF BeginDrift
  <2>2. e \in Event
    BY <2>1, TimeTaken DEF Event
  <2> QED BY <2>1, <2>2, TimeTaken DEF scheduleVars, triggerVars
<1>2. ASSUME NEW e \in arriving, CommitDrift(e)
      PROVE  TypeInv'
  BY <1>2 DEF CommitDrift, scheduleVars, triggerVars
<1>3. ASSUME NEW c \in Client, NEW r \in Repository, NEW enabled \in BOOLEAN,
             NEW range \in ScoreRange, BeginUpsert(c, r, enabled, range)
      PROVE  TypeInv'
  <2> DEFINE q == [stage |-> IF Exists(schedule[r]) THEN "select" ELSE "insert", repo |-> r,
                   enabled |-> enabled, range |-> range, at |-> clock + 1]
  <2>1. TakeTime /\ request' = [request EXCEPT ![c] = q]
        /\ UNCHANGED <<lock, schedule, eventVars, triggerVars>>
    BY <1>3 DEF BeginUpsert
  <2>2. q \in Request
    BY <2>1, TimeTaken DEF Request
  <2> QED BY <2>1, <2>2, TimeTaken DEF eventVars, triggerVars
<1>4. ASSUME NEW c \in Client, LockSchedule(c)
      PROVE  TypeInv'
  <2>1. request[c] \in Request
    BY <1>4, RestingTypes DEF LockSchedule
  <2>2. [request[c] EXCEPT !.stage = "locked"] \in Request /\ request[c].repo \in Repository
    BY <2>1 DEF Request
  <2> QED BY <1>4, <2>1, <2>2 DEF LockSchedule, eventVars, triggerVars
<1>5. ASSUME NEW c \in Client, CommitUpsert(c)
      PROVE  TypeInv'
  <2>1. request[c] \in Request
    BY <1>5, RestingTypes DEF CommitUpsert
  <2>2. /\ request[c].repo \in Repository
        /\ Upserted(schedule[request[c].repo], request[c]) \in Schedule
    BY <2>1, BatchAssumption DEF Request, Upserted, Schedule, Time
  <2>3. schedule' \in [Repository -> Schedule] /\ request' \in [Client -> {NoRequest} \cup Request]
    BY <1>5, <2>1, <2>2 DEF CommitUpsert
  <2> QED BY <1>5, <2>3, Released DEF CommitUpsert, eventVars, triggerVars
<1>6. ASSUME NEW c \in Client, UpsertFails(c)
      PROVE  TypeInv'
  BY <1>6, Released DEF UpsertFails, eventVars, triggerVars
<1>7. ASSUME NEW s \in Scheduler, BeginTick(s)
      PROVE  TypeInv'
  <2>1. [stage |-> "scan", pending |-> Candidates, batch |-> {}] \in Tick
    BY DEF Candidates, Tick
  <2> QED BY <1>7, <2>1 DEF BeginTick, scheduleVars, eventVars
<1>8. ASSUME NEW s \in Scheduler, LockRow(s)
      PROVE  TypeInv'
  BY <1>8, LockRowEffect DEF scheduleVars, eventVars
<1>9. ASSUME NEW s \in Scheduler, Evaluate(s)
      PROVE  TypeInv'
  <2>1. tick[s].batch \subseteq Evaluation
    BY DEF Tick
  <2>2. Triggered(s) \subseteq Event
    BY <2>1 DEF Triggered, Evaluation
  <2> QED BY <1>9, <2>1, <2>2, Released, RestingTypes DEF Evaluate, scheduleVars, eventVars
<1>10. ASSUME NEW s \in Scheduler, EvaluateConflicts(s) \/ CrashScheduler(s)
       PROVE  TypeInv'
  BY <1>10, Released, RestingTypes
     DEF EvaluateConflicts, CrashScheduler, scheduleVars, eventVars
<1>11. ASSUME NEW s \in Scheduler, RestartScheduler(s)
       PROVE  TypeInv'
  BY <1>11, RestingTypes DEF RestartScheduler, scheduleVars, eventVars
<1>12. CASE UNCHANGED vars
  BY <1>12 DEF vars, scheduleVars, eventVars, triggerVars
<1> QED BY <1>1, <1>2, <1>3, <1>4, <1>5, <1>6, <1>7, <1>8, <1>9, <1>10, <1>11, <1>12
        DEF Next, SchedulerStep

-----------------------------------------------------------------------------
(* Time, and the locks of requests.                                        *)

LEMMA TimeStep ==
  ASSUME TypeInv, TimeInv, [Next]_vars
  PROVE  TimeInv'
<1> USE DEF TypeInv, TimeInv
<1>1. ASSUME NEW r \in Repository, NEW score \in Score, NEW baseline \in BOOLEAN,
             BeginDrift(r, score, baseline)
      PROVE  TimeInv'
  <2> DEFINE e == [repo |-> r, at |-> clock + 1, score |-> score, baseline |-> baseline]
  <2>1. /\ arriving' = arriving \cup {e} /\ idle' \in {idle, idle \cup {e}} /\ events' = events
        /\ clock' = clock + 1 /\ clock \in Nat
    BY <1>1, TimeTaken DEF BeginDrift
  <2>2. e.at <= clock'
    BY <2>1
  <2>3. \A f \in arriving \cup events \cup idle : f.at <= clock'
    BY <2>1 DEF Event
  <2> HIDE DEF e
  <2> QED BY <2>1, <2>2, <2>3
<1>2. ASSUME NEW e \in arriving, CommitDrift(e)
      PROVE  TimeInv'
  BY <1>2 DEF CommitDrift
<1>3. ASSUME NEW c \in Client, NEW r \in Repository, NEW enabled \in BOOLEAN,
             NEW range \in ScoreRange, BeginUpsert(c, r, enabled, range)
      PROVE  TimeInv'
  BY <1>3, TimeTaken DEF BeginUpsert, eventVars, Event
<1>4. ASSUME UNCHANGED <<clock, eventVars>>
      PROVE  TimeInv'
  BY <1>4 DEF eventVars
<1> QED BY <1>1, <1>2, <1>3, <1>4
        DEF Next, SchedulerStep, LockSchedule, CommitUpsert, UpsertFails, BeginTick, LockRow,
            Evaluate, EvaluateConflicts, CrashScheduler, RestartScheduler, vars

\* A lock that a request holds passes through the steps of the others.
LEMMA RequestStep ==
  ASSUME TypeInv, RequestInv, [Next]_vars
  PROVE  RequestInv'
<1> USE DEF TypeInv, RequestInv
<1>0. \A c \in Client : request[c].stage = "locked" =>
        request[c] \in Request /\ request[c].repo \in Repository
  BY RestingTypes DEF Request
<1>1. ASSUME UNCHANGED <<request, lock>>
      PROVE  RequestInv'
  BY <1>1
<1>2. ASSUME NEW c \in Client, NEW r \in Repository, NEW enabled \in BOOLEAN,
             NEW range \in ScoreRange, BeginUpsert(c, r, enabled, range)
      PROVE  RequestInv'
  <2>1. lock' = lock /\ request'[c].stage # "locked"
        /\ \A d \in Client \ {c} : request'[d] = request[d]
    BY <1>2 DEF BeginUpsert
  <2> QED BY <2>1
<1>3. ASSUME NEW c \in Client, LockSchedule(c)
      PROVE  RequestInv'
  <2>1. lock[request[c].repo] = NoOne /\ request[c].repo \in Repository
        /\ \A d \in Client \ {c} : request'[d] = request[d]
    BY <1>3, RestingTypes DEF LockSchedule, Request
  <2>2. CASE request' = [request EXCEPT ![c] = NoRequest] /\ UNCHANGED lock
    BY <2>1, <2>2, RestingTypes
  <2>3. CASE /\ request' = [request EXCEPT ![c].stage = "locked"]
             /\ lock' = [lock EXCEPT ![request[c].repo] = c]
    <3>1. request'[c].repo = request[c].repo
      BY <1>3, <2>3, RestingTypes DEF LockSchedule, Request
    <3> QED BY <1>0, <2>1, <2>3, <3>1, OwnerAssumption
  <2> QED BY <1>3, <2>2, <2>3 DEF LockSchedule
<1>4. ASSUME NEW c \in Client, CommitUpsert(c) \/ UpsertFails(c)
      PROVE  RequestInv'
  <2>1. request' = [request EXCEPT ![c] = NoRequest] /\ Release(c)
    BY <1>4 DEF CommitUpsert, UpsertFails
  <2> QED BY <1>0, <2>1, Released, RestingTypes
<1>5. ASSUME NEW s \in Scheduler, LockRow(s)
      PROVE  RequestInv'
  <2>1. /\ request' = request
        /\ \A r \in Repository : lock'[r] = lock[r] \/ lock[r] \in {NoOne, s}
    BY <1>5, LockRowEffect DEF scheduleVars
  <2> QED BY <1>0, <2>1, OwnerAssumption
<1>6. ASSUME NEW s \in Scheduler, Release(s), UNCHANGED request
      PROVE  RequestInv'
  BY <1>0, <1>6, Released, OwnerAssumption
<1> QED BY <1>1, <1>2, <1>3, <1>4, <1>5, <1>6
        DEF Next, SchedulerStep, BeginDrift, CommitDrift, BeginTick, Evaluate,
            EvaluateConflicts, CrashScheduler, RestartScheduler, vars, scheduleVars

-----------------------------------------------------------------------------
(* The batches of the schedulers.                                          *)

\* The batch of a scheduler holds as long as its scan, its locks and the
\* schedules it has locked stay, and events only become visible.
LEMMA BatchKept ==
  ASSUME TypeInv, TickInv, NEW s \in Scheduler, tick'[s] = tick[s],
         events \subseteq events',
         \A r \in Repository :
           lock[r] = s => lock'[r] = s /\ schedule'[r] = schedule[r]
  PROVE  /\ IsFiniteSet(tick'[s].batch) /\ Cardinality(tick'[s].batch) <= BatchSize
         /\ tick'[s].pending \subseteq events'
         /\ \A v \in tick'[s].batch : Holds(s, v)'
         /\ Once(tick'[s].batch)
<1>1. \A v \in tick[s].batch : v.event.repo \in Repository
  BY DEF TypeInv, Tick, Evaluation, Event
<1> QED BY <1>1 DEF TickInv, Holds

\* A scheduler without a batch and without candidates.
LEMMA BatchEmpty ==
  ASSUME NEW s, tick'[s].batch = {}, tick'[s].pending \subseteq events'
  PROVE  /\ IsFiniteSet(tick'[s].batch) /\ Cardinality(tick'[s].batch) <= BatchSize
         /\ tick'[s].pending \subseteq events'
         /\ \A v \in tick'[s].batch : Holds(s, v)'
         /\ Once(tick'[s].batch)
<1>1. IsFiniteSet({}) /\ Cardinality({}) = 0
  BY FS_EmptySet
<1> QED BY <1>1, BatchAssumption DEF Once

LEMMA TickStep ==
  ASSUME TypeInv, RequestInv, TickInv, [Next]_vars
  PROVE  TickInv'
<1> USE DEF TypeInv
<1>1. ASSUME UNCHANGED <<tick, lock, schedule>>, events \subseteq events'
      PROVE  TickInv'
  BY <1>1, BatchKept DEF TickInv
<1>2. ASSUME NEW c \in Client, LockSchedule(c)
      PROVE  TickInv'
  <2>1. UNCHANGED <<tick, schedule, events>>
        /\ \A r \in Repository : lock[r] # NoOne => lock'[r] = lock[r]
    BY <1>2 DEF LockSchedule, triggerVars, eventVars
  <2> QED BY <2>1, BatchKept, OwnerAssumption DEF TickInv
<1>3. ASSUME NEW c \in Client, CommitUpsert(c) \/ UpsertFails(c)
      PROVE  TickInv'
  <2>1. /\ UNCHANGED <<tick, events>>
        /\ \A r \in Repository : lock[r] # c => lock'[r] = lock[r]
        /\ \A r \in Repository : lock[r] # c => schedule'[r] = schedule[r]
    <3>1. Release(c) /\ UNCHANGED <<tick, events>>
      BY <1>3 DEF CommitUpsert, UpsertFails, triggerVars, eventVars
    <3>2. \A r \in Repository : lock[r] # c => schedule'[r] = schedule[r]
      BY <1>3 DEF CommitUpsert, UpsertFails, RequestInv
    <3> QED BY <3>1, <3>2, Released
  <2> QED BY <2>1, BatchKept, OwnerAssumption DEF TickInv
<1>4. ASSUME NEW s \in Scheduler, BeginTick(s)
      PROVE  TickInv'
  <2>1. /\ UNCHANGED <<lock, schedule, events>>
        /\ \A u \in Scheduler \ {s} : tick'[u] = tick[u]
        /\ tick'[s].batch = {} /\ tick'[s].pending \subseteq events'
    BY <1>4 DEF BeginTick, scheduleVars, eventVars, Candidates
  <2> QED BY <2>1, BatchKept, BatchEmpty DEF TickInv
<1>5. ASSUME NEW s \in Scheduler, LockRow(s)
      PROVE  TickInv'
  <2>1. PICK e \in tick[s].pending :
           /\ e \in Event /\ e.repo \in Repository /\ Found(e) \in Evaluation
           /\ tick[s].stage = "scan" /\ ~Scanned(s)
           /\ \A r \in Repository :
                \/ lock'[r] = lock[r]
                \/ r = e.repo /\ lock[r] \in {NoOne, s} /\ lock'[r] = s
           /\ \A u \in Scheduler \ {s} : tick'[u] = tick[u]
           /\ tick'[s].pending = tick[s].pending \ {e}
           /\ \/ tick'[s].batch = tick[s].batch
              \/ /\ tick'[s].batch = tick[s].batch \cup {Found(e)}
                 /\ lock'[e.repo] = s /\ Eligible(schedule[e.repo], e)
           /\ UNCHANGED <<schedule, events>>
    BY <1>5, LockRowEffect DEF scheduleVars, eventVars
  <2>2. \A r \in Repository : lock[r] = s => lock'[r] = s
    BY <2>1
  <2>3. /\ IsFiniteSet(tick[s].batch) /\ Cardinality(tick[s].batch) <= BatchSize
        /\ tick[s].pending \subseteq events /\ Once(tick[s].batch)
        /\ \A v \in tick[s].batch : Holds(s, v) /\ v.event.repo \in Repository
    BY DEF TickInv, Tick, Evaluation, Event
  <2>4. tick'[s].pending \subseteq events' /\ \A v \in tick[s].batch : Holds(s, v)'
    BY <2>1, <2>2, <2>3 DEF Holds
  <2>5. Cardinality(tick[s].batch) # BatchSize
    BY <2>1 DEF Scanned
  <2>6. /\ IsFiniteSet(tick'[s].batch) /\ Cardinality(tick'[s].batch) <= BatchSize
        /\ \A v \in tick'[s].batch : Holds(s, v)'
        /\ Once(tick'[s].batch)
    <3>1. CASE tick'[s].batch = tick[s].batch
      BY <2>3, <2>4, <3>1
    <3>2. CASE /\ tick'[s].batch = tick[s].batch \cup {Found(e)}
               /\ lock'[e.repo] = s /\ Eligible(schedule[e.repo], e)
      <4>1. Found(e).event = e /\ Found(e).range = schedule[e.repo].range
        BY DEF Found
      <4>2. e \in events /\ e \notin tick'[s].pending
        BY <2>1, <2>3
      <4>3. ASSUME NEW v \in tick'[s].batch
            PROVE  Holds(s, v)'
        <5>1. CASE v = Found(e)
          BY <2>1, <3>2, <4>1, <4>2, <5>1 DEF Holds
        <5> QED BY <2>4, <3>2, <5>1
      <4>4. Once(tick'[s].batch)
        <5>1. \A v \in tick[s].batch : v.event # e
          BY <2>1, <2>3 DEF Holds
        <5> QED BY <2>3, <3>2, <4>1, <5>1 DEF Once
      <4>5. /\ IsFiniteSet(tick[s].batch \cup {Found(e)})
            /\ Cardinality(tick[s].batch \cup {Found(e)}) =
                 IF Found(e) \in tick[s].batch THEN Cardinality(tick[s].batch)
                 ELSE Cardinality(tick[s].batch) + 1
        BY <2>3, FS_AddElement
      <4>6. Cardinality(tick[s].batch) \in Nat
        BY <2>3, FS_CardinalityType
      <4>7. IsFiniteSet(tick'[s].batch) /\ Cardinality(tick'[s].batch) <= BatchSize
        BY <2>3, <2>5, <3>2, <4>5, <4>6, BatchAssumption
      <4> QED BY <2>4, <3>2, <4>3, <4>4, <4>7
    <3> QED BY <2>1, <3>1, <3>2
  <2>7. /\ IsFiniteSet(tick'[s].batch) /\ Cardinality(tick'[s].batch) <= BatchSize
        /\ tick'[s].pending \subseteq events'
        /\ \A v \in tick'[s].batch : Holds(s, v)'
        /\ Once(tick'[s].batch)
    BY <2>4, <2>6
  <2>8. \A u \in Scheduler \ {s}, r \in Repository : lock[r] = u => lock'[r] = u
    BY <2>1, OwnerAssumption
  <2> QED BY <2>1, <2>7, <2>8, BatchKept DEF TickInv
<1>6. ASSUME NEW s \in Scheduler, tick'[s].batch = {}, tick'[s].pending = {},
             \A u \in Scheduler \ {s} : tick'[u] = tick[u],
             \A r \in Repository : lock[r] # s => lock'[r] = lock[r],
             UNCHANGED <<schedule, events>>
      PROVE  TickInv'
  BY <1>6, BatchKept, BatchEmpty DEF TickInv
<1>7. ASSUME NEW s \in Scheduler,
             Evaluate(s) \/ EvaluateConflicts(s) \/ CrashScheduler(s) \/ RestartScheduler(s)
      PROVE  TickInv'
  <2>1. /\ tick'[s] \in {NoTick, DownTick} /\ UNCHANGED <<schedule, events>>
        /\ \A u \in Scheduler \ {s} : tick'[u] = tick[u]
        /\ Release(s) \/ UNCHANGED lock
    BY <1>7 DEF Evaluate, EvaluateConflicts, CrashScheduler, RestartScheduler,
                scheduleVars, eventVars
  <2> QED BY <1>6, <2>1, Released, RestingTypes
<1> QED BY <1>1, <1>2, <1>3, <1>4, <1>5, <1>7
        DEF Next, SchedulerStep, BeginDrift, CommitDrift, BeginUpsert, vars, scheduleVars,
            eventVars, triggerVars

-----------------------------------------------------------------------------
(* Idle periods.                                                           *)

\* A covered event is covered still when only the requests move on.
LEMMA IdleStep ==
  ASSUME TypeInv, TimeInv, RequestInv, IdleInv, [Next]_vars
  PROVE  IdleInv'
<1> USE DEF TypeInv
<1>0. \A e \in idle : e \in Event /\ e.repo \in Repository /\ e.at \in Nat /\ e.at <= clock
  BY DEF TimeInv, Event
<1>1. ASSUME idle' = idle, schedule' = schedule,
             \A c \in Client : request'[c] \in {NoRequest, request[c]}
      PROVE  IdleInv'
  BY <1>0, <1>1 DEF IdleInv
<1>2. ASSUME NEW r \in Repository, NEW score \in Score, NEW baseline \in BOOLEAN,
             BeginDrift(r, score, baseline)
      PROVE  IdleInv'
  <2> DEFINE e == [repo |-> r, at |-> clock + 1, score |-> score, baseline |-> baseline]
  <2>1. /\ idle' = IF Off(r) THEN idle \cup {e} ELSE idle
        /\ UNCHANGED <<schedule, request>>
    BY <1>2 DEF BeginDrift, scheduleVars
  <2>2. CASE ~Off(r)
    BY <1>1, <2>1, <2>2
  <2>3. CASE Off(r)
    <3>1. ~Eligible(schedule[e.repo], e)
          /\ \A c \in Client : ~(request[c] # NoRequest /\ request[c].repo = e.repo)
      BY <2>3 DEF Off, Eligible
    <3> HIDE DEF e
    <3> QED BY <1>0, <2>1, <2>3, <3>1 DEF IdleInv
  <2> QED BY <2>2, <2>3
<1>3. ASSUME NEW c \in Client, NEW r \in Repository, NEW enabled \in BOOLEAN,
             NEW range \in ScoreRange, BeginUpsert(c, r, enabled, range)
      PROVE  IdleInv'
  <2>1. /\ request'[c].at = clock + 1 /\ UNCHANGED <<schedule, idle>> /\ clock \in Nat
        /\ \A d \in Client \ {c} : request'[d] = request[d]
    BY <1>3, TimeTaken DEF BeginUpsert, eventVars
  <2> QED BY <1>0, <2>1 DEF IdleInv
<1>4. ASSUME NEW c \in Client, LockSchedule(c)
      PROVE  IdleInv'
  <2>1. /\ request[c] \in Request /\ request[c] # NoRequest /\ UNCHANGED <<schedule, idle>>
        /\ \A d \in Client \ {c} : request'[d] = request[d]
        /\ \/ request'[c] = NoRequest
           \/ request'[c].repo = request[c].repo /\ request'[c].at = request[c].at
    BY <1>4, RestingTypes DEF LockSchedule, Request, eventVars
  <2> QED BY <1>0, <2>1 DEF IdleInv
<1>5. ASSUME NEW c \in Client, CommitUpsert(c)
      PROVE  IdleInv'
  <2> DEFINE q == request[c]
  <2>1. /\ q \in Request /\ q # NoRequest /\ idle' = idle
        /\ schedule' = [schedule EXCEPT ![q.repo] = Upserted(schedule[q.repo], q)]
        /\ request' = [request EXCEPT ![c] = NoRequest]
    BY <1>5, RestingTypes DEF CommitUpsert, eventVars
  <2>2. ASSUME NEW e \in idle, e.repo = q.repo
        PROVE  ~Eligible(schedule'[e.repo], e)
    <3>1. /\ schedule'[e.repo] = Upserted(schedule[e.repo], q)
          /\ ~Eligible(schedule[e.repo], e) /\ e.at < q.at /\ q.at \in Nat /\ e.at \in Nat
          /\ q.enabled \in BOOLEAN
      BY <1>0, <2>1, <2>2 DEF IdleInv, Request
    <3>2. CASE Exists(schedule[e.repo]) /\ (schedule[e.repo].enabled \/ ~q.enabled)
      BY <3>1, <3>2 DEF Upserted, Eligible, Exists
    <3>3. CASE ~(Exists(schedule[e.repo]) /\ (schedule[e.repo].enabled \/ ~q.enabled))
      BY <3>1, <3>3 DEF Upserted, Eligible
    <3> QED BY <3>2, <3>3
  <2>3. ASSUME NEW e \in idle, e.repo # q.repo
        PROVE  schedule'[e.repo] = schedule[e.repo]
    BY <1>0, <2>1, <2>3
  <2> QED BY <1>0, <2>1, <2>2, <2>3 DEF IdleInv
<1>6. ASSUME NEW c \in Client, UpsertFails(c)
      PROVE  IdleInv'
  BY <1>1, <1>6 DEF UpsertFails, eventVars
<1>7. ASSUME UNCHANGED <<idle, schedule, request>>
      PROVE  IdleInv'
  BY <1>1, <1>7
<1> QED BY <1>2, <1>3, <1>4, <1>5, <1>6, <1>7
        DEF Next, SchedulerStep, CommitDrift, BeginTick, LockRow, Evaluate, EvaluateConflicts,
            CrashScheduler, RestartScheduler, vars, scheduleVars, eventVars

-----------------------------------------------------------------------------
(* Evaluations.                                                            *)

\* An evaluation that commits takes its batch from visible events that the
\* schedules in force cover, and that have no evaluation yet.
LEMMA EvaluateAdds ==
  ASSUME IInv, NEW s \in Scheduler, Evaluate(s)
  PROVE  /\ evaluations' = evaluations \cup tick[s].batch
         /\ jobs' = jobs \cup Triggered(s)
         /\ UNCHANGED <<schedule, events, idle>>
         /\ Once(tick[s].batch)
         /\ \A v \in tick[s].batch :
              /\ v.event \in events /\ v.event \notin Evaluated
              /\ Eligible(schedule[v.event.repo], v.event)
              /\ v.range = schedule[v.event.repo].range
  BY DEF Evaluate, IInv, TickInv, Holds, Conflict, scheduleVars, eventVars

LEMMA EvaluationStep ==
  ASSUME IInv, [Next]_vars
  PROVE  EvaluationInv'
<1>1. ASSUME NEW s \in Scheduler, Evaluate(s)
      PROVE  EvaluationInv'
  <2> DEFINE B == tick[s].batch
  <2>1. /\ evaluations' = evaluations \cup B /\ UNCHANGED <<schedule, events, idle>>
        /\ Once(B) /\ Once(evaluations)
        /\ \A v \in B : /\ v.event \in events /\ v.event \notin Evaluated
                        /\ v.event \notin idle
        /\ Evaluated \cap idle = {} /\ Evaluated \subseteq events
    BY <1>1, EvaluateAdds DEF IInv, IdleInv, EvaluationInv, OneTriggerPerMatch, NothingReplayed,
                             Once
  <2>2. Evaluated' = Evaluated \cup {v.event : v \in B}
    BY <2>1 DEF Evaluated
  <2>3. NothingReplayed' /\ (Evaluated \subseteq events)'
    BY <2>1, <2>2 DEF NothingReplayed
  <2>4. Once(evaluations')
    BY <2>1 DEF Once, Evaluated
  <2>5. jobs' = {v.event : v \in {u \in evaluations' : u.matched}}
    <3>1. /\ jobs' = jobs \cup {v.event : v \in {u \in B : u.matched}}
          /\ jobs = {v.event : v \in {u \in evaluations : u.matched}}
      BY <1>1, EvaluateAdds DEF Triggered, IInv, EvaluationInv, OneTriggerPerMatch
    <3> QED BY <2>1, <3>1
  <2> QED BY <2>3, <2>4, <2>5 DEF EvaluationInv, OneTriggerPerMatch, Once
<1>2. ASSUME NEW r \in Repository, NEW score \in Score, NEW baseline \in BOOLEAN,
             BeginDrift(r, score, baseline)
      PROVE  EvaluationInv'
  <2> DEFINE e == [repo |-> r, at |-> clock + 1, score |-> score, baseline |-> baseline]
  <2>1. /\ idle' \in {idle, idle \cup {e}} /\ UNCHANGED <<events, evaluations, jobs>>
        /\ clock \in Nat
    BY <1>2, TimeTaken DEF BeginDrift, triggerVars, IInv
  <2>2. e \notin events
    BY <2>1 DEF IInv, TimeInv
  <2> HIDE DEF e
  <2> QED BY <2>1, <2>2 DEF IInv, EvaluationInv, NothingReplayed, OneTriggerPerMatch, Evaluated
<1>3. ASSUME events \subseteq events', UNCHANGED <<idle, evaluations, jobs>>
      PROVE  EvaluationInv'
  BY <1>3 DEF IInv, EvaluationInv, NothingReplayed, OneTriggerPerMatch, Evaluated
<1>4. ASSUME NEW s \in Scheduler, LockRow(s)
      PROVE  EvaluationInv'
  BY <1>3, <1>4 DEF LockRow, eventVars
<1> QED BY <1>1, <1>2, <1>3, <1>4
        DEF Next, SchedulerStep, CommitDrift, BeginUpsert, LockSchedule, CommitUpsert,
            UpsertFails, BeginTick, EvaluateConflicts, CrashScheduler,
            RestartScheduler, vars, scheduleVars, eventVars, triggerVars

-----------------------------------------------------------------------------
(* The theorems.                                                           *)

LEMMA InitIInv == Init => IInv
<1> SUFFICES ASSUME Init PROVE IInv
  OBVIOUS
<1>1. PICK range \in ScoreRange :
        schedule = [r \in Repository |-> [enabled |-> FALSE, range |-> range, since |-> 0]]
  BY DEF Init
<1>2. [enabled |-> FALSE, range |-> range, since |-> 0] \in Schedule
  BY BatchAssumption DEF Schedule, Time
<1>3. TypeInv
  <2>1. /\ clock = 0 /\ arriving = {} /\ events = {} /\ idle = {} /\ jobs = {}
        /\ evaluations = {} /\ lock = [r \in Repository |-> NoOne]
        /\ request = [c \in Client |-> NoRequest] /\ tick = [s \in Scheduler |-> NoTick]
    BY DEF Init
  <2>2. 0 \in Time
    BY BatchAssumption DEF Time
  <2>3. schedule \in [Repository -> Schedule]
    BY <1>1, <1>2
  <2> QED BY <2>1, <2>2, <2>3, RestingTypes DEF TypeInv
<1>4. TimeInv /\ RequestInv /\ IdleInv /\ EvaluationInv
  BY RestingTypes DEF Init, TimeInv, RequestInv, IdleInv, EvaluationInv, NothingReplayed,
                      OneTriggerPerMatch, Evaluated
<1>5. TickInv
  <2>1. IsFiniteSet({}) /\ Cardinality({}) = 0
    BY FS_EmptySet
  <2>2. ASSUME NEW s \in Scheduler PROVE tick[s].batch = {} /\ tick[s].pending = {}
    <3>1. tick[s] = NoTick
      BY DEF Init
    <3> QED BY <3>1, RestingTypes
  <2> QED BY <2>1, <2>2, BatchAssumption DEF TickInv, Once
<1> QED BY <1>3, <1>4, <1>5 DEF IInv

LEMMA NextIInv == IInv /\ [Next]_vars => IInv'
  BY TypeStep, TimeStep, RequestStep, TickStep, IdleStep, EvaluationStep DEF IInv

\* The inductive invariant holds in every state.
THEOREM Invariant == Spec => []IInv
  BY InitIInv, NextIInv, PTL DEF Spec

\* The rows, the requests under way and the batches of the schedulers are what
\* the code's tables and variables can hold, and no batch is over its limit.
THEOREM TypeCorrect == Spec => []TypeOK
<1>1. IInv => TypeOK
  BY DEF IInv, TypeInv, TickInv, TypeOK, Tick, Request
<1> QED BY <1>1, Invariant, PTL

\* However requests that switch a schedule on and off overlap with ingestions
\* and schedulers, no event of a time when it was off is evaluated.
THEOREM IdleTimesAreNotReplayed == Spec => []NothingReplayed
<1>1. IInv => NothingReplayed
  BY DEF IInv, EvaluationInv
<1> QED BY <1>1, Invariant, PTL

\* Any number of schedulers that evaluate from overtaken snapshots, crash and
\* conflict trigger one job for an event that matches, and none for another.
THEOREM MatchesTriggerOnce == Spec => []OneTriggerPerMatch
<1>1. IInv => OneTriggerPerMatch
  BY DEF IInv, EvaluationInv
<1> QED BY <1>1, Invariant, PTL

\* Every step that commits evaluations does so under the schedules in force.
THEOREM EvaluationsAreInForce == Spec => EvaluatedInForce
<1> DEFINE InForce == \A v \in evaluations' \ evaluations :
             LET s == schedule[v.event.repo]
             IN  Eligible(s, v.event) /\ v.range = s.range
<1>1. ASSUME IInv, [Next]_vars  PROVE [InForce]_vars
  <2>1. ASSUME NEW s \in Scheduler, Evaluate(s)  PROVE InForce
    BY <1>1, <2>1, EvaluateAdds
  <2>2. ASSUME evaluations' = evaluations  PROVE InForce
    BY <2>2
  <2> QED BY <1>1, <2>1, <2>2
          DEF Next, SchedulerStep, BeginDrift, CommitDrift, BeginUpsert, LockSchedule,
              CommitUpsert, UpsertFails, BeginTick, LockRow, EvaluateConflicts,
              CrashScheduler, RestartScheduler, vars, triggerVars
<1>2. IInv /\ [Next]_vars => [InForce]_vars
  BY <1>1
<1> QED BY <1>2, Invariant, PTL DEF Spec, EvaluatedInForce

=============================================================================
