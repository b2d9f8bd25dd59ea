-------------------------- MODULE TraceStreamProofs --------------------------
(***************************************************************************)
(* Proofs about TraceStream: the event log and its ids for any number of   *)
(* writers and events per transaction, and what the browser shows for any  *)
(* page size, any number of events and of broken connections.              *)
(***************************************************************************)
EXTENDS TraceStream, FiniteSetTheorems, WellFoundedInduction, TLAPS

Events == [id : Nat, record : Record \cup {"other"}, final : BOOLEAN]

-----------------------------------------------------------------------------
(* The invariant.                                                          *)

\* The transaction that holds the cursor row has the next ids, in sequence.
LogInv ==
  /\ lastId \in Nat
  /\ committed \subseteq Events /\ IsFiniteSet(committed)
  /\ open \in [Writer -> SUBSET Events]
  /\ \A w \in Writer :
       /\ IsFiniteSet(open[w])
       /\ lock # w => open[w] = {}
       /\ {e.id : e \in open[w]} = lastId + 1 .. lastId + Cardinality(open[w])
       /\ \A e, f \in open[w] : e.id = f.id => e = f
  /\ IdsFollowVisibility

\* Each record has the id of the last event that changed it, and the event that
\* ends the run is the last one of the run.
TraceInv ==
  /\ state \in [Record -> Nat] /\ ended \in BOOLEAN
  /\ \A e \in open[RunWriter] : e.record \in Record
  /\ \A e, f \in open[RunWriter] : e = f
  /\ \A w \in OtherWriter : \A e \in open[w] : e.record = "other" /\ ~e.final
  /\ ended => open[RunWriter] = {}
  /\ \A e \in RunEvents : e.id <= state[e.record]
  /\ \A r \in Record : state[r] = 0 \/ \E e \in RunEvents : e.record = r /\ e.id = state[r]
  /\ \A e \in committed : e.final => ended /\ \A f \in RunEvents : f.id <= e.id

Reading == {"new", "readRun", "readSteps", "readArtifacts", "failed"}
Followed == {"streaming", "complete"}

Covers(r) == \A e \in RunEvents : e.record = r /\ e.id <= last => e.id <= view[r]

\* What is shown of a record, once it is read, covers the events up to `last', and
\* is final if the run was over when the snapshot read its status.
ClientInv ==
  /\ {last, after, esLast} \subseteq Nat /\ view \in [Record -> Nat] /\ sawEnd \in BOOLEAN
  /\ stage \in Reading \cup Followed
  /\ after <= last /\ esLast <= last /\ last <= lastId
  /\ stage = "new" => last = 0
  /\ \A r \in Record : view[r] <= state[r]
  /\ stage \in {"readSteps", "readArtifacts"} \cup Followed => Covers("run")
  /\ stage \in {"readArtifacts"} \cup Followed => Covers("step")
  /\ stage \in Followed => Covers("artifact")
  /\ stage \in {"readSteps", "readArtifacts"} /\ sawEnd => ended /\ view["run"] = state["run"]
  /\ stage = "readArtifacts" /\ sawEnd => view["step"] = state["step"]
  /\ CompleteIsFinal

\* What the server has passed and the client has not received is in transit.
StreamInv ==
  /\ srv \in {"off", "poll", "check", "drain", "finished"}
  /\ srvCursor \in Nat /\ srvCursor <= lastId
  /\ stage # "streaming" => srv = "off"
  /\ srv = "off" => wire = {}
  /\ wire \subseteq RunEvents
  /\ \A e \in wire : e.id <= srvCursor
  /\ srv # "off" => \A e \in RunEvents : e.id <= srvCursor => e \in wire \/ e.id <= last
  /\ srv \in {"drain", "finished"} => ended
  /\ srv = "finished" => \A e \in RunEvents : e.id <= srvCursor

\* A replay misses nothing between what the client has and the end of its page,
\* and brings nothing to a trace that is complete.
ReplayInv ==
  /\ replay.stage \in {"none", "asked", "answered"}
  /\ replay.from \in Nat /\ replay.page \subseteq RunEvents
  /\ stage \in Reading => replay.stage = "none"
  /\ replay.stage = "asked" => replay.from <= last
  /\ replay.stage = "answered" =>
       \A e \in replay.page, f \in RunEvents : f.id <= e.id => f \in replay.page \/ f.id <= last
  /\ stage = "complete" /\ replay.stage # "none" => \A e \in RunEvents : e.id <= last

IInv == LogInv /\ TraceInv /\ ClientInv /\ StreamInv /\ ReplayInv

-----------------------------------------------------------------------------
(* Sets of naturals and of events.                                         *)

LEMMA Least ==
  ASSUME NEW S \in SUBSET Nat, S # {}
  PROVE  \E x \in S : \A y \in S : x <= y
<1> DEFINE Less == OpToRel(<, Nat)
<1>1. IsWellFoundedOn(Less, Nat)
  BY NatLessThanWellFounded
<1>2. PICK x \in S : \A y \in S : ~(<<y, x>> \in Less)
  BY <1>1, WFMin, Zenon
<1>3. \A y \in S : ~(y < x)
  BY <1>2 DEF OpToRel
<1> QED BY <1>3

\* The latest id of a bounded set of events is that of one of them and bounds all.
LEMMA LatestProperties ==
  ASSUME NEW S \in SUBSET Events, NEW n \in Nat, \A e \in S : e.id <= n
  PROVE  /\ LatestId(S) \in Nat /\ LatestId(S) <= n
         /\ \A e \in S : e.id <= LatestId(S)
         /\ S # {} => \E e \in S : LatestId(S) = e.id
<1>1. CASE S = {}
  BY <1>1 DEF LatestId
<1>2. CASE S # {}
  <2> DEFINE Gaps == {n - e.id : e \in S}
  <2>1. Gaps \in SUBSET Nat /\ Gaps # {}
    BY <1>2 DEF Events
  <2>2. PICK g \in Gaps : \A h \in Gaps : g <= h
    BY <2>1, Least
  <2>3. PICK m \in S : g = n - m.id
    OBVIOUS
  <2>4. IsLast(m, S)
    <3> SUFFICES ASSUME NEW f \in S PROVE f.id <= m.id
      BY DEF IsLast
    <3>1. n - f.id \in Gaps
      OBVIOUS
    <3> QED BY <2>2, <2>3, <3>1 DEF Events
  <2> DEFINE top == CHOOSE e \in S : IsLast(e, S)
  <2>6. top \in S /\ IsLast(top, S)
    BY <2>4
  <2>7. LatestId(S) = top.id
    BY <1>2 DEF LatestId
  <2> QED BY <2>6, <2>7 DEF IsLast, Events
<1> QED BY <1>1, <1>2

\* A page is a prefix of what is newer, and empty only if nothing is.
LEMMA PageProperties ==
  ASSUME NEW n \in Nat, committed \subseteq Events, IsFiniteSet(committed)
  PROVE  /\ PageAfter(n) \subseteq RunEvents
         /\ \A e \in PageAfter(n) : e.id > n
         /\ \A e \in PageAfter(n), f \in RunEvents :
              f.id > n /\ f.id <= e.id => f \in PageAfter(n)
         /\ PageAfter(n) = {} => \A e \in RunEvents : e.id <= n
<1> DEFINE newer == {e \in RunEvents : e.id > n}
           Before(e) == {f \in newer : f.id < e.id}
<1>1. newer \subseteq Events /\ IsFiniteSet(newer)
  BY FS_Subset DEF RunEvents
<1>2. PageAfter(n) = {e \in newer : Cardinality(Before(e)) < PageSize}
  BY DEF PageAfter
<1>3. ASSUME NEW e \in PageAfter(n), NEW f \in RunEvents, f.id > n, f.id <= e.id
      PROVE  f \in PageAfter(n)
  <2>1. f \in newer /\ e \in newer /\ Cardinality(Before(e)) < PageSize
    BY <1>2, <1>3
  <2>2. Before(f) \in SUBSET Before(e)
    BY <1>1, <1>3, <2>1 DEF Events
  <2>3. IsFiniteSet(Before(e)) /\ IsFiniteSet(Before(f))
        /\ Cardinality(Before(f)) <= Cardinality(Before(e))
    <3>1. Before(e) \in SUBSET newer
      OBVIOUS
    <3> HIDE DEF newer, Before
    <3>2. IsFiniteSet(Before(e))
      BY <1>1, <3>1, FS_Subset
    <3> QED BY <2>2, <3>2, FS_Subset
  <2>4. Cardinality(Before(e)) \in Nat /\ Cardinality(Before(f)) \in Nat
    <3> HIDE DEF newer, Before
    <3> QED BY <2>3, FS_CardinalityType
  <2>5. Cardinality(Before(f)) < PageSize
    <3> HIDE DEF newer, Before
    <3> QED BY <2>1, <2>3, <2>4, BoundAssumption
  <2> QED BY <1>2, <2>1, <2>5
<1>4. ASSUME newer # {}
      PROVE  PageAfter(n) # {}
  <2> DEFINE ids == {e.id : e \in newer}
  <2>1. ids \in SUBSET Nat /\ ids # {}
    BY <1>1, <1>4 DEF Events
  <2>2. PICK i \in ids : \A k \in ids : i <= k
    BY <2>1, Least
  <2>3. PICK e \in newer : e.id = i
    OBVIOUS
  <2>4. Before(e) = {}
    <3> SUFFICES ASSUME NEW f \in newer, f.id < e.id PROVE FALSE
      OBVIOUS
    <3>1. f.id \in ids
      OBVIOUS
    <3> QED BY <1>1, <2>2, <2>3, <3>1 DEF Events
  <2>5. Cardinality(Before(e)) < PageSize
    <3>1. Cardinality(Before(e)) = 0
      BY <2>4, FS_EmptySet
    <3> QED BY <3>1, BoundAssumption
  <2> QED BY <1>2, <2>3, <2>5
<1>5. PageAfter(n) = {} => \A e \in RunEvents : e.id <= n
  <2> SUFFICES ASSUME PageAfter(n) = {}, NEW e \in RunEvents PROVE e.id <= n
    OBVIOUS
  <2>1. e \notin newer
    BY <1>4
  <2>2. e.id \in Nat
    BY DEF RunEvents, Events
  <2> QED BY <2>1, <2>2
<1> QED BY <1>2, <1>3, <1>5

-----------------------------------------------------------------------------
(* Writers.                                                                *)

LEMMA InitIInv == Init => IInv
<1> SUFFICES ASSUME Init PROVE IInv
  OBVIOUS
<1>1. LogInv
  <2>1. \A w \in Writer : {e.id : e \in open[w]} = lastId + 1 .. lastId + Cardinality(open[w])
    BY FS_EmptySet DEF Init
  <2> QED BY <2>1, FS_EmptySet DEF Init, LogInv, IdsFollowVisibility
<1>2. TraceInv
  BY DEF Init, TraceInv, RunEvents, Writer
<1>3. ClientInv
  <2>1. stage = "new" /\ RunEvents = {} /\ last = 0 /\ after = 0 /\ esLast = 0 /\ lastId = 0
    BY DEF Init, RunEvents
  <2>2. /\ view \in [Record -> Nat] /\ sawEnd \in BOOLEAN
        /\ \A r \in Record : view[r] = 0 /\ state[r] = 0
    BY DEF Init
  <2> QED BY <2>1, <2>2 DEF ClientInv, Reading, Followed, CompleteIsFinal, Covers
<1>4. StreamInv /\ ReplayInv
  BY DEF Init, StreamInv, ReplayInv, NoReplay, Reading, RunEvents
<1> QED BY <1>1, <1>2, <1>3, <1>4 DEF IInv

\* What a writer may do to what a client has: add events behind all there are, and
\* none to a run that is over.
LEMMA LogGrows ==
  ASSUME IInv, UNCHANGED <<clientVars, srvVars>>,
         committed \subseteq committed', \A e \in committed' \ committed : e.id > lastId,
         lastId' \in Nat, lastId <= lastId', committed' \subseteq Events,
         \A r \in Record : state[r] <= state'[r], state' \in [Record -> Nat],
         ended => ended' /\ RunEvents' = RunEvents /\ state' = state
  PROVE  ClientInv' /\ StreamInv' /\ ReplayInv'
<1> USE DEF IInv
<1>1. /\ RunEvents \subseteq RunEvents' /\ RunEvents' \subseteq Events
      /\ \A e \in RunEvents' : e \in RunEvents \/ e.id > lastId
      /\ \A e \in RunEvents : e.id \in 1 .. lastId
  BY DEF RunEvents, LogInv, IdsFollowVisibility
<1>2. \A e \in RunEvents' : e.id \in Nat
  BY <1>1 DEF Events
<1>3. \A r \in Record : Covers(r) => Covers(r)'
  BY <1>1, <1>2 DEF Covers, clientVars, ClientInv, LogInv
<1>4. ClientInv'
  <2>1. \A r \in Record : view'[r] <= state'[r]
    BY DEF ClientInv, clientVars, TraceInv
  <2>2. CompleteIsFinal'
    BY DEF ClientInv, clientVars, CompleteIsFinal
  <2> QED BY <1>3, <2>1, <2>2 DEF ClientInv, clientVars, LogInv, Record
<1>5. StreamInv'
  BY <1>1, <1>2 DEF StreamInv, ClientInv, srvVars, clientVars, LogInv
<1>6. ReplayInv'
  <2>1. replay.stage = "answered" =>
          \A e \in replay.page, f \in RunEvents' : f.id <= e.id => f \in replay.page \/ f.id <= last
    BY <1>1, <1>2 DEF ReplayInv, LogInv
  <2>2. stage = "complete" => RunEvents' = RunEvents
    BY DEF ClientInv, CompleteIsFinal
  <2> QED BY <1>1, <2>1, <2>2 DEF ReplayInv, clientVars
<1> QED BY <1>4, <1>5, <1>6

\* A transaction that appends holds the cursor row, and no other has events.
LEMMA AppendLog ==
  ASSUME NEW w \in Writer, NEW r \in Record \cup {"other"}, NEW f \in BOOLEAN,
         Append(w, r, f), LogInv
  PROVE  /\ LogInv'
         /\ open' = [open EXCEPT ![w] = @ \cup {[id |-> lastId + Cardinality(open[w]) + 1,
                                               record |-> r, final |-> f]}]
<1> DEFINE n == lastId + Cardinality(open[w]) + 1
           e == [id |-> n, record |-> r, final |-> f]
<1>1. /\ open' = [open EXCEPT ![w] = @ \cup {e}]
      /\ lock \in {NoOne, w} /\ lock' = w
      /\ UNCHANGED <<committed, lastId>>
  BY DEF Append
<1>2. IsFiniteSet(open[w]) /\ Cardinality(open[w]) \in Nat /\ lastId \in Nat
  BY FS_CardinalityType DEF LogInv
<1>3. n \in Nat /\ e \in Events
  BY <1>2 DEF Events
<1>4. {x.id : x \in open[w]} = lastId + 1 .. lastId + Cardinality(open[w])
  BY DEF LogInv
<1>5. e \notin open[w]
  BY <1>2, <1>4
<1>6. IsFiniteSet(open[w] \cup {e}) /\ Cardinality(open[w] \cup {e}) = Cardinality(open[w]) + 1
  <2> HIDE DEF e
  <2> QED BY <1>2, <1>5, FS_AddElement
<1>7. open'[w] = open[w] \cup {e} /\ \A v \in Writer \ {w} : open'[v] = open[v]
  BY <1>1 DEF LogInv
<1>8. \A v \in Writer \ {w} : open[v] = {}
  BY <1>1, WriterAssumption DEF LogInv
<1>9. {x.id : x \in open'[w]} = lastId + 1 .. lastId + Cardinality(open'[w])
  <2>1. {x.id : x \in open'[w]} = {x.id : x \in open[w]} \cup {n}
    <3>1. e.id = n
      OBVIOUS
    <3> HIDE DEF e, n
    <3> QED BY <1>7, <3>1
  <2> QED BY <1>2, <1>3, <1>4, <1>6, <1>7, <2>1
<1>10. \A x, y \in open'[w] : x.id = y.id => x = y
  <2>1. \A x \in open[w] : x.id # n
    BY <1>2, <1>4
  <2> QED BY <1>7, <2>1 DEF LogInv
<1>11. open' \in [Writer -> SUBSET Events]
  BY <1>1, <1>3 DEF LogInv
<1>12. \A v \in Writer :
         /\ IsFiniteSet(open'[v])
         /\ lock' # v => open'[v] = {}
         /\ {x.id : x \in open'[v]} = lastId' + 1 .. lastId' + Cardinality(open'[v])
         /\ \A x, y \in open'[v] : x.id = y.id => x = y
  <2> SUFFICES ASSUME NEW v \in Writer
               PROVE  /\ IsFiniteSet(open'[v])
                      /\ lock' # v => open'[v] = {}
                      /\ {x.id : x \in open'[v]} = lastId' + 1 .. lastId' + Cardinality(open'[v])
                      /\ \A x, y \in open'[v] : x.id = y.id => x = y
    OBVIOUS
  <2>1. CASE v = w
    BY <1>1, <1>6, <1>7, <1>9, <1>10, <2>1
  <2>2. CASE v # w
    BY <1>1, <1>7, <1>8, <2>2 DEF LogInv
  <2> QED BY <2>1, <2>2
<1>13. IdsFollowVisibility'
  BY <1>1 DEF LogInv, IdsFollowVisibility
<1> QED BY <1>1, <1>11, <1>12, <1>13 DEF LogInv

LEMMA AppendRunEventIInv ==
  ASSUME NEW r \in Record, NEW f \in BOOLEAN, AppendRunEvent(r, f), IInv
  PROVE  IInv'
<1>1. /\ Append(RunWriter, r, f) /\ ~ended /\ open[RunWriter] = {}
      /\ RunWriter \in Writer /\ r \in Record \cup {"other"}
  BY DEF AppendRunEvent, Writer
<1>2. LogInv' /\ open' = [open EXCEPT ![RunWriter] = @ \cup
          {[id |-> lastId + Cardinality(open[RunWriter]) + 1, record |-> r, final |-> f]}]
  BY <1>1, AppendLog DEF IInv
<1>3. UNCHANGED <<committed, lastId, state, ended, clientVars, srvVars>>
  BY <1>1 DEF Append
<1>4. /\ \A w \in OtherWriter : open'[w] = open[w]
      /\ \A e \in open'[RunWriter] : e.record = r
      /\ \A e, g \in open'[RunWriter] : e = g
  BY <1>1, <1>2, WriterAssumption DEF IInv, LogInv, Writer
<1>5. TraceInv'
  BY <1>1, <1>3, <1>4 DEF IInv, TraceInv, RunEvents
<1>6. ClientInv' /\ StreamInv' /\ ReplayInv'
  <2>1. RunEvents' = RunEvents
    BY <1>3 DEF RunEvents
  <2> QED BY <1>3, <2>1, LogGrows DEF IInv, LogInv, TraceInv
<1> QED BY <1>2, <1>5, <1>6 DEF IInv

LEMMA AppendOtherEventIInv ==
  ASSUME NEW w \in OtherWriter, AppendOtherEvent(w), IInv
  PROVE  IInv'
<1>1. Append(w, "other", FALSE) /\ w \in Writer /\ w # RunWriter
  BY WriterAssumption DEF AppendOtherEvent, Writer
<1>2. LogInv' /\ open' = [open EXCEPT ![w] = @ \cup
          {[id |-> lastId + Cardinality(open[w]) + 1, record |-> "other", final |-> FALSE]}]
  BY <1>1, AppendLog DEF IInv
<1>3. UNCHANGED <<committed, lastId, state, ended, clientVars, srvVars>>
  BY <1>1 DEF Append
<1>4. /\ open'[RunWriter] = open[RunWriter]
      /\ \A v \in OtherWriter : \A e \in open'[v] : e \in open[v] \/ (e.record = "other" /\ ~e.final)
  BY <1>1, <1>2 DEF IInv, LogInv, Writer
<1>5. TraceInv'
  BY <1>3, <1>4 DEF IInv, TraceInv, RunEvents
<1>6. ClientInv' /\ StreamInv' /\ ReplayInv'
  <2>1. RunEvents' = RunEvents
    BY <1>3 DEF RunEvents
  <2> QED BY <1>3, <2>1, LogGrows DEF IInv, LogInv, TraceInv
<1> QED BY <1>2, <1>5, <1>6 DEF IInv

\* The events of a commit get the ids that follow those there are.
LEMMA CommitLog ==
  ASSUME NEW w \in Writer, Commit(w), LogInv
  PROVE  /\ LogInv'
         /\ \A e \in open[w] : e.id > lastId
         /\ lastId <= lastId'
<1>1. /\ committed' = committed \cup open[w]
      /\ lastId' = lastId + Cardinality(open[w])
      /\ open' = [open EXCEPT ![w] = {}]
      /\ lock' = NoOne /\ open[w] # {}
  BY DEF Commit
<1>2. IsFiniteSet(open[w]) /\ Cardinality(open[w]) \in Nat /\ lastId \in Nat
  BY FS_CardinalityType DEF LogInv
<1>3. /\ {e.id : e \in open[w]} = lastId + 1 .. lastId + Cardinality(open[w])
      /\ {e.id : e \in committed} = 1 .. lastId
  BY DEF LogInv, IdsFollowVisibility
<1>4. (\A e \in open[w] : e.id > lastId) /\ lastId <= lastId'
  BY <1>1, <1>2, <1>3
<1>5. IdsFollowVisibility'
  <2>1. {e.id : e \in committed'} = {e.id : e \in committed} \cup {e.id : e \in open[w]}
    BY <1>1
  <2>2. {e.id : e \in committed'} = 1 .. lastId'
    BY <1>1, <1>2, <1>3, <2>1
  <2>3. \A e \in committed, f \in open[w] : e.id # f.id
    BY <1>2, <1>3
  <2> QED BY <1>1, <2>2, <2>3 DEF LogInv, IdsFollowVisibility
<1>6. IsFiniteSet(committed')
  BY <1>1, <1>2, FS_Union DEF LogInv
<1>7. open' \in [Writer -> SUBSET Events] /\ \A v \in Writer : open'[v] = {}
  <2>1. \A v \in Writer \ {w} : open[v] = {}
    BY <1>1 DEF LogInv
  <2> QED BY <1>1, <2>1 DEF LogInv
<1>8. \A v \in Writer :
         /\ IsFiniteSet(open'[v])
         /\ lock' # v => open'[v] = {}
         /\ {x.id : x \in open'[v]} = lastId' + 1 .. lastId' + Cardinality(open'[v])
         /\ \A x, y \in open'[v] : x.id = y.id => x = y
  BY <1>1, <1>2, <1>7, FS_EmptySet
<1>9. committed' \subseteq Events /\ lastId' \in Nat
  BY <1>1, <1>2 DEF LogInv
<1> QED BY <1>4, <1>5, <1>6, <1>7, <1>8, <1>9 DEF LogInv

LEMMA CommitIInv ==
  ASSUME NEW w \in Writer, Commit(w), IInv
  PROVE  IInv'
<1> DEFINE new(r) == {e \in open[w] : e.record = r}
<1>1. /\ committed' = committed \cup open[w]
      /\ state' = [r \in Record |-> IF new(r) = {} THEN state[r] ELSE LatestId(new(r))]
      /\ ended' = (ended \/ \E e \in open[w] : e.final)
      /\ open' = [open EXCEPT ![w] = {}]
      /\ UNCHANGED <<clientVars, srvVars>>
  BY DEF Commit
<1>2. LogInv' /\ (\A e \in open[w] : e.id > lastId) /\ lastId <= lastId'
  BY CommitLog DEF IInv
<1>3. /\ lastId \in Nat /\ lastId' \in Nat /\ open[w] \subseteq Events
      /\ committed' \subseteq Events /\ \A e \in committed' : e.id \in Nat /\ e.id <= lastId'
  BY <1>2 DEF IInv, LogInv, IdsFollowVisibility, Events
<1>4. /\ RunEvents' = RunEvents \cup {e \in open[w] : e.record # "other"}
      /\ RunEvents \subseteq committed
  BY <1>1 DEF RunEvents
<1>5. \A e \in committed : e.id \in Nat /\ e.id <= lastId
  BY DEF IInv, LogInv, IdsFollowVisibility, Events
<1>6. CASE w = RunWriter
  <2>1. ~ended /\ \A e, f \in open[w] : e = f /\ e.record \in Record
    BY <1>6 DEF IInv, TraceInv, Commit
  <2>2. \A r \in Record : LatestId(new(r)) \in Nat /\ (\A e \in new(r) : e.id <= LatestId(new(r)))
                         /\ (new(r) # {} => \E e \in new(r) : LatestId(new(r)) = e.id)
    <3> SUFFICES ASSUME NEW r \in Record
                 PROVE  /\ LatestId(new(r)) \in Nat
                        /\ \A e \in new(r) : e.id <= LatestId(new(r))
                        /\ new(r) # {} => \E e \in new(r) : LatestId(new(r)) = e.id
      OBVIOUS
    <3>1. new(r) \in SUBSET Events /\ \A e \in new(r) : e.id <= lastId'
      BY <1>1, <1>3
    <3> HIDE DEF new
    <3> QED BY <1>3, <3>1, LatestProperties
  <2>3. state' \in [Record -> Nat]
    BY <1>1, <2>2 DEF IInv, TraceInv
  <2>4. \A r \in Record : state[r] <= lastId
    BY <1>3, <1>4, <1>5 DEF IInv, TraceInv
  <2>5. \A r \in Record : state[r] <= state'[r]
    <3> SUFFICES ASSUME NEW r \in Record PROVE state[r] <= state'[r]
      OBVIOUS
    <3>1. CASE new(r) = {}
      BY <1>1, <3>1 DEF IInv, TraceInv
    <3>2. CASE new(r) # {}
      <4>1. PICK e \in new(r) : LatestId(new(r)) = e.id
        BY <2>2, <3>2
      <4>2. e.id > lastId /\ e.id \in Nat
        BY <1>2, <1>3, <1>1
      <4>3. state'[r] = e.id
        BY <1>1, <3>2, <4>1
      <4> QED BY <1>3, <2>4, <4>2, <4>3 DEF IInv, TraceInv
    <3> QED BY <3>1, <3>2
  <2>6. \A e \in RunEvents' : e.id <= state'[e.record]
    <3> SUFFICES ASSUME NEW e \in RunEvents' PROVE e.id <= state'[e.record]
      OBVIOUS
    <3>1. e.record \in Record /\ e.id \in Nat
      BY <1>3 DEF RunEvents, Events
    <3>2. CASE e \in RunEvents
      <4>1. e.id <= state[e.record]
        BY <3>2 DEF IInv, TraceInv
      <4> QED BY <2>3, <2>5, <3>1, <4>1 DEF IInv, TraceInv
    <3>3. CASE e \in open[w]
      <4>1. e \in new(e.record)
        BY <3>3
      <4> QED BY <1>1, <2>2, <3>1, <4>1
    <3> QED BY <1>4, <3>2, <3>3
  <2>7. \A r \in Record : state'[r] = 0 \/ \E e \in RunEvents' : e.record = r /\ e.id = state'[r]
    <3> SUFFICES ASSUME NEW r \in Record
                 PROVE  state'[r] = 0 \/ \E e \in RunEvents' : e.record = r /\ e.id = state'[r]
      OBVIOUS
    <3>1. CASE new(r) = {}
      BY <1>1, <1>4, <3>1 DEF IInv, TraceInv
    <3>2. CASE new(r) # {}
      <4>1. PICK e \in new(r) : LatestId(new(r)) = e.id
        BY <2>2, <3>2
      <4>2. e \in RunEvents' /\ e.record = r
        BY <1>4, <4>1 DEF Record
      <4> QED BY <1>1, <3>2, <4>1, <4>2
    <3> QED BY <3>1, <3>2
  <2>8. \A e \in committed' : e.final => ended' /\ \A f \in RunEvents' : f.id <= e.id
    <3> SUFFICES ASSUME NEW e \in committed', e.final
                 PROVE  ended' /\ \A f \in RunEvents' : f.id <= e.id
      OBVIOUS
    <3>1. e \in open[w]
      BY <1>1, <2>1 DEF IInv, TraceInv
    <3>2. ended'
      BY <1>1, <3>1
    <3>3. e.id > lastId /\ e.id \in Nat
      BY <1>2, <1>3, <3>1
    <3> QED BY <1>3, <1>4, <1>5, <2>1, <3>1, <3>2, <3>3
  <2>9. TraceInv'
    <3>1. open'[RunWriter] = {} /\ \A v \in OtherWriter : open'[v] = open[v]
      BY <1>1, <1>6, WriterAssumption DEF IInv, LogInv, Writer
    <3>2. ended' \in BOOLEAN
      BY <1>1 DEF IInv, TraceInv
    <3>3. \A v \in OtherWriter : \A e \in open'[v] : e.record = "other" /\ ~e.final
      BY <3>1 DEF IInv, TraceInv
    <3> QED BY <2>3, <2>6, <2>7, <2>8, <3>1, <3>2, <3>3 DEF TraceInv
  <2>10. ClientInv' /\ StreamInv' /\ ReplayInv'
    BY <1>1, <1>2, <1>3, <2>1, <2>3, <2>5, LogGrows
  <2> QED BY <1>2, <2>9, <2>10 DEF IInv
<1>7. CASE w \in OtherWriter
  <2>1. \A e \in open[w] : e.record = "other" /\ ~e.final
    BY <1>7 DEF IInv, TraceInv
  <2>2. RunEvents' = RunEvents /\ ended' = ended
    BY <1>1, <1>4, <2>1 DEF IInv, TraceInv
  <2>3. state' = state
    <3>1. \A r \in Record : new(r) = {}
      BY <2>1 DEF Record
    <3> QED BY <1>1, <3>1 DEF IInv, TraceInv
  <2>4. TraceInv'
    <3>1. /\ open'[RunWriter] = open[RunWriter]
          /\ \A v \in OtherWriter : open'[v] \subseteq open[v]
      BY <1>1, <1>7, WriterAssumption DEF IInv, LogInv, Writer
    <3>2. \A e \in committed' : e.final => e \in committed
      BY <1>1, <2>1
    <3> QED BY <2>2, <2>3, <3>1, <3>2 DEF IInv, TraceInv
  <2>5. ClientInv' /\ StreamInv' /\ ReplayInv'
    <3>1. state' \in [Record -> Nat] /\ \A r \in Record : state[r] <= state'[r]
      BY <2>3 DEF IInv, TraceInv
    <3>2. committed \subseteq committed' /\ \A e \in committed' \ committed : e.id > lastId
      BY <1>1, <1>2
    <3> QED BY <1>1, <1>2, <1>3, <2>2, <2>3, <3>1, <3>2, LogGrows
  <2> QED BY <1>2, <2>4, <2>5 DEF IInv
<1> QED BY <1>6, <1>7 DEF Writer

LEMMA RollbackIInv ==
  ASSUME NEW w \in Writer, Rollback(w), IInv
  PROVE  IInv'
<1>1. /\ open' = [open EXCEPT ![w] = {}] /\ lock' = NoOne /\ open[w] # {}
      /\ UNCHANGED <<committed, lastId, state, ended, clientVars, srvVars>>
  BY DEF Rollback
<1>2. open' \in [Writer -> SUBSET Events] /\ \A v \in Writer : open'[v] = {}
  <2>1. \A v \in Writer \ {w} : open[v] = {}
    BY <1>1 DEF IInv, LogInv
  <2> QED BY <1>1, <2>1 DEF IInv, LogInv
<1>3. LogInv'
  <2>1. \A v \in Writer :
          /\ IsFiniteSet(open'[v])
          /\ lock' # v => open'[v] = {}
          /\ {x.id : x \in open'[v]} = lastId' + 1 .. lastId' + Cardinality(open'[v])
          /\ \A x, y \in open'[v] : x.id = y.id => x = y
    BY <1>1, <1>2, FS_EmptySet DEF IInv, LogInv
  <2> QED BY <1>1, <1>2, <2>1 DEF IInv, LogInv, IdsFollowVisibility
<1>4. TraceInv'
  <2>1. \A v \in Writer : open'[v] \subseteq open[v]
    BY <1>2
  <2> QED BY <1>1, <1>2, <2>1 DEF IInv, TraceInv, RunEvents, Writer
<1>5. ClientInv' /\ StreamInv' /\ ReplayInv'
  <2>1. RunEvents' = RunEvents
    BY <1>1 DEF RunEvents
  <2> QED BY <1>1, <2>1, LogGrows DEF IInv, LogInv, TraceInv
<1> QED BY <1>3, <1>4, <1>5 DEF IInv

-----------------------------------------------------------------------------
(* The snapshot and the stream.                                            *)

LEMMA DbFrame ==
  ASSUME UNCHANGED dbVars, LogInv, TraceInv
  PROVE  LogInv' /\ TraceInv' /\ RunEvents' = RunEvents
BY DEF dbVars, LogInv, TraceInv, RunEvents, IdsFollowVisibility

\* What is known of the events of the run.
LEMMA RunEventFacts ==
  ASSUME LogInv, TraceInv
  PROVE  /\ RunEvents \subseteq Events /\ RunEvents \subseteq committed
         /\ \A e \in RunEvents : e.record \in Record /\ e.id \in Nat /\ e.id <= lastId
                                 /\ e.id <= state[e.record]
BY DEF LogInv, TraceInv, IdsFollowVisibility, RunEvents, Events

LEMMA SnapshotIInv ==
  ASSUME SnapshotStep \/ SnapshotFails, IInv
  PROVE  IInv'
<1>1. UNCHANGED <<dbVars, srvVars, esLast, replay>>
  BY DEF SnapshotStep, SnapshotFails, SnapshotCursor, SnapshotRun, SnapshotSteps, SnapshotArtifacts
<1>2. LogInv' /\ TraceInv' /\ RunEvents' = RunEvents /\ UNCHANGED <<lastId, state, ended>>
  BY <1>1, DbFrame DEF IInv, dbVars
<1>3. /\ RunEvents \subseteq Events
      /\ \A e \in RunEvents : e.record \in Record /\ e.id \in Nat /\ e.id <= lastId
                              /\ e.id <= state[e.record]
  BY RunEventFacts DEF IInv
<1>4. /\ stage \in {"new", "readRun", "readSteps", "readArtifacts"}
      /\ stage' # "new" /\ stage' \in Reading \cup Followed
  BY DEF SnapshotStep, SnapshotFails, SnapshotCursor, SnapshotRun, SnapshotSteps, SnapshotArtifacts,
         Reading, Followed
<1>5. ClientInv'
  <2>1. CASE SnapshotCursor
    <3>1. /\ LatestId(RunEvents) \in Nat /\ LatestId(RunEvents) <= lastId
      BY <1>3, LatestProperties DEF IInv, LogInv
    <3>2. /\ last' = LatestId(RunEvents) /\ after' = last' /\ stage' = "readRun"
          /\ UNCHANGED <<sawEnd, view, esLast>> /\ stage = "new" 
      BY <2>1 DEF SnapshotCursor
    <3>3. esLast <= last'
      BY <1>3, <3>1, <3>2 DEF IInv, ClientInv
    <3> QED BY <1>2, <3>1, <3>2, <3>3 DEF IInv, ClientInv, Reading, Followed, CompleteIsFinal
  <2>2. CASE SnapshotRun
    <3>1. /\ view' = [view EXCEPT !["run"] = state["run"]] /\ sawEnd' = ended
          /\ stage' = "readSteps" /\ UNCHANGED <<last, after, esLast>>
      BY <2>2 DEF SnapshotRun
    <3>2. Covers("run")'
      BY <1>2, <1>3, <3>1 DEF IInv, ClientInv, Covers, Record
    <3> QED BY <1>2, <3>1, <3>2 DEF IInv, ClientInv, TraceInv, Reading, Followed, CompleteIsFinal, Record
  <2>3. CASE SnapshotSteps
    <3>1. /\ view' = [view EXCEPT !["step"] = state["step"]] /\ stage = "readSteps"
          /\ stage' = "readArtifacts" /\ UNCHANGED <<last, after, esLast, sawEnd>>
      BY <2>3 DEF SnapshotSteps
    <3>2. Covers("run")' /\ Covers("step")'
      BY <1>2, <1>3, <3>1 DEF IInv, ClientInv, Covers, Record
    <3> QED BY <1>2, <3>1, <3>2 DEF IInv, ClientInv, TraceInv, Reading, Followed, CompleteIsFinal, Record
  <2>4. CASE SnapshotArtifacts
    <3>1. /\ view' = [view EXCEPT !["artifact"] = state["artifact"]] /\ stage = "readArtifacts"
          /\ stage' = IF sawEnd THEN "complete" ELSE "streaming"
          /\ UNCHANGED <<last, after, esLast, sawEnd>>
      BY <2>4 DEF SnapshotArtifacts
    <3>2. Covers("run")' /\ Covers("step")' /\ Covers("artifact")'
      BY <1>2, <1>3, <3>1 DEF IInv, ClientInv, Covers, Record
    <3>3. stage' = "complete" => ended /\ view' = state
      BY <3>1 DEF IInv, ClientInv, TraceInv, Record
    <3> QED BY <1>2, <3>1, <3>2, <3>3 DEF IInv, ClientInv, TraceInv, Reading, Followed,
                                          CompleteIsFinal, Record
  <2>5. CASE SnapshotFails
    BY <1>2, <2>5 DEF SnapshotFails, IInv, ClientInv, Reading, Followed, CompleteIsFinal
  <2> QED BY <2>1, <2>2, <2>3, <2>4, <2>5 DEF SnapshotStep
<1>6. srv = "off" /\ wire = {} /\ replay.stage = "none"
  BY <1>4 DEF IInv, StreamInv, ReplayInv, Reading
<1>7. StreamInv' /\ ReplayInv'
  BY <1>1, <1>2, <1>6 DEF IInv, StreamInv, ReplayInv, srvVars
<1> QED BY <1>2, <1>5, <1>7 DEF IInv

\* A page that is yielded extends what is in transit up to the new cursor.
LEMMA YieldStream ==
  ASSUME NEW otherwise \in {"check", "finished"}, Yield(otherwise), IInv, srv # "off",
         otherwise = "finished" => ended, UNCHANGED <<dbVars, clientVars>>
  PROVE  StreamInv'
<1> DEFINE page == PageAfter(srvCursor)
<1>1. /\ page \subseteq RunEvents
      /\ \A e \in page : e.id > srvCursor
      /\ \A e \in page, f \in RunEvents : f.id > srvCursor /\ f.id <= e.id => f \in page
      /\ page = {} => \A e \in RunEvents : e.id <= srvCursor
  BY PageProperties DEF IInv, LogInv, StreamInv
<1>2. /\ RunEvents' = RunEvents /\ UNCHANGED <<lastId, ended, last, stage>>
      /\ \A e \in RunEvents : e.id \in Nat /\ e.id <= lastId
  BY DbFrame, RunEventFacts DEF IInv, dbVars, clientVars
<1> HIDE DEF page
<1>3. CASE page = {} /\ srv' = otherwise /\ UNCHANGED <<srvCursor, wire>>
  BY <1>1, <1>2, <1>3 DEF IInv, StreamInv
<1>4. CASE /\ wire' = wire \cup page
           /\ \E e \in page : IsLast(e, page) /\ srvCursor' = e.id
           /\ srv' = "poll"
  <2>1. PICK e \in page : IsLast(e, page) /\ srvCursor' = e.id
    BY <1>4
  <2>2. /\ srvCursor' \in Nat /\ srvCursor' <= lastId /\ srvCursor < srvCursor'
        /\ \A f \in page : f.id <= srvCursor'
    BY <1>1, <1>2, <2>1 DEF IsLast
  <2>3. wire' \subseteq RunEvents /\ \A f \in wire' : f.id <= srvCursor'
    BY <1>1, <1>2, <1>4, <2>2 DEF IInv, StreamInv
  <2>4. \A f \in RunEvents : f.id <= srvCursor' => f \in wire' \/ f.id <= last
    <3> SUFFICES ASSUME NEW f \in RunEvents, f.id <= srvCursor'
                 PROVE  f \in wire' \/ f.id <= last
      OBVIOUS
    <3>1. CASE f.id <= srvCursor
      BY <1>4, <3>1 DEF IInv, StreamInv
    <3>2. CASE f.id > srvCursor
      BY <1>1, <1>4, <2>1, <3>2
    <3> QED BY <1>2, <3>1, <3>2 DEF IInv, StreamInv
  <2> QED BY <1>2, <1>4, <2>2, <2>3, <2>4 DEF IInv, StreamInv
<1> QED BY <1>3, <1>4 DEF Yield, page

LEMMA StreamIInv ==
  ASSUME StreamStep, IInv
  PROVE  IInv'
<1>1. UNCHANGED <<dbVars, clientVars>>
  BY DEF StreamStep, Connect, SrvPoll, SrvCheck, SrvDrain
<1>2. /\ LogInv' /\ TraceInv' /\ RunEvents' = RunEvents
      /\ UNCHANGED <<lastId, state, ended, stage, last, view, after, esLast, sawEnd, replay>>
  BY <1>1, DbFrame DEF IInv, dbVars, clientVars
<1>3. ClientInv' /\ ReplayInv'
  BY <1>2 DEF IInv, ClientInv, ReplayInv, Covers, CompleteIsFinal
<1>4. StreamInv'
  <2>1. CASE Connect
    <3>1. /\ stage = "streaming" /\ srv' = "poll" /\ wire' = wire /\ wire = {}
          /\ srvCursor' \in Nat /\ srvCursor' <= last
      BY <2>1 DEF Connect, IInv, ClientInv, StreamInv
    <3>2. srvCursor' <= lastId /\ lastId \in Nat /\ last \in Nat
      BY <3>1 DEF IInv, ClientInv, LogInv
    <3>3. \A e \in RunEvents : e.id \in Nat
      BY RunEventFacts DEF IInv
    <3> QED BY <1>2, <3>1, <3>2, <3>3 DEF StreamInv
  <2>2. CASE SrvPoll
    BY <1>1, <2>2, YieldStream DEF SrvPoll
  <2>3. CASE SrvCheck
    BY <1>2, <2>3 DEF SrvCheck, IInv, StreamInv
  <2>4. CASE SrvDrain
    BY <1>1, <2>4, YieldStream DEF SrvDrain, IInv, StreamInv
  <2> QED BY <2>1, <2>2, <2>3, <2>4 DEF StreamStep
<1> QED BY <1>2, <1>3, <1>4 DEF IInv

-----------------------------------------------------------------------------
(* The client.                                                             *)

\* A terminal event of the run that the client has passed leaves nothing to show.
LEMMA FinalView ==
  ASSUME LogInv, TraceInv, NEW v \in [Record -> Nat], NEW n \in Nat,
         \A r \in Record : v[r] <= state[r],
         \A f \in RunEvents : f.id <= n => f.id <= v[f.record],
         NEW e \in RunEvents, e.final, e.id <= n
  PROVE  ended /\ v = state /\ \A f \in RunEvents : f.id <= n
<1>1. /\ ended /\ \A f \in RunEvents : f.id <= e.id
      /\ \A f \in RunEvents : f.id \in Nat
  BY RunEventFacts DEF TraceInv
<1>2. \A f \in RunEvents : f.id <= n
  BY <1>1
<1>3. \A r \in Record : v[r] = state[r]
  BY <1>2 DEF TraceInv
<1> QED BY <1>1, <1>2, <1>3 DEF TraceInv

\* Applying events that leave no gap moves the client forward.
LEMMA ApplyClient ==
  ASSUME IInv, NEW S \in SUBSET RunEvents, ApplyEvents(S), stage \in Followed,
         \A e \in S, f \in RunEvents : f.id <= e.id => f \in S \/ f.id <= last,
         stage = "complete" => \A f \in RunEvents : f.id <= last,
         UNCHANGED <<dbVars, sawEnd, after>>,
         esLast' \in Nat, esLast' <= last \/ \E e \in S : esLast' = e.id
  PROVE  /\ ClientInv' /\ last' \in Nat /\ last <= last'
         /\ \A e \in S : e.id <= last'
         /\ Ends(S) => stage' = "complete" /\ \A f \in RunEvents : f.id <= last'
         /\ ~Ends(S) => stage' = stage
<1>1. /\ RunEvents \subseteq Events
      /\ \A e \in RunEvents : e.record \in Record /\ e.id \in Nat /\ e.id <= lastId
                              /\ e.id <= state[e.record]
      /\ RunEvents' = RunEvents /\ UNCHANGED <<lastId, state, ended>> /\ TraceInv' /\ LogInv'
  BY RunEventFacts, DbFrame DEF IInv, dbVars
<1>2. /\ last \in Nat /\ last <= lastId /\ lastId \in Nat /\ view \in [Record -> Nat]
      /\ after \in Nat /\ after <= last /\ sawEnd \in BOOLEAN
      /\ state \in [Record -> Nat] /\ \A r \in Record : view[r] <= state[r]
  BY DEF IInv, ClientInv, LogInv, TraceInv
<1>3. \A r \in Record : Covers(r)
  BY DEF IInv, ClientInv, Followed, Record
<1>4. Fresh(S) \in SUBSET Events /\ \A e \in Fresh(S) : e.id <= lastId
  BY <1>1 DEF Fresh
<1>5. /\ last' \in Nat /\ last <= last' /\ last' <= lastId
      /\ \A e \in S : e.id <= last'
      /\ last' = last \/ \E e \in Fresh(S) : last' = e.id
  <2>1. CASE Fresh(S) = {}
    <3>1. last' = last
      BY <2>1 DEF ApplyEvents, Latest
    <3> QED BY <1>1, <1>2, <2>1, <3>1 DEF Fresh
  <2>2. CASE Fresh(S) # {}
    <3>1. last' = LatestId(Fresh(S))
      BY <2>2 DEF ApplyEvents, Latest
    <3>2. /\ LatestId(Fresh(S)) \in Nat /\ LatestId(Fresh(S)) <= lastId
          /\ \A e \in Fresh(S) : e.id <= LatestId(Fresh(S))
          /\ \E e \in Fresh(S) : LatestId(Fresh(S)) = e.id
      BY <1>2, <1>4, <2>2, LatestProperties
    <3>3. PICK e \in Fresh(S) : last' = e.id
      BY <3>1, <3>2
    <3>4. e.id > last /\ e.id \in Nat /\ e.id <= lastId
      BY <1>1 DEF Fresh
    <3>5. last' \in Nat /\ last <= last' /\ last' <= lastId
      BY <1>2, <3>3, <3>4
    <3>6. ASSUME NEW f \in S  PROVE f.id <= last'
      <4>1. f.id \in Nat
        BY <1>1
      <4>2. CASE f.id > last
        BY <3>1, <3>2, <4>2 DEF Fresh
      <4>3. CASE ~(f.id > last)
        BY <1>2, <3>5, <4>1, <4>3
      <4> QED BY <4>2, <4>3
    <3> QED BY <3>3, <3>5, <3>6
  <2> QED BY <2>1, <2>2
<1> DEFINE mine(r) == {e \in Fresh(S) : e.record = r}
<1>6. \A r \in Record :
        /\ view'[r] \in Nat /\ view'[r] <= state[r]
        /\ mine(r) = {} => view'[r] = view[r]
        /\ \A e \in mine(r) : e.id <= view'[r]
        /\ mine(r) # {} => \E e \in mine(r) : view'[r] = e.id
  <2> SUFFICES ASSUME NEW r \in Record
               PROVE  /\ view'[r] \in Nat /\ view'[r] <= state[r]
                      /\ mine(r) = {} => view'[r] = view[r]
                      /\ \A e \in mine(r) : e.id <= view'[r]
                      /\ mine(r) # {} => \E e \in mine(r) : view'[r] = e.id
    OBVIOUS
  <2>1. CASE mine(r) = {}
    <3>1. view'[r] = view[r]
      BY <2>1 DEF ApplyEvents, Latest
    <3> QED BY <1>2, <2>1, <3>1
  <2>2. CASE mine(r) # {}
    <3>1. view'[r] = LatestId(mine(r))
      BY <2>2 DEF ApplyEvents, Latest
    <3>2. mine(r) \in SUBSET Events /\ \A e \in mine(r) : e.id <= lastId
      BY <1>4
    <3>3. /\ LatestId(mine(r)) \in Nat
          /\ \A e \in mine(r) : e.id <= LatestId(mine(r))
          /\ \E e \in mine(r) : LatestId(mine(r)) = e.id
      <4> HIDE DEF mine
      <4> QED BY <1>2, <2>2, <3>2, LatestProperties
    <3>4. \A e \in mine(r) : e.id <= state[r]
      BY <1>1 DEF Fresh
    <3> QED BY <2>2, <3>1, <3>3, <3>4
  <2> QED BY <2>1, <2>2
<1>7. view' \in [Record -> Nat]
  <2>1. view' = [r \in Record |-> view'[r]]
    BY DEF ApplyEvents
  <2> QED BY <1>6, <2>1
<1>8. \A f \in RunEvents : f.id <= last' => f.id <= view'[f.record]
  <2> SUFFICES ASSUME NEW f \in RunEvents, f.id <= last' PROVE f.id <= view'[f.record]
    OBVIOUS
  <2>1. CASE f.id > last
    <3>1. PICK e \in Fresh(S) : last' = e.id
      BY <1>1, <1>2, <1>5, <2>1
    <3>2. f \in mine(f.record)
      BY <1>1, <1>2, <2>1, <3>1 DEF Fresh
    <3> QED BY <1>1, <1>6, <3>2
  <2>2. CASE f.id <= last
    <3>1. f.id <= view[f.record] /\ f.record \in Record
      BY <1>1, <1>3, <2>2 DEF Covers
    <3>2. CASE mine(f.record) = {}
      BY <1>6, <3>1, <3>2
    <3>3. CASE mine(f.record) # {}
      <4>1. PICK e \in mine(f.record) : view'[f.record] = e.id
        BY <1>6, <3>1, <3>3
      <4> QED BY <1>1, <1>2, <2>2, <4>1 DEF Fresh
    <3> QED BY <3>2, <3>3
  <2> QED BY <1>1, <1>2, <2>1, <2>2
<1>9. Ends(S) => ended /\ view' = state /\ \A f \in RunEvents : f.id <= last'
  <2> SUFFICES ASSUME NEW e \in Fresh(S), e.final
               PROVE  ended /\ view' = state /\ \A f \in RunEvents : f.id <= last'
    BY DEF Ends
  <2>1. e \in RunEvents /\ e.id <= last'
    BY <1>5 DEF Fresh
  <2> QED BY <1>5, <1>6, <1>7, <1>8, <2>1, FinalView DEF IInv
<1>10. stage = "complete" => view' = view /\ ended /\ view = state
  <2> SUFFICES ASSUME stage = "complete" PROVE view' = view /\ ended /\ view = state
    OBVIOUS
  <2>1. \A r \in Record : mine(r) = {}
    BY <1>1, <1>2 DEF Fresh
  <2> QED BY <1>2, <1>6, <1>7, <2>1 DEF IInv, ClientInv, CompleteIsFinal
<1>11. stage' = IF Ends(S) THEN "complete" ELSE stage
  BY DEF ApplyEvents
<1>12. \A r \in Record : Covers(r)'
  BY <1>1, <1>8 DEF Covers
<1>13. esLast' <= last'
  BY <1>2, <1>5
<1>14. CompleteIsFinal'
  BY <1>1, <1>9, <1>10, <1>11 DEF CompleteIsFinal
<1>15. ClientInv'
  BY <1>1, <1>2, <1>5, <1>6, <1>7, <1>11, <1>12, <1>13, <1>14 DEF ClientInv, Reading, Followed, Record
<1> QED BY <1>5, <1>9, <1>11, <1>15

LEMMA DeliverIInv ==
  ASSUME Deliver, IInv
  PROVE  IInv'
<1>1. PICK e \in wire :
        /\ \A f \in wire : e.id <= f.id
        /\ esLast' = e.id
        /\ ApplyEvents({e})
        /\ IF Ends({e}) THEN CloseStream ELSE wire' = wire \ {e} /\ UNCHANGED <<srv, srvCursor>>
  BY DEF Deliver
<1>2. stage = "streaming" /\ UNCHANGED <<dbVars, sawEnd, after, replay>>
  BY DEF Deliver
<1>3. /\ LogInv' /\ TraceInv' /\ RunEvents' = RunEvents /\ UNCHANGED <<lastId, ended>>
      /\ RunEvents \subseteq committed /\ \A f \in RunEvents : f.id \in Nat
  BY <1>2, DbFrame, RunEventFacts DEF IInv, dbVars
<1>4. srv # "off" /\ e \in RunEvents /\ e.id <= srvCursor
  BY <1>1 DEF IInv, StreamInv
<1>5. \A f \in RunEvents : f.id <= e.id => f \in {e} \/ f.id <= last
  <2> SUFFICES ASSUME NEW f \in RunEvents, f.id <= e.id, ~(f.id <= last) PROVE f = e
    OBVIOUS
  <2>1. f \in wire
    BY <1>3, <1>4 DEF IInv, StreamInv
  <2>2. f.id = e.id
    BY <1>1, <1>3, <1>4, <2>1
  <2> QED BY <1>3, <1>4, <2>2 DEF IInv, LogInv, IdsFollowVisibility
<1>6. /\ ClientInv' /\ last' \in Nat /\ last <= last' /\ e.id <= last'
      /\ Ends({e}) => stage' = "complete" /\ \A f \in RunEvents : f.id <= last'
      /\ ~Ends({e}) => stage' = stage
  BY <1>1, <1>2, <1>3, <1>4, <1>5, ApplyClient DEF Followed
<1>7. StreamInv'
  <2>1. CASE Ends({e})
    <3>1. CloseStream /\ stage' = "complete"
      BY <1>1, <1>6, <2>1
    <3> QED BY <1>3, <3>1 DEF IInv, StreamInv, CloseStream
  <2>2. CASE ~Ends({e})
    <3>1. wire' = wire \ {e} /\ UNCHANGED <<srv, srvCursor>> /\ stage' = stage
      BY <1>1, <1>6, <2>2
    <3>2. last \in Nat
      BY DEF IInv, ClientInv
    <3>3. \A f \in RunEvents : f.id <= srvCursor => f \in wire' \/ f.id <= last'
      BY <1>3, <1>4, <1>6, <3>1, <3>2 DEF IInv, StreamInv
    <3> QED BY <1>2, <1>3, <1>4, <3>1, <3>3 DEF IInv, StreamInv
  <2> QED BY <2>1, <2>2
<1>8. ReplayInv'
  <2>1. last \in Nat /\ replay.from \in Nat
    BY DEF IInv, ClientInv, ReplayInv
  <2>2. stage' \in Followed /\ stage' = "complete" => \A f \in RunEvents : f.id <= last'
    BY <1>2, <1>6
  <2>3. stage' \notin Reading
    BY <1>2, <1>6 DEF Reading
  <2> QED BY <1>2, <1>3, <1>6, <2>1, <2>2, <2>3 DEF IInv, ReplayInv, Followed
<1> QED BY <1>3, <1>6, <1>7, <1>8 DEF IInv

LEMMA ConnectionLostIInv ==
  ASSUME ConnectionLost, IInv
  PROVE  IInv'
<1>1. /\ stage = "streaming" /\ srv' = "off" /\ wire' = {}
      /\ replay' = IF replay.stage = "none"
                   THEN [stage |-> "asked", from |-> last, page |-> {}]
                   ELSE replay
      /\ UNCHANGED <<dbVars, srvCursor, stage, sawEnd, last, view, after, esLast>>
  BY DEF ConnectionLost
<1>2. LogInv' /\ TraceInv' /\ RunEvents' = RunEvents /\ UNCHANGED <<lastId, state, ended>>
  BY <1>1, DbFrame DEF IInv, dbVars
<1>3. ClientInv'
  BY <1>1, <1>2 DEF IInv, ClientInv, Covers, CompleteIsFinal
<1>4. StreamInv'
  BY <1>1, <1>2 DEF IInv, StreamInv
<1>5. ReplayInv'
  <2>1. last \in Nat
    BY DEF IInv, ClientInv
  <2>2. CASE replay.stage = "none"
    BY <1>1, <1>2, <2>1, <2>2 DEF ReplayInv, Reading
  <2>3. CASE replay.stage # "none"
    BY <1>1, <1>2, <2>3 DEF IInv, ReplayInv
  <2> QED BY <2>2, <2>3
<1> QED BY <1>2, <1>3, <1>4, <1>5 DEF IInv

LEMMA ReplayIInv ==
  ASSUME ReplayStep, IInv
  PROVE  IInv'
<1>1. LogInv' /\ TraceInv' /\ RunEvents' = RunEvents /\ UNCHANGED <<dbVars, lastId, state, ended>>
  <2>1. UNCHANGED dbVars
    BY DEF ReplayStep, ReplayRead, ReplayApply, ReplayFails
  <2> QED BY <2>1, DbFrame DEF IInv, dbVars
<1>2. replay.stage # "none" /\ stage \in Followed
  BY DEF ReplayStep, ReplayRead, ReplayApply, ReplayFails, IInv, ClientInv, ReplayInv
<1>3. CASE ReplayRead \/ ReplayFails
  <2>1. UNCHANGED <<srvVars, stage, sawEnd, last, view, after, esLast>>
    BY <1>3 DEF ReplayRead, ReplayFails
  <2>2. ClientInv' /\ StreamInv'
    BY <1>1, <2>1 DEF IInv, ClientInv, StreamInv, Covers, CompleteIsFinal, srvVars
  <2>3. CASE ReplayRead
    <3>1. /\ replay.stage = "asked" /\ replay.from <= last /\ replay.from \in Nat /\ last \in Nat
          /\ replay' = [stage |-> "answered", from |-> replay.from, page |-> PageAfter(replay.from)]
      BY <2>3 DEF ReplayRead, IInv, ReplayInv, ClientInv
    <3>2. /\ PageAfter(replay.from) \subseteq RunEvents
          /\ \A e \in PageAfter(replay.from), f \in RunEvents :
               f.id > replay.from /\ f.id <= e.id => f \in PageAfter(replay.from)
      BY <3>1, PageProperties DEF IInv, LogInv
    <3>3. \A f \in RunEvents : f.id \in Nat
      BY RunEventFacts DEF IInv
    <3>4. \A e \in PageAfter(replay.from), f \in RunEvents :
            f.id <= e.id => f \in PageAfter(replay.from) \/ f.id <= last
      BY <3>1, <3>2, <3>3
    <3>5. stage = "complete" => \A e \in RunEvents : e.id <= last
      BY <1>2 DEF IInv, ReplayInv
    <3> QED BY <1>1, <1>2, <2>1, <2>2, <3>1, <3>2, <3>4, <3>5 DEF IInv, ReplayInv, Reading, Followed
  <2>4. CASE ReplayFails
    <3>1. ReplayInv'
      BY <1>1, <2>1, <2>4 DEF ReplayFails, ReplayInv, NoReplay
    <3> QED BY <1>1, <2>2, <3>1 DEF IInv
  <2> QED BY <1>3, <2>3, <2>4
<1>4. CASE ReplayApply
  <2>1. /\ replay.stage = "answered" /\ replay' = NoReplay
        /\ ApplyEvents(replay.page)
        /\ IF Ends(replay.page) THEN CloseStream ELSE UNCHANGED srvVars
        /\ UNCHANGED <<dbVars, sawEnd, after, esLast>>
    BY <1>4 DEF ReplayApply
  <2>2. /\ replay.page \in SUBSET RunEvents
        /\ \A e \in replay.page, f \in RunEvents : f.id <= e.id => f \in replay.page \/ f.id <= last
        /\ stage = "complete" => \A f \in RunEvents : f.id <= last
        /\ esLast \in Nat /\ esLast <= last
    BY <2>1 DEF IInv, ReplayInv, ClientInv
  <2>3. /\ ClientInv' /\ last' \in Nat /\ last <= last'
        /\ Ends(replay.page) => stage' = "complete"
        /\ ~Ends(replay.page) => stage' = stage
    BY <1>2, <2>1, <2>2, ApplyClient
  <2>4. StreamInv'
    <3>1. CASE Ends(replay.page)
      BY <1>1, <2>1, <2>3, <3>1 DEF IInv, StreamInv, CloseStream
    <3>2. CASE ~Ends(replay.page)
      <4>1. UNCHANGED <<srv, srvCursor, wire, stage>>
        BY <2>1, <2>3, <3>2 DEF srvVars
      <4>2. \A e \in RunEvents : e.id <= last => e.id <= last'
        BY <2>3, RunEventFacts DEF IInv, ClientInv
      <4> QED BY <1>1, <4>1, <4>2 DEF IInv, StreamInv
    <3> QED BY <3>1, <3>2
  <2>5. ReplayInv'
    BY <2>1 DEF ReplayInv, NoReplay
  <2> QED BY <1>1, <2>3, <2>4, <2>5 DEF IInv
<1> QED BY <1>3, <1>4 DEF ReplayStep

-----------------------------------------------------------------------------
(* The theorems.                                                           *)

LEMMA NextIInv == IInv /\ [Next]_vars => IInv'
<1> SUFFICES ASSUME IInv, [Next]_vars PROVE IInv'
  OBVIOUS
<1>1. CASE WriterStep
  <2>1. ASSUME NEW r \in Record, NEW f \in BOOLEAN, AppendRunEvent(r, f) PROVE IInv'
    BY <2>1, AppendRunEventIInv
  <2>2. ASSUME NEW w \in OtherWriter, AppendOtherEvent(w) PROVE IInv'
    BY <2>2, AppendOtherEventIInv
  <2>3. ASSUME NEW w \in Writer, Commit(w) \/ Rollback(w) PROVE IInv'
    BY <2>3, CommitIInv, RollbackIInv
  <2> QED BY <1>1, <2>1, <2>2, <2>3 DEF WriterStep
<1>2. CASE SnapshotStep \/ SnapshotFails
  BY <1>2, SnapshotIInv
<1>3. CASE StreamStep
  BY <1>3, StreamIInv
<1>4. CASE Deliver
  BY <1>4, DeliverIInv
<1>5. CASE ConnectionLost
  BY <1>5, ConnectionLostIInv
<1>6. CASE ReplayStep
  BY <1>6, ReplayIInv
<1>7. CASE UNCHANGED vars
  <2>1. UNCHANGED <<dbVars, clientVars, srvVars>>
    BY <1>7 DEF vars
  <2>2. LogInv' /\ TraceInv' /\ RunEvents' = RunEvents
    BY <2>1, DbFrame DEF IInv
  <2>3. ClientInv' /\ StreamInv' /\ ReplayInv'
    BY <2>1, <2>2 DEF IInv, ClientInv, StreamInv, ReplayInv, Covers, CompleteIsFinal,
                      dbVars, clientVars, srvVars
  <2> QED BY <2>2, <2>3 DEF IInv
<1> QED BY <1>1, <1>2, <1>3, <1>4, <1>5, <1>6, <1>7 DEF Next

\* The event log, the open snapshots, streams and replays are always in step: the
\* inductive invariant from which the four properties below follow.
THEOREM Invariant == Spec => []IInv
<1> QED BY InitIInv, NextIInv, PTL DEF Spec

\* For any number of concurrent writers and of events they log per transaction:
\* the visible events have the ids 1, 2, ... without a gap, and each id once.
THEOREM IdsAreVisibleInOrder == Spec => []IdsFollowVisibility
<1>1. IInv => IdsFollowVisibility
  BY DEF IInv, LogInv
<1> QED BY <1>1, Invariant, PTL

\* Whatever connections break, pages are sent twice and replays overlap with the
\* stream: what the client shows covers all it would not ask for again.
THEOREM ClientSkipsNothing == Spec => []NothingSkipped
<1>1. IInv => NothingSkipped
  <2> SUFFICES ASSUME IInv, stage \in Followed, NEW e \in RunEvents, e.id <= last
               PROVE  e.id <= view[e.record]
    BY DEF NothingSkipped, Followed
  <2>1. e.record \in Record
    BY RunEventFacts DEF IInv
  <2> QED BY <2>1 DEF IInv, ClientInv, Covers, Record
<1> QED BY <1>1, Invariant, PTL

\* The generator of a stream returns only when every event of the run is sent.
THEOREM StreamsSendAll == Spec => []StreamEndsAfterLastEvent
<1>1. IInv => StreamEndsAfterLastEvent
  BY DEF IInv, StreamInv, StreamEndsAfterLastEvent
<1> QED BY <1>1, Invariant, PTL

\* A trace that is shown as complete is the final one, for every mix of
\* snapshot, stream and replay.
THEOREM CompleteTracesAreFinal == Spec => []CompleteIsFinal
<1>1. IInv => CompleteIsFinal
  BY DEF IInv, ClientInv
<1> QED BY <1>1, Invariant, PTL

-----------------------------------------------------------------------------
(* The refinement of EventFeed.                                            *)

LEMMA FeedFrame ==
  ASSUME RunEvents' = RunEvents, UNCHANGED <<state, ended, stage, view, last>>
  PROVE  UNCHANGED Feed!vars
BY DEF Feed!vars, Status, Loaded

\* The one event of a commit of the run is behind all there are; other commits do
\* not show.
LEMMA CommitPublishes ==
  ASSUME NEW w \in Writer, Commit(w), IInv
  PROVE  Feed!Publish \/ UNCHANGED Feed!vars
<1> DEFINE new(r) == {e \in open[w] : e.record = r}
<1>1. /\ committed' = committed \cup open[w] /\ open[w] # {}
      /\ state' = [r \in Record |-> IF new(r) = {} THEN state[r] ELSE LatestId(new(r))]
      /\ ended' = (ended \/ \E e \in open[w] : e.final)
      /\ UNCHANGED <<clientVars, srvVars>>
  BY DEF Commit
<1>2. /\ \A e \in open[w] : e.id > lastId
      /\ open[w] \subseteq Events /\ lastId \in Nat
      /\ \A e \in committed : e.id \in Nat /\ e.id <= lastId
  BY CommitLog DEF IInv, LogInv, IdsFollowVisibility, Events
<1>3. RunEvents' = RunEvents \cup {e \in open[w] : e.record # "other"} /\ RunEvents \subseteq committed
  BY <1>1 DEF RunEvents
<1>4. UNCHANGED <<Status, Loaded, view, last>>
  BY <1>1 DEF clientVars, Status, Loaded
<1>5. CASE w = RunWriter
  <2>1. PICK e \in open[w] : open[w] = {e}
    BY <1>1, <1>5 DEF IInv, TraceInv
  <2>2. e.record \in Record /\ e \in Events /\ e.id \in Nat /\ e.final \in BOOLEAN /\ ~ended
    BY <1>1, <1>2, <1>5, <2>1 DEF IInv, TraceInv, Events
  <2>3. e \in Feed!Event
    BY <2>2 DEF Feed!Event, Events
  <2>4. /\ RunEvents' = RunEvents \cup {e} /\ e \in RunEvents' \ RunEvents
        /\ \A f \in RunEvents : f.id < e.id
    <3>1. e.record # "other"
      BY <2>2 DEF Record
    <3>2. \A f \in RunEvents : f.id < e.id
      BY <1>2, <1>3, <2>1, <2>2
    <3>3. e \notin RunEvents
      BY <2>2, <3>2
    <3> QED BY <1>3, <2>1, <3>1, <3>2, <3>3
  <2>5. state' = [state EXCEPT ![e.record] = e.id]
    <3>1. LatestId({e}) = e.id
      BY <2>2, LatestProperties
    <3>2. \A r \in Record : new(r) = IF r = e.record THEN {e} ELSE {}
      BY <2>1
    <3>3. \A r \in Record : state'[r] = IF r = e.record THEN e.id ELSE state[r]
      <4> HIDE DEF new
      <4> QED BY <1>1, <3>1, <3>2
    <3>4. state \in [Record -> Nat] /\ state' = [r \in Record |-> state'[r]]
      BY <1>1 DEF IInv, TraceInv
    <3> QED BY <3>3, <3>4
  <2>6. ended' = e.final
    BY <1>1, <2>1, <2>2
  <2> QED BY <1>4, <2>2, <2>3, <2>4, <2>5, <2>6 DEF Feed!Publish
<1>6. CASE w \in OtherWriter
  <2>1. \A e \in open[w] : e.record = "other" /\ ~e.final
    BY <1>6 DEF IInv, TraceInv
  <2>2. RunEvents' = RunEvents /\ ended' = ended
    BY <1>1, <1>3, <2>1 DEF IInv, TraceInv
  <2>3. state' = state
    <3>1. \A r \in Record : new(r) = {}
      BY <2>1 DEF Record
    <3> QED BY <1>1, <3>1 DEF IInv, TraceInv
  <2> QED BY <1>1, <2>2, <2>3, FeedFrame DEF clientVars
<1> QED BY <1>5, <1>6 DEF Writer

\* The four reads of a snapshot; its own status of the run, read first, is final
\* with all that is read after it.
LEMMA SnapshotLoads ==
  ASSUME SnapshotStep \/ SnapshotFails, IInv
  PROVE  Feed!Next
<1>1. RunEvents' = RunEvents /\ UNCHANGED <<state, ended>>
  BY DEF SnapshotStep, SnapshotCursor, SnapshotRun, SnapshotSteps, SnapshotArtifacts, SnapshotFails,
         dbVars, RunEvents
<1>2. CASE SnapshotCursor
  <2>1. /\ stage = "new" /\ stage' = "readRun" /\ last' = LatestId(RunEvents) /\ view' = view
    BY <1>2 DEF SnapshotCursor
  <2>2. /\ RunEvents \in SUBSET Events /\ lastId \in Nat /\ \A e \in RunEvents : e.id <= lastId
    BY RunEventFacts DEF IInv, LogInv
  <2>3. RunEvents # {} => \E e \in RunEvents : Feed!Newest(e, RunEvents) /\ last' = e.id
    BY <2>1, <2>2, LatestProperties DEF Feed!Newest
  <2>4. RunEvents = {} => last' = 0
    BY <2>1 DEF LatestId
  <2>5. Status = "closed" /\ Status' = "loading" /\ Loaded' = Loaded
    BY <2>1 DEF Status, Loaded
  <2> QED BY <1>1, <2>1, <2>3, <2>4, <2>5 DEF Feed!Next, Feed!Open
<1>3. CASE SnapshotRun
  <2>1. /\ stage = "readRun" /\ stage' = "readSteps" /\ last' = last
        /\ view' = [view EXCEPT !["run"] = state["run"]]
    BY <1>3 DEF SnapshotRun
  <2>2. Status = "loading" /\ Status' = "loading" /\ Loaded = {} /\ Loaded' = {"run"}
    BY <2>1 DEF Status, Loaded
  <2>3. Feed!Load("run")
    BY <1>1, <2>1, <2>2 DEF Feed!Load, Record
  <2> QED BY <2>3 DEF Feed!Next, Record
<1>4. CASE SnapshotSteps
  <2>1. /\ stage = "readSteps" /\ stage' = "readArtifacts" /\ last' = last
        /\ view' = [view EXCEPT !["step"] = state["step"]]
    BY <1>4 DEF SnapshotSteps
  <2>2. Status = "loading" /\ Status' = "loading" /\ Loaded = {"run"} /\ Loaded' = {"run", "step"}
    BY <2>1 DEF Status, Loaded
  <2>3. Feed!Load("step")
    BY <1>1, <2>1, <2>2 DEF Feed!Load, Record
  <2> QED BY <2>3 DEF Feed!Next, Record
<1>5. CASE SnapshotArtifacts
  <2>1. /\ stage = "readArtifacts" /\ stage' = (IF sawEnd THEN "complete" ELSE "streaming") /\ last' = last
        /\ view' = [view EXCEPT !["artifact"] = state["artifact"]]
    BY <1>5 DEF SnapshotArtifacts
  <2>2. /\ Status = "loading" /\ Loaded = {"run", "step"} /\ Loaded' = Record
        /\ Status' = (IF sawEnd THEN "complete" ELSE "following")
    BY <2>1 DEF Status, Loaded
  <2>3. sawEnd => ended /\ view' = state
    <3> SUFFICES ASSUME sawEnd PROVE ended /\ view' = state
      OBVIOUS
    <3>1. /\ ended /\ view["run"] = state["run"] /\ view["step"] = state["step"]
          /\ view \in [Record -> Nat] /\ state \in [Record -> Nat]
      BY <2>1 DEF IInv, ClientInv, TraceInv
    <3> QED BY <2>1, <3>1 DEF Record
  <2>4. Loaded' = Loaded \cup {"artifact"} /\ "artifact" \notin Loaded
    BY <2>2 DEF Record
  <2>5. Feed!Load("artifact")
    BY <1>1, <2>1, <2>2, <2>3, <2>4 DEF Feed!Load
  <2> QED BY <2>5 DEF Feed!Next, Record
<1>6. CASE SnapshotFails
  <2>1. /\ stage \in {"new", "readRun", "readSteps", "readArtifacts"} /\ stage' = "failed"
        /\ UNCHANGED <<last, view>>
    BY <1>6 DEF SnapshotFails
  <2>2. Status \in {"closed", "loading"} /\ Status' = "failed" /\ Loaded' = {}
    BY <2>1 DEF Status, Loaded
  <2> QED BY <1>1, <2>1, <2>2 DEF Feed!Next, Feed!Fail
<1> QED BY <1>2, <1>3, <1>4, <1>5, <1>6 DEF SnapshotStep

\* What applyExecutionEvent takes of a page that leaves no gap is exactly what the
\* client has not passed, up to the end of the page.
LEMMA ApplyFollows ==
  ASSUME IInv, NEW S \in SUBSET RunEvents, ApplyEvents(S), stage \in Followed,
         \A e \in S, f \in RunEvents : f.id <= e.id => f \in S \/ f.id <= last,
         stage = "complete" => \A f \in RunEvents : f.id <= last,
         RunEvents' = RunEvents, UNCHANGED <<state, ended>>
  PROVE  Feed!Follow \/ UNCHANGED Feed!vars
<1> DEFINE mine(r) == {e \in Fresh(S) : e.record = r}
<1>1. /\ RunEvents \subseteq Events /\ lastId \in Nat /\ last \in Nat /\ view \in [Record -> Nat]
      /\ \A e \in RunEvents : e.id \in Nat /\ e.id <= lastId
  BY RunEventFacts DEF IInv, ClientInv, LogInv
<1>2. /\ last' = Latest(Fresh(S), last)
      /\ view' = [r \in Record |-> Latest(mine(r), view[r])]
      /\ stage' = IF Ends(S) THEN "complete" ELSE stage
  BY DEF ApplyEvents
<1>3. Fresh(S) \in SUBSET RunEvents /\ Fresh(S) \in SUBSET Events
  BY <1>1 DEF Fresh
<1>4. CASE Fresh(S) = {}
  <2>1. last' = last /\ ~Ends(S)
    BY <1>2, <1>4 DEF Latest, Ends
  <2>2. \A r \in Record : Latest(mine(r), view[r]) = view[r]
    BY <1>4 DEF Latest
  <2>3. view' = view
    BY <1>1, <1>2, <2>2
  <2> QED BY <1>2, <2>1, <2>3, FeedFrame
<1>5. CASE Fresh(S) # {}
  <2>1. stage = "streaming"
    BY <1>1, <1>3, <1>5 DEF Followed, Fresh
  <2>2. /\ \A e \in Fresh(S) : e.id <= last'
        /\ \E e \in Fresh(S) : last' = e.id
    BY <1>1, <1>2, <1>3, <1>5, LatestProperties DEF Latest
  <2>3. PICK e \in Fresh(S) : last' = e.id
    BY <2>2
  <2>4. e \in S /\ e \in RunEvents /\ e.id > last
    BY <1>3 DEF Fresh
  <2> DEFINE passed == {f \in RunEvents : last < f.id /\ f.id <= last'}
  <2>5. passed = Fresh(S)
    <3>1. ASSUME NEW f \in passed PROVE f \in Fresh(S)
      BY <1>1, <2>3, <2>4 DEF Fresh
    <3>2. ASSUME NEW f \in Fresh(S) PROVE f \in passed
      BY <1>1, <1>3, <2>2 DEF Fresh
    <3> QED BY <3>1, <3>2
  <2>6. \A r \in Record :
          IF mine(r) = {} THEN view'[r] = view[r]
          ELSE \E f \in mine(r) : Feed!Newest(f, mine(r)) /\ view'[r] = f.id
    <3> SUFFICES ASSUME NEW r \in Record
                 PROVE  IF mine(r) = {} THEN view'[r] = view[r]
                        ELSE \E f \in mine(r) : Feed!Newest(f, mine(r)) /\ view'[r] = f.id
      OBVIOUS
    <3>1. view'[r] = Latest(mine(r), view[r])
      BY <1>2
    <3>2. mine(r) \in SUBSET Events /\ \A f \in mine(r) : f.id <= lastId
      BY <1>1, <1>3
    <3> HIDE DEF mine
    <3> QED BY <1>1, <3>1, <3>2, LatestProperties DEF Latest, Feed!Newest
  <2>7. view' = [r \in Record |-> view'[r]]
    BY <1>2
  <2>8. /\ Status = "following" /\ Loaded' = Loaded
        /\ Status' = IF \E f \in Fresh(S) : f.final THEN "complete" ELSE "following"
    BY <1>2, <2>1 DEF Status, Loaded, Ends
  <2>9. \E f \in RunEvents : f.id > last /\ last' = f.id
    BY <2>3, <2>4
  <2> HIDE DEF passed
  <2>10. \A r \in Record : {f \in passed : f.record = r} = mine(r)
    BY <2>5
  <2> QED BY <2>5, <2>6, <2>7, <2>8, <2>9, <2>10 DEF Feed!Follow, passed
<1> QED BY <1>4, <1>5

\* A trace is followed as EventFeed says, for any number of writers, any size of
\* pages, and however often connections break and replays overlap with the stream:
\* each event behind the cursor of the snapshot is applied once, in order, and a
\* client that is done has applied them all.
THEOREM ClientFollowsFeed == Spec => FollowsFeed
<1>1. Init => Feed!Init
  BY DEF Init, Feed!Init, RunEvents, Status, Loaded
<1>2. IInv /\ [Next]_vars => [Feed!Next]_(Feed!vars)
  <2> SUFFICES ASSUME IInv, [Next]_vars PROVE Feed!Next \/ UNCHANGED Feed!vars
    OBVIOUS
  <2>1. CASE \E w \in Writer : Commit(w)
    BY <2>1, CommitPublishes DEF Feed!Next
  <2>2. CASE \/ \E r \in Record, f \in BOOLEAN : AppendRunEvent(r, f)
             \/ \E w \in OtherWriter : AppendOtherEvent(w)
             \/ \E w \in Writer : Rollback(w)
             \/ StreamStep \/ ConnectionLost \/ ReplayRead \/ ReplayFails \/ UNCHANGED vars
    <3>1. UNCHANGED <<committed, state, ended, stage, view, last>>
      BY <2>2 DEF AppendRunEvent, AppendOtherEvent, Append, Rollback, StreamStep, Connect, SrvPoll,
                  SrvCheck, SrvDrain, ConnectionLost, ReplayRead, ReplayFails, vars, dbVars, clientVars
    <3> QED BY <3>1, FeedFrame DEF RunEvents
  <2>3. CASE SnapshotStep \/ SnapshotFails
    BY <2>3, SnapshotLoads
  <2>4. CASE Deliver
    <3>1. PICK e \in wire : (\A f \in wire : e.id <= f.id) /\ ApplyEvents({e})
      BY <2>4 DEF Deliver
    <3>2. /\ stage = "streaming" /\ UNCHANGED <<state, ended>> /\ RunEvents' = RunEvents
          /\ \A f \in RunEvents : f.id \in Nat
      BY <2>4, RunEventFacts DEF Deliver, dbVars, RunEvents, IInv
    <3>3. srv # "off" /\ e \in RunEvents /\ e.id <= srvCursor
      BY <3>1 DEF IInv, StreamInv
    <3>4. \A f \in RunEvents : f.id <= e.id => f \in {e} \/ f.id <= last
      <4> SUFFICES ASSUME NEW f \in RunEvents, f.id <= e.id, ~(f.id <= last) PROVE f = e
        OBVIOUS
      <4>1. f \in wire
        BY <3>2, <3>3 DEF IInv, StreamInv
      <4>2. f.id = e.id /\ f \in committed /\ e \in committed
        BY <3>1, <3>2, <3>3, <4>1 DEF RunEvents
      <4> QED BY <4>2 DEF IInv, LogInv, IdsFollowVisibility
    <3> QED BY <3>1, <3>2, <3>3, <3>4, ApplyFollows DEF Followed, Feed!Next
  <2>5. CASE ReplayApply
    <3>1. /\ replay.stage = "answered" /\ ApplyEvents(replay.page)
          /\ UNCHANGED <<state, ended>> /\ RunEvents' = RunEvents
      BY <2>5 DEF ReplayApply, dbVars, RunEvents
    <3>2. /\ replay.page \in SUBSET RunEvents /\ stage \in Followed
          /\ \A e \in replay.page, f \in RunEvents : f.id <= e.id => f \in replay.page \/ f.id <= last
          /\ stage = "complete" => \A f \in RunEvents : f.id <= last
      BY <3>1 DEF IInv, ReplayInv, ClientInv
    <3> QED BY <3>1, <3>2, ApplyFollows DEF Feed!Next
  <2> QED BY <2>1, <2>2, <2>3, <2>4, <2>5 DEF Next, WriterStep, ReplayStep
<1> QED BY <1>1, <1>2, Invariant, PTL DEF Spec, FollowsFeed, Feed!Spec
=============================================================================
