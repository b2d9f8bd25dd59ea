---------------------------- MODULE TraceStream ----------------------------
(***************************************************************************)
(* The execution event log (src/src/ooh/db/repos/execution_events.py), the *)
(* trace snapshot and the server-sent event stream built on it             *)
(* (services/traces.py, api/routes/traces.py), and the browser client that *)
(* follows one agent run (frontend/src/App.tsx, useTraceData).             *)
(*                                                                         *)
(* An event is its id, the record of the trace it changes (the run, a step *)
(* or an artifact) and whether it ends the run.  The content of a record   *)
(* is the id of the last event that changed it, since the payload of an    *)
(* event is the whole changed record.                                      *)
(***************************************************************************)
EXTENDS Naturals, FiniteSets

CONSTANTS
  RunWriter,    \* the worker that executes the run, one step at a time
  OtherWriter,  \* transactions that log events of other runs and jobs
  MaxPerTxn,    \* events one such transaction logs (claim_next with recoveries)
  PageSize,     \* EVENT_STREAM_PAGE_SIZE, also the default limit of a replay
  MaxEvents,    \* bound: events logged
  NoOne

Writer == OtherWriter \cup {RunWriter}
Record   == {"run", "step", "artifact"}

ASSUME WriterAssumption == RunWriter \notin OtherWriter /\ NoOne \notin Writer
ASSUME BoundAssumption  == /\ MaxEvents \in Nat
                           /\ PageSize \in Nat \ {0}
                           /\ MaxPerTxn \in Nat \ {0}

VARIABLES
  committed,   \* the visible rows of execution_events
  lastId,      \* last_event_id of the visible cursor row
  lock,        \* the writer whose transaction holds the cursor row
  open,        \* the events each open transaction has inserted
  state,       \* the visible content of each record of the trace
  ended,       \* the run has a terminal status
  stage,       \* where the client is
  sawEnd,      \* the run status the snapshot read was terminal
  last,        \* lastEventIdRef of the client
  view,        \* the trace the client shows
  after,       \* after_event_id of the stream URL
  esLast,      \* the last event id the EventSource dispatched
  srv,         \* where the server's generator for this client is
  srvCursor,   \* its cursor
  wire,        \* the events it has yielded that are not yet received
  replay       \* the events request replayDurableEvents has under way

dbVars     == <<committed, lastId, lock, open, state, ended>>
clientVars == <<stage, sawEnd, last, view, after, esLast, replay>>
srvVars    == <<srv, srvCursor, wire>>
vars       == <<dbVars, clientVars, srvVars>>

NoReplay == [stage |-> "none", from |-> 0, page |-> {}]

-----------------------------------------------------------------------------
(* Event sets.                                                             *)

IsLast(e, S) == \A f \in S : f.id <= e.id

\* func.max of the ids, or 0.
LatestId(S) == IF S = {} THEN 0 ELSE (CHOOSE e \in S : IsLast(e, S)).id

RunEvents == {e \in committed : e.record # "other"}

\* list_for_agent_run: ORDER BY id LIMIT PageSize.
PageAfter(n) ==
  LET newer == {e \in RunEvents : e.id > n}
  IN  {e \in newer : Cardinality({f \in newer : f.id < e.id}) < PageSize}

-----------------------------------------------------------------------------
Init ==
  /\ committed = {} /\ lastId = 0 /\ lock = NoOne
  /\ open = [w \in Writer |-> {}]
  /\ state = [r \in Record |-> 0]
  /\ ended = FALSE
  /\ stage = "new" /\ sawEnd = FALSE /\ last = 0
  /\ view = [r \in Record |-> 0]
  /\ after = 0 /\ esLast = 0 /\ replay = NoReplay
  /\ srv = "off" /\ srvCursor = 0 /\ wire = {}

-----------------------------------------------------------------------------
(* Writers.  append_execution_event locks the cursor row, and the lock is  *)
(* held until the transaction that changes the trace ends.                 *)

\* Mutant of Append: the cursor row is read without FOR UPDATE.
AppendUnlocked(w, r, f) ==
  /\ LET n == lastId + Cardinality(open[w]) + 1
     IN  /\ n <= MaxEvents
         /\ open' = [open EXCEPT ![w] = @ \cup {[id |-> n, record |-> r, final |-> f]}]
  /\ lock' = w
  /\ UNCHANGED <<committed, lastId, state, ended, clientVars, srvVars>>

Append(w, r, f) ==
  /\ lock \in {NoOne, w}
  /\ LET n == lastId + Cardinality(open[w]) + 1
     IN  /\ n <= MaxEvents
         /\ open' = [open EXCEPT ![w] = @ \cup {[id |-> n, record |-> r, final |-> f]}]
  /\ lock' = w
  /\ UNCHANGED <<committed, lastId, state, ended, clientVars, srvVars>>

\* A method of AgentTraceRepo: one change of the trace and its event.
AppendRunEvent(r, f) ==
  /\ ~ended /\ open[RunWriter] = {}
  /\ f => r = "run"
  /\ Append(RunWriter, r, f)

AppendOtherEvent(w) ==
  /\ Cardinality(open[w]) < MaxPerTxn
  /\ Append(w, "other", FALSE)

Commit(w) ==
  /\ open[w] # {}
  /\ committed' = committed \cup open[w]
  /\ lastId' = lastId + Cardinality(open[w])
  /\ state' = [r \in Record |->
                 LET new == {e \in open[w] : e.record = r}
                 IN  IF new = {} THEN state[r] ELSE LatestId(new)]
  /\ ended' = (ended \/ \E e \in open[w] : e.final)
  /\ open' = [open EXCEPT ![w] = {}]
  /\ lock' = NoOne
  /\ UNCHANGED <<clientVars, srvVars>>

\* The cursor row is rolled back with the events: their ids are given out again.
Rollback(w) ==
  /\ open[w] # {}
  /\ open' = [open EXCEPT ![w] = {}]
  /\ lock' = NoOne
  /\ UNCHANGED <<committed, lastId, state, ended, clientVars, srvVars>>

-----------------------------------------------------------------------------
(* get_run_snapshot: four reads, each in a transaction of its own.         *)

SnapshotCursor ==
  /\ stage = "new"
  /\ last' = LatestId(RunEvents)
  /\ after' = LatestId(RunEvents)
  /\ stage' = "readRun"
  /\ UNCHANGED <<dbVars, srvVars, sawEnd, view, esLast, replay>>

SnapshotRun ==
  /\ stage = "readRun"
  /\ view' = [view EXCEPT !["run"] = state["run"]]
  /\ sawEnd' = ended
  /\ stage' = "readSteps"
  /\ UNCHANGED <<dbVars, srvVars, last, after, esLast, replay>>

SnapshotSteps ==
  /\ stage = "readSteps"
  /\ view' = [view EXCEPT !["step"] = state["step"]]
  /\ stage' = "readArtifacts"
  /\ UNCHANGED <<dbVars, srvVars, sawEnd, last, after, esLast, replay>>

\* Mutant of SnapshotArtifacts: the cursor is read after the trace, not before.
SnapshotCursorLast ==
  /\ stage = "readArtifacts"
  /\ view' = [view EXCEPT !["artifact"] = state["artifact"]]
  /\ stage' = IF sawEnd THEN "complete" ELSE "streaming"
  /\ last' = LatestId(RunEvents) /\ after' = LatestId(RunEvents)
  /\ UNCHANGED <<dbVars, srvVars, sawEnd, esLast, replay>>

\* The last read, and initialize(): a finished run is not streamed.
SnapshotArtifacts ==
  /\ stage = "readArtifacts"
  /\ view' = [view EXCEPT !["artifact"] = state["artifact"]]
  /\ stage' = IF sawEnd THEN "complete" ELSE "streaming"
  /\ UNCHANGED <<dbVars, srvVars, sawEnd, last, after, esLast, replay>>

\* The request fails: the client shows an error and does not retry.
SnapshotFails ==
  /\ stage \in {"new", "readRun", "readSteps", "readArtifacts"}
  /\ stage' = "failed"
  /\ UNCHANGED <<dbVars, srvVars, sawEnd, last, view, after, esLast, replay>>

-----------------------------------------------------------------------------
(* The stream: iter_execution_event_sse.                                   *)

\* Mutant of Connect: the stream goes on where the server stopped sending.
ConnectWhereItStopped ==
  /\ stage = "streaming" /\ srv = "off"
  /\ srv' = "poll"
  /\ srvCursor' = IF srvCursor > after THEN srvCursor ELSE after
  /\ UNCHANGED <<dbVars, clientVars, wire>>

\* The EventSource connects or reconnects; resolve_resume_event_id takes the
\* greater of the URL's cursor and the Last-Event-ID header.
Connect ==
  /\ stage = "streaming" /\ srv = "off"
  /\ srv' = "poll"
  /\ srvCursor' = IF esLast > after THEN esLast ELSE after
  /\ UNCHANGED <<dbVars, clientVars, wire>>

\* Yield a page of events, or go on to the stage `otherwise'.
Yield(otherwise) ==
  LET page == PageAfter(srvCursor)
  IN  \/ /\ page = {}
         /\ srv' = otherwise
         /\ UNCHANGED <<srvCursor, wire>>
      \/ /\ wire' = wire \cup page
         /\ \E e \in page : IsLast(e, page) /\ srvCursor' = e.id
         /\ srv' = "poll"

SrvPoll ==
  /\ srv = "poll"
  /\ Yield("check")
  /\ UNCHANGED <<dbVars, clientVars>>

\* Mutant of SrvCheck: a terminal run ends the stream without a last page.
SrvCheckReturns ==
  /\ srv = "check"
  /\ srv' = IF ended THEN "finished" ELSE "poll"
  /\ UNCHANGED <<dbVars, clientVars, srvCursor, wire>>

SrvCheck ==
  /\ srv = "check"
  /\ srv' = IF ended THEN "drain" ELSE "poll"
  /\ UNCHANGED <<dbVars, clientVars, srvCursor, wire>>

SrvDrain ==
  /\ srv = "drain"
  /\ Yield("finished")
  /\ UNCHANGED <<dbVars, clientVars>>

-----------------------------------------------------------------------------
(* The client: useTraceData.                                               *)

\* Mutant of Fresh: every event is applied.
FreshAll(S) == S

\* applyExecutionEvent on events in the order of their ids: those not after
\* lastEventIdRef are dropped, and a terminal run completes the trace.
Fresh(S) == {e \in S : e.id > last}
Ends(S)  == \E e \in Fresh(S) : e.final

Latest(S, default) == IF S = {} THEN default ELSE LatestId(S)

ApplyEvents(S) ==
  /\ last' = Latest(Fresh(S), last)
  /\ view' = [r \in Record |-> Latest({e \in Fresh(S) : e.record = r}, view[r])]
  /\ stage' = IF Ends(S) THEN "complete" ELSE stage

\* A terminal run closes the EventSource.
CloseStream == srv' = "off" /\ wire' = {} /\ UNCHANGED srvCursor

Deliver ==
  /\ stage = "streaming"
  /\ \E e \in wire :
       /\ \A f \in wire : e.id <= f.id
       /\ esLast' = e.id
       /\ ApplyEvents({e})
       /\ IF Ends({e}) THEN CloseStream
          ELSE wire' = wire \ {e} /\ UNCHANGED <<srv, srvCursor>>
  /\ UNCHANGED <<dbVars, sawEnd, after, replay>>

\* The connection breaks, or the server's generator has returned: what is in
\* transit is lost.  onerror starts a replay from lastEventIdRef unless one is
\* under way, and the EventSource reconnects.
ConnectionLost ==
  /\ stage = "streaming" /\ srv # "off"
  /\ srv' = "off" /\ wire' = {}
  /\ replay' = IF replay.stage = "none"
               THEN [stage |-> "asked", from |-> last, page |-> {}]
               ELSE replay
  /\ UNCHANGED <<dbVars, srvCursor, stage, sawEnd, last, view, after, esLast>>

\* The server answers the replay request with one page.
ReplayRead ==
  /\ replay.stage = "asked"
  /\ replay' = [stage |-> "answered", from |-> replay.from,
                page |-> PageAfter(replay.from)]
  /\ UNCHANGED <<dbVars, srvVars, stage, sawEnd, last, view, after, esLast>>

ReplayApply ==
  /\ replay.stage = "answered"
  /\ replay' = NoReplay
  /\ ApplyEvents(replay.page)
  /\ IF Ends(replay.page) THEN CloseStream ELSE UNCHANGED srvVars
  /\ UNCHANGED <<dbVars, sawEnd, after, esLast>>

ReplayFails ==
  /\ replay.stage # "none"
  /\ replay' = NoReplay
  /\ UNCHANGED <<dbVars, srvVars, stage, sawEnd, last, view, after, esLast>>

-----------------------------------------------------------------------------
WriterStep ==
  \/ \E r \in Record, f \in BOOLEAN : AppendRunEvent(r, f)
  \/ \E w \in OtherWriter : AppendOtherEvent(w)
  \/ \E w \in Writer : Commit(w) \/ Rollback(w)

SnapshotStep == SnapshotCursor \/ SnapshotRun \/ SnapshotSteps \/ SnapshotArtifacts

StreamStep == Connect \/ SrvPoll \/ SrvCheck \/ SrvDrain

ReplayStep == ReplayRead \/ ReplayApply \/ ReplayFails

Next == \/ WriterStep
        \/ SnapshotStep \/ SnapshotFails
        \/ StreamStep
        \/ Deliver \/ ConnectionLost
        \/ ReplayStep

Spec == Init /\ [][Next]_vars

\* The browser keeps reconnecting, and the generator keeps polling while it is
\* connected; a connection may break any number of times, but not for ever
\* before the server has answered or before what it sent has arrived.  A response
\* that is complete ends the connection.
FairSpec ==
  /\ Spec
  /\ WF_vars(SnapshotStep)
  /\ WF_vars(Connect)
  /\ SF_vars(SrvPoll)
  /\ SF_vars(SrvCheck)
  /\ SF_vars(SrvDrain)
  /\ SF_vars(Deliver)
  /\ WF_vars(srv = "finished" /\ ConnectionLost)

-----------------------------------------------------------------------------
\* "IDs follow commit visibility" (db/models/execution_events.py): the visible
\* events are those with the ids up to the visible cursor, each id once, so an
\* event never becomes visible behind one that a reader has already seen.
IdsFollowVisibility ==
  /\ {e.id : e \in committed} = 1 .. lastId
  /\ \A e, f \in committed : e.id = f.id => e = f

\* "can never be skipped by a reconnecting client" (services/traces.py): what
\* the client shows of each record is at least as new as the newest change up to
\* the event id from which it would resume.
NothingSkipped ==
  stage \in {"streaming", "complete"} =>
    \A e \in RunEvents : e.id <= last => e.id <= view[e.record]

\* "the terminal event cannot be skipped at that boundary" (api/routes/traces.py):
\* when the generator returns it has yielded every event of the run, also those
\* committed between its empty poll and its status read.
StreamEndsAfterLastEvent ==
  srv = "finished" => ended /\ \A e \in RunEvents : e.id <= srvCursor

\* A client that reports the trace complete shows every record in its final
\* content, whichever mix of snapshot, stream and replay brought it there.
CompleteIsFinal ==
  stage = "complete" => ended /\ view = state

\* A run that ends completes the trace of every client whose snapshot did not
\* fail, however often its connection is cut.
FinishedRunCompletes == ended ~> stage \in {"complete", "failed"}

-----------------------------------------------------------------------------
Status ==
  CASE stage = "new" -> "closed"
    [] stage \in {"readRun", "readSteps", "readArtifacts"} -> "loading"
    [] stage = "streaming" -> "following"
    [] OTHER -> stage

Loaded ==
  CASE stage = "readSteps" -> {"run"}
    [] stage = "readArtifacts" -> {"run", "step"}
    [] stage \in {"streaming", "complete"} -> Record
    [] OTHER -> {}

\* Behind snapshots read in four transactions, and behind pages that arrive twice,
\* late or not at all, the client goes through the log as EventFeed says
\* (applyExecutionEvent, replayDurableEvents in App.tsx): from the cursor of its
\* snapshot on it applies every event once, in order, and never one before another
\* that it lacks.
Feed == INSTANCE EventFeed WITH
  events   <- RunEvents,
  content  <- state,
  status   <- Status,
  loaded   <- Loaded,
  shown    <- view,
  position <- last

FollowsFeed == Feed!Spec
=============================================================================
