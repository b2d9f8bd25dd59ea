------------------------------ MODULE EventFeed ------------------------------
(***************************************************************************)
(* What the trace and its event log promise a client, whatever carries the *)
(* events: a log that grows at its end and that an event of its own closes,*)
(* and a client that loads every record and then moves a position through  *)
(* the log, passing each event once, in order and without a gap.  Cursor   *)
(* rows, pages, streams, replays and lost connections do not occur;        *)
(* TraceStream implements this specification.                              *)
(***************************************************************************)
EXTENDS Naturals

CONSTANT Record

VARIABLES
  events,    \* the log: each event with its id, the record it changes, whether it is final
  content,   \* the last event of each record
  ended,     \* the final event has been published
  status,    \* of the client: closed, loading, following, complete or failed
  loaded,    \* the records it has loaded
  shown,     \* what it shows of each record
  position   \* the id it has passed

vars == <<events, content, ended, status, loaded, shown, position>>

Event  == [id : Nat, record : Record, final : BOOLEAN]
Newest(e, S) == e \in S /\ \A f \in S : f.id <= e.id

Init ==
  /\ events = {} /\ ended = FALSE
  /\ content = [r \in Record |-> 0] /\ shown = [r \in Record |-> 0]
  /\ status = "closed" /\ loaded = {} /\ position = 0

\* Nothing comes before what is already there, nor after the final event.
Publish ==
  /\ ~ended
  /\ \E e \in events' \ events :
       /\ e \in Event /\ \A f \in events : f.id < e.id
       /\ events' = events \cup {e}
       /\ content' = [content EXCEPT ![e.record] = e.id]
       /\ ended' = e.final
  /\ UNCHANGED <<status, loaded, shown, position>>

\* The client starts behind the last event of the moment.
Open ==
  /\ status = "closed" /\ status' = "loading"
  /\ IF events = {} THEN position' = 0 ELSE \E e \in events : Newest(e, events) /\ position' = e.id
  /\ UNCHANGED <<events, content, ended, loaded, shown>>

\* One record after the other, as it is by then.  A client that has them all need
\* not follow if they are final.
Load(r) ==
  /\ status = "loading" /\ r \notin loaded
  /\ loaded' = loaded \cup {r}
  /\ shown' = [shown EXCEPT ![r] = content[r]]
  /\ \/ loaded' # Record /\ status' = "loading"
     \/ loaded' = Record /\ status' = "following"
     \/ loaded' = Record /\ status' = "complete" /\ ended /\ shown' = content
  /\ UNCHANGED <<events, content, ended, position>>

Fail ==
  /\ status \in {"closed", "loading"} /\ status' = "failed" /\ loaded' = {}
  /\ UNCHANGED <<events, content, ended, shown, position>>

\* The client passes all events up to a later one: each record they change is
\* shown as the last of them left it, and the others stay.
Follow ==
  /\ status = "following"
  /\ \E last \in events : last.id > position /\ position' = last.id
  /\ LET passed == {e \in events : position < e.id /\ e.id <= position'}
         Of(r)  == {e \in passed : e.record = r}
     IN  /\ shown' = [r \in Record |-> shown'[r]]
         /\ \A r \in Record :
              IF Of(r) = {} THEN shown'[r] = shown[r] ELSE \E e \in Of(r) : Newest(e, Of(r)) /\ shown'[r] = e.id
         /\ status' = IF \E e \in passed : e.final THEN "complete" ELSE "following"
  /\ UNCHANGED <<events, content, ended, loaded>>

Next == Publish \/ Open \/ (\E r \in Record : Load(r)) \/ Fail \/ Follow

Spec == Init /\ [][Next]_vars
=============================================================================
