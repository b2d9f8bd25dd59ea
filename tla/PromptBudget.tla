---------------------------- MODULE PromptBudget ----------------------------
(***************************************************************************)
(* The bytes of one model request: how the transcript of an inspection is  *)
(* compacted and a context pack projected so that the whole prompt stays   *)
(* within its limit (src/src/ooh/agent/prompt_budget.py), by the inspector *)
(* (repository_inspection.py, _build_request) and by the generator         *)
(* (test_generation.py, _user_message_with_context).                       *)
(*                                                                         *)
(* A text, a reference, a file is the number of bytes of its compact JSON. *)
(* A document under construction is the number of elements each of its     *)
(* lists has kept, always a prefix of what it is offered, and the bytes it *)
(* has; an element costs its own bytes and the comma before it.            *)
(***************************************************************************)
EXTENDS Integers, Sequences

CONSTANTS
  MaxPrompt,       \* OOH_GENERATION_PROMPT_MAX_BYTES
  MaxObservation,  \* OOH_TOOL_OBSERVATION_MAX_BYTES
  Requests         \* the requests that may be built

MinContext  == 1000   \* left for the context pack, at least
MinHistory  == 500    \* left for the transcript, at least
Reserve     == 1200   \* set aside for the context pack and the prefixes
Prefix      == 43     \* "Repository briefing:", "Inspection history:"
CallFloor   == 200    \* every payload may have that much
\* What the counters of a compacted transcript take, and the brackets of a list
\* that is opened later.
CompactBase  == 156
OpeningOf(s) == IF s = "duplicates" THEN 26 ELSE 16

MaxRefs     == 24
MaxFiles    == 10
MaxGuidance == 6

-----------------------------------------------------------------------------
(* Requests.                                                               *)

\* A path with the other metadata, and an excerpt if there is one.
Document == [path : Nat \ {0}, facts : Nat, excerpt : Nat]

\* A tool call without its payload; whether it brought references.
Call == [bare : Nat, payload : Nat, cites : BOOLEAN]

Pack == [base : Nat, drift : Nat, attention : Nat, files : Seq(Document), guidance : Seq(Document)]

Request ==
    [kind : {"inspect", "generate"}, system : Nat, tools : Nat, pack : Pack, inspected : BOOLEAN,
     full : Nat, failed : Seq(Nat), duplicates : Seq(Nat), calls : Seq(Call)]

\* Inspector and generator accept no smaller limits.
ASSUME LimitAssumption ==
    MaxPrompt \in Nat /\ MaxPrompt >= 4000 /\ MaxObservation \in Nat /\ MaxObservation >= 500

\* A file has at least its status, ,"status":"D", beside its path, and a transcript
\* its counters.
ASSUME RequestAssumption ==
    /\ Requests \subseteq Request
    /\ \A r \in Requests :
         /\ r.full >= CompactBase
         /\ \A i \in DOMAIN r.pack.files : r.pack.files[i].facts >= 13

VARIABLES
  request,  \* the request being built
  phase,    \* the list under construction, or where the building is
  history,  \* how much of each list the compacted transcript has kept
  size,     \* the bytes of the compacted transcript
  room,     \* max_bytes of the projection
  view,     \* how much of each section the projection has kept
  used      \* the bytes of the projection

vars == <<request, phase, history, size, room, view, used>>

\* Mutant of Sections: the files take their room before the references.
FilesFirst == <<"drift", "attention", "files", "refs", "tool", "guidance">>

Calls    == {"failed", "duplicates", "calls"}
Sections == <<"drift", "attention", "refs", "tool", "files", "guidance">>
Section  == {Sections[i] : i \in DOMAIN Sections}

-----------------------------------------------------------------------------
(* Sizes.                                                                  *)

Lesser(m, n) == IF m < n THEN m ELSE n

\* What another element of n bytes adds to a list of k.
Cost(n, k) == n + (IF k = 0 THEN 0 ELSE 1)

\* {"source_type":"code","source_uri":"code:<path>"}, {"path":"<path>", ...}.
CodeRef(file)      == file.path + 43
GuidanceRef(guide) == guide.path + 51
Bare(file)         == file.path + file.facts + 11
Whole(file)        == Bare(file) + file.excerpt

Set(key, n) == IF n = 0 THEN << >> ELSE <<key + n>>

\* The references of a pack: its files, its guidance, its drift event and profile.
SourceRefs(pack) ==
    [i \in DOMAIN pack.files |-> CodeRef(pack.files[i])]
    \o [i \in DOMAIN pack.guidance |-> GuidanceRef(pack.guidance[i])]
    \o (IF pack.drift = 0 THEN << >> ELSE <<87>>) \o (IF pack.attention = 0 THEN << >> ELSE <<105>>)

-----------------------------------------------------------------------------
(* The transcript.                                                         *)

\* What is left when the inspector has set aside what it must send.
Available == MaxPrompt - (request.system + request.tools + Reserve)

\* max_bytes of the compaction.
HistoryBudget ==
    IF request.kind = "generate" THEN MaxObservation ELSE Lesser(MaxObservation, Available)

PerCall == LET n == Len(request.calls)
               share == (HistoryBudget \div (IF n = 0 THEN 1 ELSE n)) \div 2
           IN  IF share > CallFloor THEN share ELSE CallFloor

\* What _try_append is called with, list by list; a call keeps a part of its payload.
Transcript(s) ==
    CASE s = "failed"     -> request.failed
      [] s = "duplicates" -> request.duplicates
      [] s = "calls"      -> [i \in DOMAIN request.calls |->
                                request.calls[i].bare + Lesser(request.calls[i].payload, PerCall)]

\* The inspector places its transcript before the pack, the generator in it.
AfterTranscript == IF request.kind = "inspect" THEN "room" ELSE "tool"

\* compact_tool_observation returns what fits as it is.
KeepTranscript ==
    /\ phase = "compact"
    /\ request.full <= HistoryBudget
    /\ size' = request.full /\ history' = [s \in Calls |-> Len(Transcript(s))]
    /\ phase' = AfterTranscript
    /\ UNCHANGED <<request, room, view, used>>

BeginCompaction ==
    /\ phase = "compact"
    /\ request.full > HistoryBudget
    /\ size' = CompactBase /\ history' = [s \in Calls |-> 0]
    /\ phase' = "failed"
    /\ UNCHANGED <<request, room, view, used>>

NextCall == Cost(Transcript(phase)[history[phase] + 1], history[phase])

NextCallFits ==
    /\ history[phase] < Len(Transcript(phase))
    /\ size + NextCall <= HistoryBudget

KeepCall ==
    /\ phase \in Calls
    /\ NextCallFits
    /\ history' = [history EXCEPT ![phase] = @ + 1]
    /\ size' = size + NextCall
    /\ UNCHANGED <<request, phase, room, view, used>>

\* The next list is opened, whether or not there is room for its brackets.
OpenNextList ==
    /\ phase \in {"failed", "duplicates"}
    /\ ~NextCallFits
    /\ phase' = IF phase = "failed" THEN "duplicates" ELSE "calls"
    /\ size' = size + OpeningOf(phase')
    /\ UNCHANGED <<request, history, room, view, used>>

EndTranscript ==
    /\ phase = "calls"
    /\ ~NextCallFits
    /\ phase' = AfterTranscript
    /\ UNCHANGED <<request, history, size, room, view, used>>

-----------------------------------------------------------------------------
(* The projection of the pack.                                             *)

\* What a section may hold, in order.
Candidates(s) ==
    LET pack == request.pack IN
    CASE s = "drift"     -> Set(9, pack.drift)
      [] s = "attention" -> Set(21, pack.attention)
      [] s = "refs"      -> SourceRefs(pack)
      [] s = "tool"      -> IF request.kind = "inspect" \/ ~request.inspected THEN << >>
                            ELSE <<19 + size>>
      [] s = "files"     -> [i \in DOMAIN pack.files |-> Whole(pack.files[i])]
      [] s = "guidance"  -> [i \in DOMAIN pack.guidance |-> Whole(pack.guidance[i])]

Limit(s) ==
    CASE s = "refs" -> MaxRefs [] s = "files" -> MaxFiles [] s = "guidance" -> MaxGuidance
      [] OTHER -> 1

Upcoming == view[phase] + 1

Waiting == phase \in Section /\ view[phase] < Lesser(Limit(phase), Len(Candidates(phase)))

\* The next item as it is, and a file or guidance document without its excerpt.
Item     == Candidates(phase)[Upcoming]
Metadata == Bare(request.pack[phase][Upcoming])

Fits(n) == used + Cost(n, view[phase]) <= room

Keep(n) ==
    /\ view' = [view EXCEPT ![phase] = @ + 1]
    /\ used' = used + Cost(n, view[phase])
    /\ UNCHANGED <<request, phase, history, size, room>>

\* Mutant of KeepItem: what did not fit is not taken out again.
KeepAnyItem == Waiting /\ Keep(Item)

\* _try_set, _try_append.
KeepItem == Waiting /\ Fits(Item) /\ Keep(Item)

KeepMetadata ==
    /\ Waiting /\ phase \in {"files", "guidance"}
    /\ ~Fits(Item) /\ Fits(Metadata)
    /\ Keep(Metadata)

\* The generator compacts its transcript when it comes to it.
After(s) ==
    CASE s = Sections[Len(Sections)] -> "check"
      [] OTHER -> LET next == Sections[1 + CHOOSE i \in DOMAIN Sections : Sections[i] = s] IN
                  IF next = "tool" /\ request.kind = "generate" /\ request.inspected THEN "compact"
                  ELSE next

CloseSection ==
    /\ phase \in Section
    /\ Waiting => ~Fits(Item) /\ (phase \in {"files", "guidance"} => ~Fits(Metadata))
    /\ phase' = After(phase)
    /\ UNCHANGED <<request, history, size, room, view, used>>

-----------------------------------------------------------------------------
(* The request.                                                            *)

Init ==
    /\ request \in Requests
    /\ phase = "start"
    /\ history = [s \in Calls |-> 0] /\ size = 0
    /\ view = [s \in Section |-> 0] /\ used = 0
    /\ room = 0

\* The inspector first sets the limit of its transcript (_history_budget).
Start ==
    /\ phase = "start"
    /\ phase' = CASE request.kind = "generate" -> "room"
                  [] request.kind = "inspect" /\ Available < MinHistory -> "refused"
                  [] OTHER -> "compact"
    /\ UNCHANGED <<request, history, size, room, view, used>>

\* What the prompt holds besides the projection.
Surroundings ==
    IF request.kind = "generate" THEN request.system
    ELSE request.system + request.tools + Prefix + size

MakeRoom ==
    /\ phase = "room"
    /\ room' = MaxPrompt - Surroundings
    /\ phase' = IF room' < MinContext THEN "refused" ELSE Sections[1]
    /\ used' = request.pack.base
    /\ UNCHANGED <<request, history, size, view>>

\* Both the projection and the request it is part of are measured again.
Check ==
    /\ phase = "check"
    /\ phase' = IF used > room \/ Surroundings + used > MaxPrompt THEN "refused" ELSE "sent"
    /\ UNCHANGED <<request, history, size, room, view, used>>

Next ==
    \/ Start \/ KeepTranscript \/ BeginCompaction \/ KeepCall \/ OpenNextList \/ EndTranscript
    \/ MakeRoom \/ KeepItem \/ KeepMetadata \/ CloseSection \/ Check

Spec == Init /\ [][Next]_vars

-----------------------------------------------------------------------------
(* Properties.                                                             *)

\* Nothing but what is never cut refuses a prompt: the instructions and the tool
\* definitions, or the part of the pack every projection has, if it does not fit
\* into the room that these and the transcript leave.  The compaction keeps the
\* transcript short enough for that room to be one, the reserve making up for the
\* brackets a full transcript adds beyond its limit, and no section of the pack
\* ever refuses it.
RefusedOnlyForFixedParts ==
    phase = "refused" =>
        \/ request.kind = "inspect" /\ Available < MinHistory
        \/ request.kind = "generate" /\ MaxPrompt - request.system < MinContext
        \/ room > 0 /\ request.pack.base > room

\* The references a model may cite are those of the projection and of the tool
\* calls in it; with none there is no restriction.
Restricted ==
    \/ view["refs"] > 0
    \/ view["tool"] > 0 /\ \E i \in 1 .. history["calls"] : request.calls[i].cites

\* A file the model is shown can be cited: although references and files are cut
\* independently, to counts and bytes of their own, a file is never shown without
\* its reference when citing is restricted.
ShownFilesCanBeCited ==
    phase = "sent" /\ Restricted => view["files"] <= view["refs"]
=============================================================================
