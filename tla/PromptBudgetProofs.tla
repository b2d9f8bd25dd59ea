------------------------- MODULE PromptBudgetProofs -------------------------
(***************************************************************************)
(* Proofs about PromptBudget, for any limits the code accepts and any      *)
(* requests: why nothing that can be cut refuses a request, and why a      *)
(* shown file can be cited.                                                *)
(***************************************************************************)
EXTENDS PromptBudget, TLAPS

-----------------------------------------------------------------------------
(* The invariant.                                                          *)

Compaction == {"compact"} \cup Calls
Showing    == {"files", "guidance", "check", "sent"}

TypeOK ==
  /\ request \in Requests
  /\ phase \in {"start", "room", "check", "refused", "sent"} \cup Compaction \cup Section
  /\ history \in [Calls -> Nat] /\ size \in Nat
  /\ room \in Int
  /\ view \in [Section -> Nat] /\ used \in Nat

\* A transcript that does not fit is cut to its limit, but for the brackets that
\* the later lists have added.
Brackets == CASE phase = "duplicates" -> 26 [] phase \in {"calls", "room"} -> 42 [] OTHER -> 0

TranscriptInv ==
  /\ request.kind = "inspect" /\ phase \notin {"start", "refused"} => Available >= MinHistory
  /\ phase \in Calls => size >= CompactBase /\ size <= HistoryBudget + Brackets
  /\ request.kind = "inspect" /\ phase = "room" => size <= HistoryBudget + Brackets
  /\ request.kind = "generate" /\ request.inspected /\ phase = "tool" => size >= CompactBase

\* The inspector compacts its transcript before there is room, the generator within
\* its pack.
Projecting ==
  \/ phase \in Section \cup {"check", "sent"}
  \/ phase \in Compaction /\ request.kind = "generate"

\* Whatever was kept had room.
ProjectionInv ==
  Projecting =>
    /\ room = MaxPrompt - Surroundings /\ room >= MinContext
    /\ used <= room \/ used = request.pack.base

\* The first file whose reference was cut, if there is one.
Files   == request.pack.files
Uncited == view["refs"] + 1
IsCut   == Uncited <= Len(Files) /\ Uncited <= MaxFiles

\* What a transcript and a file, once kept, have taken at least.
Taken == (IF view["tool"] = 0 THEN 0 ELSE 19 + CompactBase) + (IF view["files"] = 0 THEN 0 ELSE 24)

\* The reference that was cut had no room, and would have none if what came after it
\* had been left out; so what is left does not hold its file either, which is shorter
\* than the reference by less than what came in between.
CitationInv ==
  /\ phase \notin Showing \cup {"refused"} => view["files"] = 0
  /\ phase \notin Showing \cup {"tool", "refused"} => view["tool"] = 0
  /\ phase # "refused" /\ (~Projecting \/ phase \in {"drift", "attention"}) => view["refs"] = 0
  /\ view["files"] <= Len(Files) /\ view["files"] <= MaxFiles
  /\ Projecting /\ phase \notin {"drift", "attention", "refs"} /\ IsCut /\ view["files"] < Uncited =>
       used + Cost(CodeRef(Files[Uncited]), view["refs"]) > room + Taken
  /\ phase \in Showing /\ (view["refs"] > 0 \/ view["tool"] > 0) => view["files"] <= view["refs"]

IInv == TypeOK /\ TranscriptInv /\ ProjectionInv /\ CitationInv /\ RefusedOnlyForFixedParts

-----------------------------------------------------------------------------
(* Requests and what their lists offer.                                    *)

LEMMA Elements ==
  ASSUME NEW S, NEW q \in Seq(S), NEW i \in 1 .. Len(q)
  PROVE  q[i] \in S
OBVIOUS

LEMMA RequestTypes ==
  ASSUME TypeOK
  PROVE  /\ request.kind \in {"inspect", "generate"} /\ request.inspected \in BOOLEAN
         /\ request.system \in Nat /\ request.tools \in Nat
         /\ request.full \in Nat /\ request.full >= CompactBase
         /\ request.failed \in Seq(Nat) /\ request.duplicates \in Seq(Nat)
         /\ request.calls \in Seq(Call)
         /\ request.pack \in Pack
         /\ Files \in Seq(Document) /\ request.pack.guidance \in Seq(Document)
         /\ request.pack.base \in Nat /\ request.pack.drift \in Nat /\ request.pack.attention \in Nat
         /\ \A i \in 1 .. Len(Files) : Files[i].facts >= 13
<1>1. request \in Request
  BY RequestAssumption DEF TypeOK
<1>2. request.pack \in Pack
  BY <1>1 DEF Request
<1>3. /\ request.full >= CompactBase
      /\ \A i \in DOMAIN request.pack.files : request.pack.files[i].facts >= 13
  BY RequestAssumption DEF TypeOK
<1>4. Files \in Seq(Document) /\ DOMAIN Files = 1 .. Len(Files)
  BY <1>2 DEF Pack, Files
<1> QED BY <1>1, <1>2, <1>3, <1>4 DEF Request, Pack, Files

\* What shows of a document costs at least its path, its metadata and 11 bytes.
LEMMA DocumentSizes ==
  ASSUME NEW q \in Seq(Document), NEW i \in 1 .. Len(q)
  PROVE  /\ q[i].path \in Nat /\ q[i].path >= 1 /\ q[i].facts \in Nat
         /\ Bare(q[i]) \in Nat /\ Bare(q[i]) = q[i].path + q[i].facts + 11
         /\ Whole(q[i]) \in Nat /\ Whole(q[i]) >= Bare(q[i])
         /\ CodeRef(q[i]) \in Nat /\ CodeRef(q[i]) = q[i].path + 43
         /\ GuidanceRef(q[i]) \in Nat
<1>1. q[i] \in Document
  BY Elements
<1>2. q[i].path \in Nat \ {0} /\ q[i].facts \in Nat /\ q[i].excerpt \in Nat
  BY <1>1 DEF Document
<1> DEFINE d == q[i]
<1>3. /\ Bare(d) = d.path + d.facts + 11 /\ Whole(d) = d.path + d.facts + 11 + d.excerpt
      /\ CodeRef(d) = d.path + 43 /\ GuidanceRef(d) = d.path + 51
  BY DEF Bare, Whole, CodeRef, GuidanceRef
<1>4. d.path \in Nat /\ d.path >= 1 /\ d.facts \in Nat /\ d.excerpt \in Nat
  BY <1>2
<1>5. \A p, f, e \in Nat : /\ p + f + 11 \in Nat /\ p + f + 11 + e \in Nat
                           /\ p + f + 11 + e >= p + f + 11
                           /\ p + 43 \in Nat /\ p + 51 \in Nat
  OBVIOUS
<1>6. /\ d.path + d.facts + 11 \in Nat /\ d.path + d.facts + 11 + d.excerpt \in Nat
      /\ d.path + d.facts + 11 + d.excerpt >= d.path + d.facts + 11
      /\ d.path + 43 \in Nat /\ d.path + 51 \in Nat
  BY <1>4, <1>5, Zenon
<1>7. Bare(d) \in Nat /\ CodeRef(d) \in Nat /\ GuidanceRef(d) \in Nat
  BY <1>3, <1>6, Zenon
<1>8. Whole(d) \in Nat
  BY <1>3, <1>6, Zenon
<1>9. Whole(d) >= Bare(d)
  BY <1>3, <1>6, Zenon
<1> QED BY <1>3, <1>4, <1>7, <1>8, <1>9, Zenon

LEMMA SectionNames == Section = {"drift", "attention", "refs", "tool", "files", "guidance"}
BY DEF Section, Sections

\* A number for each element of a sequence makes a sequence of that length.
LEMMA Sizes ==
  ASSUME NEW S, NEW q \in Seq(S), NEW f,
         f = [i \in DOMAIN q |-> f[i]], \A i \in 1 .. Len(q) : f[i] \in Nat
  PROVE  f \in Seq(Nat) /\ Len(f) = Len(q)
<1>1. DOMAIN q = 1 .. Len(q) /\ Len(q) \in Nat
  OBVIOUS
<1>2. f \in [1 .. Len(q) -> Nat]
  BY <1>1
<1> QED BY <1>1, <1>2

LEMMA Singleton == ASSUME NEW n \in Nat PROVE <<n>> \in Seq(Nat) /\ Len(<<n>>) = 1 /\ <<n>>[1] = n
OBVIOUS

\* The references of the files come first.
LEMMA RefsOfFiles ==
  ASSUME TypeOK
  PROVE  /\ SourceRefs(request.pack) \in Seq(Nat)
         /\ Len(SourceRefs(request.pack)) >= Len(Files)
         /\ \A i \in 1 .. Len(Files) : SourceRefs(request.pack)[i] = CodeRef(Files[i])
<1> DEFINE a == [i \in DOMAIN request.pack.files |-> CodeRef(request.pack.files[i])]
           b == [i \in DOMAIN request.pack.guidance |-> GuidanceRef(request.pack.guidance[i])]
           c == IF request.pack.drift = 0 THEN << >> ELSE <<87>>
           d == IF request.pack.attention = 0 THEN << >> ELSE <<105>>
<1>1. /\ Files \in Seq(Document) /\ request.pack.guidance \in Seq(Document)
  BY RequestTypes
<1>2. a \in Seq(Nat) /\ Len(a) = Len(Files) /\ \A i \in 1 .. Len(Files) : a[i] = CodeRef(Files[i])
  <2>1. a = [i \in DOMAIN Files |-> a[i]] /\ \A i \in 1 .. Len(Files) : a[i] = CodeRef(Files[i])
    BY <1>1 DEF Files
  <2>2. \A i \in 1 .. Len(Files) : CodeRef(Files[i]) \in Nat
    BY <1>1, DocumentSizes
  <2> HIDE DEF a
  <2> QED BY <1>1, <2>1, <2>2, Sizes
<1>3. b \in Seq(Nat)
  <2> DEFINE q == request.pack.guidance
  <2>1. b = [i \in DOMAIN q |-> b[i]] /\ \A i \in 1 .. Len(q) : b[i] = GuidanceRef(q[i])
    BY <1>1
  <2>2. \A i \in 1 .. Len(q) : GuidanceRef(q[i]) \in Nat
    BY <1>1, DocumentSizes
  <2> HIDE DEF b
  <2> QED BY <1>1, <2>1, <2>2, Sizes
<1>4. c \in Seq(Nat) /\ d \in Seq(Nat)
  OBVIOUS
<1>5. SourceRefs(request.pack) = ((a \o b) \o c) \o d
  BY DEF SourceRefs
<1> HIDE DEF a, b, c, d
<1>6. /\ a \o b \in Seq(Nat) /\ Len(a \o b) >= Len(a)
      /\ \A i \in 1 .. Len(a) : (a \o b)[i] = a[i]
  BY <1>2, <1>3
<1>7. /\ (a \o b) \o c \in Seq(Nat) /\ Len((a \o b) \o c) >= Len(a)
      /\ \A i \in 1 .. Len(a) : ((a \o b) \o c)[i] = a[i]
  BY <1>2, <1>4, <1>6
<1>8. /\ ((a \o b) \o c) \o d \in Seq(Nat) /\ Len(((a \o b) \o c) \o d) >= Len(a)
      /\ \A i \in 1 .. Len(a) : (((a \o b) \o c) \o d)[i] = a[i]
  BY <1>2, <1>4, <1>7
<1> QED BY <1>2, <1>5, <1>8

\* Every section is offered numbers of bytes; a transcript, its own.
LEMMA CandidateTypes ==
  ASSUME TypeOK, NEW s \in Section
  PROVE  /\ Candidates(s) \in Seq(Nat)
         /\ s = "tool" => \A i \in 1 .. Len(Candidates(s)) :
              Candidates(s)[i] = 19 + size /\ request.kind = "generate" /\ request.inspected
         /\ s = "files" => /\ Len(Candidates(s)) = Len(Files)
                           /\ \A i \in 1 .. Len(Files) : Candidates(s)[i] = Whole(Files[i])
<1>1. /\ Files \in Seq(Document) /\ request.pack.guidance \in Seq(Document)
      /\ request.pack.drift \in Nat /\ request.pack.attention \in Nat
      /\ request.kind \in {"inspect", "generate"} /\ size \in Nat
  BY RequestTypes DEF TypeOK
<1>2. CASE s = "drift" \/ s = "attention"
  <2>1. \A k, n \in Nat : Set(k, n) \in Seq(Nat)
    BY Singleton DEF Set
  <2>2. Candidates(s) = Set(9, request.pack.drift) \/ Candidates(s) = Set(21, request.pack.attention)
    BY <1>2 DEF Candidates
  <2> QED BY <1>1, <1>2, <2>1, <2>2
<1>3. CASE s = "refs"
  BY <1>3, RefsOfFiles DEF Candidates
<1>4. CASE s = "tool"
  BY <1>1, <1>4 DEF Candidates
<1>5. CASE s = "files"
  <2> DEFINE f == [i \in DOMAIN Files |-> Whole(Files[i])]
  <2>1. Candidates(s) = f
    BY <1>5 DEF Candidates, Files
  <2>2. f = [i \in DOMAIN Files |-> f[i]] /\ \A i \in 1 .. Len(Files) : f[i] = Whole(Files[i])
    BY <1>1
  <2>3. \A i \in 1 .. Len(Files) : Whole(Files[i]) \in Nat
    BY <1>1, DocumentSizes
  <2> HIDE DEF f
  <2>4. f \in Seq(Nat) /\ Len(f) = Len(Files)
    <3>1. Files \in Seq(Document)
      BY <1>1
    <3>2. \A i \in 1 .. Len(Files) : f[i] \in Nat
      BY <2>2, <2>3
    <3> QED BY <2>2, <3>1, <3>2, Sizes
  <2> QED BY <1>5, <2>1, <2>2, <2>4
<1>6. CASE s = "guidance"
  <2> DEFINE q == request.pack.guidance
             f == [i \in DOMAIN q |-> Whole(q[i])]
  <2>1. Candidates(s) = f
    BY <1>6 DEF Candidates
  <2>2. f = [i \in DOMAIN q |-> f[i]] /\ \A i \in 1 .. Len(q) : f[i] = Whole(q[i])
    BY <1>1
  <2>3. \A i \in 1 .. Len(q) : Whole(q[i]) \in Nat
    BY <1>1, DocumentSizes
  <2> HIDE DEF f
  <2> QED BY <1>1, <1>6, <2>1, <2>2, <2>3, Sizes
<1> QED BY <1>2, <1>3, <1>4, <1>5, <1>6, SectionNames

LEMMA TranscriptTypes ==
  ASSUME TypeOK, NEW s \in Calls
  PROVE  Transcript(s) \in Seq(Nat)
<1>1. /\ request.failed \in Seq(Nat) /\ request.duplicates \in Seq(Nat)
      /\ request.calls \in Seq(Call)
      /\ request.kind \in {"inspect", "generate"} /\ Available \in Int
  BY RequestTypes, LimitAssumption DEF Available, Reserve
<1>2. PerCall \in Nat
  <2>1. HistoryBudget \in Int
    BY <1>1, LimitAssumption DEF HistoryBudget, Lesser
  <2>2. Len(request.calls) \in Nat
    BY <1>1
  <2> DEFINE n == IF Len(request.calls) = 0 THEN 1 ELSE Len(request.calls)
  <2>3. n \in Nat /\ n > 0
    BY <2>2
  <2>4. PerCall = LET share == (HistoryBudget \div n) \div 2
                  IN  IF share > CallFloor THEN share ELSE CallFloor
    BY DEF PerCall
  <2> HIDE DEF n
  <2>5. (HistoryBudget \div n) \div 2 \in Int
    BY <2>1, <2>3
  <2> QED BY <2>4, <2>5 DEF CallFloor
<1>3. CASE s = "calls"
  <2> DEFINE q == request.calls
             f == [i \in DOMAIN q |-> q[i].bare + Lesser(q[i].payload, PerCall)]
  <2>1. \A i \in 1 .. Len(q) : q[i].bare \in Nat /\ q[i].payload \in Nat
    <3> SUFFICES ASSUME NEW i \in 1 .. Len(q) PROVE q[i].bare \in Nat /\ q[i].payload \in Nat
      OBVIOUS
    <3>1. q[i] \in Call
      BY <1>1, Elements
    <3> QED BY <3>1 DEF Call
  <2>2. \A i \in 1 .. Len(q) : Lesser(q[i].payload, PerCall) \in Nat
    BY <1>2, <2>1 DEF Lesser
  <2>3. f = [i \in DOMAIN q |-> f[i]] /\ \A i \in 1 .. Len(q) : f[i] \in Nat
    BY <1>1, <2>1, <2>2
  <2>4. Transcript(s) = f
    BY <1>3 DEF Transcript
  <2> HIDE DEF f
  <2> QED BY <1>1, <2>3, <2>4, Sizes
<1> QED BY <1>1, <1>3 DEF Transcript, Calls

-----------------------------------------------------------------------------
(* The limits.                                                             *)

LEMMA Limits ==
  ASSUME TypeOK
  PROVE  /\ Available \in Int /\ HistoryBudget \in Int
         /\ Available = MaxPrompt - (request.system + request.tools + 1200)
         /\ request.kind = "generate" => HistoryBudget = MaxObservation
         /\ request.kind = "inspect" => HistoryBudget <= Available
         /\ request.kind = "inspect" /\ Available >= MinHistory => HistoryBudget >= MinHistory
         /\ Surroundings \in Int
<1>1. /\ request.kind \in {"inspect", "generate"} /\ request.system \in Nat /\ request.tools \in Nat
      /\ size \in Nat
  BY RequestTypes DEF TypeOK
<1>2. Available \in Int /\ Available = MaxPrompt - (request.system + request.tools + 1200)
  BY <1>1, LimitAssumption DEF Available, Reserve
<1>3. Surroundings \in Int
  BY <1>1 DEF Surroundings, Prefix
<1> QED BY <1>1, <1>2, <1>3, LimitAssumption DEF HistoryBudget, Lesser, MinHistory

LEMMA InitIInv == Init => IInv
<1> SUFFICES ASSUME Init PROVE IInv
  OBVIOUS
<1>1. TypeOK
  BY DEF Init, TypeOK
<1>2. TranscriptInv /\ RefusedOnlyForFixedParts
  BY DEF Init, TranscriptInv, RefusedOnlyForFixedParts, Calls
<1>3. ProjectionInv /\ CitationInv
  <2>1. view["refs"] = 0 /\ view["files"] = 0 /\ view["tool"] = 0
    BY SectionNames DEF Init
  <2>2. ~Projecting /\ phase \notin {"tool", "refused"} \cup Showing
    BY SectionNames DEF Init, Projecting, Compaction, Calls, Showing
  <2>3. Len(Files) \in Nat
    BY <1>1, RequestTypes
  <2> QED BY <2>1, <2>2, <2>3 DEF ProjectionInv, CitationInv, MaxFiles
<1> QED BY <1>1, <1>2, <1>3 DEF IInv

\* Where a request can be.
LEMMA Phases ==
  ASSUME TypeOK
  PROVE  phase \in {"start", "compact", "failed", "duplicates", "calls", "room", "drift", "attention",
                    "refs", "tool", "files", "guidance", "check", "refused", "sent"}
BY SectionNames DEF TypeOK, Compaction, Calls

\* What is about the request alone stays.
LEMMA SameRequest ==
  ASSUME request' = request
  PROVE  Available' = Available /\ HistoryBudget' = HistoryBudget /\ Files' = Files
BY DEF Available, HistoryBudget, Files

\* The generator's compaction leaves the projection alone.
LEMMA ProjectionStays ==
  ASSUME IInv, UNCHANGED <<request, view, used, room>>,
         request.kind = "generate", phase \in Compaction, phase' \in Compaction \cup {"tool"}
  PROVE  ProjectionInv' /\ CitationInv'
<1>1. Projecting /\ Projecting'
  BY SectionNames DEF Projecting
<1>2. ProjectionInv'
  BY <1>1 DEF IInv, ProjectionInv, Surroundings
<1>3. /\ Uncited' = Uncited /\ IsCut' = IsCut /\ Taken' = Taken /\ Files' = Files
  BY DEF Uncited, IsCut, Taken, Files
<1>4. /\ phase \notin Showing \cup {"tool", "refused", "drift", "attention", "refs"}
      /\ phase' \notin Showing \cup {"refused", "drift", "attention", "refs"}
  BY DEF Compaction, Calls, Showing
<1>5. view'["files"] = 0 /\ view'["tool"] = 0
  BY <1>4 DEF IInv, CitationInv
<1>6. view'["files"] <= Len(Files') /\ view'["files"] <= MaxFiles
  BY <1>3 DEF IInv, CitationInv
<1>7. IsCut' /\ view'["files"] < Uncited' =>
        used' + Cost(CodeRef(Files'[Uncited']), view'["refs"]) > room' + Taken'
  BY <1>1, <1>3, <1>4 DEF IInv, CitationInv
<1> QED BY <1>1, <1>2, <1>4, <1>5, <1>6, <1>7 DEF CitationInv

\* The inspector's comes before anything is projected.
LEMMA NothingProjected ==
  ASSUME IInv, TypeOK', UNCHANGED <<request, view>>,
         phase \in {"start", "room"} \/ (request.kind = "inspect" /\ phase \in Compaction),
         phase' = "room" \/ (request.kind = "inspect" /\ phase' \in Compaction)
  PROVE  ProjectionInv' /\ CitationInv'
<1>1. /\ ~Projecting /\ ~Projecting'
      /\ phase \notin {"tool", "refused"} \cup Showing
      /\ phase' \notin {"tool", "refused"} \cup Showing
  BY SectionNames DEF Projecting, Compaction, Calls, Showing
<1>2. view'["refs"] = 0 /\ view'["files"] = 0 /\ view'["tool"] = 0
  BY <1>1 DEF IInv, CitationInv
<1>3. Len(Files) \in Nat /\ Files' = Files
  BY RequestTypes, SameRequest DEF IInv
<1> QED BY <1>1, <1>2, <1>3 DEF ProjectionInv, CitationInv, MaxFiles

-----------------------------------------------------------------------------
(* The transcript.                                                         *)

LEMMA StartIInv == ASSUME Start, IInv PROVE IInv'
<1>1. /\ phase = "start" /\ UNCHANGED <<request, history, size, room, view, used>>
      /\ request.kind \in {"inspect", "generate"}
      /\ phase' \in {"room", "refused", "compact"}
      /\ request.kind = "generate" <=> phase' = "room"
      /\ phase' = "refused" <=> request.kind = "inspect" /\ Available < MinHistory
  BY RequestTypes DEF Start, IInv
<1>2. TypeOK'
  BY <1>1 DEF IInv, TypeOK, Compaction
<1>3. /\ Available' = Available /\ Available \in Int
  BY <1>1, SameRequest, Limits DEF IInv
<1>4. TranscriptInv'
  BY <1>1, <1>3 DEF TranscriptInv, Calls, MinHistory
<1>5. ProjectionInv' /\ CitationInv'
  <2>1. CASE phase' = "refused"
    <3>1. /\ view["files"] = 0 /\ Files' = Files
          /\ ~Projecting'
      BY <1>1, <2>1, SectionNames DEF IInv, CitationInv, Showing, Files, Projecting, Compaction, Calls
    <3>2. view'["files"] <= Len(Files') /\ view'["files"] <= MaxFiles
      BY <1>1, <3>1 DEF IInv, CitationInv
    <3> QED BY <1>1, <2>1, <3>1, <3>2 DEF ProjectionInv, CitationInv, Showing
  <2>2. CASE phase' # "refused"
    BY <1>1, <1>2, <2>2, NothingProjected DEF Compaction
  <2> QED BY <2>1, <2>2
<1>6. RefusedOnlyForFixedParts'
  BY <1>1, <1>3 DEF RefusedOnlyForFixedParts
<1> QED BY <1>2, <1>4, <1>5, <1>6 DEF IInv

\* What a step of the compaction has to show besides its own bounds.
LEMMA CompactionStep ==
  ASSUME IInv, TypeOK', UNCHANGED <<request, room, view, used>>,
         phase \in Compaction, phase' \in Calls \cup {AfterTranscript}, TranscriptInv'
  PROVE  IInv'
<1>1. request.kind \in {"inspect", "generate"}
  BY RequestTypes DEF IInv
<1>2. CASE request.kind = "inspect"
  <2>1. phase' = "room" \/ (request.kind = "inspect" /\ phase' \in Compaction)
    BY <1>2 DEF AfterTranscript, Compaction
  <2>2. ProjectionInv' /\ CitationInv'
    BY <1>2, <2>1, NothingProjected
  <2> QED BY <2>1, <2>2 DEF IInv, RefusedOnlyForFixedParts, Compaction, Calls
<1>3. CASE request.kind = "generate"
  <2>1. phase' \in Compaction \cup {"tool"}
    BY <1>3 DEF AfterTranscript, Compaction
  <2>2. ProjectionInv' /\ CitationInv'
    BY <1>3, <2>1, ProjectionStays
  <2> QED BY <2>1, <2>2 DEF IInv, RefusedOnlyForFixedParts, Compaction, Calls
<1> QED BY <1>1, <1>2, <1>3

\* A list of the transcript is under construction.
LEMMA InCompaction ==
  ASSUME IInv, phase \in Compaction
  PROVE  /\ request.kind \in {"inspect", "generate"}
         /\ HistoryBudget \in Int /\ HistoryBudget >= MinHistory /\ size \in Nat
         /\ request.kind = "inspect" => Available >= MinHistory /\ HistoryBudget <= Available
         /\ AfterTranscript \in {"room", "tool"}
         /\ AfterTranscript = "room" <=> request.kind = "inspect"
<1>1. request.kind \in {"inspect", "generate"} /\ size \in Nat
  BY RequestTypes DEF IInv, TypeOK
<1>2. request.kind = "inspect" => Available >= MinHistory
  BY DEF IInv, TranscriptInv, Compaction, Calls
<1> QED BY <1>1, <1>2, Limits, LimitAssumption DEF IInv, AfterTranscript, MinHistory

LEMMA KeepTranscriptIInv == ASSUME KeepTranscript, IInv PROVE IInv'
<1>1. /\ phase = "compact" /\ request.full <= HistoryBudget
      /\ size' = request.full /\ history' = [s \in Calls |-> Len(Transcript(s))]
      /\ phase' = AfterTranscript /\ UNCHANGED <<request, room, view, used>>
  BY DEF KeepTranscript
<1>2. /\ phase \in Compaction /\ Available' = Available /\ HistoryBudget' = HistoryBudget
      /\ request.full \in Nat /\ request.full >= CompactBase
  BY <1>1, SameRequest, RequestTypes DEF Compaction, IInv
<1>3. history' \in [Calls -> Nat]
  <2>1. \A s \in Calls : Len(Transcript(s)) \in Nat
    BY TranscriptTypes DEF IInv
  <2> QED BY <1>1, <2>1
<1>4. TypeOK'
  BY <1>1, <1>2, <1>3, InCompaction, SectionNames DEF IInv, TypeOK
<1>5. TranscriptInv'
  BY <1>1, <1>2, InCompaction DEF TranscriptInv, Brackets, Calls
<1> QED BY <1>1, <1>2, <1>4, <1>5, CompactionStep

LEMMA BeginCompactionIInv == ASSUME BeginCompaction, IInv PROVE IInv'
<1>1. /\ phase = "compact" /\ size' = CompactBase /\ history' = [s \in Calls |-> 0]
      /\ phase' = "failed" /\ UNCHANGED <<request, room, view, used>>
  BY DEF BeginCompaction
<1>2. /\ phase \in Compaction /\ Available' = Available /\ HistoryBudget' = HistoryBudget
  BY <1>1, SameRequest DEF Compaction
<1>3. TypeOK'
  BY <1>1 DEF IInv, TypeOK, Compaction, Calls, CompactBase
<1>4. TranscriptInv'
  BY <1>1, <1>2, InCompaction DEF TranscriptInv, Brackets, Calls, CompactBase, MinHistory
<1> QED BY <1>1, <1>2, <1>3, <1>4, CompactionStep DEF Calls

\* _try_append leaves the transcript within its limit.
LEMMA KeepCallIInv == ASSUME KeepCall, IInv PROVE IInv'
<1>1. /\ phase \in Calls /\ history[phase] < Len(Transcript(phase)) /\ size + NextCall <= HistoryBudget
      /\ history' = [history EXCEPT ![phase] = @ + 1] /\ size' = size + NextCall
      /\ UNCHANGED <<request, phase, room, view, used>>
  BY DEF KeepCall, NextCallFits
<1>2. /\ phase \in Compaction /\ Available' = Available /\ HistoryBudget' = HistoryBudget
      /\ history \in [Calls -> Nat]
  BY <1>1, SameRequest DEF Compaction, IInv, TypeOK
<1>3. NextCall \in Nat
  <2> DEFINE q == Transcript(phase)
             i == history[phase] + 1
  <2>1. q \in Seq(Nat) /\ i \in 1 .. Len(q)
    BY <1>1, <1>2, TranscriptTypes DEF IInv
  <2>2. q[i] \in Nat
    BY <2>1, Elements
  <2>3. NextCall = Cost(q[i], history[phase])
    BY DEF NextCall
  <2> HIDE DEF q, i
  <2> QED BY <2>2, <2>3 DEF Cost
<1>4. TypeOK'
  BY <1>1, <1>2, <1>3 DEF IInv, TypeOK
<1>5. TranscriptInv'
  BY <1>1, <1>2, <1>3, InCompaction DEF IInv, TranscriptInv, Brackets, Calls, CompactBase
<1> QED BY <1>1, <1>2, <1>4, <1>5, CompactionStep

LEMMA OpenNextListIInv == ASSUME OpenNextList, IInv PROVE IInv'
<1>1. /\ phase \in {"failed", "duplicates"}
      /\ phase' = IF phase = "failed" THEN "duplicates" ELSE "calls"
      /\ size' = size + (IF phase = "failed" THEN 26 ELSE 16)
      /\ UNCHANGED <<request, history, room, view, used>>
  BY DEF OpenNextList, OpeningOf
<1>2. /\ phase \in Compaction /\ phase' \in Calls /\ Available' = Available /\ HistoryBudget' = HistoryBudget
  BY <1>1, SameRequest DEF Compaction, Calls
<1>3. TypeOK'
  BY <1>1, <1>2 DEF IInv, TypeOK, Compaction
<1>4. TranscriptInv'
  BY <1>1, <1>2, InCompaction DEF IInv, TranscriptInv, Brackets, Calls, CompactBase
<1> QED BY <1>1, <1>2, <1>3, <1>4, CompactionStep

LEMMA EndTranscriptIInv == ASSUME EndTranscript, IInv PROVE IInv'
<1>1. /\ phase = "calls" /\ phase' = AfterTranscript
      /\ UNCHANGED <<request, history, size, room, view, used>>
  BY DEF EndTranscript
<1>2. /\ phase \in Compaction /\ Available' = Available /\ HistoryBudget' = HistoryBudget
  BY <1>1, SameRequest DEF Compaction, Calls
<1>3. TypeOK'
  BY <1>1, <1>2, InCompaction, SectionNames DEF IInv, TypeOK
<1>4. TranscriptInv'
  BY <1>1, <1>2, InCompaction DEF IInv, TranscriptInv, Brackets, Calls
<1> QED BY <1>1, <1>2, <1>3, <1>4, CompactionStep

-----------------------------------------------------------------------------
(* The projection.                                                         *)

LEMMA MakeRoomIInv == ASSUME MakeRoom, IInv PROVE IInv'
<1>1. /\ phase = "room" /\ room' = MaxPrompt - Surroundings
      /\ phase' = IF room' < MinContext THEN "refused" ELSE "drift"
      /\ used' = request.pack.base
      /\ UNCHANGED <<request, history, size, view>>
  BY DEF MakeRoom, Sections
<1>2. /\ request.kind \in {"inspect", "generate"} /\ request.pack.base \in Nat
      /\ Surroundings \in Int /\ Available \in Int /\ Files' = Files /\ Available' = Available
  BY <1>1, RequestTypes, Limits, SameRequest DEF IInv
<1>3. request.kind = "inspect" => Available >= MinHistory /\ room' >= MinContext
  <2> SUFFICES ASSUME request.kind = "inspect" PROVE Available >= MinHistory /\ room' >= MinContext
    OBVIOUS
  <2>1. Available >= MinHistory /\ size <= HistoryBudget + 42
    BY <1>1 DEF IInv, TranscriptInv, Brackets
  <2>2. HistoryBudget \in Int /\ HistoryBudget <= Available
        /\ Available = MaxPrompt - (request.system + request.tools + 1200)
    BY Limits DEF IInv
  <2>3. Surroundings = request.system + request.tools + 43 + size
    BY DEF Surroundings, Prefix
  <2>4. request.system \in Nat /\ request.tools \in Nat /\ size \in Nat
    BY RequestTypes DEF IInv, TypeOK
  <2> QED BY <1>1, <2>1, <2>2, <2>3, <2>4, LimitAssumption DEF MinContext
<1>4. TypeOK'
  BY <1>1, <1>2, LimitAssumption, SectionNames DEF IInv, TypeOK
<1>5. TranscriptInv'
  BY <1>1, <1>2, <1>3 DEF TranscriptInv, Calls
<1>6. view["refs"] = 0 /\ view["files"] = 0 /\ view["tool"] = 0
  BY <1>1, SectionNames DEF IInv, CitationInv, Showing, Projecting, Compaction, Calls
<1>7. ProjectionInv'
  <2>1. Surroundings' = Surroundings
    BY <1>1 DEF Surroundings
  <2>2. Projecting' => phase' = "drift"
    BY <1>1, SectionNames DEF Projecting, Compaction, Calls
  <2> QED BY <1>1, <1>2, <2>1, <2>2, LimitAssumption DEF ProjectionInv, MinContext
<1>8. CitationInv'
  <2>1. /\ view'["refs"] = 0 /\ view'["files"] = 0 /\ view'["tool"] = 0
        /\ Len(Files') \in Nat /\ phase' \in {"refused", "drift"}
    BY <1>1, <1>2, <1>6, RequestTypes DEF IInv
  <2>2. phase' = "refused" => ~Projecting'
    BY SectionNames DEF Projecting, Compaction, Calls
  <2> QED BY <2>1, <2>2 DEF CitationInv, Showing, MaxFiles
<1>9. RefusedOnlyForFixedParts'
  <2> SUFFICES ASSUME phase' = "refused"
               PROVE  request.kind = "generate" /\ MaxPrompt - request.system < MinContext
    BY <1>1 DEF RefusedOnlyForFixedParts
  <2>1. room' < MinContext /\ room' \in Int
    BY <1>1, <1>4 DEF TypeOK
  <2>2. request.kind = "generate"
    BY <1>2, <1>3, <2>1 DEF MinContext
  <2>3. room' = MaxPrompt - request.system
    BY <1>1, <2>2 DEF Surroundings
  <2> QED BY <2>1, <2>2, <2>3
<1> QED BY <1>4, <1>5, <1>7, <1>8, <1>9 DEF IInv

\* An item that fits is kept: any of a section; of the transcript, its whole; of a
\* file, at least its metadata.
LEMMA KeepStep ==
  ASSUME IInv, Waiting, NEW n \in Nat, Keep(n), Fits(n),
         phase = "tool" => n = 19 + size /\ request.kind = "generate" /\ request.inspected,
         phase = "files" => n >= Bare(Files[Upcoming])
  PROVE  IInv'
<1> DEFINE k == view[phase]
           cost == Cost(n, k)
<1>1. /\ phase \in Section /\ view \in [Section -> Nat] /\ k \in Nat
      /\ k < Lesser(Limit(phase), Len(Candidates(phase)))
      /\ view' = [view EXCEPT ![phase] = @ + 1] /\ used' = used + cost
      /\ UNCHANGED <<request, phase, history, size, room>>
      /\ used + cost <= room
  BY DEF Waiting, Keep, Fits, IInv, TypeOK
<1>2. /\ cost \in Nat /\ cost >= n /\ used \in Nat /\ room \in Int /\ used' \in Nat
  BY <1>1 DEF IInv, TypeOK, Cost
<1> HIDE DEF cost
<1>3. TypeOK'
  BY <1>1, <1>2 DEF IInv, TypeOK
<1>4. /\ Files' = Files /\ Available' = Available /\ HistoryBudget' = HistoryBudget
      /\ Surroundings' = Surroundings /\ Projecting' /\ Projecting
      /\ phase \in {"drift", "attention", "refs", "tool", "files", "guidance"}
  BY <1>1, SameRequest, SectionNames DEF Surroundings, Projecting
<1>5. TranscriptInv'
  BY <1>1, <1>4 DEF IInv, TranscriptInv, Brackets
<1>6. ProjectionInv'
  BY <1>1, <1>2, <1>4 DEF IInv, ProjectionInv
<1>7. RefusedOnlyForFixedParts'
  BY <1>1, <1>4 DEF RefusedOnlyForFixedParts
<1>8. \A s \in Section : view'[s] = (IF s = phase THEN view[s] + 1 ELSE view[s])
  BY <1>1
<1>9. CASE phase \in {"drift", "attention"}
  <2>1. view'["refs"] = 0 /\ view'["tool"] = 0 /\ view'["files"] = 0
    BY <1>8, <1>9, SectionNames DEF IInv, CitationInv, Showing
  <2>2. Len(Files) \in Nat
    BY RequestTypes DEF IInv
  <2>3. CitationInv'
    BY <1>1, <1>4, <1>9, <2>1, <2>2 DEF CitationInv, Showing, MaxFiles
  <2> QED BY <1>3, <1>5, <1>6, <1>7, <2>3 DEF IInv
<1>10. CASE phase = "refs"
  <2>1. view'["tool"] = 0 /\ view'["files"] = 0
    BY <1>8, <1>10, SectionNames DEF IInv, CitationInv, Showing
  <2>2. Len(Files) \in Nat
    BY RequestTypes DEF IInv
  <2>3. CitationInv'
    BY <1>1, <1>4, <1>10, <2>1, <2>2 DEF CitationInv, Showing, MaxFiles
  <2> QED BY <1>3, <1>5, <1>6, <1>7, <2>3 DEF IInv
<1>11. CASE phase = "tool"
  <2>1. n >= 19 + CompactBase
    BY <1>11 DEF IInv, TranscriptInv, TypeOK, CompactBase
  <2>2. k = 0
    BY <1>1, <1>11, CandidateTypes DEF Limit, Lesser, IInv
  <2>3. /\ view'["refs"] = view["refs"] /\ view'["files"] = view["files"]
        /\ view["tool"] = 0 /\ view'["tool"] = 1 /\ view["files"] = 0
    BY <1>8, <1>11, <2>2, SectionNames DEF IInv, CitationInv, Showing
  <2>4. Uncited' = Uncited /\ (IsCut' <=> IsCut)
    BY <1>4, <2>3 DEF Uncited, IsCut
  <2>5. IsCut => used' + Cost(CodeRef(Files[Uncited]), view["refs"]) > room + Taken'
    <3> SUFFICES ASSUME IsCut PROVE used' + Cost(CodeRef(Files[Uncited]), view["refs"]) > room + Taken'
      OBVIOUS
    <3>1. view["refs"] \in Nat /\ Uncited \in 1 .. Len(Files)
      <4>1. view["refs"] \in Nat
        BY <1>1, SectionNames
      <4>2. Len(Files) \in Nat
        BY RequestTypes DEF IInv
      <4> QED BY <4>1, <4>2 DEF IsCut, Uncited
    <3>2. used + Cost(CodeRef(Files[Uncited]), view["refs"]) > room + Taken
      BY <1>4, <1>11, <2>3, <3>1 DEF IInv, CitationInv, Uncited
    <3>3. Cost(CodeRef(Files[Uncited]), view["refs"]) \in Nat
      <4>1. CodeRef(Files[Uncited]) \in Nat
        BY <3>1, RequestTypes, DocumentSizes DEF IInv
      <4> QED BY <3>1, <4>1 DEF Cost
    <3>4. Taken = 0 /\ Taken' = 19 + CompactBase
      <4>1. view'["files"] = 0 /\ view'["tool"] # 0
        BY <2>3
      <4> QED BY <2>3, <4>1 DEF Taken, CompactBase
    <3> QED BY <1>1, <1>2, <2>1, <3>2, <3>3, <3>4 DEF CompactBase
  <2>6. CitationInv'
    BY <1>1, <1>4, <1>11, <2>3, <2>4, <2>5 DEF IInv, CitationInv, Showing
  <2> QED BY <1>3, <1>5, <1>6, <1>7, <2>6 DEF IInv
<1>12. CASE phase = "files"
  <2>1. /\ k < Len(Files) /\ k < MaxFiles /\ k = view["files"] /\ Len(Files) \in Nat
    BY <1>1, <1>12, CandidateTypes, RequestTypes DEF Limit, Lesser, IInv, MaxFiles
  <2>2. /\ view'["refs"] = view["refs"] /\ view'["tool"] = view["tool"] /\ view'["files"] = k + 1
        /\ view["refs"] \in Nat /\ view["tool"] \in Nat
    BY <1>1, <1>8, <1>12, <2>1, SectionNames
  <2>3. Uncited' = Uncited /\ (IsCut' <=> IsCut)
    BY <1>4, <2>2 DEF Uncited, IsCut
  <2>4. /\ Upcoming = k + 1 /\ Upcoming \in 1 .. Len(Files)
        /\ n >= Files[Upcoming].path + 24 /\ n >= 25
        /\ Files[Upcoming].path \in Nat
    <3>1. Upcoming = k + 1 /\ Upcoming \in 1 .. Len(Files)
      BY <1>1, <2>1 DEF Upcoming
    <3>2. /\ Bare(Files[Upcoming]) \in Nat /\ Files[Upcoming].path >= 1
          /\ Bare(Files[Upcoming]) = Files[Upcoming].path + Files[Upcoming].facts + 11
          /\ Files[Upcoming].path \in Nat /\ Files[Upcoming].facts \in Nat
          /\ Files[Upcoming].facts >= 13
      BY <3>1, DocumentSizes, RequestTypes DEF IInv
    <3> QED BY <1>12, <3>1, <3>2
  <2>5. ASSUME IsCut, view["files"] < Uncited
        PROVE  /\ Uncited \in 1 .. Len(Files)
               /\ CodeRef(Files[Uncited]) = Files[Uncited].path + 43
               /\ Cost(CodeRef(Files[Uncited]), view["refs"]) \in Nat
               /\ used + Cost(CodeRef(Files[Uncited]), view["refs"]) > room + Taken
    <3>1. Uncited \in 1 .. Len(Files)
      BY <2>2, <2>5 DEF IsCut, Uncited
    <3>2. CodeRef(Files[Uncited]) \in Nat /\ CodeRef(Files[Uncited]) = Files[Uncited].path + 43
      BY <3>1, DocumentSizes, RequestTypes DEF IInv
    <3>3. Cost(CodeRef(Files[Uncited]), view["refs"]) \in Nat
      BY <3>2 DEF Cost
    <3>4. used + Cost(CodeRef(Files[Uncited]), view["refs"]) > room + Taken
      BY <1>4, <1>12, <2>5 DEF IInv, CitationInv
    <3> QED BY <3>1, <3>2, <3>3, <3>4
  <2>6. /\ Taken \in Nat /\ Taken' <= Taken + 24 /\ Taken' \in Nat
        /\ k > 0 => Taken >= 24
        /\ view["tool"] > 0 => Taken >= 24
    BY <1>1, <2>1, <2>2 DEF Taken, CompactBase
  <2>7. IsCut /\ k + 1 < Uncited =>
          used' + Cost(CodeRef(Files[Uncited]), view["refs"]) > room + Taken'
    <3> SUFFICES ASSUME IsCut, k + 1 < Uncited
                 PROVE  used' + Cost(CodeRef(Files[Uncited]), view["refs"]) > room + Taken'
      OBVIOUS
    <3>1. view["files"] < Uncited
      BY <1>1, <2>1, <2>2 DEF Uncited
    <3> QED BY <1>1, <1>2, <2>4, <2>5, <2>6, <3>1
  <2>8. view["refs"] > 0 \/ view["tool"] > 0 => k + 1 <= view["refs"]
    <3> SUFFICES ASSUME view["refs"] > 0 \/ view["tool"] > 0, k + 1 > view["refs"] PROVE FALSE
      BY <1>1, <2>2
    <3>1. k = view["refs"]
      BY <1>1, <1>12, <2>1, <2>2 DEF IInv, CitationInv, Showing
    <3>2. Uncited = Upcoming /\ IsCut /\ view["files"] < Uncited
      BY <1>1, <2>1, <2>2, <2>4, <3>1 DEF Uncited, IsCut, MaxFiles
    <3>3. Taken >= 24
      BY <2>6, <3>1
    <3>4. /\ cost = Cost(n, k)
          /\ Cost(CodeRef(Files[Uncited]), view["refs"]) = Cost(CodeRef(Files[Upcoming]), k)
      BY <3>1, <3>2 DEF cost
    <3>5. /\ CodeRef(Files[Upcoming]) = Files[Upcoming].path + 43
          /\ used + Cost(CodeRef(Files[Upcoming]), k) > room + Taken
      BY <2>5, <3>2, <3>4
    <3>6. Cost(CodeRef(Files[Upcoming]), k) <= cost + 19
      BY <1>1, <2>4, <3>4, <3>5 DEF Cost
    <3>7. Cost(CodeRef(Files[Upcoming]), k) \in Nat
      BY <2>5, <3>2, <3>4
    <3> QED BY <1>1, <1>2, <2>6, <3>3, <3>5, <3>6, <3>7
  <2>9. CitationInv'
    <3>1. /\ phase' = "files" /\ view'["files"] <= Len(Files') /\ view'["files"] <= MaxFiles
      BY <1>1, <1>4, <1>12, <2>1, <2>2 DEF MaxFiles
    <3>2. view'["refs"] > 0 \/ view'["tool"] > 0 => view'["files"] <= view'["refs"]
      BY <2>2, <2>8
    <3>3. IsCut' /\ view'["files"] < Uncited' =>
            used' + Cost(CodeRef(Files'[Uncited']), view'["refs"]) > room' + Taken'
      BY <1>1, <1>4, <2>2, <2>3, <2>7
    <3> QED BY <1>4, <3>1, <3>2, <3>3 DEF CitationInv, Showing
  <2> QED BY <1>3, <1>5, <1>6, <1>7, <2>9 DEF IInv
<1>13. CASE phase = "guidance"
  <2>1. /\ view'["refs"] = view["refs"] /\ view'["tool"] = view["tool"] /\ view'["files"] = view["files"]
    BY <1>8, <1>13, SectionNames
  <2>2. Uncited' = Uncited /\ (IsCut' <=> IsCut) /\ Taken' = Taken
    BY <1>4, <2>1 DEF Uncited, IsCut, Taken
  <2>3. IsCut /\ view["files"] < Uncited =>
          used' + Cost(CodeRef(Files[Uncited]), view["refs"]) > room + Taken
    <3> SUFFICES ASSUME IsCut, view["files"] < Uncited
                 PROVE  used' + Cost(CodeRef(Files[Uncited]), view["refs"]) > room + Taken
      OBVIOUS
    <3>1. view["refs"] \in Nat /\ view["tool"] \in Nat /\ view["files"] \in Nat /\ Uncited \in 1 .. Len(Files)
      <4>1. view["refs"] \in Nat /\ view["tool"] \in Nat /\ view["files"] \in Nat
        BY <1>1, SectionNames
      <4>2. Len(Files) \in Nat
        BY RequestTypes DEF IInv
      <4> QED BY <4>1, <4>2 DEF IsCut, Uncited
    <3>2. used + Cost(CodeRef(Files[Uncited]), view["refs"]) > room + Taken
      BY <1>4, <1>13 DEF IInv, CitationInv
    <3>3. CodeRef(Files[Uncited]) \in Nat
      BY <3>1, RequestTypes, DocumentSizes DEF IInv
    <3>4. Cost(CodeRef(Files[Uncited]), view["refs"]) \in Nat /\ Taken \in Nat
      BY <3>1, <3>3 DEF Cost, Taken, CompactBase
    <3> QED BY <1>1, <1>2, <3>2, <3>4
  <2>4. CitationInv'
    BY <1>1, <1>4, <1>13, <2>1, <2>2, <2>3 DEF IInv, CitationInv, Showing
  <2> QED BY <1>3, <1>5, <1>6, <1>7, <2>4 DEF IInv
<1> QED BY <1>4, <1>9, <1>10, <1>11, <1>12, <1>13

LEMMA KeepItemIInv == ASSUME KeepItem, IInv PROVE IInv'
<1>1. /\ Waiting /\ Fits(Item) /\ Keep(Item)
      /\ phase \in Section /\ view[phase] \in Nat
      /\ view[phase] < Lesser(Limit(phase), Len(Candidates(phase)))
  BY DEF KeepItem, Waiting, IInv, TypeOK
<1> DEFINE q == Candidates(phase)
<1>2. q \in Seq(Nat) /\ Len(q) \in Nat
  BY <1>1, CandidateTypes DEF IInv
<1>3. Upcoming \in 1 .. Len(q) /\ Item = q[Upcoming]
  BY <1>1, <1>2 DEF Upcoming, Item, Lesser, Limit, MaxRefs, MaxFiles, MaxGuidance
<1> HIDE DEF q
<1>4. Item \in Nat
  BY <1>2, <1>3, Elements
<1>5. phase = "tool" => Item = 19 + size /\ request.kind = "generate" /\ request.inspected
  BY <1>1, <1>3, CandidateTypes DEF IInv, q
<1>6. phase = "files" => Item >= Bare(Files[Upcoming])
  <2> SUFFICES ASSUME phase = "files" PROVE Item >= Bare(Files[Upcoming])
    OBVIOUS
  <2>1. Upcoming \in 1 .. Len(Files) /\ Item = Whole(Files[Upcoming])
    BY <1>1, <1>3, CandidateTypes DEF IInv, q
  <2>2. Whole(Files[Upcoming]) >= Bare(Files[Upcoming])
    BY <2>1, RequestTypes, DocumentSizes DEF IInv
  <2> QED BY <2>1, <2>2
<1> QED BY <1>1, <1>4, <1>5, <1>6, KeepStep

LEMMA KeepMetadataIInv == ASSUME KeepMetadata, IInv PROVE IInv'
<1>1. /\ Waiting /\ Fits(Metadata) /\ Keep(Metadata) /\ phase \in {"files", "guidance"}
      /\ phase \in Section /\ view[phase] \in Nat
      /\ view[phase] < Lesser(Limit(phase), Len(Candidates(phase)))
  BY DEF KeepMetadata, Waiting, IInv, TypeOK
<1> DEFINE q == request.pack[phase]
<1>2. /\ q \in Seq(Document) /\ Len(Candidates(phase)) = Len(q)
      /\ phase = "files" => q = Files
  BY <1>1, RequestTypes DEF IInv, Candidates, Files
<1>3. Upcoming \in 1 .. Len(q) /\ Metadata = Bare(q[Upcoming])
  BY <1>1, <1>2 DEF Upcoming, Metadata, Lesser, Limit, MaxFiles, MaxGuidance
<1> HIDE DEF q
<1>4. Metadata \in Nat
  BY <1>2, <1>3, DocumentSizes
<1>5. phase = "files" => Metadata >= Bare(Files[Upcoming])
  BY <1>2, <1>3, <1>4
<1> QED BY <1>1, <1>4, <1>5, KeepStep

\* The order of the sections, and where the generator compacts.
LEMMA Order ==
  /\ After("drift") = "attention" /\ After("attention") = "refs"
  /\ After("refs") = IF request.kind = "generate" /\ request.inspected THEN "compact" ELSE "tool"
  /\ After("tool") = "files" /\ After("files") = "guidance" /\ After("guidance") = "check"
<1> DEFINE at(s) == CHOOSE i \in DOMAIN Sections : Sections[i] = s
<1>1. /\ DOMAIN Sections = 1 .. 6 /\ Len(Sections) = 6
      /\ Sections[1] = "drift" /\ Sections[2] = "attention" /\ Sections[3] = "refs"
      /\ Sections[4] = "tool" /\ Sections[5] = "files" /\ Sections[6] = "guidance"
  BY DEF Sections
<1>2. \A i \in 1 .. 6 : i \in {1, 2, 3, 4, 5, 6}
  OBVIOUS
<1>3. at("drift") = 1 /\ at("attention") = 2 /\ at("refs") = 3
  BY <1>1, <1>2
<1>4. at("tool") = 4 /\ at("files") = 5
  BY <1>1, <1>2
<1>5. \A s : After(s) = IF s = "guidance" THEN "check"
                        ELSE LET next == Sections[1 + at(s)] IN
                             IF next = "tool" /\ request.kind = "generate" /\ request.inspected
                             THEN "compact" ELSE next
  BY <1>1 DEF After
<1> HIDE DEF at
<1>6. /\ Sections[1 + at("drift")] = "attention" /\ Sections[1 + at("attention")] = "refs"
      /\ Sections[1 + at("refs")] = "tool" /\ Sections[1 + at("tool")] = "files"
      /\ Sections[1 + at("files")] = "guidance"
  BY <1>1, <1>3, <1>4
<1> QED BY <1>5, <1>6

\* The references end where the limit of bytes cuts them: their own limit is beyond
\* the number of files that are shown.
LEMMA CutReference ==
  ASSUME IInv, phase = "refs", IsCut, Waiting => ~Fits(Item)
  PROVE  used + Cost(CodeRef(Files[Uncited]), view["refs"]) > room
<1>1. /\ Candidates("refs") = SourceRefs(request.pack)
      /\ SourceRefs(request.pack) \in Seq(Nat)
      /\ Len(SourceRefs(request.pack)) >= Len(Files)
      /\ \A i \in 1 .. Len(Files) : SourceRefs(request.pack)[i] = CodeRef(Files[i])
  BY RefsOfFiles DEF IInv, Candidates
<1>2. view["refs"] \in Nat
  BY SectionNames DEF IInv, TypeOK
<1>3. Len(Files) \in Nat /\ Len(SourceRefs(request.pack)) \in Nat
  BY <1>1, RequestTypes DEF IInv
<1>4. Uncited \in 1 .. Len(Files) /\ view["refs"] < 10 /\ Uncited = view["refs"] + 1
  BY <1>2, <1>3 DEF IsCut, Uncited, MaxFiles
<1>5. Waiting
  BY <1>1, <1>2, <1>3, <1>4, SectionNames DEF Waiting, Limit, Lesser, MaxRefs
<1>6. Item = CodeRef(Files[Uncited])
  BY <1>1, <1>4 DEF Item, Upcoming
<1>7. Cost(CodeRef(Files[Uncited]), view["refs"]) \in Nat
  <2>1. CodeRef(Files[Uncited]) \in Nat
    BY <1>4, RequestTypes, DocumentSizes DEF IInv
  <2> QED BY <2>1 DEF Cost
<1>8. used \in Nat /\ room \in Int
  BY DEF IInv, TypeOK
<1> QED BY <1>5, <1>6, <1>7, <1>8 DEF Fits

LEMMA CloseSectionIInv == ASSUME CloseSection, IInv PROVE IInv'
<1>1. /\ phase \in {"drift", "attention", "refs", "tool", "files", "guidance"}
      /\ phase' = After(phase)
      /\ Waiting => ~Fits(Item)
      /\ UNCHANGED <<request, history, size, room, view, used>>
  BY SectionNames DEF CloseSection
<1>2. /\ Available' = Available /\ HistoryBudget' = HistoryBudget /\ Files' = Files
      /\ Uncited' = Uncited /\ (IsCut' <=> IsCut) /\ Taken' = Taken /\ Surroundings' = Surroundings
  BY <1>1, SameRequest DEF Uncited, IsCut, Taken, Surroundings
<1>3. \/ phase = "drift" /\ phase' = "attention"
      \/ phase = "attention" /\ phase' = "refs"
      \/ phase = "refs" /\ phase' = "compact" /\ request.kind = "generate" /\ request.inspected
      \/ phase = "refs" /\ phase' = "tool" /\ ~(request.kind = "generate" /\ request.inspected)
      \/ phase = "tool" /\ phase' = "files"
      \/ phase = "files" /\ phase' = "guidance"
      \/ phase = "guidance" /\ phase' = "check"
  <2>1. request.inspected \in BOOLEAN
    BY RequestTypes DEF IInv
  <2> QED BY <1>1, <2>1, Order
<1>4. Projecting /\ Projecting'
  BY <1>1, <1>3, SectionNames DEF Projecting, Compaction
<1>5. TypeOK'
  BY <1>1, <1>3, SectionNames DEF IInv, TypeOK, Compaction
<1>6. TranscriptInv'
  BY <1>1, <1>2, <1>3 DEF IInv, TranscriptInv, Calls
<1>7. ProjectionInv'
  BY <1>1, <1>2, <1>4 DEF IInv, ProjectionInv
<1>8. RefusedOnlyForFixedParts'
  BY <1>3 DEF RefusedOnlyForFixedParts
<1>9. CitationInv'
  <2>1. view'["files"] <= Len(Files') /\ view'["files"] <= MaxFiles
    BY <1>1, <1>2 DEF IInv, CitationInv
  <2>2. /\ phase' \notin Showing => view'["files"] = 0
        /\ phase' \notin Showing \cup {"tool"} => view'["tool"] = 0
        /\ phase' \in {"drift", "attention"} => view'["refs"] = 0
    BY <1>1, <1>3, <1>4 DEF IInv, CitationInv, Showing
  <2>3. phase' \notin {"drift", "attention", "refs"} /\ IsCut' /\ view'["files"] < Uncited' =>
          used' + Cost(CodeRef(Files'[Uncited']), view'["refs"]) > room' + Taken'
    <3>1. CASE phase = "refs"
      <4> SUFFICES ASSUME IsCut PROVE used + Cost(CodeRef(Files[Uncited]), view["refs"]) > room + Taken
        BY <1>1, <1>2
      <4>1. used + Cost(CodeRef(Files[Uncited]), view["refs"]) > room
        <5>1. Waiting => ~Fits(Item)
          BY <1>1
        <5> QED BY <3>1, <5>1, CutReference, Zenon
      <4>2. Taken = 0
        BY <3>1 DEF IInv, CitationInv, Showing, Taken
      <4>3. room \in Int
        BY DEF IInv, TypeOK
      <4> QED BY <4>1, <4>2, <4>3
    <3>2. CASE phase # "refs"
      BY <1>1, <1>2, <1>3, <1>4, <3>2 DEF IInv, CitationInv
    <3> QED BY <3>1, <3>2
  <2>4. phase' \in Showing /\ (view'["refs"] > 0 \/ view'["tool"] > 0) => view'["files"] <= view'["refs"]
    <3>1. CASE phase = "tool"
      <4>1. view["files"] = 0 /\ view["refs"] \in Nat
        BY <3>1, SectionNames DEF IInv, CitationInv, Showing, TypeOK
      <4> QED BY <1>1, <4>1
    <3>2. CASE phase # "tool"
      BY <1>1, <1>3, <3>2 DEF IInv, CitationInv, Showing
    <3> QED BY <3>1, <3>2
  <2> QED BY <1>4, <2>1, <2>2, <2>3, <2>4 DEF CitationInv
<1> QED BY <1>5, <1>6, <1>7, <1>8, <1>9 DEF IInv

\* Both measurements refuse only what the room could not hold at the start.
LEMMA CheckIInv == ASSUME Check, IInv PROVE IInv'
<1>1. /\ phase = "check" /\ UNCHANGED <<request, history, size, room, view, used>>
      /\ phase' \in {"refused", "sent"}
      /\ phase' = "refused" => used > room \/ Surroundings + used > MaxPrompt
  BY DEF Check
<1>2. /\ Available' = Available /\ HistoryBudget' = HistoryBudget /\ Files' = Files
      /\ Uncited' = Uncited /\ (IsCut' <=> IsCut) /\ Taken' = Taken /\ Surroundings' = Surroundings
  BY <1>1, SameRequest DEF Uncited, IsCut, Taken, Surroundings
<1>3. /\ Projecting /\ room = MaxPrompt - Surroundings /\ room >= MinContext
      /\ used <= room \/ used = request.pack.base
      /\ Surroundings \in Int /\ used \in Nat
  BY <1>1, Limits DEF IInv, TypeOK, Projecting, ProjectionInv
<1>4. phase' = "sent" => Projecting'
  BY DEF Projecting
<1>5. phase' = "refused" => ~Projecting'
  BY SectionNames DEF Projecting, Compaction, Calls
<1>6. TypeOK'
  BY <1>1 DEF IInv, TypeOK
<1>7. TranscriptInv'
  BY <1>1, <1>2 DEF IInv, TranscriptInv, Calls
<1>8. ProjectionInv'
  BY <1>1, <1>2, <1>3, <1>5 DEF ProjectionInv
<1>9. CitationInv'
  BY <1>1, <1>2, <1>3, <1>4, <1>5 DEF IInv, CitationInv, Showing
<1>10. RefusedOnlyForFixedParts'
  <2> SUFFICES ASSUME phase' = "refused" PROVE room > 0 /\ request.pack.base > room
    BY <1>1 DEF RefusedOnlyForFixedParts
  <2>1. used > room /\ room > 0
    BY <1>1, <1>3, LimitAssumption DEF MinContext
  <2>2. room \in Int
    BY DEF IInv, TypeOK
  <2> QED BY <1>3, <2>1, <2>2
<1> QED BY <1>6, <1>7, <1>8, <1>9, <1>10 DEF IInv

-----------------------------------------------------------------------------
(* The theorems.                                                           *)

LEMMA StutterIInv == ASSUME UNCHANGED vars, IInv PROVE IInv'
<1>1. UNCHANGED <<request, phase, history, size, room, view, used>>
  BY DEF vars
<1>2. /\ Available' = Available /\ HistoryBudget' = HistoryBudget /\ Files' = Files
      /\ Uncited' = Uncited /\ (IsCut' <=> IsCut) /\ Taken' = Taken /\ Surroundings' = Surroundings
      /\ (Projecting' <=> Projecting) /\ Brackets' = Brackets
  BY <1>1, SameRequest DEF Uncited, IsCut, Taken, Surroundings, Projecting, Brackets
<1>3. TypeOK' /\ TranscriptInv'
  BY <1>1, <1>2 DEF IInv, TypeOK, TranscriptInv
<1>4. ProjectionInv' /\ RefusedOnlyForFixedParts'
  BY <1>1, <1>2 DEF IInv, ProjectionInv, RefusedOnlyForFixedParts
<1>5. CitationInv'
  BY <1>1, <1>2 DEF IInv, CitationInv
<1> QED BY <1>3, <1>4, <1>5 DEF IInv

\* However a request is built, step by step, its invariant holds.
THEOREM BudgetInvariant == Spec => []IInv
<1>1. IInv /\ [Next]_vars => IInv'
  BY StartIInv, KeepTranscriptIInv, BeginCompactionIInv, KeepCallIInv, OpenNextListIInv,
     EndTranscriptIInv, MakeRoomIInv, KeepItemIInv, KeepMetadataIInv, CloseSectionIInv, CheckIInv,
     StutterIInv DEF Next
<1> QED BY <1>1, InitIInv, PTL DEF Spec

\* A request is refused only for what no projection can leave out, the base of the
\* pack measured against the room the transcript leaves it; the sections of the pack
\* give way, and the two measurements after them (repository_inspection.py,
\* _build_request; prompt_budget.py, project_context_pack) refuse nothing that was
\* made to fit.
THEOREM CutsSuffice == Spec => []RefusedOnlyForFixedParts
<1>1. IInv => RefusedOnlyForFixedParts
  BY DEF IInv
<1> QED BY <1>1, BudgetInvariant, PTL

\* A model that is held to the references in its prompt can cite every file it is
\* shown, although project_context_pack cuts references and files independently: for
\* packs of any size, paths of any length and limits of any value the settings allow.
THEOREM CitationsSuffice == Spec => []ShownFilesCanBeCited
<1>1. IInv => ShownFilesCanBeCited
  <2> SUFFICES ASSUME IInv, phase = "sent", Restricted PROVE view["files"] <= view["refs"]
    BY DEF ShownFilesCanBeCited
  <2>1. view["refs"] > 0 \/ view["tool"] > 0
    BY DEF Restricted
  <2> QED BY <2>1 DEF IInv, CitationInv, Showing
<1> QED BY <1>1, BudgetInvariant, PTL

=============================================================================
