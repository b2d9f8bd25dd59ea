--------------------------- MODULE MCPromptBudget ---------------------------
(* Requests whose parts exhaust the limits one after the other, in bytes as    *)
(* the defaults of the code and the identifiers of a small repository give     *)
(* them.                                                                       *)
EXTENDS PromptBudget, SequencesExt

File(path, excerpt) == [path |-> path, facts |-> 53, excerpt |-> excerpt]
Changed(path)       == [path |-> path, facts |-> 13, excerpt |-> 0]
Guide(path)         == [path |-> path, facts |-> 21, excerpt |-> 1076]

Contents(base, drift, attention, files, guidance) ==
    [base |-> base, drift |-> drift, attention |-> attention, files |-> files, guidance |-> guidance]

\* Fifty files of a snapshot; two that changed; names of 200 characters of one and of four bytes.
Large     == Contents(430, 1079, 347, [i \in 1..50 |-> File(20, IF i % 3 = 0 THEN 0 ELSE 476)],
                      [i \in 1..8 |-> Guide(12)])
Small     == Contents(430, 500, 0, <<Changed(30), Changed(200), File(10, 1476)>>, <<Guide(9)>>)
LongName  == Contents(630, 0, 347, <<File(300, 76), File(12, 1476)>>, << >>)
WideName  == Contents(1230, 0, 0, <<File(20, 76)>>, << >>)

\* References of 51 bytes each.
ToolCall(payload, refs) ==
    [bare |-> 170 + 52 * refs - (IF refs = 0 THEN 0 ELSE 1), payload |-> payload, cites |-> refs > 0]

\* The bytes of a list, and of a transcript as it is: its counters and three lists.
Bytes(list) == FoldSeq(LAMBDA n, sum : n + sum, 0, list) + (IF list = << >> THEN 0 ELSE Len(list) - 1)
InFull(failed, duplicates, calls) ==
    181 + Bytes(failed) + Bytes(duplicates) + Bytes([i \in DOMAIN calls |-> calls[i].bare + calls[i].payload])

Inspection(pack, tools, failed, duplicates, calls) ==
    [kind |-> "inspect", system |-> 450, tools |-> tools, pack |-> pack, inspected |-> TRUE,
     full |-> InFull(failed, duplicates, calls),
     failed |-> failed, duplicates |-> duplicates, calls |-> calls]
Generation(pack, system, calls) ==
    [kind |-> "generate", system |-> system, tools |-> 0, pack |-> pack, inspected |-> calls # << >>,
     full |-> InFull(<< >>, << >>, calls), failed |-> << >>, duplicates |-> << >>, calls |-> calls]

Fit  == <<ToolCall(300, 1), ToolCall(100, 0)>>
Long == [i \in 1..4 |-> ToolCall(3000, 8)]

\* Prompts that leave the projection anything from nothing to most of the limit.
Generations ==
    {Generation(pack, 600 + 97 * n, calls) :
        pack \in {Large, Small, LongName, WideName}, n \in 0..68, calls \in {<< >>, Fit, Long}}

\* Transcripts that fit, that are cut, and whose failed or repeated calls end just
\* below their limit, for tool definitions that leave the limit of the
\* observations, less than that, and nothing.
Inspections ==
    {Inspection(pack, 3000, failed, <<168>>, calls) :
        pack \in {Large, LongName, WideName}, failed \in {<< >>, <<201, 350>>}, calls \in {<< >>, Fit, Long}}
    \cup {Inspection(Small, 3000, <<201, 2100 + n>>, <<168, 160>>, Long) : n \in 0..45}
    \cup {Inspection(Small, 4300, <<201>>, <<168, 300, 1150 + n>>, Fit) : n \in 0..45}
    \cup {Inspection(Small, 5500 + 40 * n, <<201, 300>>, << >>, Fit) : n \in 0..10}

MCRequests == Generations \cup Inspections
=============================================================================
