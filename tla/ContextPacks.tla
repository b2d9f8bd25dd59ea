---------------------------- MODULE ContextPacks ----------------------------
(* The packs of a repository's snapshots and the questions drawn from them:   *)
(* an ingestion that moves the checkout from commit to commit, the builds of  *)
(* packs that read that checkout, the drift, the guidance and the active      *)
(* profile, the files and rows they leave, and the generation jobs that read  *)
(* the files back.  Workers of the two kinds share the cache and the          *)
(* database, nothing else.                                                    *)
EXTENDS AttentionProfiles, PackContents

CONSTANTS
    PackTypes,      \* bound: the types of a build, in order, of the five
    MaxCommit,      \* bound: the commits of the repository
    MaxBuilds,      \* bound: the builds there may be
    Loads,          \* bound: the profiles, requests and builds of a behaviour, and
                    \* how many of the types each build has
    Citations       \* bound: the sets of references a model may cite

ASSUME LoadAssumption ==
    \A load \in Loads : IsFiniteSet(load.profiles) /\ load.types \in 1..Len(PackTypes)

ASSUME PackAssumption ==
    /\ PackTypes \in Seq({"high_level_design", "design_decisions", "low_level_components",
                         "future_improvements", "active_pr"})
    /\ MaxCommit \in Nat \ {0} /\ MaxBuilds \in Nat

VARIABLES
    checkout,   \* the commit the cached checkout is at
    snapshots,  \* the latest snapshot recorded
    drifts,     \* the latest drift recorded
    guided,     \* the commit the guidance table is of
    artifacts,  \* <<snapshot, position of the type>> -> the packs whose bytes the
                \* file holds: none before it is written, two if writers collide
    rows,       \* context_packs, with the build that inserted each
    builds      \* the builds, in the order in which they start

repoVars == <<checkout, snapshots, drifts, guided>>
vars == <<profileVars, repoVars, artifacts, rows, builds>>

Builds == 1..MaxBuilds
Types == DOMAIN PackTypes

NoBuild ==
    [types |-> 0, kind |-> "none", phase |-> "idle", snapshot |-> 0, bound |-> 0, met |-> {},
     profile |-> 0, drift |-> 0, guided |-> 0,
     shown |-> [i \in Types |-> << >>], used |-> [i \in Types |-> 0],
     written |-> 0, recorded |-> 0, pack |-> {}, read |-> << >>, refs |-> {}]

Init ==
    /\ \E load \in Loads :
        /\ ProfileInit(load.profiles, load.requests)
        /\ builds = [b \in Builds |->
               [NoBuild EXCEPT !.types = load.types,
                               !.phase = IF b <= load.builds THEN "idle" ELSE "dead"]]
    /\ checkout = 1 /\ snapshots = 1 /\ drifts = 1 /\ guided = 1
    /\ artifacts = [at \in (1..MaxCommit) \X Types |-> {}]
    /\ rows = {}

-----------------------------------------------------------------------------
(* The ingestion of the next commit, one at a time.                          *)

CheckOut ==
    /\ checkout = guided /\ checkout < MaxCommit
    /\ checkout' = checkout + 1
    /\ UNCHANGED <<snapshots, drifts, guided>>

RecordSnapshot ==
    /\ snapshots < checkout
    /\ snapshots' = checkout
    /\ UNCHANGED <<checkout, drifts, guided>>

RecordDrift ==
    /\ drifts < snapshots
    /\ drifts' = snapshots
    /\ UNCHANGED <<checkout, snapshots, guided>>

ReplaceGuidance ==
    /\ guided < drifts
    /\ guided' = drifts
    /\ UNCHANGED <<checkout, snapshots, drifts>>

Ingest ==
    /\ CheckOut \/ RecordSnapshot \/ RecordDrift \/ ReplaceGuidance
    /\ UNCHANGED <<profileVars, artifacts, rows, builds>>

-----------------------------------------------------------------------------
(* A build.                                                                  *)

Over(b) == builds[b].phase \in {"done", "failed", "dead"}
Going == {b \in Builds : builds[b].phase # "idle" /\ ~Over(b)}

\* A request for packs or a manual job takes the latest snapshot, a scheduled
\* job is bound to a drift and its snapshot.
Start(b) ==
    /\ builds[b].phase = "idle"
    /\ \A c \in Builds : c < b => builds[c].phase # "idle"
    /\ \E kind \in {"request", "manual", "scheduled"}, drift \in 0..drifts :
        /\ (kind = "scheduled") = (drift > 0)
        /\ builds' = [builds EXCEPT ![b] = [@ EXCEPT
               !.kind = kind, !.phase = "profile", !.met = Going, !.bound = drift,
               !.snapshot = IF kind = "scheduled" THEN drift ELSE snapshots]]
    /\ UNCHANGED <<profileVars, repoVars, artifacts, rows>>

ReadProfile(b) ==
    /\ builds[b].phase = "profile"
    /\ \E p \in IF active = {} THEN {0} ELSE active :
        builds' = [builds EXCEPT ![b].phase = "drift", ![b].profile = p]
    /\ UNCHANGED <<profileVars, repoVars, artifacts, rows>>

\* The latest drift is that of the repository, not of the snapshot.
ReadDrift(b) ==
    /\ builds[b].phase = "drift"
    /\ builds' = [builds EXCEPT ![b].phase = "guidance",
           ![b].drift = IF builds[b].bound > 0 THEN builds[b].bound ELSE drifts]
    /\ UNCHANGED <<profileVars, repoVars, artifacts, rows>>

ReadGuidance(b) ==
    /\ builds[b].phase = "guidance"
    /\ builds' = [builds EXCEPT ![b].phase = "packs", ![b].guided = guided]
    /\ UNCHANGED <<profileVars, repoVars, artifacts, rows>>

EntriesOf(b, i) ==
    Entries(PackTypes[i], builds[b].snapshot, builds[b].drift, builds[b].guided)

Pending(b) == {i \in 1..builds[b].types : Len(builds[b].shown[i]) < Len(EntriesOf(b, i))}

\* The next entry of the first pack that has one is read from the checkout.
ReadExcerpt(b) ==
    /\ builds[b].phase = "packs"
    /\ \E i \in Pending(b) :
        LET entry == EntriesOf(b, i)[Len(builds[b].shown[i]) + 1]
            used == builds[b].used[i]
            omitted == Omitted(entry, checkout, used)
        IN /\ \A j \in Pending(b) : i <= j
           /\ builds' = [builds EXCEPT
                  ![b].shown[i] = Append(@, IF omitted THEN NoHash
                                            ELSE Version(entry.path, checkout)),
                  ![b].used[i] = IF omitted THEN used ELSE used + Text(entry, used)]
    /\ UNCHANGED <<profileVars, repoVars, artifacts, rows>>

\* What the build writes for its i-th type, and what the hash of the row is of.
Pack(b, i) ==
    [type |-> PackTypes[i], snapshot |-> builds[b].snapshot, drift |-> builds[b].drift,
     guided |-> builds[b].guided, profile |-> builds[b].profile,
     shown |-> builds[b].shown[i]]

\* Mutant: one file for every snapshot of the repository.
FileUnkeyed(b, i) == <<1, i>>

\* The file is named by repository, snapshot and type: builds share it.
File(b, i) == <<builds[b].snapshot, i>>

Truncate(b) ==
    /\ builds[b].phase = "packs" /\ Pending(b) = {}
    /\ artifacts' = [artifacts EXCEPT ![File(b, builds[b].written + 1)] = {}]
    /\ builds' = [builds EXCEPT ![b].phase = "write"]
    /\ UNCHANGED <<profileVars, repoVars, rows>>

\* What another build has written since the file was opened stays beyond the
\* end of what this one writes.
Fill(b) ==
    LET i == builds[b].written + 1 IN
    /\ builds[b].phase = "write"
    /\ \E beyond \in {{}, artifacts[File(b, i)]} :
        artifacts' = [artifacts EXCEPT ![File(b, i)] = {Pack(b, i)} \union beyond]
    /\ builds' = [builds EXCEPT ![b].written = i,
           ![b].phase = IF i = builds[b].types THEN "rows" ELSE "packs"]
    /\ UNCHANGED <<profileVars, repoVars, rows>>

\* Mutant: the row names the profile that is active when it is inserted.
InsertRowLate(b) ==
    LET i == builds[b].recorded + 1 IN
    /\ builds[b].phase = "rows"
    /\ \E p \in IF active = {} THEN {0} ELSE active :
        rows' = rows \union
           {[build |-> b, type |-> i, snapshot |-> builds[b].snapshot,
             profile |-> p, hash |-> Pack(b, i)]}
    /\ builds' = [builds EXCEPT ![b].recorded = i,
           ![b].phase = IF i < builds[b].types THEN "rows"
                        ELSE IF builds[b].kind = "request" THEN "done" ELSE "built"]
    /\ UNCHANGED <<profileVars, repoVars, artifacts>>

\* A transaction for each row.
InsertRow(b) ==
    LET i == builds[b].recorded + 1 IN
    /\ builds[b].phase = "rows"
    /\ rows' = rows \union
           {[build |-> b, type |-> i, snapshot |-> builds[b].snapshot,
             profile |-> builds[b].profile, hash |-> Pack(b, i)]}
    /\ builds' = [builds EXCEPT ![b].recorded = i,
           ![b].phase = IF i < builds[b].types THEN "rows"
                        ELSE IF builds[b].kind = "request" THEN "done" ELSE "built"]
    /\ UNCHANGED <<profileVars, repoVars, artifacts>>

-----------------------------------------------------------------------------
(* The generation run of a job: one of its packs, read back from the file.   *)

\* Two packs in one file do not parse; the hash of the row is not compared.
ReadPack(b) ==
    /\ builds[b].phase = "built"
    /\ \E i \in 1..builds[b].types :
        builds' = [builds EXCEPT ![b].pack = artifacts[File(b, i)],
               ![b].phase = IF Cardinality(artifacts[File(b, i)]) = 1 THEN "inspect" ELSE "failed"]
    /\ UNCHANGED <<profileVars, repoVars, artifacts, rows>>

PackRead(b) == CHOOSE pack \in builds[b].pack : TRUE

\* A tool that reads a file of the pack's snapshot.
ReadFile(b) ==
    /\ builds[b].phase = "inspect" /\ builds[b].read = << >>
    /\ \E p \in {Listing[i] : i \in DOMAIN Listing} :
        /\ Readable(p, PackRead(b).snapshot, checkout)
        /\ builds' = [builds EXCEPT ![b].read = <<p>>]
    /\ UNCHANGED <<profileVars, repoVars, artifacts, rows>>

\* A question whose references stand is stored with the drift the pack names.
Accept(b) ==
    LET available == Available(Offers(PackRead(b), builds[b].read)) IN
    /\ builds[b].phase = "inspect"
    /\ \E refs \in Citations :
        /\ Verified(refs, available)
        /\ builds' = [builds EXCEPT ![b].phase = "done",
               ![b].refs = {Enriched(ref, available) : ref \in refs}]
    /\ UNCHANGED <<profileVars, repoVars, artifacts, rows>>

\* A dead process leaves its files and its rows.
Crash(b) ==
    /\ b \in Going
    /\ builds' = [builds EXCEPT ![b] = [NoBuild EXCEPT
           !.phase = "dead", !.types = builds[b].types, !.snapshot = builds[b].snapshot, !.drift = builds[b].drift]]
    /\ UNCHANGED <<profileVars, repoVars, artifacts, rows>>

Build(b) ==
    \/ Start(b) \/ ReadProfile(b) \/ ReadDrift(b) \/ ReadGuidance(b) \/ ReadExcerpt(b)
    \/ Truncate(b) \/ Fill(b) \/ InsertRow(b)
    \/ ReadPack(b) \/ ReadFile(b) \/ Accept(b) \/ Crash(b)

Request(r) == ProfileStep(r) /\ UNCHANGED <<repoVars, artifacts, rows, builds>>

Next ==
    \/ Ingest
    \/ \E r \in Requests : Request(r)
    \/ \E b \in Builds : Build(b)

Spec == Init /\ [][Next]_vars

-----------------------------------------------------------------------------
\* The other builds that may have written to the files of b: those of its
\* snapshot that it met when it started, or that started after it.
Rivals(b) ==
    {c \in Builds \ {b} : /\ builds[c].phase # "idle"
                          /\ builds[c].snapshot = builds[b].snapshot
                          /\ c > b \/ c \in builds[b].met}

\* Whatever the ingestion, the profiles and the builds of other snapshots do
\* meanwhile, a build that has inserted its rows leaves a row for each type whose
\* hash is that of the file and whose profile is the one the file names, unless a
\* build of the same snapshot ran beside it or after it.
LastBuildIsWhole ==
    \A b \in Builds :
        builds[b].recorded = builds[b].types /\ Rivals(b) = {} =>
            \A i \in 1..builds[b].types :
                LET mine == {row \in rows : row.build = b /\ row.type = i} IN
                \E row \in rows :
                    mine = {row} /\ artifacts[File(b, i)] = {row.hash}
                                 /\ row.profile = row.hash.profile

\* A question of a scheduled job comes from a pack of the job's snapshot, and is
\* stored with the job's drift unless another build of that snapshot has
\* overwritten the pack in between.
BoundToJob ==
    \A b \in Builds :
        builds[b].phase = "done" /\ builds[b].kind = "scheduled" =>
            /\ PackRead(b).snapshot = builds[b].snapshot
            /\ PackRead(b).drift # builds[b].bound =>
                   \E c \in Rivals(b) : builds[c].drift = PackRead(b).drift

\* The text of a pack exceeds its budget, which is counted before the bytes are
\* decoded, only by what the last excerpt then gained: two bytes of a character
\* cut in a file of UTF-8, twice the bytes read from any other, and what
\* redaction adds.
WithinBudget ==
    \A b \in Builds, i \in Types :
        \/ builds[b].used[i] <= Limits.pack
        \/ \E p \in Paths : \E n \in 0..Size[p] : builds[b].used[i] <= Limits.pack + Excess(p, n)

\* A code reference that is stored with a hash names the file as it was in the
\* job's snapshot, whatever the checkout, the drift and the guidance have become
\* since; and a text shown for an entry is that of the snapshot for as long as
\* the checkout has not moved on.
EvidenceIsOfSnapshot ==
    \A b \in Builds :
        /\ \A ref \in builds[b].refs :
            ref.type = "code" /\ ref.hash # NoHash =>
                ref.hash = Version(ref.uri[2], builds[b].snapshot)
        /\ checkout = builds[b].snapshot =>
            \A i \in Types : \A k \in DOMAIN builds[b].shown[i] :
                builds[b].shown[i][k] \in
                    {NoHash, Version(EntriesOf(b, i)[k].path, builds[b].snapshot)}
=============================================================================
