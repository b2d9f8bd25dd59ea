-------------------------- MODULE ContextPacksProofs --------------------------
(* Proofs about ContextPacks: the profiles, for every set of keys and of      *)
(* overlapping requests, and the packs, files, rows and questions of any      *)
(* number of builds beside them and beside ingestions.                        *)
EXTENDS ContextPacks, FiniteSetTheorems, SequenceTheorems, TLAPS

RequestFields == {"kind", "profile", "saw", "status"}

\* A request that has made a profile active.
Activated(r) == requests[r].status = "done" /\ requests[r].kind # "create"

\* The unique index in the form in which it is used: no two are active.  And as
\* long as none is active, no request has ever seen or made one: a set of active
\* profiles that is not empty stays so.
IInv ==
    /\ DOMAIN requests = Requests
    /\ \A r \in Requests : DOMAIN requests[r] = RequestFields
    /\ \A x, y \in active : x = y
    /\ active = {} => \A r \in Requests : requests[r].saw = {} /\ ~Activated(r)

-----------------------------------------------------------------------------
(* The index.                                                                *)

LEMMA AtMostOne ==
    ASSUME NEW S, \A x, y \in S : x = y
    PROVE  Cardinality(S) <= 1
<1>1. CASE S = {}
  BY <1>1, FS_EmptySet
<1>2. CASE S # {}
  <2>1. PICK x \in S : TRUE
    BY <1>2
  <2>2. S = {x}
    BY <2>1
  <2> QED BY <2>2, FS_Singleton
<1> QED BY <1>1, <1>2

LEMMA NoTwo ==
    ASSUME NEW S, Cardinality(S) <= 1, IsFiniteSet(S)
    PROVE  \A x, y \in S : x = y
<1>1. SUFFICES ASSUME NEW x \in S, NEW y \in S, x # y PROVE FALSE
  OBVIOUS
<1>2. IsFiniteSet({x}) /\ Cardinality({x}) = 1 /\ IsFiniteSet(S \ {x})
  BY FS_Singleton, FS_Difference
<1>3. Cardinality(S \ {x}) = Cardinality(S) - 1
  BY FS_RemoveElement
<1>4. Cardinality(S) \in Nat /\ Cardinality(S \ {x}) \in Nat
  BY <1>2, FS_CardinalityType
<1>5. Cardinality(S \ {x}) = 0
  BY <1>3, <1>4
<1>6. S \ {x} = {}
  BY <1>2, <1>5, FS_EmptySet
<1> QED BY <1>1, <1>6

-----------------------------------------------------------------------------
(* The invariant.                                                            *)

LEMMA InitIInv == Init => IInv
<1> SUFFICES ASSUME Init PROVE IInv
  OBVIOUS
<1>1. PICK load \in Loads : ProfileInit(load.profiles, load.requests)
  BY DEF Init
<1>2. IsFiniteSet(active) /\ Cardinality(active) <= 1
  BY <1>1, LoadAssumption, FS_Subset DEF ProfileInit
<1>3. \A x, y \in active : x = y
  BY <1>2, NoTwo
<1>4. /\ DOMAIN requests = Requests
      /\ \A r \in Requests :
            /\ requests[r].saw = {} /\ requests[r].kind = "none"
            /\ requests[r].status \in {"new", "none"}
            /\ DOMAIN requests[r] = RequestFields
  BY <1>1 DEF ProfileInit, Quiet, RequestFields
<1> QED BY <1>3, <1>4 DEF IInv, Activated

\* A request that reads sees the committed rows, which are no more than one.
LEMMA OpenIInv ==
    ASSUME NEW r \in Requests, NEW kind, NEW profile, Open(r, kind, profile), IInv
    PROVE  IInv'
<1>1. requests' = [requests EXCEPT ![r] =
          [kind |-> kind, profile |-> profile, saw |-> active, status |-> "open"]]
  BY DEF Open
<1>2. active' = active
  BY DEF Open
<1>3. DOMAIN requests' = Requests /\ \A s \in Requests : DOMAIN requests'[s] = RequestFields
  BY <1>1 DEF IInv, RequestFields
<1>4. requests'[r].saw = active /\ ~Activated(r)'
  BY <1>1 DEF IInv, Activated
<1>5. \A s \in Requests \ {r} : requests'[s] = requests[s]
  BY <1>1 DEF IInv
<1>6. active = {} => \A s \in Requests : requests'[s].saw = {} /\ ~Activated(s)'
  BY <1>4, <1>5 DEF IInv, Activated
<1> QED BY <1>2, <1>3, <1>6 DEF IInv

\* What closing a request leaves as it was.
LEMMA CloseFrame ==
    ASSUME NEW r \in Requests, NEW status, Close(r, status), IInv
    PROVE  /\ DOMAIN requests' = Requests
           /\ \A s \in Requests : DOMAIN requests'[s] = RequestFields
           /\ \A s \in Requests : requests'[s].saw = requests[s].saw
           /\ \A s \in Requests : requests'[s].kind = requests[s].kind
           /\ \A s \in Requests \ {r} : requests'[s] = requests[s]
           /\ requests'[r].status = status
BY DEF Close, IInv, RequestFields

\* The only write of "active": a request that saw its own profile active leaves
\* the others alone, and one that did not is left with its own profile only.
LEMMA WriteIInv ==
    ASSUME NEW r \in Requests, Write(r), IInv
    PROVE  IInv'
<1>1. Close(r, "done")
  BY DEF Write
<1>2. CASE requests[r].profile \in requests[r].saw /\ UNCHANGED active
  <2>1. active # {}
    BY <1>2 DEF IInv
  <2> QED BY <1>1, <1>2, <2>1, CloseFrame DEF IInv
<1>3. CASE /\ InTheWay(r) = {}
           /\ active' = (active \ requests[r].saw) \union {requests[r].profile}
  <2>1. active \ requests[r].saw \subseteq {requests[r].profile}
    BY <1>3 DEF InTheWay
  <2>2. active' = {requests[r].profile}
    BY <1>3, <2>1
  <2> QED BY <1>1, <2>2, CloseFrame DEF IInv
<1> QED BY <1>2, <1>3 DEF Write

LEMMA WriteFailsIInv ==
    ASSUME NEW r \in Requests, WriteFails(r), IInv
    PROVE  IInv'
<1>1. Close(r, "failed") /\ active' = active
  BY DEF WriteFails
<1>2. \A s \in Requests : Activated(s)' => Activated(s)
  BY <1>1, CloseFrame DEF Activated
<1> QED BY <1>1, <1>2, CloseFrame DEF IInv

LEMMA WriteInactiveIInv ==
    ASSUME NEW r \in Requests, WriteInactive(r), IInv
    PROVE  IInv'
<1>1. Close(r, "done") /\ active' = active /\ requests[r].kind = "create"
  BY DEF WriteInactive
<1>2. \A s \in Requests : Activated(s)' => Activated(s)
  BY <1>1, CloseFrame DEF Activated
<1> QED BY <1>1, <1>2, CloseFrame DEF IInv

\* Builds and ingestions read the active profile and never write it.
LEMMA OthersFrame ==
    ASSUME Ingest \/ \E b \in Builds : Build(b)
    PROVE  UNCHANGED profileVars
BY DEF Ingest, Build, Start, ReadProfile, ReadDrift, ReadGuidance, ReadExcerpt, Truncate,
       Fill, InsertRow, ReadPack, ReadFile, Accept, Crash

LEMMA UnchangedIInv ==
    ASSUME UNCHANGED profileVars, IInv
    PROVE  IInv'
BY DEF profileVars, IInv, Activated

LEMMA NextIInv == IInv /\ [Next]_vars => IInv'
<1> SUFFICES ASSUME IInv, [Next]_vars PROVE IInv'
  OBVIOUS
<1>1. CASE Ingest \/ \E b \in Builds : Build(b)
  BY <1>1, OthersFrame, UnchangedIInv
<1>2. CASE \E r \in Requests : Request(r)
  <2>1. PICK r \in Requests : ProfileStep(r)
    BY <1>2 DEF Request
  <2>2. CASE OpenCreate(r) \/ OpenActivate(r)
    <3>1. PICK kind, profile : Open(r, kind, profile)
      BY <2>2 DEF OpenCreate, OpenActivate
    <3> QED BY <3>1, OpenIInv
  <2>3. CASE Write(r)
    BY <2>3, WriteIInv
  <2>4. CASE WriteFails(r)
    BY <2>4, WriteFailsIInv
  <2>5. CASE WriteInactive(r)
    BY <2>5, WriteInactiveIInv
  <2> QED BY <2>1, <2>2, <2>3, <2>4, <2>5 DEF ProfileStep
<1>3. CASE UNCHANGED vars
  BY <1>3, UnchangedIInv DEF vars
<1> QED BY <1>1, <1>2, <1>3 DEF Next

-----------------------------------------------------------------------------
(* The theorem.                                                              *)

\* What the invariant says of the number of active profiles.
LEMMA IInvOneActive == IInv => OneActiveProfile
BY AtMostOne DEF IInv, OneActiveProfile, Activated

\* For any number of overlapping requests that create or activate profiles, of
\* builds and of commits: at no time are two profiles active, and once a request
\* has made one active there always is one.
THEOREM OneProfileActive == Spec => []OneActiveProfile
<1>1. Init => IInv
  BY InitIInv
<1>2. IInv /\ [Next]_vars => IInv'
  BY NextIInv
<1>3. IInv => OneActiveProfile
  BY IInvOneActive
<1> QED BY <1>1, <1>2, <1>3, PTL DEF Spec

-----------------------------------------------------------------------------
(* Choosing from sequences.                                                  *)

\* A set of positions that is not empty has an earliest one.
LEMMA EarliestExists ==
    ASSUME NEW S \in SUBSET Nat, S # {}
    PROVE  Earliest(S) \in S /\ \A j \in S : Earliest(S) <= j
<1>1. PICK m \in S : \A k \in S : <<k, m>> \notin OpToRel(<, Nat)
  BY WFMin, NatLessThanWellFounded, Zenon
<1>2. \A k \in S : ~(k < m)
  BY <1>1, Zenon DEF OpToRel
<1>3. \A k \in S : m <= k
  BY <1>2
<1> QED BY <1>3 DEF Earliest

\* What is kept are members of the sequence that are in S: the k-th place is that
\* with k places up to it, and there is one for each k because places that differ
\* have different numbers of places up to them.
LEMMA KeptMembers ==
    ASSUME NEW T, NEW seq \in Seq(T), NEW S
    PROVE  Kept(seq, S) \in Seq(T \cap S)
<1> DEFINE places == {i \in DOMAIN seq : seq[i] \in S}
           UpTo(i) == {j \in places : j <= i}
           n == Cardinality(places)
<1>1. /\ DOMAIN seq = 1..Len(seq) /\ Len(seq) \in Nat
      /\ places \subseteq 1..Len(seq)
  OBVIOUS
<1>2. IsFiniteSet(places) /\ n \in Nat
  <2>1. IsFiniteSet(1..Len(seq))
    BY <1>1, FS_Interval
  <2>2. IsFiniteSet(places)
    BY <1>1, <2>1, FS_Subset
  <2> QED BY <2>2, FS_CardinalityType
<1> HIDE DEF n
<1>3. ASSUME NEW i \in places PROVE IsFiniteSet(UpTo(i)) /\ Cardinality(UpTo(i)) \in 1..n
  <2>1. UpTo(i) \in SUBSET places /\ i \in UpTo(i)
    BY <1>1
  <2>2. IsFiniteSet(UpTo(i)) /\ Cardinality(UpTo(i)) <= n
    BY <1>2, <2>1, FS_Subset DEF n
  <2>3. Cardinality(UpTo(i)) \in Nat /\ Cardinality(UpTo(i)) # 0
    BY <2>1, <2>2, FS_CardinalityType, FS_EmptySet
  <2> QED BY <1>2, <2>2, <2>3
<1>4. ASSUME NEW i \in places, NEW j \in places, i < j
      PROVE  Cardinality(UpTo(i)) # Cardinality(UpTo(j))
  <2>1. UpTo(i) \in SUBSET UpTo(j) /\ j \in UpTo(j) /\ j \notin UpTo(i)
    BY <1>1, <1>4
  <2>2. UpTo(i) # UpTo(j)
    BY <2>1
  <2> QED BY <1>3, <2>1, <2>2, FS_Subset
<1> DEFINE place == [i \in places |-> Cardinality(UpTo(i))]
<1>5. place \in Injection(places, 1..n)
  <2>1. place \in [places -> 1..n]
    BY <1>3
  <2>2. ASSUME NEW i \in places, NEW j \in places, i # j PROVE place[i] # place[j]
    <3>1. i < j \/ j < i
      BY <1>1, <2>2
    <3> QED BY <1>4, <3>1
  <2> HIDE DEF place
  <2> QED BY <2>1, <2>2, Zenon DEF Injection, IsInjective
<1>6. IsFiniteSet(1..n) /\ Cardinality(1..n) = n
  BY <1>2, FS_Interval
<1>7. place \in Surjection(places, 1..n)
  BY <1>5, <1>6, FS_Injection DEF n
<1>8. ASSUME NEW k \in 1..n PROVE \E i \in places : Cardinality(UpTo(i)) = k
  BY <1>7 DEF Surjection
<1>9. ASSUME NEW k \in 1..n
      PROVE  seq[CHOOSE i \in places : Cardinality(UpTo(i)) = k] \in T \cap S
  BY <1>1, <1>8
<1>10. Kept(seq, S) = [k \in 1..n |-> seq[CHOOSE i \in places : Cardinality(UpTo(i)) = k]]
  BY DEF Kept, n
<1> HIDE DEF places, UpTo
<1> QED BY <1>2, <1>9, <1>10

LEMMA FrontMembers ==
    ASSUME NEW T, NEW seq \in Seq(T), NEW n \in Nat
    PROVE  Front(seq, n) \in Seq(T)
<1> DEFINE m == IF Len(seq) < n THEN Len(seq) ELSE n
<1>1. m \in Int /\ \A i \in 1..m : seq[i] \in T
  OBVIOUS
<1> HIDE DEF m
<1>2. SubSeq(seq, 1, m) \in Seq(T)
  BY <1>1, SubSeqProperties
<1> QED BY <1>2 DEF Front, m

-----------------------------------------------------------------------------
(* What packs are made of.                                                   *)

TypeNames == {"high_level_design", "design_decisions", "low_level_components",
              "future_improvements", "active_pr"}

LEMMA FilesAreListed ==
    ASSUME NEW n
    PROVE  Files(n) \in Seq(Paths)
<1>1. Kept(Listing, {p \in Paths : Here(p, n)}) \in Seq(Paths \cap {p \in Paths : Here(p, n)})
  BY ContentsAssumption, KeptMembers
<1>2. Paths \cap {p \in Paths : Here(p, n)} \subseteq Paths
  OBVIOUS
<1> QED BY <1>1, <1>2 DEF Files

\* What is kept of a sequence of paths is a sequence of paths.
LEMMA KeptPaths ==
    ASSUME NEW seq \in Seq(Paths), NEW S
    PROVE  Kept(seq, S) \in Seq(Paths)
<1>1. Kept(seq, S) \in Seq(Paths \cap S)
  BY KeptMembers
<1>2. Paths \cap S \subseteq Paths
  OBVIOUS
<1> QED BY <1>1, <1>2

LEMMA ChangedAreListed ==
    ASSUME NEW d
    PROVE  Changed(d) \in Seq(Paths)
<1>1. Kept(Listing, {p \in Paths : Version(p, d) # Version(p, d - 1)}) \in Seq(Paths)
  BY ContentsAssumption, KeptPaths
<1>2. Limits.changed \in Nat
  BY ContentsAssumption
<1>3. Front(Kept(Listing, {p \in Paths : Version(p, d) # Version(p, d - 1)}), Limits.changed)
          \in Seq(Paths)
  BY <1>1, <1>2, FrontMembers
<1> QED BY <1>3 DEF Changed

LEMMA FilesForMembers ==
    ASSUME NEW type \in TypeNames, NEW n, NEW d
    PROVE  FilesFor(type, n, d) \in Seq(Paths)
<1>1. Changed(d) \in Seq(Paths) /\ Files(n) \in Seq(Paths)
  BY FilesAreListed, ChangedAreListed
<1>2. ASSUME NEW kinds PROVE ChangedAnd(kinds, n, d) \in Seq(Paths)
  <2>1. Kept(Files(n), {p \in OfKind(kinds) : ~Among(p, Changed(d))}) \in Seq(Paths)
    BY <1>1, KeptPaths
  <2> QED BY <1>1, <2>1 DEF ChangedAnd
<1>3. Risky(d) \in Seq(Paths)
  BY <1>1, KeptPaths DEF Risky
<1>4. Limits.low \in Nat /\ Limits.future \in Nat /\ Limits.pr \in Nat
  BY ContentsAssumption
<1>5. /\ Front(Files(n), Limits.low) \in Seq(Paths)
      /\ Front(Files(n), Limits.future) \in Seq(Paths)
      /\ Front(Changed(d), Limits.pr) \in Seq(Paths)
  BY <1>1, <1>4, FrontMembers
<1> QED BY <1>1, <1>2, <1>3, <1>5 DEF FilesFor, TypeNames

LEMMA GuidanceForMembers ==
    ASSUME NEW type, NEW g
    PROVE  GuidanceFor(type, g) \in Seq(Paths)
<1>1. \A kinds : Kept(Files(g), OfKind(kinds)) \in Seq(Paths)
  BY FilesAreListed, KeptPaths
<1>2. Limits.some \in Nat
  BY ContentsAssumption
<1>3. Front(Kept(Files(g), OfKind({"readme", "agents", "design"})), Limits.some) \in Seq(Paths)
  BY <1>1, <1>2, FrontMembers
<1> QED BY <1>1, <1>3 DEF GuidanceFor

\* The entries of a pack: its files with the hashes of its snapshot, guidance
\* with those of the guidance it read.
EntryRows(n, g) == {Entry("code", p, n) : p \in Paths} \union {Entry("guidance", p, g) : p \in Paths}

LEMMA EntriesMembers ==
    ASSUME NEW type \in TypeNames, NEW n, NEW d, NEW g
    PROVE  Entries(type, n, d, g) \in Seq(EntryRows(n, g))
<1> DEFINE files == Front(FilesFor(type, n, d), Limits.files)
           guides == Front(GuidanceFor(type, g), Limits.guides)
<1>1. Limits.files \in Nat /\ Limits.guides \in Nat
  BY ContentsAssumption
<1>2. files \in Seq(Paths) /\ guides \in Seq(Paths)
  BY <1>1, FilesForMembers, GuidanceForMembers, FrontMembers
<1> HIDE DEF files, guides
<1>3. [i \in DOMAIN files |-> Entry("code", files[i], n)] \in Seq(EntryRows(n, g))
  BY <1>2 DEF EntryRows
<1>4. [i \in DOMAIN guides |-> Entry("guidance", guides[i], g)] \in Seq(EntryRows(n, g))
  BY <1>2 DEF EntryRows
<1>5. Entries(type, n, d, g) = [i \in DOMAIN files |-> Entry("code", files[i], n)]
                                  \o [i \in DOMAIN guides |-> Entry("guidance", guides[i], g)]
  BY DEF Entries, files, guides
<1> QED BY <1>3, <1>4, <1>5

LEMMA EntryFields ==
    ASSUME NEW n, NEW g, NEW e \in EntryRows(n, g)
    PROVE  /\ e.path \in Paths /\ e.type \in {"code", "guidance"}
           /\ e.type = "code" => e.hash = Version(e.path, n)
<1>1. CASE \E p \in Paths : e = Entry("code", p, n)
  BY <1>1 DEF Entry
<1>2. CASE \E p \in Paths : e = Entry("guidance", p, g)
  BY <1>2 DEF Entry
<1> QED BY <1>1, <1>2 DEF EntryRows

\* An offer of code is a file with its hash in the snapshot, whatever else the
\* pack offers and whichever files tools have read.
Sound(o, n) == o.uri[1] = o.type /\ (o.type = "code" => o.hash = Version(o.uri[2], n))

LEMMA OffersAreSound ==
    ASSUME NEW pack, pack.type \in TypeNames, NEW read \in Seq(Paths)
    PROVE  /\ \A i \in DOMAIN Offers(pack, read) : Sound(Offers(pack, read)[i], pack.snapshot)
           /\ \E N \in Nat : DOMAIN Offers(pack, read) = 1..N
<1> DEFINE n == pack.snapshot
           entries == Entries(pack.type, n, pack.drift, pack.guided)
           SoundOffers ==
               {Offer(e.type, e.path, e.hash) : e \in EntryRows(n, pack.guided)}
               \union {Offer("drift", pack.drift, NoHash)}
               \union {Offer("attention_profile", pack.profile, NoHash)}
               \union {Offer("code", p, Version(p, n)) : p \in Paths}
           ofEntries == [i \in DOMAIN entries |->
                            Offer(entries[i].type, entries[i].path, entries[i].hash)]
           ofDrift == IF pack.drift = 0 THEN << >> ELSE <<Offer("drift", pack.drift, NoHash)>>
           ofProfile == IF pack.profile = 0 THEN << >>
                        ELSE <<Offer("attention_profile", pack.profile, NoHash)>>
           ofRead == [i \in DOMAIN read |-> Offer("code", read[i], Version(read[i], n))]
<1>1. entries \in Seq(EntryRows(n, pack.guided))
  BY EntriesMembers
<1>2. ofRead \in Seq(SoundOffers)
  OBVIOUS
<1>3. ofDrift \in Seq(SoundOffers) /\ ofProfile \in Seq(SoundOffers)
  OBVIOUS
<1> HIDE DEF entries
<1>4. ofEntries \in Seq(SoundOffers)
  BY <1>1
<1>5. ASSUME NEW o \in SoundOffers PROVE Sound(o, n)
  <2>1. CASE \E e \in EntryRows(n, pack.guided) : o = Offer(e.type, e.path, e.hash)
    BY <2>1, EntryFields DEF Offer, Sound
  <2>2. CASE \/ o = Offer("drift", pack.drift, NoHash)
             \/ o = Offer("attention_profile", pack.profile, NoHash)
             \/ \E p \in Paths : o = Offer("code", p, Version(p, n))
    BY <2>2 DEF Offer, Sound
  <2> QED BY <1>5, <2>1, <2>2
<1>6. Offers(pack, read) = ofEntries \o ofDrift \o ofProfile \o ofRead
  BY DEF Offers, entries
<1> HIDE DEF ofEntries, ofDrift, ofProfile, ofRead, SoundOffers
<1>7. Offers(pack, read) \in Seq(SoundOffers)
  <2>1. ofEntries \o ofDrift \in Seq(SoundOffers)
    BY <1>3, <1>4
  <2>2. ofEntries \o ofDrift \o ofProfile \in Seq(SoundOffers)
    BY <1>3, <2>1
  <2> QED BY <1>2, <1>6, <2>2
<1> QED BY <1>5, <1>7

\* A reference to code that stands names the hash of the snapshot or none.
LEMMA EvidenceIsSound ==
    ASSUME NEW offers, NEW N \in Nat, DOMAIN offers = 1..N, NEW n,
           \A i \in DOMAIN offers : Sound(offers[i], n),
           NEW ref, Accepted(ref, Available(offers)),
           Enriched(ref, Available(offers)).type = "code",
           Enriched(ref, Available(offers)).hash # NoHash
    PROVE  Enriched(ref, Available(offers)).hash
               = Version(Enriched(ref, Available(offers)).uri[2], n)
<1> DEFINE u == ref.uri
           mine == {i \in DOMAIN offers : offers[i].uri = u}
           hashed == {i \in mine : offers[i].hash # NoHash}
           offer == Available(offers)[u]
<1>1. u \in {offers[i].uri : i \in DOMAIN offers}
  BY DEF Accepted, Available
<1>2. mine # {} /\ mine \in SUBSET Nat /\ hashed \in SUBSET Nat
  BY <1>1
<1>3. offer = [type |-> offers[Earliest(mine)].type,
               hash |-> IF hashed = {} THEN NoHash ELSE offers[Earliest(hashed)].hash]
  BY <1>1 DEF Available
<1>4. Earliest(mine) \in mine
  BY <1>2, EarliestExists
<1>5. u[1] = offer.type
  BY <1>3, <1>4 DEF Sound
<1>6. /\ Enriched(ref, Available(offers)).uri = u
      /\ Enriched(ref, Available(offers)).type = offer.type
      /\ Enriched(ref, Available(offers)).hash =
             IF offer.hash = NoHash THEN ref.hash ELSE offer.hash
  BY DEF Enriched
<1>7. ref.hash \in {NoHash, offer.hash}
  BY DEF Accepted
<1>8. offer.hash # NoHash /\ Enriched(ref, Available(offers)).hash = offer.hash
  BY <1>6, <1>7
<1>9. hashed # {} /\ offer.hash = offers[Earliest(hashed)].hash
  <2> HIDE DEF hashed, mine, u, offer
  <2>1. offer.hash = IF hashed = {} THEN NoHash ELSE offers[Earliest(hashed)].hash
    BY <1>3
  <2> QED BY <1>8, <2>1
<1>10. Earliest(hashed) \in hashed
  BY <1>2, <1>9, EarliestExists
<1>11. offers[Earliest(hashed)].uri = u /\ Sound(offers[Earliest(hashed)], n)
  BY <1>10
<1> HIDE DEF u, mine, hashed, offer
<1> QED BY <1>5, <1>6, <1>8, <1>9, <1>11 DEF Sound

-----------------------------------------------------------------------------
(* The invariant of the builds.                                              *)

BuildFields ==
    {"types", "kind", "phase", "snapshot", "bound", "met", "profile", "drift", "guided",
     "shown", "used", "written", "recorded", "pack", "read", "refs"}

\* Before a build has read anything, and when it has died; after its last row.
Early == {"idle", "profile", "drift", "guidance", "dead"}
Late  == {"built", "inspect", "failed", "done"}

Hashes == {NoHash} \union {Version(p, n) : p \in Paths, n \in 1..MaxCommit}

RowTypes(b) ==
    /\ DOMAIN builds[b] = BuildFields
    /\ builds[b].types \in 1..Len(PackTypes)
    /\ builds[b].snapshot \in 0..snapshots
    /\ builds[b].shown \in [Types -> Seq(Hashes)]
    /\ builds[b].used \in [Types -> Nat]
    /\ builds[b].written \in 0..builds[b].types
    /\ builds[b].recorded \in 0..builds[b].types
    /\ builds[b].read \in Seq(Paths)

BuildTypes ==
    /\ checkout \in 1..MaxCommit /\ snapshots \in 1..checkout
    /\ drifts \in 1..snapshots /\ guided \in 1..drifts
    /\ DOMAIN artifacts = (1..MaxCommit) \X Types
    /\ DOMAIN builds = Builds
    /\ \A b \in Builds : RowTypes(b)

\* What the phase of a build says of its other fields.
StageOf(b) ==
    /\ builds[b].phase \in Early \union {"packs", "write", "rows"} \union Late
    /\ builds[b].phase \in Early =>
        /\ builds[b].written = 0 /\ builds[b].recorded = 0
        /\ \A i \in Types : builds[b].shown[i] = << >>
    /\ builds[b].phase \in {"packs", "write"} =>
        builds[b].written < builds[b].types /\ builds[b].recorded = 0
    /\ builds[b].phase = "rows" =>
        builds[b].written = builds[b].types /\ builds[b].recorded < builds[b].types
    /\ builds[b].phase \in Late =>
        builds[b].written = builds[b].types /\ builds[b].recorded = builds[b].types
    /\ builds[b].phase = "write" \/ (builds[b].phase = "packs" /\ builds[b].written > 0) =>
        Pending(b) = {}
    /\ builds[b].phase \notin {"idle", "dead"} => builds[b].snapshot >= 1
    /\ builds[b].phase = "idle" => builds[b].refs = {}
    /\ builds[b].phase \in {"built", "inspect"} => builds[b].kind # "request"
    /\ builds[b].kind = "scheduled" =>
        /\ builds[b].phase \notin {"idle", "dead"}
        /\ builds[b].bound = builds[b].snapshot
        /\ builds[b].phase \notin {"profile", "drift"} => builds[b].drift = builds[b].bound

Alive(b) == builds[b].phase \notin {"idle", "dead"}

\* A build that started earlier was either over by then or is among those met.
OrderOf(b) == Alive(b) => \A c \in Builds : c < b => c \in builds[b].met \/ Over(c)

\* A pack is of the build's drift, or of that of a rival.
FromRival(b, pack) ==
    \E c \in Rivals(b) :
        builds[c].phase \notin {"profile", "drift"} /\ builds[c].drift = pack.drift

OwnOrRival(b, pack) == pack.drift = builds[b].drift \/ FromRival(b, pack)

\* A file holds packs of its own snapshot and type.  Once a build has opened a file
\* for its i-th type, what is in it is its own or of rivals; and as long as there
\* is no rival, it is exactly what the build has written.
Opened(b) ==
    1..builds[b].written
        \union (IF builds[b].phase = "write" THEN {builds[b].written + 1} ELSE {})

FileTypes ==
    \A at \in DOMAIN artifacts :
        /\ IsFiniteSet(artifacts[at])
        /\ \A pack \in artifacts[at] : pack.snapshot = at[1] /\ pack.type = PackTypes[at[2]]

FilesOf(b) ==
    Alive(b) => \A i \in Opened(b) : \A pack \in artifacts[File(b, i)] : OwnOrRival(b, pack)

WholeOf(b) ==
    Alive(b) /\ Rivals(b) = {} =>
        /\ \A i \in 1..builds[b].written : artifacts[File(b, i)] = {Pack(b, i)}
        /\ builds[b].phase = "write" => artifacts[File(b, builds[b].written + 1)] = {}

RowOf(b, i) ==
    [build |-> b, type |-> i, snapshot |-> builds[b].snapshot,
     profile |-> builds[b].profile, hash |-> Pack(b, i)]

\* The rows of a build that has not died are those it has recorded.
RowsOf(b) ==
    /\ builds[b].phase = "idle" => \A row \in rows : row.build # b
    /\ Alive(b) =>
        /\ \A row \in rows :
            row.build = b => row.type \in 1..builds[b].recorded /\ row = RowOf(b, row.type)
        /\ \A i \in 1..builds[b].recorded : RowOf(b, i) \in rows

\* What a generation run has read back.
PackOf(b) ==
    builds[b].phase = "inspect" \/ (builds[b].phase = "done" /\ builds[b].kind # "request") =>
        \E pack \in builds[b].pack :
            /\ builds[b].pack = {pack}
            /\ pack.snapshot = builds[b].snapshot /\ pack.type \in TypeNames
            /\ OwnOrRival(b, pack)

RefsOf(b) ==
    \A ref \in builds[b].refs :
        ref.type = "code" /\ ref.hash # NoHash =>
            ref.hash = Version(ref.uri[2], builds[b].snapshot)

ShownOf(b) ==
    checkout = builds[b].snapshot =>
        \A i \in Types : \A k \in DOMAIN builds[b].shown[i] :
            builds[b].shown[i][k] \in
                {NoHash, Version(EntriesOf(b, i)[k].path, builds[b].snapshot)}

BudgetOf(b) ==
    \A i \in Types :
        \/ builds[b].used[i] <= Limits.pack
        \/ \E p \in Paths : \E n \in 0..Size[p] : builds[b].used[i] <= Limits.pack + Excess(p, n)

\* What holds of each build, and of all of them.
InvOf(b) ==
    /\ StageOf(b) /\ OrderOf(b) /\ FilesOf(b) /\ WholeOf(b) /\ RowsOf(b)
    /\ PackOf(b) /\ RefsOf(b) /\ ShownOf(b) /\ BudgetOf(b)

BuildInv == BuildTypes /\ FileTypes /\ \A b \in Builds : InvOf(b)


-----------------------------------------------------------------------------
(* What the steps of a build write.                                          *)

\* A step writes the row of its own build, and there the fields F.
Moves(c, F) ==
    /\ DOMAIN builds' = Builds /\ DOMAIN builds'[c] = BuildFields
    /\ \A d \in Builds \ {c} : builds'[d] = builds[d]
    /\ \A f \in BuildFields \ F : builds'[c][f] = builds[c][f]

LEMMA StartEffect ==
    ASSUME BuildTypes, NEW c \in Builds, Start(c)
    PROVE  /\ Moves(c, {"kind", "phase", "met", "bound", "snapshot"})
           /\ builds[c].phase = "idle" /\ builds'[c].phase = "profile"
           /\ \A d \in Builds : d < c => builds[d].phase # "idle"
           /\ builds'[c].met = Going /\ builds'[c].snapshot \in 1..snapshots
           /\ builds'[c].kind = "scheduled" => builds'[c].bound = builds'[c].snapshot
           /\ UNCHANGED <<repoVars, artifacts, rows>>
<1>1. PICK kind \in {"request", "manual", "scheduled"}, drift \in 0..drifts :
          /\ (kind = "scheduled") = (drift > 0)
          /\ builds' = [builds EXCEPT ![c] = [@ EXCEPT
                 !.kind = kind, !.phase = "profile", !.met = Going, !.bound = drift,
                 !.snapshot = IF kind = "scheduled" THEN drift ELSE snapshots]]
  BY DEF Start
<1>2. builds[c].phase = "idle" /\ UNCHANGED <<repoVars, artifacts, rows>>
      /\ \A d \in Builds : d < c => builds[d].phase # "idle"
  BY DEF Start
<1>3. DOMAIN builds = Builds /\ DOMAIN builds[c] = BuildFields
  BY DEF BuildTypes, RowTypes
<1>4. builds'[c] = [builds[c] EXCEPT
          !.kind = kind, !.phase = "profile", !.met = Going, !.bound = drift,
          !.snapshot = IF kind = "scheduled" THEN drift ELSE snapshots]
  BY <1>1, <1>3
<1>5. Moves(c, {"kind", "phase", "met", "bound", "snapshot"})
  BY <1>1, <1>3, <1>4 DEF Moves, BuildFields
<1>6. (IF kind = "scheduled" THEN drift ELSE snapshots) \in 1..snapshots
  BY <1>1 DEF BuildTypes, RowTypes
<1>7. /\ builds'[c].phase = "profile" /\ builds'[c].met = Going
      /\ builds'[c].kind = kind /\ builds'[c].bound = drift
      /\ builds'[c].snapshot = IF kind = "scheduled" THEN drift ELSE snapshots
  BY <1>3, <1>4 DEF BuildFields
<1> QED BY <1>2, <1>5, <1>6, <1>7

LEMMA ReadProfileEffect ==
    ASSUME BuildTypes, NEW c \in Builds, ReadProfile(c)
    PROVE  /\ Moves(c, {"phase", "profile"})
           /\ builds[c].phase = "profile" /\ builds'[c].phase = "drift"
           /\ UNCHANGED <<repoVars, artifacts, rows>>
<1>1. PICK p : builds' = [builds EXCEPT ![c].phase = "drift", ![c].profile = p]
  BY Zenon DEF ReadProfile
<1>2. builds[c].phase = "profile" /\ UNCHANGED <<repoVars, artifacts, rows>>
  BY DEF ReadProfile
<1> QED BY <1>1, <1>2 DEF Moves, BuildFields, BuildTypes, RowTypes

LEMMA ReadDriftEffect ==
    ASSUME BuildTypes, NEW c \in Builds, ReadDrift(c)
    PROVE  /\ Moves(c, {"phase", "drift"})
           /\ builds[c].phase = "drift" /\ builds'[c].phase = "guidance"
           /\ builds'[c].drift = IF builds[c].bound > 0 THEN builds[c].bound ELSE drifts
           /\ UNCHANGED <<repoVars, artifacts, rows>>
BY DEF ReadDrift, Moves, BuildFields, BuildTypes, RowTypes

LEMMA ReadGuidanceEffect ==
    ASSUME BuildTypes, NEW c \in Builds, ReadGuidance(c)
    PROVE  /\ Moves(c, {"phase", "guided"})
           /\ builds[c].phase = "guidance" /\ builds'[c].phase = "packs"
           /\ UNCHANGED <<repoVars, artifacts, rows>>
BY DEF ReadGuidance, Moves, BuildFields, BuildTypes, RowTypes

\* One entry of a pending pack is read, the others stay as they are.
LEMMA ReadExcerptEffect ==
    ASSUME BuildTypes, NEW c \in Builds, ReadExcerpt(c)
    PROVE  /\ Moves(c, {"shown", "used"})
           /\ builds[c].phase = "packs" /\ Pending(c) # {}
           /\ UNCHANGED <<repoVars, artifacts, rows>>
           /\ \E i \in Pending(c) :
                LET entry == EntriesOf(c, i)[Len(builds[c].shown[i]) + 1]
                    used == builds[c].used[i]
                    omitted == Omitted(entry, checkout, used)
                IN /\ builds'[c].shown = [builds[c].shown EXCEPT ![i] =
                          Append(@, IF omitted THEN NoHash
                                    ELSE Version(entry.path, checkout))]
                   /\ builds'[c].used = [builds[c].used EXCEPT ![i] =
                          IF omitted THEN used ELSE used + Text(entry, used)]
<1>1. PICK i \in Pending(c) :
          LET entry == EntriesOf(c, i)[Len(builds[c].shown[i]) + 1]
              used == builds[c].used[i]
              omitted == Omitted(entry, checkout, used)
          IN builds' = [builds EXCEPT
                 ![c].shown[i] = Append(@, IF omitted THEN NoHash
                                           ELSE Version(entry.path, checkout)),
                 ![c].used[i] = IF omitted THEN used ELSE used + Text(entry, used)]
  BY Zenon DEF ReadExcerpt
<1> DEFINE entry == EntriesOf(c, i)[Len(builds[c].shown[i]) + 1]
           omitted == Omitted(entry, checkout, builds[c].used[i])
           hash == IF omitted THEN NoHash ELSE Version(entry.path, checkout)
           bytes == IF omitted THEN builds[c].used[i]
                    ELSE builds[c].used[i] + Text(entry, builds[c].used[i])
<1>2. builds' = [builds EXCEPT ![c].shown[i] = Append(@, hash), ![c].used[i] = bytes]
  BY <1>1, Zenon
<1> HIDE DEF hash, bytes
<1>3. DOMAIN builds = Builds /\ DOMAIN builds[c] = BuildFields
  BY DEF BuildTypes, RowTypes
<1>4. /\ Moves(c, {"shown", "used"})
      /\ builds'[c].shown = [builds[c].shown EXCEPT ![i] = Append(@, hash)]
      /\ builds'[c].used = [builds[c].used EXCEPT ![i] = bytes]
  BY <1>2, <1>3 DEF Moves, BuildFields
<1>5. builds[c].phase = "packs" /\ UNCHANGED <<repoVars, artifacts, rows>>
  BY DEF ReadExcerpt
<1> QED BY <1>4, <1>5, Zenon DEF hash, bytes

LEMMA TruncateEffect ==
    ASSUME BuildTypes, NEW c \in Builds, Truncate(c)
    PROVE  /\ Moves(c, {"phase"}) /\ Pending(c) = {}
           /\ builds[c].phase = "packs" /\ builds'[c].phase = "write"
           /\ artifacts' = [artifacts EXCEPT ![File(c, builds[c].written + 1)] = {}]
           /\ UNCHANGED <<repoVars, rows>>
BY DEF Truncate, Moves, BuildFields, BuildTypes, RowTypes

LEMMA FillEffect ==
    ASSUME BuildTypes, NEW c \in Builds, Fill(c)
    PROVE  /\ Moves(c, {"phase", "written"})
           /\ builds[c].phase = "write"
           /\ builds'[c].written = builds[c].written + 1
           /\ builds'[c].phase = IF builds[c].written + 1 = builds[c].types THEN "rows"
                                 ELSE "packs"
           /\ \E beyond \in SUBSET artifacts[File(c, builds[c].written + 1)] :
                artifacts' = [artifacts EXCEPT ![File(c, builds[c].written + 1)] =
                                 {Pack(c, builds[c].written + 1)} \union beyond]
           /\ UNCHANGED <<repoVars, rows>>
BY DEF Fill, Moves, BuildFields, BuildTypes, RowTypes

LEMMA InsertRowEffect ==
    ASSUME BuildTypes, NEW c \in Builds, InsertRow(c)
    PROVE  /\ Moves(c, {"phase", "recorded"})
           /\ builds[c].phase = "rows"
           /\ builds'[c].recorded = builds[c].recorded + 1
           /\ builds'[c].phase = IF builds[c].recorded + 1 < builds[c].types THEN "rows"
                                 ELSE IF builds[c].kind = "request" THEN "done" ELSE "built"
           /\ rows' = rows \union {RowOf(c, builds[c].recorded + 1)}
           /\ UNCHANGED <<repoVars, artifacts>>
BY DEF InsertRow, Moves, BuildFields, BuildTypes, RowTypes, RowOf

LEMMA ReadPackEffect ==
    ASSUME BuildTypes, NEW c \in Builds, ReadPack(c)
    PROVE  /\ Moves(c, {"phase", "pack"})
           /\ builds[c].phase = "built"
           /\ \E i \in 1..builds[c].types :
                /\ builds'[c].pack = artifacts[File(c, i)]
                /\ builds'[c].phase = IF Cardinality(artifacts[File(c, i)]) = 1
                                      THEN "inspect" ELSE "failed"
           /\ UNCHANGED <<repoVars, artifacts, rows>>
<1>1. PICK i \in 1..builds[c].types :
          builds' = [builds EXCEPT ![c].pack = artifacts[File(c, i)],
              ![c].phase = IF Cardinality(artifacts[File(c, i)]) = 1 THEN "inspect" ELSE "failed"]
  BY DEF ReadPack
<1>2. builds[c].phase = "built" /\ UNCHANGED <<repoVars, artifacts, rows>>
  BY DEF ReadPack
<1> DEFINE pack == artifacts[File(c, i)]
           phase == IF Cardinality(artifacts[File(c, i)]) = 1 THEN "inspect" ELSE "failed"
<1>3. builds' = [builds EXCEPT ![c].pack = pack, ![c].phase = phase]
  BY <1>1
<1> HIDE DEF pack, phase
<1>4. Moves(c, {"phase", "pack"}) /\ builds'[c].pack = pack /\ builds'[c].phase = phase
  BY <1>3 DEF Moves, BuildFields, BuildTypes, RowTypes
<1> QED BY <1>2, <1>4 DEF pack, phase

LEMMA ReadFileEffect ==
    ASSUME BuildTypes, NEW c \in Builds, ReadFile(c)
    PROVE  /\ Moves(c, {"read"})
           /\ builds[c].phase = "inspect" /\ builds'[c].read \in Seq(Paths)
           /\ UNCHANGED <<repoVars, artifacts, rows>>
<1>1. PICK p \in {Listing[i] : i \in DOMAIN Listing} :
          builds' = [builds EXCEPT ![c].read = <<p>>]
  BY DEF ReadFile
<1>2. <<p>> \in Seq(Paths)
  BY ContentsAssumption
<1>3. builds[c].phase = "inspect" /\ UNCHANGED <<repoVars, artifacts, rows>>
  BY DEF ReadFile
<1> QED BY <1>1, <1>2, <1>3 DEF Moves, BuildFields, BuildTypes, RowTypes

LEMMA AcceptEffect ==
    ASSUME BuildTypes, NEW c \in Builds, Accept(c)
    PROVE  /\ Moves(c, {"phase", "refs"})
           /\ builds[c].phase = "inspect" /\ builds'[c].phase = "done"
           /\ \E refs : LET available == Available(Offers(PackRead(c), builds[c].read)) IN
                /\ \A ref \in refs : Accepted(ref, available)
                /\ builds'[c].refs = {Enriched(ref, available) : ref \in refs}
           /\ UNCHANGED <<repoVars, artifacts, rows>>
<1> DEFINE available == Available(Offers(PackRead(c), builds[c].read))
<1>1. PICK refs \in Citations :
          /\ Verified(refs, available)
          /\ builds' = [builds EXCEPT ![c].phase = "done",
                 ![c].refs = {Enriched(ref, available) : ref \in refs}]
  BY DEF Accept
<1>2. \A ref \in refs : Accepted(ref, available)
  BY <1>1, Zenon DEF Verified
<1>3. builds[c].phase = "inspect" /\ UNCHANGED <<repoVars, artifacts, rows>>
  BY DEF Accept
<1> HIDE DEF available
<1>4. /\ Moves(c, {"phase", "refs"}) /\ builds'[c].phase = "done"
      /\ builds'[c].refs = {Enriched(ref, available) : ref \in refs}
  BY <1>1 DEF Moves, BuildFields, BuildTypes, RowTypes
<1> QED BY <1>2, <1>3, <1>4 DEF available

LEMMA CrashEffect ==
    ASSUME BuildTypes, NEW c \in Builds, Crash(c)
    PROVE  /\ Moves(c, BuildFields \ {"types", "snapshot", "drift"})
           /\ builds[c].phase # "idle" /\ ~Over(c)
           /\ builds'[c].phase = "dead" /\ builds'[c].kind = "none"
           /\ builds'[c].written = 0 /\ builds'[c].recorded = 0
           /\ builds'[c].shown = [i \in Types |-> << >>]
           /\ builds'[c].used = [i \in Types |-> 0]
           /\ builds'[c].read = << >> /\ builds'[c].refs = {}
           /\ UNCHANGED <<repoVars, artifacts, rows>>
<1>1. builds' = [builds EXCEPT ![c] = [NoBuild EXCEPT !.phase = "dead",
          !.types = builds[c].types, !.snapshot = builds[c].snapshot, !.drift = builds[c].drift]]
  BY DEF Crash
<1>2. builds'[c] = [NoBuild EXCEPT !.phase = "dead",
          !.types = builds[c].types, !.snapshot = builds[c].snapshot, !.drift = builds[c].drift]
  BY <1>1 DEF BuildTypes, RowTypes
<1>3. /\ builds'[c].phase = "dead" /\ builds'[c].kind = "none"
      /\ builds'[c].written = 0 /\ builds'[c].recorded = 0
      /\ builds'[c].shown = [i \in Types |-> << >>]
      /\ builds'[c].used = [i \in Types |-> 0]
      /\ builds'[c].read = << >> /\ builds'[c].refs = {}
      /\ builds'[c].types = builds[c].types /\ builds'[c].snapshot = builds[c].snapshot
      /\ builds'[c].drift = builds[c].drift
      /\ DOMAIN builds'[c] = BuildFields
  BY <1>2 DEF NoBuild, BuildFields
<1>4. Moves(c, BuildFields \ {"types", "snapshot", "drift"})
  BY <1>1, <1>3 DEF Moves, BuildFields, BuildTypes, RowTypes
<1> QED BY <1>3, <1>4 DEF Crash, Going


-----------------------------------------------------------------------------
(* What a step of a build is to the others.                                  *)

\* A build that has read its drift is known by it from then on, even dead.
Reading == {"idle", "profile", "drift"}

StepOf(c) ==
    /\ DOMAIN builds' = Builds /\ \A d \in Builds \ {c} : builds'[d] = builds[d]
    /\ ~Over(c) /\ builds'[c].phase # "idle"
    /\ builds[c].phase # "idle" => builds'[c].snapshot = builds[c].snapshot
    /\ builds[c].phase \notin Reading =>
        builds'[c].phase \notin Reading /\ builds'[c].drift = builds[c].drift
    /\ UNCHANGED repoVars
    /\ DOMAIN artifacts' = DOMAIN artifacts
    /\ \A at \in DOMAIN artifacts : artifacts'[at] # artifacts[at] =>
        /\ builds[c].phase \notin Reading /\ at[1] = builds[c].snapshot
        /\ \A pack \in artifacts'[at] : pack \in artifacts[at] \/ pack.drift = builds[c].drift
    /\ rows \subseteq rows' /\ \A row \in rows' \ rows : row.build = c

LEMMA BuildIsStep ==
    ASSUME BuildTypes, NEW c \in Builds, Build(c)
    PROVE  StepOf(c)
<1> USE DEF StepOf, Moves, BuildFields, Over, Reading
<1>1. CASE Start(c)
  BY <1>1, StartEffect
<1>2. CASE ReadProfile(c)
  BY <1>2, ReadProfileEffect
<1>3. CASE ReadDrift(c)
  BY <1>3, ReadDriftEffect
<1>4. CASE ReadGuidance(c)
  BY <1>4, ReadGuidanceEffect
<1>5. CASE ReadExcerpt(c)
  BY <1>5, ReadExcerptEffect
<1>6. CASE Truncate(c)
  <2> DEFINE file == File(c, builds[c].written + 1)
  <2>1. artifacts' = [artifacts EXCEPT ![file] = {}]
    BY <1>6, TruncateEffect
  <2>2. file[1] = builds[c].snapshot
    BY DEF File
  <2> HIDE DEF file
  <2>3. DOMAIN artifacts' = DOMAIN artifacts
    BY <2>1
  <2>4. \A at \in DOMAIN artifacts : artifacts'[at] # artifacts[at] =>
            at[1] = builds[c].snapshot /\ artifacts'[at] = {}
    BY <2>1, <2>2
  <2> QED BY <1>6, <2>3, <2>4, TruncateEffect
<1>7. CASE Fill(c)
  <2> DEFINE file == File(c, builds[c].written + 1)
             mine == Pack(c, builds[c].written + 1)
  <2>1. PICK beyond \in SUBSET artifacts[file] :
            artifacts' = [artifacts EXCEPT ![file] = {mine} \union beyond]
    BY <1>7, FillEffect
  <2>2. file[1] = builds[c].snapshot /\ mine.drift = builds[c].drift
    BY DEF File, Pack
  <2> HIDE DEF file, mine
  <2>3. DOMAIN artifacts' = DOMAIN artifacts
    BY <2>1
  <2>4. \A at \in DOMAIN artifacts : artifacts'[at] # artifacts[at] =>
            /\ at[1] = builds[c].snapshot
            /\ \A pack \in artifacts'[at] :
                    pack \in artifacts[at] \/ pack.drift = builds[c].drift
    BY <2>1, <2>2
  <2>5. rows' = rows /\ UNCHANGED repoVars
    BY <1>7, FillEffect
  <2>6. /\ Moves(c, {"phase", "written"}) /\ builds[c].phase = "write"
        /\ builds'[c].phase \in {"rows", "packs"}
    BY <1>7, FillEffect
  <2> QED BY <2>3, <2>4, <2>5, <2>6
<1>8. CASE InsertRow(c)
  BY <1>8, InsertRowEffect DEF RowOf
<1>9. CASE ReadPack(c)
  BY <1>9, ReadPackEffect
<1>10. CASE ReadFile(c)
  BY <1>10, ReadFileEffect
<1>11. CASE Accept(c)
  BY <1>11, AcceptEffect
<1>12. CASE Crash(c)
  BY <1>12, CrashEffect
<1> QED BY <1>1, <1>2, <1>3, <1>4, <1>5, <1>6, <1>7, <1>8, <1>9, <1>10, <1>11, <1>12 DEF Build

\* The rivals of the others can only become more, and are known as before.
LEMMA RivalsGrow ==
    ASSUME NEW b \in Builds, NEW c \in Builds \ {b}, StepOf(c)
    PROVE  /\ Rivals(b) \subseteq Rivals(b)'
           /\ \A pack : OwnOrRival(b, pack) => OwnOrRival(b, pack)'
<1>1. builds'[b] = builds[b]
  BY DEF StepOf
<1>2. ASSUME NEW d \in Rivals(b)
      PROVE  /\ d \in Rivals(b)'
             /\ builds[d].phase \notin {"profile", "drift"} =>
                    builds'[d].phase \notin {"profile", "drift"}
                    /\ builds'[d].drift = builds[d].drift
  <2>1. CASE d = c
    BY <1>1, <1>2, <2>1 DEF StepOf, Rivals, Reading
  <2>2. CASE d # c
    BY <1>1, <1>2, <2>2 DEF StepOf, Rivals
  <2> QED BY <2>1, <2>2
<1>3. ASSUME NEW pack, FromRival(b, pack) PROVE FromRival(b, pack)'
  BY <1>2, <1>3 DEF FromRival
<1> QED BY <1>1, <1>2, <1>3 DEF OwnOrRival

\* Who writes to a file of a build that is alive is a rival, known by its drift.
LEMMA WriterIsRival ==
    ASSUME NEW b \in Builds, NEW c \in Builds \ {b}, StepOf(c), Alive(b), OrderOf(b),
           NEW at \in DOMAIN artifacts, at[1] = builds[b].snapshot,
           artifacts'[at] # artifacts[at]
    PROVE  /\ c \in Rivals(b)
           /\ \A pack \in artifacts'[at] : pack \in artifacts[at] \/ FromRival(b, pack)
<1>1. /\ builds[c].phase \notin Reading /\ builds[c].snapshot = builds[b].snapshot
      /\ \A pack \in artifacts'[at] : pack \in artifacts[at] \/ pack.drift = builds[c].drift
  BY DEF StepOf
<1>2. c > b \/ c \in builds[b].met
  BY DEF StepOf, OrderOf, Builds
<1>3. c \in Rivals(b)
  BY <1>1, <1>2 DEF Rivals, Reading
<1> QED BY <1>1, <1>3 DEF FromRival, Reading

LEMMA OpenedAreFiles ==
    ASSUME BuildTypes, NEW b \in Builds, StageOf(b), Alive(b), NEW i \in Opened(b)
    PROVE  /\ File(b, i) \in DOMAIN artifacts /\ i \in Types
           /\ File(b, i)[1] = builds[b].snapshot
<1>1. builds[b].snapshot \in 1..MaxCommit
  BY PackAssumption DEF BuildTypes, RowTypes, StageOf, Alive
<1>2. Types = 1..Len(PackTypes) /\ Len(PackTypes) \in Nat
  BY PackAssumption DEF Types
<1>3. i \in Types
  BY <1>2 DEF BuildTypes, RowTypes, StageOf, Opened
<1> QED BY <1>1, <1>3 DEF BuildTypes, RowTypes, File

\* The values that only a build's own row decides.
LEMMA SameRow ==
    ASSUME NEW b \in Builds, builds'[b] = builds[b]
    PROVE  /\ Pending(b)' = Pending(b) /\ Opened(b)' = Opened(b) /\ Alive(b)' = Alive(b)
           /\ \A i : EntriesOf(b, i)' = EntriesOf(b, i) /\ Pack(b, i)' = Pack(b, i)
           /\ \A i : RowOf(b, i)' = RowOf(b, i) /\ File(b, i)' = File(b, i)
BY DEF Pending, Opened, Alive, EntriesOf, Pack, RowOf, File

LEMMA OthersKeep ==
    ASSUME BuildTypes, NEW b \in Builds, NEW c \in Builds \ {b}, StepOf(c), InvOf(b)
    PROVE  InvOf(b)'
<1>1. builds'[b] = builds[b] /\ checkout' = checkout
  BY DEF StepOf, repoVars
<1>2. /\ Pending(b)' = Pending(b) /\ Opened(b)' = Opened(b) /\ Alive(b)' = Alive(b)
      /\ \A i : EntriesOf(b, i)' = EntriesOf(b, i) /\ Pack(b, i)' = Pack(b, i)
      /\ \A i : RowOf(b, i)' = RowOf(b, i) /\ File(b, i)' = File(b, i)
  BY <1>1, SameRow
<1>3. StageOf(b)'
  BY <1>1, <1>2 DEF InvOf, StageOf
<1>4. OrderOf(b)'
  <2>1. \A d \in Builds : Over(d) => Over(d)'
    BY DEF StepOf, Over
  <2> QED BY <1>1, <1>2, <2>1 DEF InvOf, OrderOf
<1>5. FilesOf(b)'
  <2>1. SUFFICES ASSUME Alive(b), NEW i \in Opened(b), NEW pack \in artifacts'[File(b, i)]
                 PROVE  OwnOrRival(b, pack)'
    BY <1>2 DEF FilesOf
  <2>2. File(b, i) \in DOMAIN artifacts /\ File(b, i)[1] = builds[b].snapshot
    BY <2>1, OpenedAreFiles DEF InvOf
  <2>3. pack \in artifacts[File(b, i)] \/ FromRival(b, pack)
    BY <2>1, <2>2, WriterIsRival DEF InvOf
  <2>4. OwnOrRival(b, pack)
    BY <2>1, <2>3 DEF InvOf, FilesOf, OwnOrRival
  <2> QED BY <2>4, RivalsGrow
<1>6. WholeOf(b)'
  <2>1. SUFFICES ASSUME Alive(b), Rivals(b)' = {}
                 PROVE  WholeOf(b)'
    BY <1>2 DEF WholeOf
  <2>2. Rivals(b) = {}
    BY <2>1, RivalsGrow
  <2>3. \A i \in Opened(b) : artifacts'[File(b, i)] = artifacts[File(b, i)]
    BY <2>1, <2>2, OpenedAreFiles, WriterIsRival DEF InvOf
  <2> QED BY <1>1, <1>2, <2>1, <2>2, <2>3 DEF InvOf, WholeOf, Opened
<1>7. RowsOf(b)'
  BY <1>1, <1>2 DEF InvOf, RowsOf, StepOf
<1>8. PackOf(b)'
  BY <1>1, RivalsGrow DEF InvOf, PackOf
<1>9. RefsOf(b)' /\ ShownOf(b)' /\ BudgetOf(b)'
  BY <1>1, <1>2 DEF InvOf, RefsOf, ShownOf, BudgetOf
<1> QED BY <1>3, <1>4, <1>5, <1>6, <1>7, <1>8, <1>9 DEF InvOf


-----------------------------------------------------------------------------
(* What a step of a build is to itself.                                      *)

\* As long as a build neither starts nor dies, its rivals are the same.
LEMMA OwnRivals ==
    ASSUME NEW c \in Builds, NEW F, Moves(c, F), F \cap {"met", "snapshot", "drift"} = {},
           Alive(c), Alive(c)', OrderOf(c)
    PROVE  /\ Rivals(c)' = Rivals(c) /\ OrderOf(c)'
           /\ \A pack : OwnOrRival(c, pack) => OwnOrRival(c, pack)'
<1>1. /\ builds'[c].met = builds[c].met /\ builds'[c].snapshot = builds[c].snapshot
      /\ builds'[c].drift = builds[c].drift
      /\ \A d \in Builds \ {c} : builds'[d] = builds[d]
  BY DEF Moves, BuildFields
<1>2. Rivals(c)' = Rivals(c)
  BY <1>1 DEF Rivals
<1>3. OrderOf(c)'
  BY <1>1 DEF OrderOf, Over, Builds
<1>4. \A pack : FromRival(c, pack) => FromRival(c, pack)'
  BY <1>1, <1>2 DEF FromRival, Rivals
<1> QED BY <1>1, <1>2, <1>3, <1>4 DEF OwnOrRival

LEMMA StartOwn ==
    ASSUME BuildTypes, NEW c \in Builds, InvOf(c), Start(c)
    PROVE  InvOf(c)' /\ RowTypes(c)'
<1>1. /\ Moves(c, {"kind", "phase", "met", "bound", "snapshot"})
      /\ builds[c].phase = "idle" /\ builds'[c].phase = "profile"
      /\ \A d \in Builds : d < c => builds[d].phase # "idle"
      /\ builds'[c].met = Going /\ builds'[c].snapshot \in 1..snapshots
      /\ builds'[c].kind = "scheduled" => builds'[c].bound = builds'[c].snapshot
      /\ UNCHANGED <<repoVars, artifacts, rows>>
  BY StartEffect
<1>2. /\ builds'[c].types = builds[c].types /\ builds'[c].shown = builds[c].shown
      /\ builds'[c].used = builds[c].used /\ builds'[c].written = builds[c].written
      /\ builds'[c].recorded = builds[c].recorded /\ builds'[c].read = builds[c].read
      /\ builds'[c].refs = builds[c].refs /\ DOMAIN builds'[c] = BuildFields
      /\ \A d \in Builds \ {c} : builds'[d] = builds[d]
  BY <1>1 DEF Moves, BuildFields
<1>3. RowTypes(c)'
  BY <1>1, <1>2 DEF BuildTypes, RowTypes, repoVars
<1>4. /\ builds[c].written = 0 /\ builds[c].recorded = 0 /\ builds[c].refs = {}
      /\ \A i \in Types : builds[c].shown[i] = << >>
  BY <1>1 DEF InvOf, StageOf, Early
<1>5. StageOf(c)'
  BY <1>1, <1>2, <1>4 DEF StageOf, Early, Late
<1>6. OrderOf(c)'
  BY <1>1, <1>2 DEF OrderOf, Going, Over, Builds
<1>7. Opened(c)' = {}
  BY <1>1, <1>2, <1>4 DEF Opened
<1>8. FilesOf(c)' /\ WholeOf(c)'
  BY <1>1, <1>2, <1>4, <1>7 DEF FilesOf, WholeOf
<1>9. RowsOf(c)'
  BY <1>1, <1>2, <1>4 DEF InvOf, RowsOf
<1>10. PackOf(c)' /\ RefsOf(c)' /\ ShownOf(c)' /\ BudgetOf(c)'
  BY <1>1, <1>2, <1>4 DEF InvOf, PackOf, RefsOf, ShownOf, BudgetOf
<1> QED BY <1>3, <1>5, <1>6, <1>8, <1>9, <1>10 DEF InvOf

LEMMA CrashOwn ==
    ASSUME BuildTypes, NEW c \in Builds, InvOf(c), Crash(c)
    PROVE  InvOf(c)' /\ RowTypes(c)'
<1>1. /\ Moves(c, BuildFields \ {"types", "snapshot", "drift"})
      /\ builds'[c].phase = "dead" /\ builds'[c].kind = "none"
      /\ builds'[c].written = 0 /\ builds'[c].recorded = 0
      /\ builds'[c].shown = [i \in Types |-> << >>]
      /\ builds'[c].used = [i \in Types |-> 0]
      /\ builds'[c].read = << >> /\ builds'[c].refs = {}
      /\ UNCHANGED <<repoVars, artifacts, rows>>
  BY CrashEffect
<1>2. /\ builds'[c].types = builds[c].types /\ builds'[c].snapshot = builds[c].snapshot
      /\ DOMAIN builds'[c] = BuildFields
  BY <1>1 DEF Moves, BuildFields
<1>3. RowTypes(c)'
  BY <1>1, <1>2 DEF BuildTypes, RowTypes, repoVars
<1>4. StageOf(c)'
  BY <1>1 DEF StageOf, Early, Late
<1>5. ~Alive(c)'
  BY <1>1 DEF Alive
<1>6. Limits.pack \in Nat
  BY ContentsAssumption
<1>7. RowsOf(c)' /\ PackOf(c)' /\ RefsOf(c)' /\ ShownOf(c)' /\ BudgetOf(c)'
  BY <1>1, <1>5, <1>6 DEF RowsOf, PackOf, RefsOf, ShownOf, BudgetOf
<1> QED BY <1>3, <1>4, <1>5, <1>7 DEF InvOf, OrderOf, FilesOf, WholeOf

\* What a build reads before it makes its packs: nothing is written yet.
LEMMA EarlyOwn ==
    ASSUME BuildTypes, NEW c \in Builds, InvOf(c),
           ReadProfile(c) \/ ReadDrift(c) \/ ReadGuidance(c)
    PROVE  InvOf(c)' /\ RowTypes(c)'
<1>1. /\ Moves(c, {"phase", "profile", "drift", "guided"})
      /\ UNCHANGED <<repoVars, artifacts, rows>>
      /\ \/ builds[c].phase = "profile" /\ builds'[c].phase = "drift"
         \/ /\ builds[c].phase = "drift" /\ builds'[c].phase = "guidance"
            /\ builds[c].bound > 0 => builds'[c].drift = builds[c].bound
         \/ /\ builds[c].phase = "guidance" /\ builds'[c].phase = "packs"
            /\ builds'[c].drift = builds[c].drift
  <2>1. CASE ReadProfile(c)
    BY <2>1, ReadProfileEffect DEF Moves
  <2>2. CASE ReadDrift(c)
    BY <2>2, ReadDriftEffect DEF Moves
  <2>3. CASE ReadGuidance(c)
    BY <2>3, ReadGuidanceEffect DEF Moves, BuildFields
  <2> QED BY <2>1, <2>2, <2>3
<1>2. /\ builds'[c].types = builds[c].types /\ builds'[c].shown = builds[c].shown
      /\ builds'[c].used = builds[c].used /\ builds'[c].written = builds[c].written
      /\ builds'[c].recorded = builds[c].recorded /\ builds'[c].read = builds[c].read
      /\ builds'[c].refs = builds[c].refs /\ DOMAIN builds'[c] = BuildFields
      /\ builds'[c].kind = builds[c].kind /\ builds'[c].bound = builds[c].bound
      /\ builds'[c].snapshot = builds[c].snapshot /\ builds'[c].met = builds[c].met
      /\ \A d \in Builds \ {c} : builds'[d] = builds[d]
  BY <1>1 DEF Moves, BuildFields
<1>3. RowTypes(c)'
  BY <1>1, <1>2 DEF BuildTypes, RowTypes, repoVars
<1>4. /\ builds[c].written = 0 /\ builds[c].recorded = 0 /\ Alive(c)
      /\ \A i \in Types : builds[c].shown[i] = << >>
  BY <1>1 DEF InvOf, StageOf, Early, Alive
<1>5. StageOf(c)'
  <2>1. builds[c].types >= 1 /\ builds[c].snapshot >= 1
    BY <1>4 DEF BuildTypes, RowTypes, InvOf, StageOf, Alive
  <2>2. builds[c].kind = "scheduled" => builds[c].bound = builds[c].snapshot
    BY DEF InvOf, StageOf
  <2>3. builds[c].kind = "scheduled" /\ builds[c].phase = "guidance" =>
            builds[c].drift = builds[c].bound
    BY DEF InvOf, StageOf
  <2>4. builds'[c].phase \in {"drift", "guidance", "packs"}
    BY <1>1
  <2>5. /\ builds'[c].written < builds'[c].types /\ builds'[c].written = 0
        /\ builds'[c].recorded = 0 /\ builds'[c].snapshot >= 1
        /\ \A i \in Types : builds'[c].shown[i] = << >>
    BY <1>2, <1>4, <2>1 DEF BuildTypes, RowTypes
  <2>6. builds'[c].kind = "scheduled" /\ builds'[c].phase \notin {"profile", "drift"} =>
            builds'[c].drift = builds'[c].bound
    <3>1. CASE builds[c].phase = "profile"
      BY <1>1, <3>1
    <3>2. CASE builds[c].phase = "drift"
      BY <1>1, <1>2, <2>1, <2>2, <3>2 DEF BuildTypes, RowTypes
    <3>3. CASE builds[c].phase = "guidance"
      BY <1>1, <1>2, <2>3, <3>3
    <3> QED BY <1>1, <3>1, <3>2, <3>3
  <2>7. builds'[c].kind = "scheduled" => builds'[c].bound = builds'[c].snapshot
    BY <1>2, <2>2
  <2> QED BY <2>4, <2>5, <2>6, <2>7 DEF StageOf, Early, Late
<1>6. OrderOf(c)'
  BY <1>1, <1>2, <1>4 DEF InvOf, OrderOf, Over, Builds
<1>7. Opened(c)' = {}
  BY <1>1, <1>2, <1>4 DEF Opened
<1>8. FilesOf(c)' /\ WholeOf(c)'
  BY <1>1, <1>2, <1>4, <1>7 DEF FilesOf, WholeOf
<1>9. RowsOf(c)'
  BY <1>1, <1>2, <1>4 DEF InvOf, RowsOf
<1>10. PackOf(c)' /\ RefsOf(c)' /\ ShownOf(c)' /\ BudgetOf(c)'
  BY <1>1, <1>2, <1>4 DEF InvOf, PackOf, RefsOf, ShownOf, BudgetOf
<1> QED BY <1>3, <1>5, <1>6, <1>8, <1>9, <1>10 DEF InvOf


\* What the excerpts of a build are of, until it reads one more.
LEMMA SamePacks ==
    ASSUME NEW c \in Builds, NEW F, Moves(c, F),
           F \cap {"types", "snapshot", "profile", "drift", "guided", "shown"} = {}
    PROVE  /\ Pending(c)' = Pending(c)
           /\ \A i : EntriesOf(c, i)' = EntriesOf(c, i) /\ Pack(c, i)' = Pack(c, i)
           /\ \A i : RowOf(c, i)' = RowOf(c, i) /\ File(c, i)' = File(c, i)
<1>1. /\ builds'[c].types = builds[c].types /\ builds'[c].snapshot = builds[c].snapshot
      /\ builds'[c].profile = builds[c].profile /\ builds'[c].drift = builds[c].drift
      /\ builds'[c].guided = builds[c].guided /\ builds'[c].shown = builds[c].shown
  BY DEF Moves, BuildFields
<1> QED BY <1>1 DEF Pending, EntriesOf, Pack, RowOf, File

\* The entry a build reads next.
LEMMA NextEntry ==
    ASSUME BuildTypes, NEW c \in Builds, NEW i \in Pending(c)
    PROVE  /\ i \in Types
           /\ EntriesOf(c, i)[Len(builds[c].shown[i]) + 1]
                  \in EntryRows(builds[c].snapshot, builds[c].guided)
<1>1. i \in 1..builds[c].types /\ Len(builds[c].shown[i]) < Len(EntriesOf(c, i))
  BY DEF Pending
<1>2. i \in Types /\ PackTypes[i] \in TypeNames
  BY <1>1, PackAssumption DEF BuildTypes, RowTypes, Types, TypeNames
<1>3. EntriesOf(c, i) \in Seq(EntryRows(builds[c].snapshot, builds[c].guided))
  BY <1>2, EntriesMembers DEF EntriesOf
<1>4. Len(builds[c].shown[i]) \in Nat
  BY <1>2 DEF BuildTypes, RowTypes
<1>5. Len(builds[c].shown[i]) + 1 \in 1..Len(EntriesOf(c, i))
  BY <1>1, <1>3, <1>4
<1> QED BY <1>2, <1>3, <1>5

\* The bytes of an excerpt that is shown fit what remains; its text is longer by
\* what decoding and redaction add.
LEMMA TextFits ==
    ASSUME NEW snapshot, NEW g, NEW e \in EntryRows(snapshot, g), NEW used \in Nat
    PROVE  /\ Text(e, used) \in Nat
           /\ Remaining(used) # 0 =>
                  \E n \in 0..Size[e.path] : used + Text(e, used) <= Limits.pack + Excess(e.path, n)
<1>1. e.path \in Paths
  BY EntryFields
<1>2. /\ Size[e.path] \in Nat
      /\ Limits.pack \in Nat /\ Limits.code \in Nat /\ Limits.guidance \in Nat
  BY <1>1, ContentsAssumption
<1>3. Remaining(used) \in Nat /\ (Remaining(used) # 0 => Remaining(used) = Limits.pack - used)
  BY <1>2 DEF Remaining
<1>4. ByteLimit(e.type, used) \in Nat /\ ByteLimit(e.type, used) <= Remaining(used)
  BY <1>2, <1>3 DEF ByteLimit, Lesser
<1> DEFINE n == Lesser(Size[e.path], ByteLimit(e.type, used))
<1>5. n \in 0..Size[e.path] /\ n <= Remaining(used)
  BY <1>2, <1>3, <1>4 DEF Lesser
<1>6. Text(e, used) = Decoded[e.path][n] + Redacted[e.path][n]
  BY DEF Text
<1> HIDE DEF n
<1>7. /\ Decoded[e.path][n] \in n..(IF e.path \in Utf8 THEN Lesser(3 * n, n + 2) ELSE 3 * n)
      /\ Redacted[e.path][n] \in Int /\ Decoded[e.path][n] + Redacted[e.path][n] >= 0
  BY <1>1, <1>5, DecodeAssumption
<1>8. Text(e, used) \in Nat /\ Text(e, used) <= n + Excess(e.path, n)
  BY <1>2, <1>5, <1>6, <1>7 DEF Excess, Lesser
<1>9. Excess(e.path, n) \in Int
  BY <1>2, <1>5, <1>7 DEF Excess
<1>10. Remaining(used) # 0 => used + Text(e, used) <= Limits.pack + Excess(e.path, n)
  BY <1>2, <1>3, <1>5, <1>8, <1>9
<1> QED BY <1>5, <1>8, <1>10

LEMMA ExcerptOwn ==
    ASSUME BuildTypes, NEW c \in Builds, InvOf(c), ReadExcerpt(c)
    PROVE  InvOf(c)' /\ RowTypes(c)'
<1>1. /\ Moves(c, {"shown", "used"}) /\ builds[c].phase = "packs" /\ Pending(c) # {}
      /\ UNCHANGED <<repoVars, artifacts, rows>>
  BY ReadExcerptEffect
<1>2. /\ builds'[c].types = builds[c].types /\ builds'[c].phase = builds[c].phase
      /\ builds'[c].written = builds[c].written /\ builds'[c].kind = builds[c].kind
      /\ builds'[c].recorded = builds[c].recorded /\ builds'[c].read = builds[c].read
      /\ builds'[c].refs = builds[c].refs /\ DOMAIN builds'[c] = BuildFields
      /\ builds'[c].snapshot = builds[c].snapshot /\ builds'[c].bound = builds[c].bound
      /\ builds'[c].drift = builds[c].drift /\ builds'[c].guided = builds[c].guided
  BY <1>1 DEF Moves, BuildFields
<1>3. builds[c].written = 0 /\ builds[c].recorded = 0
  BY <1>1 DEF BuildTypes, RowTypes, InvOf, StageOf
<1>4. Alive(c) /\ Alive(c)' /\ OrderOf(c)
  BY <1>1, <1>2 DEF InvOf, Alive
<1>5. OrderOf(c)'
  BY <1>1, <1>4, OwnRivals
<1>6. StageOf(c)'
  BY <1>1, <1>2, <1>3 DEF InvOf, StageOf, Early, Late
<1>7. Opened(c)' = {}
  BY <1>1, <1>2, <1>3 DEF Opened
<1>8. FilesOf(c)' /\ WholeOf(c)'
  BY <1>1, <1>2, <1>3, <1>7 DEF FilesOf, WholeOf
<1>9. RowsOf(c)' /\ PackOf(c)' /\ RefsOf(c)'
  BY <1>1, <1>2, <1>3, <1>4 DEF InvOf, RowsOf, PackOf, RefsOf
<1>10. PICK i \in Pending(c) :
         LET entry == EntriesOf(c, i)[Len(builds[c].shown[i]) + 1]
             used == builds[c].used[i]
             omitted == Omitted(entry, checkout, used)
         IN /\ builds'[c].shown = [builds[c].shown EXCEPT ![i] =
                   Append(@, IF omitted THEN NoHash ELSE Version(entry.path, checkout))]
            /\ builds'[c].used = [builds[c].used EXCEPT ![i] =
                   IF omitted THEN used ELSE used + Text(entry, used)]
  BY ReadExcerptEffect, Zenon
<1> DEFINE last == Len(builds[c].shown[i]) + 1
           entry == EntriesOf(c, i)[last]
           used == builds[c].used[i]
           omitted == Omitted(entry, checkout, used)
           hash == IF omitted THEN NoHash ELSE Version(entry.path, checkout)
           bytes == IF omitted THEN used ELSE used + Text(entry, used)
<1>11. /\ builds'[c].shown = [builds[c].shown EXCEPT ![i] = Append(@, hash)]
       /\ builds'[c].used = [builds[c].used EXCEPT ![i] = bytes]
  BY <1>10, Zenon
<1>12. i \in Types /\ entry \in EntryRows(builds[c].snapshot, builds[c].guided)
  BY NextEntry
<1>13. used \in Nat /\ checkout \in 1..MaxCommit /\ entry.path \in Paths
  BY <1>12, EntryFields DEF BuildTypes, RowTypes
<1>14. hash \in Hashes
  BY <1>13 DEF Hashes
<1>15. /\ bytes \in Nat
       /\ \/ bytes = used
          \/ \E n \in 0..Size[entry.path] : bytes <= Limits.pack + Excess(entry.path, n)
  <2>1. CASE omitted
    BY <1>13, <2>1
  <2>2. CASE ~omitted
    <3>1. Remaining(used) # 0
      BY <2>2 DEF Omitted
    <3>2. /\ Text(entry, used) \in Nat
          /\ \E n \in 0..Size[entry.path] :
                 used + Text(entry, used) <= Limits.pack + Excess(entry.path, n)
      BY <1>12, <1>13, <3>1, TextFits
    <3> QED BY <1>13, <2>2, <3>2
  <2> QED BY <2>1, <2>2
<1>16. builds[c].shown \in [Types -> Seq(Hashes)] /\ builds[c].used \in [Types -> Nat]
  BY DEF BuildTypes, RowTypes
<1> HIDE DEF hash, bytes
<1>17. builds'[c].shown \in [Types -> Seq(Hashes)] /\ builds'[c].used \in [Types -> Nat]
  BY <1>11, <1>12, <1>14, <1>15, <1>16
<1>18. RowTypes(c)'
  BY <1>1, <1>2, <1>17 DEF BuildTypes, RowTypes, repoVars
<1>19. BudgetOf(c)'
  <2>1. \A j \in Types : builds'[c].used[j] = IF j = i THEN bytes ELSE builds[c].used[j]
    BY <1>11, <1>16
  <2>2. \A j \in Types : \/ builds[c].used[j] <= Limits.pack
                         \/ \E p \in Paths : \E n \in 0..Size[p] :
                               builds[c].used[j] <= Limits.pack + Excess(p, n)
    BY DEF InvOf, BudgetOf
  <2> QED BY <1>12, <1>13, <1>15, <2>1, <2>2 DEF BudgetOf
<1>20. ShownOf(c)'
  <2>1. SUFFICES ASSUME checkout = builds[c].snapshot, NEW j \in Types,
                        NEW k \in DOMAIN builds'[c].shown[j]
                 PROVE  builds'[c].shown[j][k] \in
                          {NoHash, Version(EntriesOf(c, j)[k].path, builds[c].snapshot)}
    BY <1>1, <1>2 DEF ShownOf, EntriesOf, repoVars
  <2>2. CASE j = i /\ k = last
    <3>1. builds'[c].shown[j][k] = hash
      BY <1>11, <1>12, <1>14, <1>16, <2>2
    <3>2. hash \in {NoHash, Version(entry.path, checkout)}
      BY DEF hash
    <3> QED BY <2>1, <2>2, <3>1, <3>2
  <2>3. CASE ~(j = i /\ k = last)
    <3>1. k \in DOMAIN builds[c].shown[j] /\ builds'[c].shown[j][k] = builds[c].shown[j][k]
      BY <1>11, <1>12, <1>14, <1>16, <2>3
    <3> QED BY <2>1, <3>1 DEF InvOf, ShownOf
  <2> QED BY <2>2, <2>3
<1> QED BY <1>5, <1>6, <1>8, <1>9, <1>18, <1>19, <1>20 DEF InvOf


\* The file a build opens next is one of those of its snapshot.
LEMMA NextFile ==
    ASSUME BuildTypes, NEW c \in Builds, StageOf(c), builds[c].phase = "packs"
    PROVE  File(c, builds[c].written + 1) \in DOMAIN artifacts
<1>1. builds[c].snapshot \in 1..MaxCommit
  BY PackAssumption DEF BuildTypes, RowTypes, StageOf
<1>2. builds[c].written + 1 \in Types
  BY PackAssumption DEF BuildTypes, RowTypes, StageOf, Types
<1> QED BY <1>1, <1>2 DEF BuildTypes, File

LEMMA TruncateOwn ==
    ASSUME BuildTypes, NEW c \in Builds, InvOf(c), Truncate(c)
    PROVE  InvOf(c)' /\ RowTypes(c)'
<1>1. /\ Moves(c, {"phase"}) /\ Pending(c) = {}
      /\ builds[c].phase = "packs" /\ builds'[c].phase = "write"
      /\ artifacts' = [artifacts EXCEPT ![File(c, builds[c].written + 1)] = {}]
      /\ UNCHANGED <<repoVars, rows>>
  BY TruncateEffect
<1>2. /\ builds'[c].types = builds[c].types /\ builds'[c].shown = builds[c].shown
      /\ builds'[c].used = builds[c].used /\ builds'[c].written = builds[c].written
      /\ builds'[c].recorded = builds[c].recorded /\ builds'[c].read = builds[c].read
      /\ builds'[c].refs = builds[c].refs /\ DOMAIN builds'[c] = BuildFields
      /\ builds'[c].kind = builds[c].kind /\ builds'[c].bound = builds[c].bound
      /\ builds'[c].snapshot = builds[c].snapshot /\ builds'[c].drift = builds[c].drift
  BY <1>1 DEF Moves, BuildFields
<1>3. RowTypes(c)'
  BY <1>1, <1>2 DEF BuildTypes, RowTypes, repoVars
<1>4. Alive(c) /\ Alive(c)' /\ OrderOf(c)
  BY <1>1 DEF InvOf, Alive
<1>5. /\ Rivals(c)' = Rivals(c) /\ OrderOf(c)'
      /\ \A pack : OwnOrRival(c, pack) => OwnOrRival(c, pack)'
  BY <1>1, <1>4, OwnRivals
<1>6. /\ Pending(c)' = Pending(c)
      /\ \A i : EntriesOf(c, i)' = EntriesOf(c, i) /\ Pack(c, i)' = Pack(c, i)
      /\ \A i : RowOf(c, i)' = RowOf(c, i) /\ File(c, i)' = File(c, i)
  BY <1>1, SamePacks
<1>7. StageOf(c)'
  BY <1>1, <1>2, <1>6 DEF InvOf, StageOf, Early, Late
<1> DEFINE j == builds[c].written + 1
<1>8. /\ Opened(c) = 1..builds[c].written /\ Opened(c)' = Opened(c) \union {j}
      /\ j \notin Opened(c) /\ \A i \in Opened(c) : File(c, i) # File(c, j)
  BY <1>1, <1>2 DEF Opened, BuildTypes, RowTypes, File
<1>9. \A i \in Opened(c)' : File(c, i) \in DOMAIN artifacts
  BY <1>1, <1>4, <1>8, NextFile, OpenedAreFiles DEF InvOf
<1>10. /\ artifacts'[File(c, j)] = {}
       /\ \A i \in Opened(c) : artifacts'[File(c, i)] = artifacts[File(c, i)]
  BY <1>1, <1>8, <1>9
<1> HIDE DEF j
<1>11. FilesOf(c)'
  BY <1>4, <1>5, <1>6, <1>8, <1>10 DEF InvOf, FilesOf
<1>12. WholeOf(c)'
  BY <1>1, <1>2, <1>4, <1>5, <1>6, <1>8, <1>10 DEF InvOf, WholeOf, j
<1>13. RowsOf(c)' /\ PackOf(c)' /\ RefsOf(c)' /\ ShownOf(c)' /\ BudgetOf(c)'
  BY <1>1, <1>2, <1>4, <1>6
     DEF InvOf, RowsOf, PackOf, RefsOf, ShownOf, BudgetOf, repoVars
<1> QED BY <1>3, <1>5, <1>7, <1>11, <1>12, <1>13 DEF InvOf

LEMMA FillOwn ==
    ASSUME BuildTypes, NEW c \in Builds, InvOf(c), Fill(c)
    PROVE  InvOf(c)' /\ RowTypes(c)'
<1> DEFINE j == builds[c].written + 1
<1>1. /\ Moves(c, {"phase", "written"}) /\ builds[c].phase = "write"
      /\ builds'[c].written = j
      /\ builds'[c].phase = IF j = builds[c].types THEN "rows" ELSE "packs"
      /\ \E beyond \in SUBSET artifacts[File(c, j)] :
            artifacts' = [artifacts EXCEPT ![File(c, j)] = {Pack(c, j)} \union beyond]
      /\ UNCHANGED <<repoVars, rows>>
  BY FillEffect
<1>2. /\ builds'[c].types = builds[c].types /\ builds'[c].shown = builds[c].shown
      /\ builds'[c].used = builds[c].used
      /\ builds'[c].recorded = builds[c].recorded /\ builds'[c].read = builds[c].read
      /\ builds'[c].refs = builds[c].refs /\ DOMAIN builds'[c] = BuildFields
      /\ builds'[c].kind = builds[c].kind /\ builds'[c].bound = builds[c].bound
      /\ builds'[c].snapshot = builds[c].snapshot /\ builds'[c].drift = builds[c].drift
  BY <1>1 DEF Moves, BuildFields
<1>3. /\ builds[c].written < builds[c].types /\ builds[c].recorded = 0 /\ Pending(c) = {}
      /\ builds[c].written \in Nat /\ builds[c].types \in Nat
  BY <1>1 DEF InvOf, StageOf, BuildTypes, RowTypes
<1>4. RowTypes(c)'
  BY <1>1, <1>2, <1>3 DEF BuildTypes, RowTypes, repoVars
<1>5. Alive(c) /\ Alive(c)' /\ OrderOf(c)
  BY <1>1 DEF InvOf, Alive
<1>6. /\ Rivals(c)' = Rivals(c) /\ OrderOf(c)'
      /\ \A pack : OwnOrRival(c, pack) => OwnOrRival(c, pack)'
  BY <1>1, <1>5, OwnRivals
<1>7. /\ Pending(c)' = Pending(c)
      /\ \A i : EntriesOf(c, i)' = EntriesOf(c, i) /\ Pack(c, i)' = Pack(c, i)
      /\ \A i : RowOf(c, i)' = RowOf(c, i) /\ File(c, i)' = File(c, i)
  BY <1>1, SamePacks
<1>8. StageOf(c)'
  BY <1>1, <1>2, <1>3, <1>7 DEF InvOf, StageOf, Early, Late
<1>9. /\ Opened(c) = 1..j /\ Opened(c)' = 1..j
      /\ \A i \in 1..builds[c].written : File(c, i) # File(c, j) /\ i \in 1..j
  BY <1>1, <1>2, <1>3 DEF Opened, File
<1>10. \A i \in 1..j : File(c, i) \in DOMAIN artifacts
  BY <1>5, <1>9, OpenedAreFiles DEF InvOf
<1>11. PICK beyond \in SUBSET artifacts[File(c, j)] :
           artifacts' = [artifacts EXCEPT ![File(c, j)] = {Pack(c, j)} \union beyond]
  BY <1>1
<1>12. j \in 1..j /\ 1..j = 1..builds[c].written \union {j}
  BY <1>3
<1> HIDE DEF j
<1>13. /\ artifacts'[File(c, j)] = {Pack(c, j)} \union beyond
       /\ \A i \in 1..builds[c].written : artifacts'[File(c, i)] = artifacts[File(c, i)]
  BY <1>9, <1>10, <1>11, <1>12
<1>14. OwnOrRival(c, Pack(c, j))
  BY DEF OwnOrRival, Pack
<1>15. FilesOf(c)'
  <2>1. \A i \in 1..j : \A pack \in artifacts'[File(c, i)] : OwnOrRival(c, pack)
    BY <1>5, <1>9, <1>12, <1>13, <1>14 DEF InvOf, FilesOf
  <2> QED BY <1>6, <1>7, <1>9, <2>1 DEF FilesOf
<1>16. WholeOf(c)'
  <2>1. SUFFICES ASSUME Rivals(c) = {}
                 PROVE  \A i \in 1..j : artifacts'[File(c, i)] = {Pack(c, i)}
    BY <1>1, <1>6, <1>7 DEF WholeOf
  <2>2. artifacts[File(c, j)] = {}
    BY <1>1, <1>5, <2>1 DEF InvOf, WholeOf, j
  <2>3. beyond = {}
    BY <1>11, <2>2
  <2> QED BY <1>5, <1>12, <1>13, <2>1, <2>3 DEF InvOf, WholeOf
<1>17. RowsOf(c)' /\ PackOf(c)' /\ RefsOf(c)' /\ ShownOf(c)' /\ BudgetOf(c)'
  BY <1>1, <1>2, <1>5, <1>7
     DEF InvOf, RowsOf, PackOf, RefsOf, ShownOf, BudgetOf, repoVars
<1> QED BY <1>4, <1>6, <1>8, <1>15, <1>16, <1>17 DEF InvOf

LEMMA InsertRowOwn ==
    ASSUME BuildTypes, NEW c \in Builds, InvOf(c), InsertRow(c)
    PROVE  InvOf(c)' /\ RowTypes(c)'
<1> DEFINE j == builds[c].recorded + 1
<1>1. /\ Moves(c, {"phase", "recorded"}) /\ builds[c].phase = "rows"
      /\ builds'[c].recorded = j
      /\ builds'[c].phase = IF j < builds[c].types THEN "rows"
                            ELSE IF builds[c].kind = "request" THEN "done" ELSE "built"
      /\ rows' = rows \union {RowOf(c, j)}
      /\ UNCHANGED <<repoVars, artifacts>>
  BY InsertRowEffect
<1>2. /\ builds'[c].types = builds[c].types /\ builds'[c].shown = builds[c].shown
      /\ builds'[c].used = builds[c].used /\ builds'[c].written = builds[c].written
      /\ builds'[c].read = builds[c].read
      /\ builds'[c].refs = builds[c].refs /\ DOMAIN builds'[c] = BuildFields
      /\ builds'[c].kind = builds[c].kind /\ builds'[c].bound = builds[c].bound
      /\ builds'[c].snapshot = builds[c].snapshot /\ builds'[c].drift = builds[c].drift
  BY <1>1 DEF Moves, BuildFields
<1>3. /\ builds[c].recorded < builds[c].types /\ builds[c].written = builds[c].types
      /\ builds[c].recorded \in Nat /\ builds[c].types \in Nat
  BY <1>1 DEF InvOf, StageOf, BuildTypes, RowTypes
<1>4. RowTypes(c)'
  BY <1>1, <1>2, <1>3 DEF BuildTypes, RowTypes, repoVars
<1>5. Alive(c) /\ Alive(c)' /\ OrderOf(c)
  BY <1>1 DEF InvOf, Alive
<1>6. /\ Rivals(c)' = Rivals(c) /\ OrderOf(c)'
      /\ \A pack : OwnOrRival(c, pack) => OwnOrRival(c, pack)'
  BY <1>1, <1>5, OwnRivals
<1>7. /\ \A i : EntriesOf(c, i)' = EntriesOf(c, i) /\ Pack(c, i)' = Pack(c, i)
      /\ \A i : RowOf(c, i)' = RowOf(c, i) /\ File(c, i)' = File(c, i)
  BY <1>1, SamePacks
<1>8. /\ builds'[c].phase \in {"rows", "done", "built"}
      /\ builds'[c].phase = "rows" <=> j < builds[c].types
      /\ builds'[c].phase = "built" => builds[c].kind # "request"
      /\ builds'[c].phase = "done" => builds[c].kind = "request"
  BY <1>1
<1>9. StageOf(c)'
  BY <1>1, <1>2, <1>3, <1>8 DEF InvOf, StageOf, Early, Late
<1>10. Opened(c)' = Opened(c)
  BY <1>1, <1>2, <1>8 DEF Opened
<1>11. FilesOf(c)' /\ WholeOf(c)'
  BY <1>1, <1>2, <1>5, <1>6, <1>7, <1>8, <1>10 DEF InvOf, FilesOf, WholeOf
<1>12. j \in 1..j /\ 1..j = 1..builds[c].recorded \union {j}
  BY <1>3
<1>13. RowOf(c, j).build = c /\ RowOf(c, j).type = j
  BY DEF RowOf
<1> HIDE DEF j
<1>14. RowsOf(c)'
  BY <1>1, <1>5, <1>7, <1>12, <1>13 DEF InvOf, RowsOf, Alive
<1>15. PackOf(c)' /\ RefsOf(c)' /\ ShownOf(c)' /\ BudgetOf(c)'
  BY <1>1, <1>2, <1>7, <1>8 DEF InvOf, PackOf, RefsOf, ShownOf, BudgetOf, repoVars
<1> QED BY <1>4, <1>6, <1>9, <1>11, <1>14, <1>15 DEF InvOf


-----------------------------------------------------------------------------
(* The generation run.                                                       *)

\* A pack, a file or a question leaves what the build has made as it is.
LEMMA LateOwn ==
    ASSUME BuildTypes, NEW c \in Builds, InvOf(c), Moves(c, {"phase", "pack", "read", "refs"}),
           builds[c].phase \in {"built", "inspect"}, builds'[c].phase \in Late,
           builds'[c].read \in Seq(Paths), UNCHANGED <<repoVars, artifacts, rows>>
    PROVE  /\ RowTypes(c)' /\ StageOf(c)' /\ OrderOf(c)' /\ FilesOf(c)' /\ WholeOf(c)'
           /\ RowsOf(c)' /\ ShownOf(c)' /\ BudgetOf(c)'
           /\ \A pack : OwnOrRival(c, pack) => OwnOrRival(c, pack)'
           /\ builds'[c].snapshot = builds[c].snapshot
<1>1. /\ builds'[c].types = builds[c].types /\ builds'[c].shown = builds[c].shown
      /\ builds'[c].used = builds[c].used /\ builds'[c].written = builds[c].written
      /\ builds'[c].recorded = builds[c].recorded /\ DOMAIN builds'[c] = BuildFields
      /\ builds'[c].kind = builds[c].kind /\ builds'[c].bound = builds[c].bound
      /\ builds'[c].snapshot = builds[c].snapshot /\ builds'[c].drift = builds[c].drift
  BY DEF Moves, BuildFields
<1>2. RowTypes(c)'
  BY <1>1 DEF BuildTypes, RowTypes, repoVars
<1>3. Alive(c) /\ Alive(c)' /\ OrderOf(c)
  BY DEF InvOf, Alive, Late
<1>4. /\ Rivals(c)' = Rivals(c) /\ OrderOf(c)'
      /\ \A pack : OwnOrRival(c, pack) => OwnOrRival(c, pack)'
  BY <1>3, OwnRivals
<1>5. /\ \A i : EntriesOf(c, i)' = EntriesOf(c, i) /\ Pack(c, i)' = Pack(c, i)
      /\ \A i : RowOf(c, i)' = RowOf(c, i) /\ File(c, i)' = File(c, i)
  BY SamePacks
<1>6. StageOf(c)'
  BY <1>1 DEF InvOf, StageOf, Early, Late
<1>7. Opened(c)' = Opened(c)
  BY <1>1 DEF Opened, Late
<1>8. FilesOf(c)' /\ WholeOf(c)'
  BY <1>1, <1>3, <1>4, <1>5, <1>7 DEF InvOf, FilesOf, WholeOf, Late
<1>9. RowsOf(c)' /\ ShownOf(c)' /\ BudgetOf(c)'
  BY <1>1, <1>3, <1>5 DEF InvOf, RowsOf, ShownOf, BudgetOf, Alive, repoVars
<1> QED BY <1>1, <1>2, <1>4, <1>6, <1>8, <1>9

LEMMA OneMember ==
    ASSUME NEW S, Cardinality(S) = 1, IsFiniteSet(S)
    PROVE  \E x : S = {x}
<1>1. S # {}
  BY FS_EmptySet
<1>2. \A x, y \in S : x = y
  BY NoTwo
<1> QED BY <1>1, <1>2

LEMMA ReadPackOwn ==
    ASSUME BuildTypes, FileTypes, NEW c \in Builds, InvOf(c), ReadPack(c)
    PROVE  InvOf(c)' /\ RowTypes(c)'
<1>1. /\ Moves(c, {"phase", "pack"}) /\ builds[c].phase = "built"
      /\ UNCHANGED <<repoVars, artifacts, rows>>
  BY ReadPackEffect
<1>2. PICK i \in 1..builds[c].types :
         /\ builds'[c].pack = artifacts[File(c, i)]
         /\ builds'[c].phase = IF Cardinality(artifacts[File(c, i)]) = 1
                               THEN "inspect" ELSE "failed"
  BY ReadPackEffect
<1>3. /\ builds'[c].refs = builds[c].refs /\ builds'[c].read = builds[c].read
      /\ builds'[c].kind = builds[c].kind /\ builds'[c].snapshot = builds[c].snapshot
      /\ Moves(c, {"phase", "pack", "read", "refs"})
  BY <1>1 DEF Moves, BuildFields
<1>4. builds'[c].phase \in {"inspect", "failed"}
  BY <1>2
<1>5. /\ RowTypes(c)' /\ StageOf(c)' /\ OrderOf(c)' /\ FilesOf(c)' /\ WholeOf(c)'
      /\ RowsOf(c)' /\ ShownOf(c)' /\ BudgetOf(c)'
      /\ \A pack : OwnOrRival(c, pack) => OwnOrRival(c, pack)'
  <2>1. builds[c].read \in Seq(Paths)
    BY DEF BuildTypes, RowTypes
  <2>2. builds[c].phase \in {"built", "inspect"} /\ builds'[c].phase \in Late
    BY <1>1, <1>4 DEF Late
  <2> QED BY <1>1, <1>3, <2>1, <2>2, LateOwn
<1>6. RefsOf(c)'
  BY <1>3 DEF InvOf, RefsOf
<1>7. PackOf(c)'
  <2>1. SUFFICES ASSUME builds'[c].phase = "inspect"
                 PROVE  \E pack \in builds'[c].pack :
                            /\ builds'[c].pack = {pack}
                            /\ pack.snapshot = builds[c].snapshot /\ pack.type \in TypeNames
                            /\ OwnOrRival(c, pack)
    BY <1>3, <1>4, <1>5 DEF PackOf
  <2>2. Alive(c) /\ builds[c].written = builds[c].types
    BY <1>1 DEF InvOf, StageOf, Alive, Late
  <2>3. i \in Opened(c)
    BY <2>2 DEF Opened
  <2>4. /\ File(c, i) \in DOMAIN artifacts /\ i \in Types
        /\ File(c, i)[1] = builds[c].snapshot /\ File(c, i)[2] = i
    BY <2>2, <2>3, OpenedAreFiles DEF InvOf, File
  <2>5. Cardinality(artifacts[File(c, i)]) = 1
    BY <1>2, <2>1
  <2>6. PICK pack : artifacts[File(c, i)] = {pack}
    BY <2>4, <2>5, OneMember DEF FileTypes
  <2>7. pack.snapshot = builds[c].snapshot /\ pack.type = PackTypes[i]
    BY <2>4, <2>6 DEF FileTypes
  <2>8. PackTypes[i] \in TypeNames
    BY <2>4, PackAssumption DEF Types, TypeNames
  <2>9. OwnOrRival(c, pack)
    BY <2>2, <2>3, <2>6 DEF InvOf, FilesOf
  <2> QED BY <1>2, <2>6, <2>7, <2>8, <2>9
<1> QED BY <1>5, <1>6, <1>7 DEF InvOf

LEMMA ReadFileOwn ==
    ASSUME BuildTypes, NEW c \in Builds, InvOf(c), ReadFile(c)
    PROVE  InvOf(c)' /\ RowTypes(c)'
<1>1. /\ Moves(c, {"read"}) /\ builds[c].phase = "inspect"
      /\ builds'[c].read \in Seq(Paths) /\ UNCHANGED <<repoVars, artifacts, rows>>
  BY ReadFileEffect
<1>2. /\ builds'[c].refs = builds[c].refs /\ builds'[c].pack = builds[c].pack
      /\ builds'[c].phase = "inspect" /\ builds'[c].snapshot = builds[c].snapshot
      /\ Moves(c, {"phase", "pack", "read", "refs"})
  BY <1>1 DEF Moves, BuildFields
<1>3. /\ RowTypes(c)' /\ StageOf(c)' /\ OrderOf(c)' /\ FilesOf(c)' /\ WholeOf(c)'
      /\ RowsOf(c)' /\ ShownOf(c)' /\ BudgetOf(c)'
      /\ \A pack : OwnOrRival(c, pack) => OwnOrRival(c, pack)'
  <2>1. builds[c].phase \in {"built", "inspect"} /\ builds'[c].phase \in Late
    BY <1>1, <1>2 DEF Late
  <2> QED BY <1>1, <1>2, <2>1, LateOwn
<1>4. PackOf(c)' /\ RefsOf(c)'
  BY <1>1, <1>2, <1>3 DEF InvOf, PackOf, RefsOf
<1> QED BY <1>3, <1>4 DEF InvOf

\* The references that are stored are those the pack offers.
LEMMA AcceptOwn ==
    ASSUME BuildTypes, NEW c \in Builds, InvOf(c), Accept(c)
    PROVE  InvOf(c)' /\ RowTypes(c)'
<1> DEFINE offers == Offers(PackRead(c), builds[c].read)
<1>1. /\ Moves(c, {"phase", "refs"}) /\ builds[c].phase = "inspect"
      /\ builds'[c].phase = "done" /\ UNCHANGED <<repoVars, artifacts, rows>>
  BY AcceptEffect
<1>2. PICK refs : /\ \A ref \in refs : Accepted(ref, Available(offers))
                  /\ builds'[c].refs = {Enriched(ref, Available(offers)) : ref \in refs}
  BY AcceptEffect
<1>3. /\ builds'[c].pack = builds[c].pack /\ builds'[c].read = builds[c].read
      /\ builds'[c].snapshot = builds[c].snapshot
      /\ Moves(c, {"phase", "pack", "read", "refs"})
  BY <1>1 DEF Moves, BuildFields
<1>4. builds[c].read \in Seq(Paths)
  BY DEF BuildTypes, RowTypes
<1>5. /\ RowTypes(c)' /\ StageOf(c)' /\ OrderOf(c)' /\ FilesOf(c)' /\ WholeOf(c)'
      /\ RowsOf(c)' /\ ShownOf(c)' /\ BudgetOf(c)'
      /\ \A pack : OwnOrRival(c, pack) => OwnOrRival(c, pack)'
  <2>1. builds[c].phase \in {"built", "inspect"} /\ builds'[c].phase \in Late
    BY <1>1 DEF Late
  <2> QED BY <1>1, <1>3, <1>4, <2>1, LateOwn
<1>6. PICK pack : /\ builds[c].pack = {pack} /\ pack.snapshot = builds[c].snapshot
                  /\ pack.type \in TypeNames /\ OwnOrRival(c, pack)
  BY <1>1 DEF InvOf, PackOf
<1>7. PackOf(c)'
  BY <1>3, <1>5, <1>6 DEF PackOf
<1>8. RefsOf(c)'
  <2>1. PackRead(c) = pack
    BY <1>6 DEF PackRead
  <2>2. \A i \in DOMAIN offers : Sound(offers[i], builds[c].snapshot)
    BY <1>4, <1>6, <2>1, OffersAreSound
  <2>3. PICK N \in Nat : DOMAIN offers = 1..N
    BY <1>4, <1>6, <2>1, OffersAreSound
  <2> HIDE DEF offers
  <2>4. \A ref \in refs :
           LET stored == Enriched(ref, Available(offers)) IN
           stored.type = "code" /\ stored.hash # NoHash =>
               stored.hash = Version(stored.uri[2], builds[c].snapshot)
    BY <1>2, <2>2, <2>3, EvidenceIsSound
  <2> QED BY <1>2, <1>3, <2>4 DEF RefsOf
<1> QED BY <1>5, <1>7, <1>8 DEF InvOf

-----------------------------------------------------------------------------
(* The invariant holds at all times.                                         *)

\* Who writes to a file writes a pack of its snapshot and type.
LEMMA FilesKeep ==
    ASSUME BuildTypes, FileTypes, NEW c \in Builds, Build(c)
    PROVE  FileTypes'
<1>1. CASE Truncate(c)
  <2> DEFINE file == File(c, builds[c].written + 1)
  <2>1. artifacts' = [artifacts EXCEPT ![file] = {}]
    BY <1>1, TruncateEffect
  <2>2. \A at \in DOMAIN artifacts' : at \in DOMAIN artifacts
                                     /\ artifacts'[at] \in {artifacts[at], {}}
    BY <2>1
  <2>3. IsFiniteSet({})
    BY FS_EmptySet
  <2> QED BY <2>2, <2>3 DEF FileTypes
<1>2. CASE Fill(c)
  <2> DEFINE i == builds[c].written + 1
             file == File(c, i)
  <2>1. PICK beyond \in SUBSET artifacts[file] :
            artifacts' = [artifacts EXCEPT ![file] = {Pack(c, i)} \union beyond]
    BY <1>2, FillEffect
  <2>2. /\ Pack(c, i).snapshot = file[1] /\ Pack(c, i).type = PackTypes[file[2]]
    BY DEF Pack, File
  <2> HIDE DEF i, file
  <2>3. SUFFICES ASSUME NEW at \in DOMAIN artifacts
                 PROVE  /\ IsFiniteSet(artifacts'[at])
                        /\ \A pack \in artifacts'[at] :
                               pack.snapshot = at[1] /\ pack.type = PackTypes[at[2]]
    BY <2>1 DEF FileTypes
  <2>4. /\ IsFiniteSet(artifacts[at])
        /\ \A pack \in artifacts[at] : pack.snapshot = at[1] /\ pack.type = PackTypes[at[2]]
    BY DEF FileTypes
  <2>5. CASE at = file
    <3>1. artifacts'[at] = {Pack(c, i)} \union beyond /\ beyond \subseteq artifacts[at]
      BY <2>1, <2>5
    <3>2. IsFiniteSet({Pack(c, i)}) /\ IsFiniteSet(beyond)
      BY <2>4, <3>1, FS_Singleton, FS_Subset
    <3>3. IsFiniteSet({Pack(c, i)} \union beyond)
      BY <3>2, FS_Union
    <3> QED BY <2>2, <2>4, <2>5, <3>1, <3>3
  <2>6. CASE at # file
    BY <2>1, <2>4, <2>6
  <2> QED BY <2>5, <2>6
<1>3. CASE ~Truncate(c) /\ ~Fill(c)
  <2>1. artifacts' = artifacts
    BY <1>3 DEF Build, Start, ReadProfile, ReadDrift, ReadGuidance, ReadExcerpt,
                InsertRow, ReadPack, ReadFile, Accept, Crash
  <2> QED BY <2>1 DEF FileTypes
<1> QED BY <1>1, <1>2, <1>3

LEMMA BuildKeeps ==
    ASSUME BuildInv, NEW c \in Builds, Build(c)
    PROVE  BuildInv'
<1> USE DEF BuildInv
<1>1. StepOf(c)
  BY BuildIsStep
<1>2. InvOf(c)' /\ RowTypes(c)'
  <2>1. CASE Start(c)
    BY <2>1, StartOwn
  <2>2. CASE ReadProfile(c) \/ ReadDrift(c) \/ ReadGuidance(c)
    BY <2>2, EarlyOwn
  <2>3. CASE ReadExcerpt(c)
    BY <2>3, ExcerptOwn
  <2>4. CASE Truncate(c)
    BY <2>4, TruncateOwn
  <2>5. CASE Fill(c)
    BY <2>5, FillOwn
  <2>6. CASE InsertRow(c)
    BY <2>6, InsertRowOwn
  <2>7. CASE ReadPack(c)
    BY <2>7, ReadPackOwn
  <2>8. CASE ReadFile(c)
    BY <2>8, ReadFileOwn
  <2>9. CASE Accept(c)
    BY <2>9, AcceptOwn
  <2>10. CASE Crash(c)
    BY <2>10, CrashOwn
  <2> QED BY <2>1, <2>2, <2>3, <2>4, <2>5, <2>6, <2>7, <2>8, <2>9, <2>10 DEF Build
<1>3. \A b \in Builds \ {c} : InvOf(b)'
  BY <1>1, OthersKeep
<1>4. BuildTypes'
  BY <1>1, <1>2 DEF BuildTypes, RowTypes, StepOf, repoVars
<1>5. FileTypes'
  BY FilesKeep
<1> QED BY <1>2, <1>3, <1>4, <1>5


\* What an ingestion may do to its tables.
Ingested ==
    /\ checkout' \in 1..MaxCommit /\ snapshots' \in 1..checkout'
    /\ drifts' \in 1..snapshots' /\ guided' \in 1..drifts'
    /\ snapshots <= snapshots'
    /\ checkout' # checkout => snapshots < checkout'

\* It only moves the checkout on, away from the snapshot of any build.
LEMMA IngestedKeeps ==
    ASSUME BuildInv, UNCHANGED <<artifacts, rows, builds>>, Ingested
    PROVE  BuildInv'
<1>1. UNCHANGED <<artifacts, rows, builds>>
  OBVIOUS
<1>2. /\ checkout' \in 1..MaxCommit /\ snapshots' \in 1..checkout'
      /\ drifts' \in 1..snapshots' /\ guided' \in 1..drifts'
      /\ snapshots <= snapshots'
      /\ checkout' # checkout => snapshots < checkout'
  BY DEF Ingested
<1>3. BuildTypes'
  BY <1>1, <1>2 DEF BuildInv, BuildTypes, RowTypes
<1>4. FileTypes'
  BY <1>1 DEF BuildInv, FileTypes
<1>5. ASSUME NEW b \in Builds PROVE InvOf(b)'
  <2>1. builds'[b] = builds[b]
    BY <1>1
  <2>2. /\ Pending(b)' = Pending(b) /\ Opened(b)' = Opened(b) /\ Alive(b)' = Alive(b)
        /\ \A i : EntriesOf(b, i)' = EntriesOf(b, i) /\ Pack(b, i)' = Pack(b, i)
        /\ \A i : RowOf(b, i)' = RowOf(b, i) /\ File(b, i)' = File(b, i)
    BY <2>1, SameRow
  <2>3. Rivals(b)' = Rivals(b) /\ \A pack : OwnOrRival(b, pack)' <=> OwnOrRival(b, pack)
    BY <1>1 DEF Rivals, OwnOrRival, FromRival
  <2>4. StageOf(b)' /\ OrderOf(b)' /\ FilesOf(b)' /\ WholeOf(b)' /\ RowsOf(b)' /\ PackOf(b)'
    BY <1>1, <2>1, <2>2, <2>3
       DEF BuildInv, InvOf, StageOf, OrderOf, Over, FilesOf, WholeOf, RowsOf, PackOf
  <2>5. RefsOf(b)' /\ BudgetOf(b)'
    BY <2>1 DEF BuildInv, InvOf, RefsOf, BudgetOf
  <2>6. ShownOf(b)'
    <3>1. builds[b].snapshot \in 0..snapshots
      BY DEF BuildInv, BuildTypes, RowTypes
    <3>2. CASE checkout' = checkout
      BY <2>1, <2>2, <3>2 DEF BuildInv, InvOf, ShownOf
    <3>3. CASE checkout' # checkout
      <4>1. checkout' # builds'[b].snapshot
        BY <1>2, <2>1, <3>1, <3>3 DEF BuildInv, BuildTypes
      <4> QED BY <4>1 DEF ShownOf
    <3> QED BY <3>2, <3>3
  <2> QED BY <2>4, <2>5, <2>6 DEF InvOf
<1> QED BY <1>3, <1>4, <1>5 DEF BuildInv

LEMMA IngestKeeps ==
    ASSUME BuildInv, Ingest \/ UNCHANGED repoVars, UNCHANGED <<artifacts, rows, builds>>
    PROVE  BuildInv'
<1>1. Ingested
  BY PackAssumption DEF BuildInv, BuildTypes, Ingest, CheckOut, RecordSnapshot, RecordDrift,
     ReplaceGuidance, Ingested, repoVars
<1> QED BY <1>1, IngestedKeeps

LEMMA InitBuildInv == Init => BuildInv
<1> SUFFICES ASSUME Init PROVE BuildInv
  OBVIOUS
<1>1. PICK load \in Loads :
          builds = [b \in Builds |-> [NoBuild EXCEPT !.types = load.types,
                        !.phase = IF b <= load.builds THEN "idle" ELSE "dead"]]
  BY DEF Init
<1>2. /\ checkout = 1 /\ snapshots = 1 /\ drifts = 1 /\ guided = 1
      /\ artifacts = [at \in (1..MaxCommit) \X Types |-> {}] /\ rows = {}
  BY DEF Init
<1>3. load.types \in 1..Len(PackTypes)
  BY LoadAssumption
<1>4. ASSUME NEW b \in Builds
      PROVE  /\ DOMAIN builds[b] = BuildFields
             /\ builds[b].types = load.types /\ builds[b].phase \in {"idle", "dead"}
             /\ builds[b].kind = "none" /\ builds[b].snapshot = 0
             /\ builds[b].shown = [i \in Types |-> << >>]
             /\ builds[b].used = [i \in Types |-> 0]
             /\ builds[b].written = 0 /\ builds[b].recorded = 0
             /\ builds[b].read = << >> /\ builds[b].refs = {}
  BY <1>1 DEF NoBuild, BuildFields
<1>5. MaxCommit \in Nat \ {0} /\ Len(PackTypes) \in Nat /\ Limits.pack \in Nat
  BY PackAssumption, ContentsAssumption
<1>6. ASSUME NEW b \in Builds PROVE RowTypes(b)
  <2>1. [i \in Types |-> << >>] \in [Types -> Seq(Hashes)]
    OBVIOUS
  <2>2. [i \in Types |-> 0] \in [Types -> Nat]
    OBVIOUS
  <2>3. load.types \in Nat /\ << >> \in Seq(Paths)
    BY <1>3, <1>5
  <2>4. DOMAIN builds[b] = BuildFields /\ builds[b].types \in 1..Len(PackTypes)
    BY <1>3, <1>4
  <2>5. builds[b].shown \in [Types -> Seq(Hashes)] /\ builds[b].used \in [Types -> Nat]
    BY <1>4, <2>1, <2>2
  <2>6. /\ builds[b].snapshot \in 0..snapshots
        /\ builds[b].written \in 0..builds[b].types
        /\ builds[b].recorded \in 0..builds[b].types
    BY <1>2, <1>4, <2>3
  <2>7. builds[b].read \in Seq(Paths)
    BY <1>4, <2>3
  <2> QED BY <2>4, <2>5, <2>6, <2>7, Zenon DEF RowTypes
<1>7. BuildTypes
  <2>1. DOMAIN artifacts = (1..MaxCommit) \X Types
    BY <1>2
  <2>2. DOMAIN builds = Builds
    BY <1>1
  <2> QED BY <1>2, <1>5, <1>6, <2>1, <2>2 DEF BuildTypes
<1>8. FileTypes
  BY <1>2, FS_EmptySet DEF FileTypes
<1>9. ASSUME NEW b \in Builds PROVE InvOf(b)
  <2>1. StageOf(b)
    BY <1>4 DEF StageOf, Early, Late
  <2>2. ~Alive(b)
    BY <1>4 DEF Alive
  <2>3. OrderOf(b) /\ FilesOf(b) /\ WholeOf(b) /\ RowsOf(b)
    BY <1>2, <2>2 DEF OrderOf, FilesOf, WholeOf, RowsOf
  <2>4. PackOf(b) /\ RefsOf(b) /\ ShownOf(b)
    BY <1>2, <1>4 DEF PackOf, RefsOf, ShownOf
  <2>5. BudgetOf(b)
    BY <1>4, <1>5 DEF BudgetOf
  <2> QED BY <2>1, <2>3, <2>4, <2>5 DEF InvOf
<1> QED BY <1>7, <1>8, <1>9 DEF BuildInv

LEMMA NextBuildInv == BuildInv /\ [Next]_vars => BuildInv'
<1> SUFFICES ASSUME BuildInv, [Next]_vars PROVE BuildInv'
  OBVIOUS
<1>1. CASE Ingest
  BY <1>1, IngestKeeps DEF Ingest
<1>2. CASE \E r \in Requests : Request(r)
  BY <1>2, IngestKeeps DEF Request
<1>3. CASE \E b \in Builds : Build(b)
  BY <1>3, BuildKeeps
<1>4. CASE UNCHANGED vars
  BY <1>4, IngestKeeps DEF vars
<1> QED BY <1>1, <1>2, <1>3, <1>4 DEF Next

\* For any repository, packs, ingestions, profiles and builds: the invariant of the
\* builds holds at all times.
THEOREM BuildsHold == Spec => []BuildInv
<1>1. Init => BuildInv
  BY InitBuildInv
<1>2. BuildInv /\ [Next]_vars => BuildInv'
  BY NextBuildInv
<1> QED BY <1>1, <1>2, PTL DEF Spec

-----------------------------------------------------------------------------
(* The theorems.                                                             *)

\* What the invariant says of the rows and the file of each type: one row, the
\* build's own, with the hash of what the file holds.
LEMMA InvIsWhole == BuildInv => LastBuildIsWhole
<1> SUFFICES ASSUME BuildInv, NEW b \in Builds, builds[b].recorded = builds[b].types,
                    Rivals(b) = {}, NEW i \in 1..builds[b].types
             PROVE  \E row \in rows :
                        /\ {r \in rows : r.build = b /\ r.type = i} = {row}
                        /\ artifacts[File(b, i)] = {row.hash}
                        /\ row.profile = row.hash.profile
  BY DEF LastBuildIsWhole
<1>1. InvOf(b) /\ RowTypes(b)
  BY DEF BuildInv, BuildTypes
<1>2. builds[b].recorded >= 1 /\ builds[b].recorded \in Nat
  BY <1>1 DEF RowTypes
<1>3. Alive(b) /\ builds[b].written = builds[b].types
  BY <1>1, <1>2 DEF InvOf, StageOf, Alive, Early, Late
<1>4. RowOf(b, i) \in rows /\ artifacts[File(b, i)] = {Pack(b, i)}
  BY <1>1, <1>3 DEF InvOf, RowsOf, WholeOf
<1>5. /\ RowOf(b, i).build = b /\ RowOf(b, i).type = i /\ RowOf(b, i).hash = Pack(b, i)
      /\ RowOf(b, i).profile = Pack(b, i).profile
  BY DEF RowOf, Pack
<1>6. \A row \in rows : row.build = b /\ row.type = i => row = RowOf(b, i)
  BY <1>1, <1>3 DEF InvOf, RowsOf
<1> QED BY <1>4, <1>5, <1>6

LEMMA InvIsBound == BuildInv => BoundToJob
<1> SUFFICES ASSUME BuildInv, NEW b \in Builds, builds[b].phase = "done",
                    builds[b].kind = "scheduled"
             PROVE  /\ PackRead(b).snapshot = builds[b].snapshot
                    /\ PackRead(b).drift # builds[b].bound =>
                           \E c \in Rivals(b) : builds[c].drift = PackRead(b).drift
  BY DEF BoundToJob
<1>1. InvOf(b)
  BY DEF BuildInv
<1>2. PICK pack : /\ builds[b].pack = {pack} /\ pack.snapshot = builds[b].snapshot
                  /\ OwnOrRival(b, pack)
  BY <1>1 DEF InvOf, PackOf
<1>3. PackRead(b) = pack
  BY <1>2 DEF PackRead
<1>4. builds[b].drift = builds[b].bound
  BY <1>1 DEF InvOf, StageOf
<1> QED BY <1>2, <1>3, <1>4 DEF OwnOrRival, FromRival

LEMMA InvIsOfSnapshot == BuildInv => EvidenceIsOfSnapshot
BY DEF BuildInv, InvOf, RefsOf, ShownOf, EvidenceIsOfSnapshot

LEMMA InvIsWithinBudget == BuildInv => WithinBudget
BY DEF BuildInv, InvOf, BudgetOf, WithinBudget

\* For any files, limits, ingestions and profiles: a build that no other build of
\* its snapshot met or followed leaves one row for each type, whose hash is that of
\* the file and whose profile is the one the file names.
THEOREM LastBuildsAreWhole == Spec => []LastBuildIsWhole
BY BuildsHold, InvIsWhole, PTL

\* A question of a scheduled job comes from a pack of the job's snapshot, and of
\* the job's drift unless another build of that snapshot wrote it.
THEOREM QuestionsAreBound == Spec => []BoundToJob
BY BuildsHold, InvIsBound, PTL

\* No pack exceeds its budget by more than redaction adds to one excerpt.
THEOREM PacksFitBudget == Spec => []WithinBudget
BY BuildsHold, InvIsWithinBudget, PTL

\* A stored reference to code with a hash has the hash of the job's snapshot, and
\* texts are those of the snapshot until the checkout moves on.
THEOREM EvidenceStaysOfSnapshot == Spec => []EvidenceIsOfSnapshot
BY BuildsHold, InvIsOfSnapshot, PTL
===============================================================================
