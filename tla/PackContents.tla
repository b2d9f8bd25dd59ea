---------------------------- MODULE PackContents ----------------------------
(* What the packs of a snapshot are made of: the files and the guidance of    *)
(* each type of pack, the excerpt of each, within a budget of bytes, and the  *)
(* references a question may cite.  Snapshot n is of commit n, the drift of   *)
(* snapshot n leads from n - 1 to n.                                          *)
EXTENDS Evidence, FiniteSets

CONSTANTS
    Listing,    \* the paths, in the order of a manifest
    Content,    \* path -> commit -> version of the file, NoHash if there is none
    Kind,       \* path -> code, config, readme, agents, design, unsafe or binary
    Size,       \* path -> bytes
    Utf8,       \* the paths whose bytes are valid UTF-8
    Decoded,    \* path -> n -> bytes of the text its first n bytes decode to
    Redacted,   \* path -> n -> bytes that redaction adds to that text, or takes
    Limits      \* bytes: pack, code, guidance; files: changed, files, guides, low, future, pr, some

Paths == DOMAIN Content

ASSUME ContentsAssumption ==
    /\ Listing \in Seq(Paths)
    /\ Size \in [Paths -> Nat]
    /\ \A limit \in {"pack", "code", "guidance", "changed", "files", "guides",
                     "low", "future", "pr", "some"} : Limits[limit] \in Nat

Front(seq, n) == SubSeq(seq, 1, IF Len(seq) < n THEN Len(seq) ELSE n)
Lesser(x, y) == IF x < y THEN x ELSE y
Among(p, seq) == \E i \in DOMAIN seq : seq[i] = p

\* The members of "seq" that are in S, in their order.
Kept(seq, S) ==
    LET places == {i \in DOMAIN seq : seq[i] \in S}
    IN [k \in 1..Cardinality(places) |->
            seq[CHOOSE i \in places : Cardinality({j \in places : j <= i}) = k]]

Version(p, n) == Content[p][n]
Here(p, n) == Version(p, n) # NoHash

-----------------------------------------------------------------------------
(* The files of a pack.                                                      *)

OfKind(kinds) == {p \in Paths : Kind[p] \in kinds}

Files(n) == Kept(Listing, {p \in Paths : Here(p, n)})

\* The changed files a drift lists; a baseline has none.
Changed(d) ==
    IF d <= 1 THEN << >>
    ELSE Front(Kept(Listing, {p \in Paths : Version(p, d) # Version(p, d - 1)}), Limits.changed)

ChangedAnd(kinds, n, d) ==
    Changed(d) \o Kept(Files(n), {p \in OfKind(kinds) : ~Among(p, Changed(d))})

Risky(d) == Kept(Changed(d), {p \in Paths : ~Here(p, d)} \union OfKind({"config"}))

FilesFor(type, n, d) ==
    CASE type = "high_level_design" -> ChangedAnd({"config", "readme", "design"}, n, d)
      [] type = "design_decisions" -> ChangedAnd({"agents", "readme", "design"}, n, d)
      [] type = "low_level_components" ->
             IF Changed(d) # << >> THEN Changed(d) ELSE Front(Files(n), Limits.low)
      [] type = "future_improvements" ->
             IF Risky(d) # << >> THEN Risky(d) ELSE Front(Files(n), Limits.future)
      [] type = "active_pr" -> Front(Changed(d), Limits.pr)

GuidanceFor(type, g) ==
    LET Of(kinds) == Kept(Files(g), OfKind(kinds)) IN
    CASE type = "high_level_design" -> Of({"readme", "design"})
      [] type = "design_decisions" -> Of({"agents", "design"})
      [] OTHER -> Front(Of({"readme", "agents", "design"}), Limits.some)

Entry(type, p, n) == [type |-> type, path |-> p, hash |-> Version(p, n)]

\* Mutant: the hashes of the drift's commit.
EntriesOfDrift(type, n, d, g) ==
    LET files == Front(FilesFor(type, n, d), Limits.files)
        guides == Front(GuidanceFor(type, g), Limits.guides)
    IN [i \in DOMAIN files |-> Entry("code", files[i], d)]
       \o [i \in DOMAIN guides |-> Entry("guidance", guides[i], g)]

\* The files of a pack with their hashes in the snapshot, then its guidance with
\* the hashes of the guidance table.
Entries(type, n, d, g) ==
    LET files == Front(FilesFor(type, n, d), Limits.files)
        guides == Front(GuidanceFor(type, g), Limits.guides)
    IN [i \in DOMAIN files |-> Entry("code", files[i], n)]
       \o [i \in DOMAIN guides |-> Entry("guidance", guides[i], g)]

-----------------------------------------------------------------------------
(* Excerpts.                                                                 *)

Remaining(used) == IF used < Limits.pack THEN Limits.pack - used ELSE 0

\* Mutant: the limit of one excerpt alone.
ByteLimitAlone(type, used) == IF type = "code" THEN Limits.code ELSE Limits.guidance

ByteLimit(type, used) ==
    Lesser(IF type = "code" THEN Limits.code ELSE Limits.guidance, Remaining(used))

\* The text is that of the checkout at the time, whatever the snapshot.
Omitted(entry, now, used) ==
    \/ Kind[entry.path] \in {"unsafe", "binary"}
    \/ Remaining(used) = 0
    \/ ~Here(entry.path, now)

\* Decoding replaces what is no character, a character that the cut leaves
\* incomplete among it, by one of three bytes.
ASSUME DecodeAssumption ==
    \A p \in Paths : \A n \in 0..Size[p] :
        /\ Decoded[p][n] \in n..(IF p \in Utf8 THEN Lesser(3 * n, n + 2) ELSE 3 * n)
        /\ Redacted[p][n] \in Int /\ Decoded[p][n] + Redacted[p][n] >= 0

\* The bytes are cut, then decoded, then credential-looking lines are replaced,
\* and what comes of that is counted.
Text(entry, used) ==
    LET n == Lesser(Size[entry.path], ByteLimit(entry.type, used))
    IN Decoded[entry.path][n] + Redacted[entry.path][n]

\* How much longer than n bytes the text of n bytes may be: the rest of a cut
\* character in a file of UTF-8, three bytes for one elsewhere; and redaction.
Excess(p, n) == (IF p \in Utf8 THEN 2 ELSE 2 * n) + Redacted[p][n]

\* A tool reads a file of the snapshot, from the checkout.
Readable(p, n, now) ==
    Here(p, n) /\ Kind[p] \notin {"unsafe", "binary"} /\ Here(p, now)

-----------------------------------------------------------------------------
(* References.                                                               *)

Offer(type, source, hash) == [uri |-> <<type, source>>, type |-> type, hash |-> hash]

\* The references of a pack, and those of the files tools have read.
Offers(pack, read) ==
    LET entries == Entries(pack.type, pack.snapshot, pack.drift, pack.guided)
    IN [i \in DOMAIN entries |-> Offer(entries[i].type, entries[i].path, entries[i].hash)]
       \o (IF pack.drift = 0 THEN << >> ELSE <<Offer("drift", pack.drift, NoHash)>>)
       \o (IF pack.profile = 0 THEN << >>
           ELSE <<Offer("attention_profile", pack.profile, NoHash)>>)
       \o [i \in DOMAIN read |-> Offer("code", read[i], Version(read[i], pack.snapshot))]
=============================================================================
