------------------------------- MODULE Evidence -------------------------------
(* The check of the references a generated question cites against those its   *)
(* context pack offers.  A reference names a source (uri), the type of the    *)
(* source and the hash of its content, which may be missing.                  *)
EXTENDS Integers, Sequences

CONSTANT NoHash

Earliest(places) == CHOOSE i \in places : \A j \in places : i <= j

\* collect_available_evidence_refs: the first offer of a source fixes its type,
\* the first hash offered for it is its hash.
Available(offers) ==
    [u \in {offers[i].uri : i \in DOMAIN offers} |->
        LET mine == {i \in DOMAIN offers : offers[i].uri = u}
            hashed == {i \in mine : offers[i].hash # NoHash}
        IN [type |-> offers[Earliest(mine)].type,
            hash |-> IF hashed = {} THEN NoHash ELSE offers[Earliest(hashed)].hash]]

\* A cited reference with no issue.
Accepted(ref, available) ==
    /\ ref.uri \in DOMAIN available
    /\ ref.type = available[ref.uri].type
    /\ ref.hash \in {NoHash, available[ref.uri].hash}

\* Something must be cited if there is something to cite; nothing rejected.
Verified(refs, available) ==
    /\ DOMAIN available # {} => refs # {}
    /\ \A ref \in refs : Accepted(ref, available)

\* _enrich_evidence_ref
Enriched(ref, available) ==
    [uri |-> ref.uri, type |-> available[ref.uri].type,
     hash |-> IF available[ref.uri].hash = NoHash THEN ref.hash ELSE available[ref.uri].hash]
=============================================================================
