-------------------------- MODULE AttentionProfiles --------------------------
(* The attention profiles of a repository and the requests that create and    *)
(* activate them.  A partial unique index allows one active profile; it is    *)
(* checked row by row, in the order in which the session writes the rows,     *)
(* that of their primary keys.  A request reads in one step and writes and    *)
(* commits in another.                                                        *)
EXTENDS Integers, FiniteSets

CONSTANTS
    ProfileIds,     \* primary keys
    Requests        \* bound: the requests of a behaviour

ASSUME ProfileAssumption == ProfileIds \subseteq Nat

VARIABLES
    profiles,   \* the profiles there are
    active,     \* those whose "active" is true
    requests    \* request -> kind, profile, rows it saw active, status

profileVars == <<profiles, active, requests>>

Quiet == [kind |-> "none", profile |-> 0, saw |-> {}, status |-> "new"]

\* The behaviour has the requests of "some", and starts with some of "stored".
ProfileInit(stored, some) ==
    /\ profiles \in SUBSET stored
    /\ active \in {s \in SUBSET profiles : Cardinality(s) <= 1}
    /\ requests = [r \in Requests |-> IF r \in some THEN Quiet ELSE [Quiet EXCEPT !.status = "none"]]

\* The rows a request may see active are the committed ones.
Open(r, kind, profile) ==
    /\ requests[r].status = "new"
    /\ requests' = [requests EXCEPT ![r] =
           [kind |-> kind, profile |-> profile, saw |-> active, status |-> "open"]]
    /\ UNCHANGED <<profiles, active>>

OpenCreate(r) ==
    \E profile \in ProfileIds \ profiles, kind \in {"create", "create active"} :
        /\ \A s \in Requests : requests[s].profile # profile
        /\ Open(r, kind, profile)

OpenActivate(r) == \E profile \in profiles : Open(r, "activate", profile)

Close(r, status) == requests' = [requests EXCEPT ![r].status = status]

\* Active rows the request has not deactivated when it writes its own.
InTheWay(r) ==
    LET mine == requests[r] IN
    IF mine.kind = "create active" THEN active \ mine.saw
    ELSE {p \in active \ {mine.profile} : p \notin mine.saw \/ p > mine.profile}

\* Mutant: no unique index.
WriteUnchecked(r) ==
    /\ requests[r].status = "open" /\ requests[r].kind # "create"
    /\ profiles' = profiles \union {requests[r].profile}
    /\ active' = (active \ requests[r].saw) \union {requests[r].profile}
    /\ Close(r, "done")

\* A row that is already active is not written.
Write(r) ==
    /\ requests[r].status = "open" /\ requests[r].kind # "create"
    /\ profiles' = profiles \union {requests[r].profile}
    /\ \/ /\ requests[r].profile \in requests[r].saw
          /\ UNCHANGED active
          /\ Close(r, "done")
       \/ /\ requests[r].profile \notin requests[r].saw /\ InTheWay(r) = {}
          /\ active' = (active \ requests[r].saw) \union {requests[r].profile}
          /\ Close(r, "done")

\* The index refuses the row, and the transaction is rolled back.
WriteFails(r) ==
    /\ requests[r].status = "open" /\ requests[r].kind # "create"
    /\ requests[r].profile \notin requests[r].saw /\ InTheWay(r) # {}
    /\ Close(r, "failed")
    /\ UNCHANGED <<profiles, active>>

WriteInactive(r) ==
    /\ requests[r].status = "open" /\ requests[r].kind = "create"
    /\ profiles' = profiles \union {requests[r].profile}
    /\ Close(r, "done")
    /\ UNCHANGED active

ProfileStep(r) ==
    OpenCreate(r) \/ OpenActivate(r) \/ Write(r) \/ WriteFails(r) \/ WriteInactive(r)

-----------------------------------------------------------------------------
\* However requests overlap, no two profiles are active, and once a request has
\* made one active there is always one: nobody's deactivation is left alone.
OneActiveProfile ==
    /\ Cardinality(active) <= 1
    /\ (\E r \in Requests : requests[r].status = "done" /\ requests[r].kind # "create")
           => active # {}
=============================================================================
