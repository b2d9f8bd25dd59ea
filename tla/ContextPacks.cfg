SPECIFICATION Spec
CONSTANTS
    ProfileIds = {1, 2}
    Requests = {1, 2}
    NoHash = 0
    Listing <- MCListing
    Content <- MCContent
    Kind <- MCKind
    Size <- MCSize
    Utf8 <- MCUtf8
    Decoded <- MCDecoded
    Redacted <- MCRedacted
    Limits <- MCLimits
    PackTypes <- MCPackTypes
    MaxCommit = 2
    MaxBuilds = 2
    Loads <- MCLoads
    Citations <- MCCitations
CHECK_DEADLOCK FALSE
INVARIANTS OneActiveProfile LastBuildIsWhole BoundToJob WithinBudget EvidenceIsOfSnapshot
