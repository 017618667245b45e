\* one finding, two neighbours, a call that fails or outlives its deadline, one crash
CONSTANTS
    FindingSeverity = {"warning"}
    Link = {1, 2}
    None = None
    MaxFindings = 1
    MaxLate = 1
    MaxFailed = 1
    MaxCrashes = 1
SPECIFICATION FairSpec
INVARIANTS
    TypeOK
    SevereHasFindings
PROPERTIES
    KnownStaysKnown
    TableConverges
    FragmentRefreshed
