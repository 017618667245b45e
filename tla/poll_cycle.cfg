\* one session and one port; two changes among theirs, its cable's and its peer's; one fault
CONSTANTS
    s1 = s1
    p1 = p1
    Session = {s1}
    Port = {p1}
    SessionState = {"Established", "Idle"}
    Verdict = {"immediate"}
    Rx = {"good", "dark"}
    Change = {"neighbor_removed"}
    Unknown = "unknown"
    NoItem = NoItem
    Snapshot <- MCSnapshot
    Height <- MCHeight
    MaxLines = 11
    MaxChanges = 2
    MaxFaults = 1
SPECIFICATION FairSpec
INVARIANTS
    TypeOK
    NothingSkipped
    
    BannerFits
    BannerTellsWorst
PROPERTIES
    ChangesReported
