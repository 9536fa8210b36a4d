\* Two secrets, two identities: every option at both ends, every damage.
SPECIFICATION ResolutionSpec
CONSTANTS
    Secrets = {s1, s2}
    Identities = {alice, bob}
    Empty = Empty
    Fresh = Fresh
    MaxRecipients = 2
    None = None
INVARIANTS ResolutionTypeOK SameOptionsReopen SitesAgree
           FingerprintIsOnlyAHint OpenedAsIssued
CHECK_DEADLOCK FALSE
