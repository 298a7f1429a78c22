\* One email with two attachments, a cumulative cull, one stop.
SPECIFICATION Spec
CONSTANTS
    m1 = m1  l1 = l1  l2 = l2
    NoKey = NoKey
    NE = 1
    NI = 3
    ParentOf <- OneFamily
    MaxStops = 1
    Mids = {m1}
    Logicals = {l1}
    DedupeInputs <- AllKeyings
    UseMessageId = TRUE
    UseLogicalHash = TRUE
    SuppressChildren = TRUE
    DedupeBatch = 1
    Digest <- NoDigest
    NameSize <- NoDigest
    RuleHits <- ChildrenHit
    ExcludeDuplicates = TRUE
    ProcessAttachments = TRUE
    CullFamilyPolicy = "keep_children"
    CullReset = FALSE
    CullBatch = 1
    PromotePolicy = "auto"
    ExpandFamilies = TRUE
    PromoteBatch = 2
CHECK_DEADLOCK FALSE
INVARIANT CullMatchesPolicy
