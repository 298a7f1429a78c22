\* Three emails, four attachments, any keying, two stops anywhere.
SPECIFICATION Spec
CONSTANTS
    m1 = m1  l1 = l1  l2 = l2
    NoKey = NoKey
    NE = 3
    NI = 7
    ParentOf <- NestedFamily
    MaxStops = 2
    Mids = {m1}
    Logicals = {l1, l2}
    DedupeInputs <- AllKeyings
    UseMessageId = TRUE
    UseLogicalHash = TRUE
    SuppressChildren = TRUE
    DedupeBatch = 2
    Digest <- FamilyDigest
    NameSize <- FamilyNames
    RuleHits <- SomeHits
    ExcludeDuplicates = TRUE
    ProcessAttachments = TRUE
    CullFamilyPolicy = "keep_children"
    CullReset = TRUE
    CullBatch = 3
    PromotePolicy = "auto"
    ExpandFamilies = TRUE
    PromoteBatch = 2
CHECK_DEADLOCK FALSE
INVARIANTS TypeOK RolesAreReference DedupeSuccessIsExact CullMatchesPolicy ReviewSetIsExact NothingLost FamiliesStayTogether
PROPERTIES PipelineCompletes
