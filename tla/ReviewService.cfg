\* An admin and a reviewer at two clients, on a family of two items.
SPECIFICATION Spec
CONSTANTS
    adm = adm  rev = rev  c1 = c1  c2 = c2  i1 = i1  i2 = i2  b1 = b1  n1 = n1
    None = None
    Users = {adm, rev}
    Clients = {c1, c2}
    Items = {i1, i2}
    Batches = {b1}
    Codes = {"privilege"}
    Bodies = {n1}
    AccountsOf <- SharedClient
    Role <- ReviewRole
    Bootstrap = {adm}
    Family <- OneFamily
    Group <- MultiCodes
    PrivilegeCode = "privilege"
    CodeEdits <- AddPrivilege
    Claims = {"asserted"}
    BatchChoices <- OneItemBatches
    MaxWrites = 2
SYMMETRY ItemSymmetry
CHECK_DEADLOCK FALSE
INVARIANTS TypeOK NoLostUpdate OneCheckoutPerBatch LoggedOutHoldsNothing
PROPERTIES WriteIsEntitled LockKeepsHolder DisabledTakesNothing
