SPECIFICATION Spec
CONSTANTS
    None = none
    Null = null
    Loads = {l1, l2}
    Calls <- SomeCalls
    TableNames = {staff, deals}
    Contents <- SomeContents
    Provided <- Merged
    NoWeight = noweight
    DefaultWeight = unit
    NoNumber = nonumber
    U32Max = 3
    Limits = {none, 1}
    MaxChanges = 2
    MaxRounds = 2
    one = one
    user1 = user1
    two = two
    nine = nine
    heavy = heavy
    link = link
    owns = owns
    person = person
    thing = thing
    org = org
    staff = staff
    deals = deals
SYMMETRY LoadSymmetry
INVARIANTS LoadedIsASnapshot LoadIsAPrefix ProviderIsCoherent
PROPERTIES NewerDataStays ProviderChangesAtOnce
CHECK_DEADLOCK FALSE
