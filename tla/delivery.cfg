SPECIFICATION Spec
CONSTANTS
    Characters <- SomeCharacters
    Space = Space  Newline = Newline
    Limit = 3
    Texts <- SomeTexts
    MaxMedia = 1
    Attempts = 3
    MaxErrors = 5
INVARIANTS
    TypeOK
    HolesAreExplained
PROPERTIES
    SplitIsComplete
    SplitIsReadable
    ImplementsOrderedDelivery
