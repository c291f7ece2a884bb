SPECIFICATION FairSpec
CONSTANTS
    NoCase = NoCase
    EndOfInput = FALSE
    Commands <- AllCommands
    Unwritten <- UnwrittenTokens
    Stack <- StackOf
    Names <- NamesOfKinds
    SuiteSizes = {0, 1, 3}
    OpenWords = {"open", "openfile"}
    CloseWords = {"close", "closed"}
    VerboseLevel = 1
    Files <- SomeFiles
    Paths <- SomePaths
    Values <- SomeValues
INVARIANTS
    CommandTypeOK
    VerbosityMatchesWait
    LastOptionCounts
    ForwardsTheRest
    TimesAreMeant
    FileMeansGroups
    PathFullyExpanded
PROPERTIES
    StepsAsHelpSays
    ParsingEnds
CHECK_DEADLOCK FALSE
