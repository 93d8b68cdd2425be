SPECIFICATION XmlSpec
CONSTANTS
    Tokens <- AllTokens
    Predefined = {"lt"}
    HasElementDecl = TRUE
    GroupInit = 2
    ScaffInit = 2
    Opening <- Doctype
    MaxTokens = 12
INVARIANTS
    DeclarationsKept
CHECK_DEADLOCK FALSE
