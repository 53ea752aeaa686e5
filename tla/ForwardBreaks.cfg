\* One stream in Anthropic's format, with line breaks in it.
SPECIFICATION Spec
CONSTANTS
    Providers <- Anthropic
    Texts <- NoTexts
    Words <- Breaks
    Batches <- SomeBatches
    MaxLines = 4
    Credentials <- OneAnthropic
    MaxAttempts = 1
INVARIANTS BreaksKept
CHECK_DEADLOCK FALSE
