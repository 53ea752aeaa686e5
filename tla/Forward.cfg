\* Up to two attempts over eleven kinds of credential; streams of up to three lines.
SPECIFICATION Spec
CONSTANTS
    Providers <- Relayed
    Texts <- ChunkTexts
    Words <- SomeWords
    Batches <- SomeBatches
    MaxLines = 3
    Credentials <- All
    MaxAttempts = 2
INVARIANTS Faithful DoneOnce FinishTold 
PROPERTIES KeepsAnswer
CHECK_DEADLOCK FALSE
