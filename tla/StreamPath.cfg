SPECIFICATION FairSpec
CONSTANT Answers <- MCAnswers
INVARIANTS TranslatedSoFar DoneIsLast
PROPERTIES Relayed ReaderEnds
CHECK_DEADLOCK FALSE
