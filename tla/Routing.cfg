SPECIFICATION Spec
CONSTANTS
    http = http  grpc = grpc
    gpt = gpt  qwen = qwen  gemma = gemma
    openai = openai  fireworks = fireworks
    Absent = Absent
    Garbled = Garbled
    Nil = Nil
    Http = {http}
    Grpc = {grpc}
    Documents <- MCDocuments
    Hints <- MCHints
    Wanted = {{}, {gemma}}
INVARIANTS
    ChosenWell
    RoutingInv
    ScoresInOrder
PROPERTIES
    ReloadIsAtomicUnlessEdited
