CONSTANTS
    Invocations = {p1, p2}
    Pipelines = {"v2", "legacy"}
    MaxBuffer = 4
    BatchSize = 2
    MaxFaults = 2
    Nobody = Nobody
    NoEvent = NoEvent
    Torn = Torn
SPECIFICATION Spec
INVARIANTS NoSilentLoss WaitingInOrder CompletedOnce
PROPERTIES InvocationsEnd
