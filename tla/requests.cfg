SPECIFICATION Spec
CONSTANTS
    Routes <- AllRoutes
    MaxFaults = 2
INVARIANTS
    OkMeansDone
    RejectedChangesNothing
    TreeBeforeRow
PROPERTY
    AnsweredIsOver
