SPECIFICATION Spec
CONSTANTS
    Workers = {w1, w2}
    MaxCalls = 2
    MaxNow = 0
    Faults = TRUE
    None = None
    Answers <- MCAnswers
    Tasks <- MCTasks
    Configured = FALSE
    Sandbox = TRUE
    Vendors = {"aruba", "infocert"}
    Scenes <- MCScenes
INVARIANTS FateExplained AskedOnce ReceiptTellsFailover
PROPERTIES DeliveriesEnd JobsEnd
