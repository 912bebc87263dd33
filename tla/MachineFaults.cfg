SPECIFICATION Spec
CONSTANTS
    Secrets = {s1, s2}
    Intents = {1}
    Annotations = {"confirm-status-loss"}
    PowerOffOutcomes = {"Complete"}
    Lagging = TRUE
    EarlyEdits = TRUE
    MaxUid = 2
    MaxRuns = 2
    MaxEdits = 2
    MaxCrashes = 1
    MaxLosses = 1
 
PROPERTY LossIsConfirmed
SYMMETRY SecretSymmetry
CHECK_DEADLOCK FALSE
