SPECIFICATION Spec
CONSTANTS
    Secrets = {s1}
    Intents = {0, 1}
    Annotations = {"paused", "detached", "re-inspect", "clear-error", "reboot", "reboot-x", "inspect-disable"}
    PowerOffOutcomes = {"Complete", "Delayed", "Transient"}
    Lagging = FALSE
    EarlyEdits = TRUE
    MaxUid = 2
    MaxRuns = 2
    MaxEdits = 4
    MaxCrashes = 0
    MaxLosses = 0
INVARIANT HeldExactlyWhenExhausted
PROPERTY OnlyClearErrorEndsHold
CHECK_DEADLOCK FALSE
