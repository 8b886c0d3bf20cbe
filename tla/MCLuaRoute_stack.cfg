\* Scripts that may do anything: the stack grows until the bound stops the run.
CONSTANTS
    N = 3
    Fields = {f1, f2}
    Returns <- AllReturns
    MaxStack = 18
SPECIFICATION Spec
INVARIANTS
    PlainScriptObeyed
    TopDecisionsObeyed
CHECK_DEADLOCK FALSE
