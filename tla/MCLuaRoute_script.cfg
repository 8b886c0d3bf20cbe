\* A script that permits, rejects and rewrites, as script/route.lua does.
CONSTANTS
    N = 3
    Fields = {f1, f2}
    Returns <- RewritingReturns
    MaxStack = 24
SPECIFICATION Spec
INVARIANT ScriptObeyed
CHECK_DEADLOCK FALSE
