SPECIFICATION Spec
CONSTANTS
    step = step
    goal = goal
    rule = rule
    Calls = {step, goal, rule}
    Returning = {goal, rule}
    Size <- TwoSizes
    Callers = {c}
    NoCall = NoCall
    Regular = step
    MaxCallbacks = 2
INVARIANT CallsAreKept
CHECK_DEADLOCK FALSE
