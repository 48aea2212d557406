SPECIFICATION Spec
CONSTANTS
    step = step
    goal = goal
    rule = rule
    Calls = {step, goal, rule}
    Returning = {goal, rule}
    Size <- OneSize
    Callers = {c1, c2}
    NoCall = NoCall
    Regular = step
    MaxCallbacks = 2
INVARIANT EveryCallerHears
CHECK_DEADLOCK FALSE
