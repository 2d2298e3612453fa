SPECIFICATION CheckoutSpec
CONSTANTS
    Works = {w1, w2}
    NewFiles = {w2}
    Executions = {issues, linear}
    Reviews = {prs}
    MaxParked = 2
    MaxFaults = 1
INVARIANTS LeftoversKept
