SPECIFICATION Spec
CONSTANTS
    Handles = {h1, h2}
    MaxChildren = 2
    MaxCalls = 4
    PayloadLength = 2
    Capacity = 1
    Threads = FALSE
    Crashes = {"parent", "child"}
    NoChild = NoChild
    Parent = Parent
INVARIANTS BetweenCalls OwnAnswers WholeRequests
PROPERTIES EveryCallReturns ChildrenEnd
CHECK_DEADLOCK FALSE
