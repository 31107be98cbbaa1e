CONSTANTS
    p1 = p1
    p2 = p2
    h1 = h1
    h2 = h2
    Procs = {p1, p2}
    Filters <- MCFilters
    TopicNames <- MCTopicNames
    ShareLevels = {"$share"}
    Aliases = {}
    NoAlias = 0
    Handlers = {h1, h2}
    NoHandler = NoHandler
    MaxHandlers = 2
SPECIFICATION Spec
SYMMETRY MCSymmetry
PROPERTY  StandardRouterImplementsDispatch
