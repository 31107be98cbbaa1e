CONSTANTS
    p1 = p1
    p2 = p2
    h1 = h1
    h2 = h2
    m1 = m1
    m2 = m2
    Procs = {p1}
    Filters <- MCRefineFilters
    TopicNames <- MCTopicNames
    ShareLevels = {"$share"}
    Aliases = {1}
    NoAlias = 0
    Handlers = {h1, h2}
    NoHandler = NoHandler
    Middlewares = {m1, m2}
    RecovererMW = RecovererMW
    LoggerMW = LoggerMW
    PanicHandlers = {}
    MaxHandlers = 2
    MaxMiddlewares = 2
SPECIFICATION Spec
SYMMETRY MCSymmetry
PROPERTY  RouterImplementsDispatch
