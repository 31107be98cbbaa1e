CONSTANTS
    p1 = p1
    p2 = p2
    h1 = h1
    h2 = h2
    m1 = m1
    m2 = m2
    Procs = {p1, p2}
    Filters <- MCSafeFilters
    TopicNames <- MCTopicNames
    ShareLevels = {"$share"}
    Aliases = {1}
    NoAlias = 0
    Handlers = {h1, h2}
    NoHandler = NoHandler
    Middlewares = {m1, m2}
    RecovererMW = RecovererMW
    LoggerMW = LoggerMW
    PanicHandlers = {}
    MaxHandlers = 1
    MaxMiddlewares = 0
SPECIFICATION Spec
INVARIANT AliasResolvesOwnTopic
