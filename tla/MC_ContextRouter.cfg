CONSTANTS
    p1 = p1
    h1 = h1
    h2 = h2
    Procs = {p1}
    Filters <- MCFilters
    TopicNames <- MCTopicNames
    ShareLevels = {"$share"}
    Aliases = {1}
    NoAlias = 0
    Handlers = {h1, h2}
    NoHandler = NoHandler
    PanicHandlers = {h2}
    Middlewares = {RecovererMW, LoggerMW}
    RecovererMW = RecovererMW
    LoggerMW = LoggerMW
    MaxHandlers = 2
    MaxMiddlewares = 2
SPECIFICATION Spec
INVARIANT ContextLiveWhileRouting
PROPERTY PanicEscapesIffUnrecovered
