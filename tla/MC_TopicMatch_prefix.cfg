CONSTANTS
    ShareLevels = {"$share", "$shared"}
    FilterLevels = {"a", "b", "+", "#", ""}
    TopicLevels = {"a", "b", ""}
    MaxLevels = 3
SPECIFICATION Spec
INVARIANT MatchAgreesWithSpec
