CONSTANTS
    Server = {s1, s2}
    Dream = {d1, d2}
    Slug = {"a", "b", "MEMORY"}
    Draft = {"t", "linked"}
    TitleLinks <- TheTitles
    Stem <- WholeSlugs
    Body <- TheBody
    Repo <- TheRepo
    Resolvable = {"call/1"}
    Superseded = {"call/1"}
    History = "none"
    Asks <- TheAsks
    Patient <- Others
    MaxCalls = 2
SPECIFICATION Spec
INVARIANTS ToldHolds ReportedIsListed RetirementStands DanglingJudged RepliesAreReplies
PROPERTY TurnsAnswered
CHECK_DEADLOCK FALSE
