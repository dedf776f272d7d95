SPECIFICATION Spec
CONSTANTS
    Cases <- MCCases
    Extension <- MCExtension
    Exists <- MCExists
    NoName = ""
    BooleanVars <- MCBooleanVars
    Values <- MCValues
    ZNames <- MCZNames
INVARIANTS StrongestSourceWins ConflictsAnswerNothing AnswersAreAboutTheInput ModelsAreOfTheLastCheck
CHECK_DEADLOCK FALSE
