\* Two lists, two layouts, one regeneration, four ticks.
SPECIFICATION Spec
CONSTANTS
    Lists = {l1, l2}
    Layouts = {y1, y2}
    None = None
    HistoryPolls = 2
    CheckEvery = 2
    CheckRetry = 1
    ModelGap = 1
    MaxNow = 4
    MaxSetups = 1
INVARIANTS
    AlarmIsTheDoubt
    PollsAreOfThisSetup
PROPERTIES
    DoubtedRecipeWaits
SYMMETRY Symmetry
