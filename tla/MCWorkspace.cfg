SPECIFICATION Spec
CONSTANTS
    Sessions <- MCSessions
    MaxDeaths = 1
CHECK_DEADLOCK FALSE
INVARIANTS MarksTrue FiguresOfOneRun
