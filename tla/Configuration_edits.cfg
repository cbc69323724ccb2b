SPECIFICATION ConfigSpec
CONSTANT MaxEdits = 3
INVARIANT RunsOnWhatWasAccepted
CHECK_DEADLOCK FALSE
