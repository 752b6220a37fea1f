SPECIFICATION Spec
CONSTANT Commands = 3
INVARIANTS TypeOK AnswersMatch
PROPERTIES HandlerReturns SessionEnds
