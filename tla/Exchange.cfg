SPECIFICATION Spec
CONSTANT MaxRegistrations = 2
INVARIANTS ForwardedValid AnswerSound GateShown
PROPERTY EstopHolds
CHECK_DEADLOCK FALSE
