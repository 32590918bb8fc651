SPECIFICATION Spec
CONSTANTS
  Ports <- AllPorts
  Cases <- MCCases
  Answers <- MCAnswers
INVARIANTS
  VerdictIsRight
  AsksTheFixture
\* A script that has exited does nothing more.
CHECK_DEADLOCK FALSE
