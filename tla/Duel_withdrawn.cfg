SPECIFICATION Spec
CONSTANTS
  Creator = creator
  f1 = f1
  f2 = f2
  q1 = q1
  q2 = q2
  q3 = q3
  Friends = {f1, f2}
  NoUser = NoUser
  Rounds = 2
  Questions = {q1, q2, q3}
  NoQuestion = NoQuestion
  Plans <- TwoRounds
  Retirable = {q1}
  Listing = {}
INVARIANTS SameQuestionAlways
CHECK_DEADLOCK FALSE
