SPECIFICATION ExSpec
CONSTANTS
  p1 = p1
  p2 = p2
  l1 = l1
  c1 = c1
  Blank <- NoText
  NaN = NaN
  Adder = {p1, p2}
  Lister = {l1}
  Answers <- SomeAnswers
  Caller = {c1}
  MaxRuns = 3
CHECK_DEADLOCK FALSE
INVARIANTS ATypeOK ApartKeepsAll NoStranger GreetedOnce
