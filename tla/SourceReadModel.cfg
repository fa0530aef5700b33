SPECIFICATION Spec
CONSTANTS
  q1 = q1
  q2 = q2
  q3 = q3
  f1 = f1
  f2 = f2
  Files = {f1, f2}
  Dates = {1, 2}
  Requests = {q1, q2, q3}
  Failures <- AllFailures
  MaxEvents = 2
  MaxAdds = 4
SYMMETRY Symmetry
INVARIANTS TypeOK AnswersNeverGoBack ListIsFed
PROPERTIES SettledListStays ViewSpec
