SPECIFICATION Spec
SYMMETRY Symmetry
CONSTANTS
  Docs = {d1, d2}
  Codes = {c1, c2}
  Shares = {s1, s2, s3, s4}
  Visits = {v1, v2}
  NoDoc = NoDoc
  NoCode = NoCode
INVARIANTS
  CodesLead
  ReusedAnswersAgree
  ClicksTookPlace
CHECK_DEADLOCK FALSE
