CONSTANTS
  p = p
  d = d
  Previews = {p}
  Reports = {d}
  Messages <- MCMessages
  Requests = {r1, r2, r3}
  Tabs = {t1, t2}
  Confirm = Confirm
  NoRequest = NoRequest
  NoJob = NoJob
SYMMETRY RequestSymmetry
SPECIFICATION Spec
INVARIANTS MessageSentOnce AnswersAreTrue
PROPERTY NothingAfterVerdict
CHECK_DEADLOCK FALSE
