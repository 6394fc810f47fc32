SPECIFICATION Spec
CONSTANTS
  c1 = c1  luis = luis  idTask = idTask  emp = emp  hr = hr  d1 = d1  d2 = d2
  r1 = r1  r2 = r2  r3 = r3
  None = None
  Case = {c1}
  Task = {idTask}
  User = {emp, hr}
  caseEmployee <- MCCaseEmployee
  readable <- MCReadable
  hrAdmins = {hr}
  Request = {r1, r2, r3}
  OldDoc = {d1, d2}
  oldRow <- TwoOldRows
  Calls <- ConcurrentCalls
  MaxFile = 2
  Quota = 4
  Faults = TRUE
  DiskErrors = TRUE
  PutSizes = {1, 3}
SYMMETRY Requests3
INVARIANT TypeOK DeletedOnce LastRemovalResets
\* A behaviour ends when every request of the bound has been used.
CHECK_DEADLOCK FALSE
