SPECIFICATION Spec
CONSTANTS
  c1 = c1  luis = luis  idTask = idTask  emp = emp  hr = hr  d1 = d1  d2 = d2
  r1 = r1  r2 = r2  r3 = r3
  None = None
  Case = {c1}
  Task = {idTask}
  User = {emp, hr}
  caseEmployee <- MCCaseEmployee
  readable <- MCReadable
  hrAdmins = {hr}
  Request = {r1, r2}
  OldDoc = {d1}
  oldRow <- OneOldRow
  Calls <- RaceCalls
  MaxFile = 2
  Quota = 4
  Faults = FALSE
  DiskErrors = FALSE
  PutSizes = {}
INVARIANT QuotaRespected
\* A behaviour ends when every request of the bound has been used.
CHECK_DEADLOCK FALSE
