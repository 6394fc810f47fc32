SPECIFICATION Spec
CONSTANTS
  c1 = c1  luis = luis  boss = boss  hr = hr  mgr = mgr  emp = emp
  r1 = r1  r2 = r2  r3 = r3  r4 = r4
  None = None
  Case = {c1}
  Employee = {luis, boss}
  TaskCode = {"ID_DOC", "MANAGER_INTRO"}
  User = {hr, mgr, emp}
  Request = {r1, r2, r3}
  caseEmployee <- MCCaseEmployee
  assigneeRole <- MCAssigneeRole
  role <- MCRole
  userEmployee <- MCUserEmployee
  reportsTo <- MCReportsTo
  Calls <- ReviewCalls
  Faults = FALSE
SYMMETRY Requests3
CONSTRAINT OneSubmission
PROPERTY CompletedIsFinal
\* A behaviour ends when every request of the bound has been used.
CHECK_DEADLOCK FALSE
