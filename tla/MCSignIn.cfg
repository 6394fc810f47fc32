SPECIFICATION Spec
CONSTANTS
  t1 = t1  t2 = t2  alice = alice  bob = bob
  n1 = n1  n2 = n2
  None = None
  Tab = {t1, t2}
  Account = {alice, bob}
  Token = {n1, n2}
  owner <- MCOwner
  MaxFaults = 2
  MaxWhims = 1
INVARIANT TypeOK ShownIsStored
PROPERTY CodeOnce BootSettles AccountsAgree
