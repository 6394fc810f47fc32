SPECIFICATION Spec
CONSTANTS
  aria = aria  luis = luis  ariaMail = ariaMail  luisMail = luisMail  newMail = newMail
  n1 = n1  n2 = n2  n3 = n3
  ariaSub = ariaSub  luisSub = luisSub  bareSub = bareSub  otherSub = otherSub
  luisUser = luisUser  c1 = c1  c2 = c2  o1 = o1  r1 = r1  r2 = r2  r3 = r3  r4 = r4
  None = None
  Number = {n1, n2, n3}
  Email = {ariaMail, luisMail, newMail}
  Sub = {ariaSub, luisSub, bareSub, otherSub}
  tokenEmail <- MCTokenEmail
  Request = {r1, r2}
  OldEmployee = {aria, luis}
  oldEmployee <- MCEmployees
  OldUser = {luisUser}
  oldUser <- MCUsers
  OldCase = {c1, c2}
  oldCase <- MCCases
  OldOffer = {o1}
  oldOffer <- MCOffers
  Calls <- RegroupedCalls
  Faults = FALSE
PROPERTY RoleMirrorsClaims
\* A behaviour ends when every request of the bound has been used.
CHECK_DEADLOCK FALSE
