SPECIFICATION WebSpec
CONSTANTS
    ann = ann  old = old  new = new  s1 = s1  s2 = s2  s3 = s3  s4 = s4  t1 = t1  t2 = t2  t3 = t3  t4 = t4
    link = link  nobody = nobody  gone = gone  p1 = p1  p2 = p2  c1 = c1  c2 = c2  c3 = c3
    Users = {ann}
    Passwords = {old, new}
    Sessions = {s1, s2, s3, s4}
    Tokens = {t1, t2, t3, t4}
    Resets = {link}
    Calls = {c1, c2, c3}
    ResetOwner <- MCResetOwner
    FirstOwner <- MCFirstOwner
    FirstFamily <- MCFirstFamily
    FirstPassword <- MCFirstPassword
    Requests <- MCRequests
    CrowdRequests <- MCCrowdRequests
    Tabs = {p1, p2}
    FirstCookie = t1
    Gone = gone
    Null = nobody
SYMMETRY Symmetry
INVARIANTS TypeOK ConsumedAtMostOnce FamilyDiesTogether ReplayEndsSession AccessChangeEndsSessions NoSelfInflictedReplay
