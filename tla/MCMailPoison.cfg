\* What docs/EMAIL.md says of replies, with a second reply to one intervention.
SPECIFICATION FairMailSpec
CONSTANTS
    m1 = m1  m2 = m2  m3 = m3  i1 = i1  i2 = i2  s1 = s1  p1 = p1
    Mails = {m1, m2, m3}
    Interventions = {i1, i2}
    TargetOf <- TwoAndOne
    Scopes = {s1}
    ScopeOf <- OneScope
    Pollers = {p1}
    Nil = Nil
    Window = 3
    MaxValidity = 1
    MaxCrashes = 0
PROPERTY ReplyComesBack
CHECK_DEADLOCK FALSE
