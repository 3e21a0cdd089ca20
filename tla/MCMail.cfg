\* Replies to open, closed, archived and busy targets, with the faults of
\* MCMailIngress, one kind at a time.
SPECIFICATION MailSpec
CONSTANTS
    m1 = m1  m2 = m2  m3 = m3  i1 = i1  i2 = i2  s1 = s1  p1 = p1
    Mails = {m1, m2}
    Interventions = {i1}
    TargetOf <- TwoAndOne
    Scopes = {s1}
    ScopeOf <- OneScope
    Pollers = {p1, p2}
    Nil = Nil
    Window = 2
    MaxValidity = 2
    MaxCrashes = 2
CONSTRAINT OneCase
INVARIANTS RepliesTrue
PROPERTIES AckedIsFinal
CHECK_DEADLOCK FALSE
