SPECIFICATION Spec
CONSTANTS
    e1 = e1
    e2 = e2
    s1 = s1
    q1 = q1
    q2 = q2
    Evidence = {e1, e2}
    Strays = {s1}
    Authoritative = {e1}
    Linkable = {e1, e2}
    Excerpted = {e1}
    Questions = {q1, q2}
    TrendQuestions = {q2}
    Claims <- MCClaims
    Reports <- MCReports
    TemplateFlaws = {"none", "broken"}
    Failures = {"synthesis_timeout", "provider_auth"}
    Retryable = {"synthesis_timeout"}
    NormalRoom = 4
    CompactRoom = 2
    NormalCap = 2
    CompactCap = 1
INVARIANTS
    SuccessIsEarned
    AnswerableIsDelivered
PROPERTY
    Delivers
