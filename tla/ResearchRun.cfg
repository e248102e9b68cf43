SPECIFICATION RunSpec
CONSTANTS
    Questions = {1, 2}
    Evidence <- MCEvidence
    Claims <- MCClaims
    Contradictions <- MCContradictions
    MechanismQuestions = {2}
    SourceCounts = {1, 2}
    Requirements = {{}, {"primary_source"}, {"fresh_evidence"}, {"primary_source", "fresh_evidence"}}
    RepairLimits = {1}
    MaxQuestions = 3
    MaxAttempts = 2
    MaxAnswer = 2
    Queries <- EveryQuery
    Modes = {"agent", "direct"}
INVARIANTS
    BriefIsFollowed
    AskedIsPlanned
    SufficientIsEarned
    EndIsHonest
PROPERTIES
    OnlyConflictUncovers
    RunEnds
