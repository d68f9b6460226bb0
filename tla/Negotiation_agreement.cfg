SPECIFICATION AgreementSpec
CONSTANTS
    Polite = Polite
    Rude = Rude
    MaxChanges <- PoliteChangesTwice
    MaxDescriptions = 10
    QueueSize = 100
    MaxOvertakes = 1
CHECK_DEADLOCK FALSE
INVARIANTS
    QuietIsAgreed
    AnswersFit
    CandidatesArrive
PROPERTIES
    Converges
