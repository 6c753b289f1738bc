SPECIFICATION Spec
CONSTANTS
    Absent = Absent
    Placeholder = Placeholder
    NoViolation = NoViolation
    Terms <- TermsOf
    DateIn <- DateOf
    Campaigns <- SomeCampaigns
    Studies <- SomeStudies
    Judgements <- SomeJudgements
    Texts <- SomeAnswersTexts
    Answers <- SomeAnswers
    Successors <- SomeSuccessors
INVARIANTS
    LockableIsUsable
    PlansAreBalanced
    JudgesAgree
    OnlyAnswersScore
    SuccessorRederives
CHECK_DEADLOCK FALSE
