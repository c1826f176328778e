CONSTANTS
    p1 = p1
    p2 = p2
    Pages <- TwoPages
    MaxConvos = 2
    QuotaFails = FALSE
    Kinds = {"content", "events"}
    MaxIds = 3
    MaxSends = 2
    MaxEvents = 2
SPECIFICATION FairSpec
INVARIANTS
    TypeOK
    AnswersGoHome
    AnswerFollowsPrompt
    BubblesTellTheirStream
    ViewIsOneConversation
    SendingMeansLive
PROPERTIES
    OnlyTopChanges
    CanSendAgain
CHECK_DEADLOCK FALSE
