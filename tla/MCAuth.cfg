CONSTANTS
    r1 = r1
    r2 = r2
    r3 = r3
    Request = {r1, r2, r3}
    Nobody = Nobody
    Text <- MCText
    Blank = ""
    Emails <- MCEmails
    trim <- MCtrim
    norm <- MCnorm
    yandexName <- MCyandexName
    vkName <- MCvkName
    vkMailbox <- MCvkMailbox
    Call <- MCCall
SPECIFICATION CallsSpec
CHECK_DEADLOCK FALSE
INVARIANTS
    TypeOK
    UniqueUpToCase
    ExistsIsTrue
    OneAccountPerVKUser
    OkIsDurable
PROPERTIES
    ImplementsDirectory
    EveryCallReturns
