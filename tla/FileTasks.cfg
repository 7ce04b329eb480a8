CONSTANTS
    o1 = o1
    o2 = o2
    t1 = t1
    t2 = t2
    None = None
    Ops = {o1, o2}
    TaskIds = {t1, t2}
    Followed = {t1}
    MaxTexts = 2
    IdChoices <- SomeIds
SPECIFICATION Spec
INVARIANTS NoCompletionAfterCancel OnlyAReusedIdLiftsACancellation ReplyAgreesWithRecord OnlyLateTextsMislead
PROPERTIES KeepsPromise CompletionIsShown
