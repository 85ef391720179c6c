SPECIFICATION TextSpec
CONSTANTS
    LastRow = 2
    LastFact = 2
    early = early
    late = late
    langA = langA
    langB = langB
    Lang = {langA, langB}
    Und = Und
    Target <- OneTarget
    Place <- TwoStretches
    Spoken = {langB, Und}
    Heard = {langA}
    Lane = {source, translation}
    SourceLane = {source}
    MaxRevision = 2
    MaxEdit = 2
    MaxFault = 1
    MaxCrash = 2
    ann = ann
    bo = bo
    None = None
    Voice <- OneEachOrUnsaid
    MaxWord = 3
    MaxGuess = 1
    MaxOut = 1
    MaxSequence = 3
SYMMETRY Ticks
INVARIANTS LanesAreSound WordsAreKept WatermarkIsSound UserTextSurvives PurgedStaysGone
PROPERTIES SettledTextStays
CHECK_DEADLOCK FALSE
