SPECIFICATION MCSpec
CONSTANTS
    Texts <- MCTexts
    IntOf <- MCIntOf
    Emails <- MCEmails
    Limits <- MCLimits
    Keys <- MCKeys
    Files <- MCFiles
    Lines <- MCLines
    Systems <- MCSystems
    ShortName <- MCShortName
INVARIANT DelimiterReachesFeatures
