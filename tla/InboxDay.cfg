\* A contact with two ids, two of its messages and two handlers and checks at a time, with one
\* incident: a human who steps in, a deletion, a failed or slow judgement, a reconnection or
\* the passing of the hours.
SPECIFICATION Spec
CONSTANTS
    Contacts = {c1}
    NoJid = NoJid
    Handlers <- MCHandlers
    Checks <- MCChecks
    MaxWrites = 2
    MaxIncidents = 1
    MayRace = FALSE
PROPERTIES TakeoverHolds AwayOnce FollowUpOnce SilenceIsJudged
CHECK_DEADLOCK FALSE
