SPECIFICATION FairSpec
CONSTANTS
    NoAccount = NoAccount
    NoCall = NoCall
    Device = {"ann", "bob"}
    Forms <- MCForms
    WelcomeReward = 5
    MaxRegistrations = 3
    MaxKills = 1
INVARIANTS
    OneAccountOneReward
    SessionIsWhole
PROPERTIES
    LoadingEnds
