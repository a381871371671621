SPECIFICATION FairSpec
CONSTANTS
    Peers = {2, 3}
    Names = {a, b}
    Bypass = {}
    Channels = {ch}
    MaxUsers = 1
    DefaultPassword = FALSE
    QuickRejoin = FALSE
    MaxPlays = 2
INVARIANTS
    PlayersMatchClients
    UserLimit
    DataKept
PROPERTY NobodyLingers
