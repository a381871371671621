SPECIFICATION FairSpec
CONSTANTS
    Mechs = {"SRP", "FIRST_SRP", "KEYPAIR_LOGIN", "KEYPAIR_REGISTER"}
    KeygenResults = {TRUE}
    PasswordChanges = 2
    PatientPlayer = TRUE
INVARIANTS
    Decryptable
    ClientFollows
PROPERTIES
    EncryptionStarts
    LeavesSudoMode
CHECK_DEADLOCK FALSE
