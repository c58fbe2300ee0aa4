SPECIFICATION CryptoSpec
CONSTANTS
    P = 32957
    CurveA = 210
    Order = 4133
    CurveD = 3730
    RootOfM1 = 2367
    LowOrderX = 8871
    Spacing = 2
    BaseX = 31592
    BaseY = 17747
    Starts <- MCStarts
    Operands <- MCOperands
    Numbers <- MCNumbers
    MaxSteps = 3
    BaseScalars <- MCScalars
    Logs <- MCLogs
    Torsions <- MCTorsions
    Hashes <- MCHashes
    Lifts <- MCLifts
    Strings <- MCStrings
    Keys <- MCKeys
    Parties = {alice, bob}
    alice = alice
    bob = bob
    Secrets <- MCSecrets
    Kinds <- MCKinds
    Blinds <- MCBlinds
INVARIANTS
    HashesAreStandard
    ScalarsAreReduced
    LimbsHaveValue
    PointsAreRight
    MultiplesAreRight
    HidingIsUndone
    SecretsAgree
\* Some of the parts come to an end.
CHECK_DEADLOCK FALSE
