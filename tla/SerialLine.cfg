SPECIFICATION LineSpec
CONSTANTS
    BaudRates <- MCBaudRates
    DataBits = {4, 5, 8, 9, 10}
    ParityBits = {0, 1, 2}
    StopBits = {0, 1, 2}
    Silences <- MCSilences
    Phases <- MCPhases
    Payloads <- MCPayloads
    FlipMax = 3
INVARIANTS OneByteBuffer SilencesJudged DamageDetected
PROPERTY ListensAgain
