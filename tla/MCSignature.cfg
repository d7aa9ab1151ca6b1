SPECIFICATION SignatureSpec
CONSTANTS
  Messages <- MCMessages
  Flows <- MCFlows
  Hours <- MCHours
  Payloads <- MCPayloads
  MsgSize = 24
  MaxSends = 3
  MaxCrashes = 2
INVARIANTS RestartChangesNothing ValveAsAsked
PROPERTIES VerdictIsOfASentPrint FingerprintComesBack
