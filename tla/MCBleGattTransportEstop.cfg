CONSTANTS
  Payloads <- MCPagePayloads
  MaxWrites = 3
SPECIFICATION SafeSpec
INVARIANT EstopNeverLost
