SPECIFICATION SigningKeysSpec
CONSTANTS
  Kid = {k1, k2}
  Caller = {c1, c2}
  KeysMaxAge = 2
  MinRefetch = 1
  Leeway = 1
  Lifetime = 1
  MaxNow = 3
PROPERTIES
  AcceptedUnderLiveKeys
  GenuineTokensAreHeard
  EveryCallEnds
