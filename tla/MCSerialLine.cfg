\* A buffer of one line and a half; three sentences, any of them bad, and a line feed.
CONSTANTS
  Capacity = 5
  MaxSentences = 3
  MaxNoise = 1
SPECIFICATION FairSpec
INVARIANT SerialInv
INVARIANT HeardUpToBad
PROPERTY SerialGoesOn
