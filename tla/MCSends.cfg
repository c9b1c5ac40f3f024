SPECIFICATION FairSpec
CONSTANTS
  Sends = {s1, s2}
  MaxLists = 5
  Attended = TRUE
INVARIANT TypeOK
INVARIANT UnlandedStaysVisible
INVARIANT DeliveredStaysVisible
INVARIANT EarlyNeedsAStray
INVARIANT WithdrawnIsGone
INVARIANT LandedHasNoEcho
PROPERTY EchoSettles
