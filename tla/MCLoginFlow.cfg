SPECIFICATION FairSpec
CONSTANTS
  Sids = {s1}
  Clients = {r1}
  Codes = {c1, c2}
  NoCode = NoCode
  MaxDocs = 2
  MaxEmits = 1
  MaxCrashes = 1
INVARIANTS
  WellFormed
  FirstCodeWins
  StreamsFollow
  AnnouncedIsDurable
  EndsAsStored
PROPERTIES
  LoginEnds
  OutcomeIsSeen
