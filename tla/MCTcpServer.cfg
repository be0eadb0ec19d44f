SPECIFICATION FairSpec
CONSTANTS
  Peers = {p1, p2}
  NoPeer = NoPeer
  MaxStarts = 2
INVARIANTS TypeOK AcceptChain Roster NoStaleLookup
PROPERTIES Answered LostLeaves
CHECK_DEADLOCK FALSE
