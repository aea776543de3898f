SPECIFICATION FairListing
CONSTANTS
  Count <- TwoFamilies
  Batch = 2
  Faults = {"socket", "send", "refuse", "recv"}
  Remote <- Peer
  Ports <- Service
  Inode <- Number
  Owner <- Process
  User <- Account
  Bytes <- Count64
  HostName <- Name
  Scope <- Class
  Misread <- As6
  Filters <- Some
  Arguments <- Typed
  Misses <- OneMissed
  Unreadable <- IPv6Disabled
INVARIANTS
  TypeOK
  WholeUnlessLeftovers
  EverySocketListed
  SnapshotIsOfAll
  ShownMatch
  ViewsAgree
  GroupsAreTrue
PROPERTY
  ListingEnds
CHECK_DEADLOCK FALSE
