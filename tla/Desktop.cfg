SPECIFICATION Spec
CONSTANTS
  Apps <- MCApps
  Games <- MCGames
  MaxTabs = 1
  QueueCap = 2
  EarlyClose = FALSE
INVARIANTS TypeOK WindowsOwned FocusOnTop OwnerAlive
PROPERTY EventsTaken
