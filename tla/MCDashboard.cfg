SPECIFICATION FairSpec
CONSTANTS
  Token = {t1}
  Granted <- AllButCameras
  Route <- Carries
  Contested = {"close incident"}
  MaxSubmits = 1
  MaxOthers = 1
  MaxVisits = 2
  MaxFaults = 1
  None = None
INVARIANTS
  TypeOK
  OwnWriteIsShown
PROPERTIES
  ClosedIsShown
CHECK_DEADLOCK FALSE
