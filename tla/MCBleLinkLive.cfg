SPECIFICATION FairSpec
CONSTANTS
  Images = {m1}
  Secured = TRUE
  SetupSteps = 1
  MaxRequests = 1
  MaxQueue = 2
  MaxSockets = 1
  MaxGenerations = 1
PROPERTIES SetupEnds NewsTaken
CHECK_DEADLOCK FALSE
