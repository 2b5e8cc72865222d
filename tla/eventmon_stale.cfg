SPECIFICATION EMSpec
CONSTANTS
  a = a
  HS = HS
  NoEvent = NoEvent
  HS_MAX_MONITORED_APPS = 1
  HS_MAX_MONITORED_EVENTS = 2
  HS_MAX_MSG_ACT_TYPES = 1
  Events <- MCEvents
  EMTables <- MCEMTables
  EventRank <- MCEventRank
  MATables <- MCMATables
  MaxCooldown = 0
  TBLMayFail = FALSE
  HS_EVENT_PIPE_DEPTH = 2
  EventLoad = 2
  MaxResetsLeft = 1
  EMFaults = {}
INVARIANT OnlyPreviousCycleEvents
