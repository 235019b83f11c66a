SPECIFICATION FairAlertSpec
CONSTANTS
  Endpoints = {"bifrost"}
  Polled <- MCCore
  Name <- MCName
  Critical <- MCCritical
  Clewdr <- MCClewdr
  Instances = {"clewdr-1"}
  Readings = {"fine", "empty"}
  Grace = 1
  Window = 2
  MaxShown = 1
  MaxAlerts = 2
  MaxFaults = 1
  MaxRestarts = 1
INVARIANTS
  AlertTypeOK
  ShownIsTheNewestStored
PROPERTIES
  AlertsKeepTheirDistance
  PolledOutagesAreAlerted
