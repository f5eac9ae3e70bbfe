CONSTANTS
  t1 = t1
  t2 = t2
  north = north
  south = south
  sara = sara
  SARA = SARA
  LEA = LEA
  None = None
  Desks = {t1, t2}
  Stores = {north, south}
  South = south
  Central = south
  FullNames = {sara, SARA, LEA}
  Upper <- MCUpper
  Dates = {1, 2}
  NoTime = None
  Day = 12
  StartTimes <- MCStartTimes
  Entries <- MCEntries
  Papers = {request}
  Listed = {}
  request = request
  Opening <- MCOpening
  Sheets <- MCFiles
  MaxEmployees = 2
  MaxRecords = 2
  MaxRequests = 3
SYMMETRY MCSlots
SPECIFICATION AttendanceSpec
CHECK_DEADLOCK FALSE
INVARIANTS
  PaidByTheClock
  OneRecordADay
  DeletionSparesDocuments
PROPERTIES
  ImportsWholeOrNot
