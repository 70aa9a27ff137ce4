SPECIFICATION FairSpec
CONSTANTS
  Keep = 1
  MaxVersion = 1
  MaxAuto = 2
  MaxRequests = 2
  MaxCrashes = 1
  Absent = Absent
  Blank = Blank
  Cleared = Cleared
  Scaffold = Scaffold
  Torn = Torn
  Reset = Reset
  Malformed = Malformed
  Unreadable = Unreadable
  NoMarker = NoMarker
  Nobody = Nobody
INVARIANTS DisplacedIsKept OutcomeTellsTheTruth ReportedBackupStays
PROPERTIES ServesAgain
