CONSTANTS
  Plans = {{}, {"PING"}, {"DOWNLOAD", "UPLOAD"}}
  MaxShares = 2
  MaxSessions = 2
  MaxMessages = 1
SPECIFICATION Spec
INVARIANTS
  TypeOK
  CallbacksUseLiveRefs
  LeaksOnlyByRepeatedShare
  AppStaysAttached
PROPERTIES
  EndsAttached
  FollowsProtocol
