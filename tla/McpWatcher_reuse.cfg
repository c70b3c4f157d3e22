SPECIFICATION WatcherSpec
CONSTANTS Files = {1} MaxVersions = 2 Slots = {1,2} MaxStarts = 1 MaxLost = 0
INVARIANT NoVersionLost
CHECK_DEADLOCK FALSE
