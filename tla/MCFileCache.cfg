\* Three contents of one name, in place or by another file, in two seconds.
SPECIFICATION FileCacheSpec
CONSTANTS
  Inodes = {1, 2}
  Sizes = {1, 2}
  MaxVersions = 3
  MaxTime = 1
INVARIANTS CopyTrusted CurrentRecognised
CHECK_DEADLOCK FALSE
