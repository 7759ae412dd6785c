SPECIFICATION ConcurrentSpec
CONSTANTS
  Entries = {1, 2}
  Values = {v1, v2}
  Absent = Absent
  Torn = Torn
  Plans <- PairOnly
INVARIANT PublishDeliversToReaders
