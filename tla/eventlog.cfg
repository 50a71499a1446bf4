\* Two calls of Publish for the job that is read back, in a topic that has
\* records of this job and of another one.
SPECIFICATION FairSpec
CONSTANTS
  c1 = c1
  c2 = c2
  mine = mine
  other = other
  p1 = p1
  p2 = p2
  Calls = {c1, c2}
  Capacity = 2
  Partitions = {p1, p2}
  Earlier <- Topic
  PartitionOf <- OnePartition
  Wanted = {mine, c1, c2}
INVARIANTS
  ResultIsAPrefix
  ReadsWhatWasPublished
PROPERTIES
  ReadEnds
CHECK_DEADLOCK FALSE
