SPECIFICATION ArchiveSpec
CONSTANTS
  Archives <- SampleArchives
  MaxRead = 2
INVARIANTS
  StreamIsMembers
  MembersSeparated
