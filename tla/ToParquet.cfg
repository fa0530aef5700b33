SPECIFICATION Spec
CONSTANTS
  s = s
  n1 = n1
  n2 = n2
  LastRow = 3
  Searches = {s}
  Found <- ThePages
  MaxPages = 3
  MaxArchives = 2
  MaxInFlight = 2
  Names = {n1, n2}
  NameOf <- TheNames
  NoFile = NoFile
  Steps = 2
  Late <- TheLate
  Csv = Csv
INVARIANTS TypeOK NothingElseLost WrittenAtEnd RowsNameTheirArchive
PROPERTY RepeatsOnlyTheFirst
