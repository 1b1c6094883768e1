SPECIFICATION Spec
CONSTANTS
  NumLeaves = 4
  ReorderLimit = 11
INVARIANTS TypeOK FreqsFallInGroups GroupNumbersPartition LinksAgree FreqsAddUp
  RebuildNeverRunsOut CodesAreOptimal
