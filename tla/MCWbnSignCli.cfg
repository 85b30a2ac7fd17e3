CONSTANTS
  Keys = {k1, k2}
  Ids = {i1, i2, noId}
  EmptyId = noId
  Paths = {file1, file2}
  KeyLists <- MCKeyLists
  MaxEntries = 2
SYMMETRY Symmetry
SPECIFICATION Spec
INVARIANTS FilesStayValid FailureHarmsOnlyTheOutput SuccessIsAsAsked
