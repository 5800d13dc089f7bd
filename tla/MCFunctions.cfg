SPECIFICATION Spec
CONSTANTS
  Width = 4
  Cells = 5
  Octets <- LoaderOctets
  Values <- StoredWords
CHECK_DEADLOCK FALSE
INVARIANTS FieldsSurvive MeansWhatItSays OperationsAreRv32i LoadsWhatWasStored
