CONSTANTS
  Width = 5
  PageSize = 2
  MaxPages = 3
  GroupBits = 4
  WordBits = 9
  Texts <- MCTexts
  Fields <- MCFields
  MaxFields = 2
  Options <- MCOptions
  Cuts <- MCCuts
SPECIFICATION Spec
INVARIANTS RoundTrip ValidWritten
PROPERTIES ReadsBack CutAtSection
