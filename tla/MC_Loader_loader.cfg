SPECIFICATION Spec
CONSTANTS
  Inf = 10
  NumberOf <- MCNumberOf
  Documents <- MCDocuments
  WktTexts <- MCWktTexts
  Shapes <- MCShapes
  LoneDocuments <- MCLoneDocuments
  LoneShapes <- MCLoneShapes
  Texts <- MCTexts
  MaxCalls = 2
  MaxFailures = 1
  Null = Null
INVARIANTS
  ParseExact
  LoadKeepsFeatures
  FreshIdsDistinct
  MeasuredRight
CHECK_DEADLOCK FALSE
