CONSTANTS
  a = a
  b = b
  i = i
  z = z
  Sizes <- MCSizes
  Kind <- MCKind
  NameBytes <- MCNameBytes
  Declared <- MCDeclared
  Scripts <- MCScripts
SPECIFICATION OSpec
INVARIANTS TypeOK CollectivesMatch ElementsApart SharesAsMeant
PROPERTY CallsReturn
