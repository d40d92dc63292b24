SPECIFICATION Spec
CONSTANTS
  s1 = s1
  o1 = o1
  x = x
  Nil = Nil
  Values = {x}
  IntKeys <- MCIntKeys
  Strings <- MCStrings
  Objects <- MCObjects
  Hash <- MCHash
  MaxGrow = 3
  MaxInt = 2
INVARIANTS TypeOK HoldsWhatWasAssigned LengthIsBorder
PROPERTIES ImplementsMap ArrayMostlyUsed
