CONSTANTS
  Item = {x, y}
  Observers = 2
  MaxEmits = 8
  MaxThrows = 1
  Environment = {}
SPECIFICATION Spec
CHECK_DEADLOCK FALSE
INVARIANTS ObserversSeeEveryEmit NoChangeReverted DeletedItemsAreUnreferenced
PROPERTY EmitsInOrder
