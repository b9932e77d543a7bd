SPECIFICATION Spec
CONSTANTS
  Null = Null
  Items = {1, 2, 3, 4, 5}
  DEFAULT_PAGE_SIZE = 2
  MAX_PAGE_SIZE = 3
INVARIANTS
  TypeOK
  NoneSkipped
PROPERTY PagesInOrder
