SPECIFICATION Spec
CONSTANTS
  Capacity = 3
  MaxPushes = 8
INVARIANTS
  TypeOK
  RecentIsNewest
PROPERTY
  ImplementsBoundedLog
