SPECIFICATION Spec
CONSTANTS
  Lists <- MCLists
INVARIANTS TypeOK KeyPathsAreNormal DedupInv UniqueAreFirst KeysNameTheirResource
CHECK_DEADLOCK FALSE
