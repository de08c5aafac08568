\* A header whose command structure is written on one line.
CONSTANTS
    HeaderLists <- OneLineHeaders
    UserSizes = {16}
    MaxStructs = 3
SPECIFICATION Spec
CHECK_DEADLOCK FALSE
PROPERTY ScanEnds
