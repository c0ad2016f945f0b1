SPECIFICATION Both
CONSTANTS
    Nobody = Nobody
    ann = ann
    top = top
    area = area
    item = item
    People = {ann}
    Places = {top, area, item}
    MaxFollowed = 1
    Handler <- Create
INVARIANTS
    AcknowledgedIsStored
CHECK_DEADLOCK FALSE
