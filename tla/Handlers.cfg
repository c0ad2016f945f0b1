SPECIFICATION Both
CONSTANTS
    Nobody = Nobody
    ann = ann
    top = top
    area = area
    item = item
    People = {ann}
    Places = {top, area, item}
    MaxFollowed = 1
    Handler <- Endpoints
INVARIANTS
    AllOrNothing
    RowsHaveActivity
    ToldRightly
CHECK_DEADLOCK FALSE
