SPECIFICATION LiveSpec
CONSTANTS Tasks = {display, buttons} Waits = {2, 3} TickLen = 3
INVARIANTS TypeOK NeverEarlyAlone
PROPERTY Returns
