\* Two sessions, any overlap, killed anywhere.
CONSTANTS
    Session = {s1, s2}
    LastEntry = 3
    Depends <- OutOfOrder
    Revision = 1
    Via = {"satisfied"}
    Operational = {"build"}
    MaxSerial = 0
    MaxLog = 0
SPECIFICATION Spec
INVARIANTS NeverSwept
VIEW SeenApplied
CHECK_DEADLOCK FALSE
