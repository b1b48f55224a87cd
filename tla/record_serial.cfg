\* One command at a time, killed anywhere; every starting layout.
CONSTANTS
    Session = {s1}
    LastEntry = 3
    Depends <- OutOfOrder
    Revision = 1
    Via = {"satisfied", "inapplicable"}
    Operational = {"build"}
    MaxSerial = 1
    MaxLog = 2
SPECIFICATION Spec
INVARIANTS TypeOK FilesWhole ReportedKept
VIEW SeenTold
PROPERTIES NewLayoutStays ImplementsApplied
CHECK_DEADLOCK FALSE
