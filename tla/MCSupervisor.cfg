SPECIFICATION SupervisorSpec
CONSTANTS
    Order <- ThreeServices
    Vital = {"storage"}
    MaxBoots = 2
INVARIANTS SupervisorTypeOK NothingLeft
PROPERTIES StopsAll NotAdopted
CHECK_DEADLOCK FALSE
