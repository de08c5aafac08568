\* send_mult_cfs_commands to all targets, with two targets registered.
CONSTANTS
    Sections <- MCSections
    CallNames <- MCCallNames
    Mults = {0, 2}
    MaxSent = 2
SPECIFICATION Spec
PROPERTY MultCommandReachesEveryTarget
