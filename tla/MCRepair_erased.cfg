SPECIFICATION MCSpec
CONSTANTS
    Files = 2
    Vmware = {Ens}
    Plain = {Bond, Eth}
    Ens = Ens
    Bond = Bond
    Eth = Eth
    None = None
    Torn = Torn
    Suites <- Callers
    Checkup <- Default
    Jobs <- FixerJobs
INVARIANT
    GuestKept
CHECK_DEADLOCK FALSE
