SPECIFICATION MCSpec
CONSTANTS
    Files = 2
    Vmware = {Ens}
    Plain = {Bond, Eth}
    Ens = Ens
    Bond = Bond
    Eth = Eth
    None = None
    Torn = Torn
    Suites <- Callers
    Checkup <- Default
    Jobs <- FixerJobs
INVARIANTS
    ToldTrue
    RenamesAgree
    PayloadTrue
    DryRunUntouched
    DamageTold
PROPERTIES
    NothingAfterCritical
    PartsEnd
CHECK_DEADLOCK FALSE
