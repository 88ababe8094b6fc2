SPECIFICATION LiveSpec
CONSTANTS
    N = 2
    Size = 2
    Workers = 2
    MaxRuns = 2
    ShortReads = TRUE
    Choices <- Exports
    MaxCalls = 3
    Capacity <- Capacities
    PerRead = 2
    ReadRetries = 1
    Pieces = 3
    MaxRetries = 2
    MaxGovc = 1
    MaxVms = 2
    Files = {Disk, Vmx}
    VsphereJobs <- JobsOfVsphere
    Archives <- Tapes
    Full = 2
    Conversions <- JobsOfImage
    Fstabs <- Tables
    Grubs <- Defaults
    LiveOptions <- OptionsOfLive
    Guests <- GuestsOfWindows
    Calls <- CallsOfWindows
    MaxClock = 1
    Disk = Disk
    Vmx = Vmx
    Top = Top
    Sub = Sub
    Boot = Boot
    Data = Data
    Doc = Doc
    Src = Src
    None = None
    Torn = Torn
PROPERTY
    OptionsKept
CHECK_DEADLOCK FALSE
