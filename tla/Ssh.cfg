CONSTANTS
    ShellChans = {"c1"}
    DirectChans = {"d1"}
    ForwardedChans = {"f1"}
    Rules <- MCRules
    Commands = {"ls", "rm", "sudo"}
    Line = "rm"
    Scripts <- MCScripts
    Chunks <- TypedChunks
    HostKeyModes = {"Prompt", "AutoAccept", "AutoReject"}
    MaxOutput = 1
SPECIFICATION FairSpec
INVARIANTS ExecJustified PtyLineHeld
PROPERTIES  TargetGoneCloses ChannelOrder
CHECK_DEADLOCK FALSE
