CONSTANTS
    SeqMod = 8
    Scales = {0}
    ISNs <- MCISNs
    StreamLen <- MCStreamLen
    Lens = {0, 1}
    Window = 2
SPECIFICATION Spec
INVARIANTS RetransmissionIsExact RelativeToIsn
