SPECIFICATION LiveSpec
CONSTANTS
    Receivers = {r1, r2}
    Frames = {f1, f2}
    Datagrams = {d1}
    MaxLine = 1
    MaxReopens = 1
    NoThread = NoThread
    NoFrame = NoFrame
    Trigger = Trigger
    Poller = Poller
INVARIANTS ReceiverOwned FrameKept SentWhole
PROPERTIES CloseReturns FramesTaken
