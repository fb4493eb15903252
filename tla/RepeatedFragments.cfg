\* Fragments delivered again after their message was emitted.
SPECIFICATION MCSpec
CONSTANTS
    d1 = d1
    d2 = d2
    mThree = mThree
    mTwo = mTwo
    mOther = mOther
    mLarge = mLarge
    mSingle = mSingle
    A = A
    T = T
    crc = crc
    Components = {"reassembler"}
    Fragments <- MCDuplicatedFragments
    MaxPayload = 3
    MaxSeen = 5
    Device <- MCDevice
    Packets <- MCPackets
    Time = {1, 2, 4}
    IdleTimeout = 2
    MaxGap = 1
    MaxObserved = 3
    Received <- MCReceived
    MaxReceived = 4
    Senders <- MCDevice
    Envelopes <- MCEnvelopes
    MaxPackets = 2
    MaxPayloadBytes = 4
    MaxPacketPayloadBytes = 3
    RejectEmptyPayload = FALSE
    PublishEvents = TRUE
    MaxAccepted = 3
    MaxPushDepth = 2
    MaxRejected = 1
    Length = {0, 1, 9}
    ValidFrames <- MCValidFrames
    Chunks <- MCChunks
    MaxPacket = 5
    MaxStream = 10
INVARIANTS
    EmittedOnce
