SPECIFICATION FairSpec
CONSTANTS
    wim = wim
    iso = iso
    drv = drv
    r1 = r1
    r2 = r2
    r3 = r3
    Objects <- MCObjects
    Blobs <- MCBlobs
    Sized <- MCSized
    Size <- MCSize
    MaxBytes = 2
    Requests <- ThreeRequests
    Faults = TRUE
INVARIANT TypeOK
INVARIANT OneFiller
INVARIANT BlobsAreVerified
INVARIANT RoomWasMade
PROPERTY AnsweredUnlessStalled
