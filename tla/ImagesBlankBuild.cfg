SPECIFICATION Spec
CONSTANTS
    b1 = b1
    w1 = w1
    q1 = q1
    i1 = i1
    i2 = i2
    i3 = i3
    u1 = u1
    Builders <- OneBuilder
    UploadWorkers <- OneUploadWorker
    Host <- OneHost
    Providers <- OneProvider
    Builds <- TwoBuilds
    Uploads <- OneUpload
    DeleteAfterUpload = TRUE
    MaxEvents = 1
    LateLoss = FALSE
    None = None
    Dead = Dead
INVARIANT BuildsReadable
