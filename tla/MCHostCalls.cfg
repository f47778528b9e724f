SPECIFICATION MCSpec
CONSTANTS
    Buffers <- AllBuffers
    HostSize = 16
    LinearCalls <- LinearAreas
    RectCalls <- RectAreas
    MaxBufferCalls = 1
    ImageObjects <- SomeImages
    ImageDevice <- CPU
    HostBytes = 40
    ImageCalls <- PixelAreas
    MaxImageCalls = 1
    Devices = {"d1", "d2"}
    UseHostPtr = FALSE
    BufferSize = 4
    Picture <- PictureMapped
    Strip <- StripMapped
    Limits1 <- LimitsOfMaps
    MapCalls <- ReadersAndWriters
    Faults = {"none"}
    MaxCalls = 3
    Threads = {1, 2}
    ProgramDevices = {1, 2}
    Foreign = {}
    FromBinary = {1, 2}
    Modules <- KernelModules
    MayFail = FALSE
    Ops = {"build", "create", "create_all", "release"}
    MaxBuilds = 3
    MaxKernels = 3
    CPUs <- MachineCPUs
    Ancestors <- Topology
    Parts <- Partitions
    MaxDevices = 4
    MaxUsers = 1
    MaxRefs = 3
INVARIANTS ChecksAreRight PixelsAreExact MappingsMatchRecords
INVARIANTS KernelsMatchModules SubDevicesAreApart
PROPERTY BufferCommandsAreExact
CHECK_DEADLOCK FALSE
