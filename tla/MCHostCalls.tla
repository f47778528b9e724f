----------------------------- MODULE MCHostCalls -----------------------------
(***************************************************************************)
(* The calls of the API that a host makes on buffers, images, mappings,    *)
(* programs and devices.  These components keep their own state and meet   *)
(* only in the queue, so that one run is enough for them: a behaviour      *)
(* chooses a family of calls and takes the steps of its component, with    *)
(* the arguments the input modules list.                                   *)
(***************************************************************************)
EXTENDS BufferCommands, ImageCommands, MemoryMapping, Programs, SubDevices

VARIABLES
    family,                    \* the calls of this behaviour
    objects, ocalls, olast     \* MemoryObjects

objectVars == <<objects, ocalls, olast>>
\* vars are those of the mappings.
MCvars == <<family, bufferVars, imageVars, objectVars, vars, programVars, deviceVars>>

---------------------------------------------------------------------------
(* Buffers: every offset and size around the ends of two buffers, and the  *)
(* faults of the other arguments.  Rectangles: every origin and region of  *)
(* two cells, with tight, wide and wrong pitches.                          *)

BufferArgs == INSTANCE BufferInputs

AllBuffers == BufferArgs!AllBuffers \cup BufferArgs!Bricks
LinearAreas == BufferArgs!AllLinear
RectAreas == BufferArgs!AllRects

ASSUME BuffersAreSuch == BufferKinds

(* Images: one of every type; formats, limits, pitches and faults.         *)
ImageArgs == INSTANCE ImageInputs

CPU == ImageArgs!CPU
SomeImages == ImageArgs!AllObjects
PixelAreas == ImageArgs!AllCalls

ASSUME ImagesAreSuch == ImageKinds

(* Objects: one call with every shape, format and fault; then pairs of     *)
(* calls, a buffer and an image made of it, with all flags.                *)
ObjectArgs == INSTANCE ObjectInputs

Layouts == INSTANCE MemoryObjects WITH
    Devices <- ObjectArgs!TwoDevices, BufferCalls <- ObjectArgs!CreatedBuffers,
    ImageCalls <- ObjectArgs!AllImages, MaxCalls <- 1,
    calls <- ocalls, last <- olast

Shared == INSTANCE MemoryObjects WITH
    Devices <- ObjectArgs!OneDevice, BufferCalls <- ObjectArgs!SomeBuffers,
    ImageCalls <- ObjectArgs!SharedImages, MaxCalls <- 2,
    calls <- ocalls, last <- olast

(* Mappings: three at a time on two devices; then writers alone.           *)
PictureMapped == ImageArgs!PictureLayout
StripMapped == ImageArgs!StripLayout
LimitsOfMaps == ImageArgs!MapLimits
ReadersAndWriters == ImageArgs!SmallMaps

Writers == INSTANCE MemoryMapping WITH MapCalls <- ImageArgs!WriteMaps

ASSUME MapsInOrder == CallsInOrder /\ Writers!CallsInOrder /\ Writers!WritersOnly

(* Programs: a module has two kernels, one of which may be missing or have *)
(* another signature on another device (its source may test macros of the  *)
(* device).  Two threads; from source, builds that may fail and a foreign  *)
(* device.                                                                 *)
KernelModules == {"f" :> s @@ "g" :> "int" : s \in {"int", "float"}} \cup {"g" :> "int"}

FromSource == INSTANCE Programs WITH
    Foreign <- {3}, FromBinary <- {}, MayFail <- TRUE,
    Ops <- {"build", "create", "release", "query"}, MaxKernels <- 2

ASSUME ProgramsAreSuch ==
    ProgramKinds /\ FromSource!ProgramKinds

(* Devices: four CPUs, cut and cut again.                                  *)
MachineCPUs == ObjectArgs!MachineCPUs
Topology == ObjectArgs!Topology
Partitions == ObjectArgs!Partitions

ASSUME PartitionsAreSuch == DeviceKinds

---------------------------------------------------------------------------
Families == {"buffers", "pictures", "layouts", "shared", "mappings",
             "writers", "source", "binaries", "cuts"}

MCInit ==
    /\ family \in Families
    /\ BufferInit
    /\ ImageInit /\ Layouts!Init /\ Init
    /\ IF family = "binaries" THEN ProgramInit ELSE FromSource!ProgramInit
    /\ DeviceInit

BufferStep ==
    /\ family = "buffers" /\ BufferNext
    /\ UNCHANGED <<family, imageVars, objectVars, vars, programVars, deviceVars>>

ImageStep ==
    /\ family = "pictures" /\ ImageNext
    /\ UNCHANGED <<family, bufferVars, objectVars, vars, programVars, deviceVars>>

ObjectStep ==
    /\ \/ family = "layouts" /\ Layouts!Next
       \/ family = "shared" /\ Shared!Next
    /\ UNCHANGED <<family, bufferVars, imageVars, vars, programVars, deviceVars>>

MappingStep ==
    /\ \/ family = "mappings" /\ Next
       \/ family = "writers" /\ Writers!Next
    /\ UNCHANGED <<family, bufferVars, imageVars, objectVars, programVars, deviceVars>>

ProgramStep ==
    /\ \/ family = "source" /\ FromSource!ProgramNext
       \/ family = "binaries" /\ ProgramNext
    /\ UNCHANGED <<family, bufferVars, imageVars, objectVars, vars, deviceVars>>

DeviceStep ==
    /\ family = "cuts" /\ DeviceNext
    /\ UNCHANGED <<family, bufferVars, imageVars, objectVars, vars, programVars>>

MCNext ==
    \/ BufferStep
    \/ ImageStep
    \/ ObjectStep
    \/ MappingStep
    \/ ProgramStep
    \/ DeviceStep

MCSpec == MCInit /\ [][MCNext]_MCvars

---------------------------------------------------------------------------
\* The checks of the builders are right.  An image has bytes for every one of
\* its pixels, and none lets kernels do with a buffer what the buffer's flags
\* forbid; mappings of an image for writing share no byte, and a kernel of
\* clCreateKernel has one signature on all of its devices.
ChecksAreRight ==
    /\ Layouts!PixelsHaveStorage /\ Shared!ImagesKeepKernelAccess
    /\ family = "writers" => Writers!WritersExclude
    /\ family = "source" => FromSource!SignaturesAgree
=============================================================================
