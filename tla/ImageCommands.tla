--------------------------- MODULE ImageCommands ----------------------------
(***************************************************************************)
(* The commands on images: what clEnqueueReadImage, WriteImage, CopyImage, *)
(* CopyImageToBuffer, CopyBufferToImage and FillImage check, and which     *)
(* bytes a worker moves for a command that was accepted.                   *)
(*                                                                         *)
(* What a command does is the set of bytes it moves.  The color of a fill  *)
(* is a region of memory of its own: byte c * ChannelSize + k is byte k of *)
(* component c once converted to the type of the image, and component 4    *)
(* stands for a mix of the components (packed formats, intensity).         *)
(*                                                                         *)
(* Copies within one image are left out of the calls: nothing checks that  *)
(* the areas are disjoint.  So is a copy to a null image from a good one,  *)
(* for which the builder reads the format of the null image.               *)
(***************************************************************************)
EXTENDS ImageLayout, Transfers

CONSTANTS
    ImageObjects, \* cl_mem arguments: [id, kind, ctx, flags, img] or buffers
    ImageDevice,  \* limits and formats of the device of the queue, and its support
    HostBytes,    \* bytes of the host's array
    ImageCalls,   \* arguments of the calls
    MaxImageCalls \* bound: number of calls

Color == "color"

VARIABLES
    imageCalls, \* number of calls so far
    lastImage   \* the last call: arguments, answer and the moves of the worker

imageVars == <<imageCalls, lastImage>>

---------------------------------------------------------------------------
(* Builders.  a.img is the image, a.other the other object of a copy.      *)

ObjectErrors(o, kind, denied) ==
    FirstOf(<< <<o.kind # kind, InvalidMemObject>>,
               <<o.flags \cap denied # {}, InvalidOperation>>,
               <<o.ctx # Ctx, InvalidContext>> >>)

Supported(o) ==
    IF o.kind # "image" THEN <<>> ELSE CheckDevImgSupport(ImageDevice, o.img)

\* The checks of a region that every SetCopyArea starts with.
ImageRegionErrors(a, o, origin) ==
    Check(\/ "origin" \in a.nulls \/ "region" \in a.nulls
          \/ \E i \in 1..3 : a.region[i] = 0
          \/ ~IsValidImgRegion(o.img, origin, a.region), InvalidValue)

\* The pitches of the host's area, given or tight.
HostRow(a) == IF a.row = 0 THEN a.region[1] * a.img.img.elem ELSE a.row
HostSlice(a) == IF a.slice = 0 THEN HostRow(a) * a.region[2] ELSE a.slice

\* An image is one that setImage makes of a descriptor without pitches.
IsImage(img) ==
    /\ img.type \in {"1D", "1D_BUFFER", "1D_ARRAY", "2D", "2D_ARRAY", "3D"}
    /\ FormatErrors(img.fmt) = <<>>
    /\ \A i \in 1..3 : Extent(img)[i] \in Nat
    /\ img = SetImage(img.fmt,
                     [image_type |-> img.type, width |-> img.width, height |-> img.height,
                      depth |-> img.depth, array |-> img.array, row |-> 0, slice |-> 0,
                      buffer |-> img.buffer])

\* Each object has its name and its bytes; the formats of the device are legal
\* and none of them packs two channels or four (CPUImgFmts); coordinates and
\* pitches are sizes, and the array of the host has the area it is said to have.
ImageKinds ==
    /\ HostBytes \in Nat
    /\ \A o, p \in ImageObjects : o.id = p.id => o = p
    /\ \A o \in ImageObjects :
          /\ o.id # Host /\ o.id # Color
          /\ o.kind = "image" => IsImage(o.img)
          /\ o.kind = "buffer" => o.size \in Nat
    /\ \A f \in ImageDevice.formats :
          FormatErrors(f) = <<>> /\ (f.type \in Packed => f.order \in ThreeChannels)
    /\ \A a \in ImageCalls :
          /\ a.img \in ImageObjects /\ a.other \in ImageObjects
          /\ \A i \in 1..3 : a.origin[i] \in Nat /\ a.from[i] \in Nat /\ a.region[i] \in Nat
          /\ a.offset \in Nat /\ a.row \in Nat /\ a.slice \in Nat
          /\ a.img.kind = "image" => HostSlice(a) * a.region[3] <= HostBytes

HostAreaErrors(a) ==
    IF a.img.kind # "image" THEN <<>>
    ELSE IF ImageRegionErrors(a, a.img, a.origin) # <<>> THEN <<InvalidValue>>
    ELSE Check(\/ HostRow(a) < a.region[1] * a.img.img.elem
               \/ HostSlice(a) < HostRow(a) * a.region[2], InvalidValue)

ReadImageBuilder(a) ==
    ObjectErrors(a.img, "image", {"HostWriteOnly", "HostNoAccess"})
    \o Check("ptr" \in a.nulls, InvalidValue) \o Supported(a.img)
    \o HostAreaErrors(a) \o CheckedWaitList(a.wl, a.blocking)

\* The pointer is not checked: the builder looks at the image once more.
WriteImageBuilder(a) ==
    ObjectErrors(a.img, "image", {"HostReadOnly", "HostNoAccess"})
    \o Check(a.img.kind # "image", InvalidValue) \o Supported(a.img)
    \o HostAreaErrors(a) \o CheckedWaitList(a.wl, a.blocking)

\* a.img is the target, a.other the source.
CopyImageBuilder(a) ==
    LET source == ObjectErrors(a.other, "image", {})
        areas  == IF a.img.kind # "image" \/ a.other.kind # "image" THEN <<>>
                  ELSE FirstOf(<< <<ImageRegionErrors(a, a.img, a.origin) # <<>>, InvalidValue>>,
                                  <<ImageRegionErrors(a, a.other, a.from) # <<>>, InvalidValue>> >>)
    IN  ObjectErrors(a.img, "image", {}) \o source
        \o (IF source # <<>> THEN <<>>
            ELSE Check(a.img.img.fmt # a.other.img.fmt, FormatMismatch))
        \o Supported(a.img) \o Supported(a.other) \o areas
        \o CheckedWaitList(a.wl, FALSE)

\* Mutant: pixels are counted, not bytes.
BufferPartErrorsInPixels(a) ==
    IF a.img.kind # "image" \/ a.other.kind # "buffer" THEN <<>>
    ELSE FirstOf(<< <<ImageRegionErrors(a, a.img, a.origin) # <<>>, InvalidValue>>,
                    <<a.offset + a.region[1] * a.region[2] * a.region[3]
                        > a.other.size, InvalidValue>> >>)

BufferPartErrors(a) ==
    IF a.img.kind # "image" \/ a.other.kind # "buffer" THEN <<>>
    ELSE FirstOf(<< <<ImageRegionErrors(a, a.img, a.origin) # <<>>, InvalidValue>>,
                    <<a.offset + a.region[1] * a.region[2] * a.region[3] * a.img.img.elem
                        > a.other.size, InvalidValue>> >>)

\* The image must not be made from the buffer.
ImageOfBufferErrors(a) ==
    FirstOf(<< <<a.img.kind # "image", InvalidMemObject>>,
               <<a.img.kind = "image" /\ a.img.img.type = "1D_BUFFER"
                    /\ a.img.img.buffer.id = a.other.id, InvalidMemObject>>,
               <<a.img.ctx # Ctx, InvalidContext>> >>)

CopyImageToBufferBuilder(a) ==
    ObjectErrors(a.other, "buffer", {}) \o ImageOfBufferErrors(a)
    \o Supported(a.img) \o BufferPartErrors(a) \o CheckedWaitList(a.wl, FALSE)

CopyBufferToImageBuilder(a) ==
    ObjectErrors(a.other, "buffer", {}) \o ImageOfBufferErrors(a)
    \o Supported(a.img) \o BufferPartErrors(a) \o CheckedWaitList(a.wl, FALSE)

FillImageBuilder(a) ==
    ObjectErrors(a.img, "image", {}) \o Check("ptr" \in a.nulls, InvalidValue)
    \o Supported(a.img)
    \o (IF a.img.kind # "image" THEN <<>> ELSE ImageRegionErrors(a, a.img, a.origin))
    \o CheckedWaitList(a.wl, FALSE)

---------------------------------------------------------------------------
(* Commands: the width of the region becomes bytes, an origin an offset.   *)

ByteRegion(img, region) == <<region[1] * img.elem, region[2], region[3]>>

\* Mutant: slices and rows are swapped.
ImageAreaSwapped(img, origin) ==
    [offset |-> origin[1] * img.elem + origin[2] * img.slice + origin[3] * img.row,
     row |-> img.row, slice |-> img.slice]

ImageArea(img, origin) ==
    [offset |-> origin[1] * img.elem + origin[2] * img.row + origin[3] * img.slice,
     row |-> img.row, slice |-> img.slice]

HostArea(a) == [offset |-> 0, row |-> HostRow(a), slice |-> HostSlice(a)]

\* A buffer is read and written without gaps.
BufferArea(a) ==
    LET region == ByteRegion(a.img.img, a.region)
    IN  [offset |-> a.offset, row |-> region[1], slice |-> region[1] * region[2]]

\* Which component of the color each channel of a pixel takes.
FillChannels(order) ==
    CASE order \in {"R", "Rx"}          -> <<0>>
      [] order = "A"                    -> <<3>>
      [] order \in {"RG", "RGx"}        -> <<0, 1>>
      [] order = "RA"                   -> <<0, 3>>
      [] order = "RGBA"                 -> <<0, 1, 2, 3>>
      [] order = "ARGB"                 -> <<3, 0, 1, 2>>
      [] order = "BGRA"                 -> <<2, 1, 0, 3>>
      [] order \in ThreeChannels \cup {"INTENSITY", "LUMINANCE"} -> <<4>>

\* fill_data, and the area it is written to.
FillMoves(a) ==
    LET img == a.img.img
        n   == ChannelSize(img.fmt.type)
        FromColor(i) == FillChannels(img.fmt.order)[(i \div n) + 1] * n + (i % n)
    IN  {<<mv[1], FromColor(mv[2])>> :
             mv \in MemRectFill(ByteRegion(img, a.region),
                                ImageArea(img, a.origin), img.elem)}

---------------------------------------------------------------------------
(* The API functions.                                                      *)

\* The moves are looked at only if the call is accepted.
EnqueueImageCommand(api, a, errors, target, source, moves) ==
    LET err  == Result(a.nulls, Check(~ImageDevice.images, InvalidOperation), errors)
        done == IF err = Success THEN moves ELSE NoMoves
    IN  /\ imageCalls' = imageCalls + 1
        /\ lastImage' = [api |-> api, args |-> a, err |-> err,
                    target |-> target, source |-> source, moves |-> done]

ReadMoves(a) == MemRectCpy(ByteRegion(a.img.img, a.region), HostArea(a),
                           ImageArea(a.img.img, a.origin))
WriteMoves(a) == MemRectCpy(ByteRegion(a.img.img, a.region),
                            ImageArea(a.img.img, a.origin), HostArea(a))
CopyMoves(a) == MemRectCpy(ByteRegion(a.img.img, a.region),
                           ImageArea(a.img.img, a.origin),
                           ImageArea(a.other.img, a.from))
ToBufferMoves(a) == MemRectCpy(ByteRegion(a.img.img, a.region), BufferArea(a),
                               ImageArea(a.img.img, a.origin))
FromBufferMoves(a) == MemRectCpy(ByteRegion(a.img.img, a.region),
                                 ImageArea(a.img.img, a.origin), BufferArea(a))

clEnqueueReadImage(a) ==
    EnqueueImageCommand("ReadImage", a, ReadImageBuilder(a), Host, a.img.id, ReadMoves(a))

clEnqueueWriteImage(a) ==
    EnqueueImageCommand("WriteImage", a, WriteImageBuilder(a), a.img.id, Host, WriteMoves(a))

clEnqueueCopyImage(a) ==
    EnqueueImageCommand("CopyImage", a, CopyImageBuilder(a), a.img.id, a.other.id, CopyMoves(a))

clEnqueueCopyImageToBuffer(a) ==
    EnqueueImageCommand("CopyImageToBuffer", a, CopyImageToBufferBuilder(a),
            a.other.id, a.img.id, ToBufferMoves(a))

clEnqueueCopyBufferToImage(a) ==
    EnqueueImageCommand("CopyBufferToImage", a, CopyBufferToImageBuilder(a),
            a.img.id, a.other.id, FromBufferMoves(a))

clEnqueueFillImage(a) ==
    EnqueueImageCommand("FillImage", a, FillImageBuilder(a), a.img.id, Color, FillMoves(a))

BytesOf(id) ==
    IF id = Host THEN HostBytes ELSE IF id = Color THEN 20
    ELSE LET o == CHOOSE o \in ImageObjects : o.id = id
         IN  CASE o.kind = "image" -> o.img.size [] o.kind = "buffer" -> o.size
               [] OTHER -> 0

ImageInit ==
    /\ imageCalls = 0
    /\ lastImage = [api |-> "none", err |-> Success, target |-> Host,
               source |-> Host, moves |-> NoMoves]

\* A copy from an image reads the format of the target.
Copyable(a) ==
    a.img.id # a.other.id /\ (a.img.kind = "image" \/ a.other.kind # "image")

ImageNext ==
    /\ imageCalls < MaxImageCalls
    /\ \E a \in ImageCalls :
        \/ clEnqueueReadImage(a)
        \/ clEnqueueWriteImage(a)
        \/ clEnqueueFillImage(a)
        \/ Copyable(a) /\ clEnqueueCopyImage(a)
        \/ clEnqueueCopyImageToBuffer(a)
        \/ clEnqueueCopyBufferToImage(a)

ImageSpec == ImageInit /\ [][ImageNext]_imageVars

---------------------------------------------------------------------------
\* What an image means: pixel <<x, y, z>> of an extent <<w, h, d>>, counted
\* row by row, takes the elem bytes from its number on.
Pixels(region) ==
    (0..(region[1] - 1)) \X (0..(region[2] - 1)) \X (0..(region[3] - 1))

PixelByte(img, origin, c, k) ==
    LET e == Extent(img)
    IN  (((origin[3] + c[3]) * e[2] + (origin[2] + c[2])) * e[1]
          + (origin[1] + c[1])) * img.elem + k

HostByte(a, c, k) ==
    LET row   == IF a.row = 0 THEN a.region[1] * a.img.img.elem ELSE a.row
        slice == IF a.slice = 0 THEN row * a.region[2] ELSE a.slice
    IN  c[1] * a.img.img.elem + c[2] * row + c[3] * slice + k

BufferByte(a, c, k) ==
    a.offset + (c[1] + (c[2] + c[3] * a.region[2]) * a.region[1]) * a.img.img.elem + k

\* The channels of a pixel are, in this order, those its format names.
ComponentOf == [R |-> 0, G |-> 1, B |-> 2, A |-> 3]
Named(order) ==
    CASE order = "A"    -> <<"A">>           [] order \in {"R", "Rx"}   -> <<"R">>
      [] order = "RA"   -> <<"R", "A">>      [] order \in {"RG", "RGx"} -> <<"R", "G">>
      [] order = "RGBA" -> <<"R", "G", "B", "A">>
      [] order = "ARGB" -> <<"A", "R", "G", "B">>
      [] order = "BGRA" -> <<"B", "G", "R", "A">>

ColorByte(fmt, k) ==
    LET n == ChannelSize(fmt.type)
    IN  IF fmt.type \in Packed \/ fmt.order \in {"INTENSITY", "LUMINANCE"} THEN 4 * n + k
        ELSE ComponentOf[Named(fmt.order)[(k \div n) + 1]] * n + (k % n)

\* Where byte k of the pixel at c goes, and where it comes from.
TargetByte(l, c, k) ==
    CASE l.api = "ReadImage"         -> HostByte(l.args, c, k)
      [] l.api = "CopyImageToBuffer" -> BufferByte(l.args, c, k)
      [] OTHER                       -> PixelByte(l.args.img.img, l.args.origin, c, k)

SourceByte(l, c, k) ==
    CASE l.api \in {"ReadImage", "CopyImageToBuffer"} ->
                PixelByte(l.args.img.img, l.args.origin, c, k)
      [] l.api = "WriteImage"        -> HostByte(l.args, c, k)
      [] l.api = "CopyImage"         -> PixelByte(l.args.other.img, l.args.from, c, k)
      [] l.api = "CopyBufferToImage" -> BufferByte(l.args, c, k)
      [] l.api = "FillImage"         -> ColorByte(l.args.img.img.fmt, k)

\* The pairs of bytes that an accepted command must move.
Meant(l) ==
    {<<TargetByte(l, c, k), SourceByte(l, c, k)>> :
         c \in Pixels(l.args.region), k \in 0..(l.args.img.img.elem - 1)}

\* An accepted command moves exactly the bytes of the pixels of its region,
\* each to the pixel it corresponds to, for every type of image: the offsets
\* and pitches the commands compute agree with the numbering of the pixels.
\* All of these bytes are inside both objects, wherever the region starts.  A
\* refused command moves nothing.
PixelsAreExact ==
    /\ lastImage.api # "none" =>
           lastImage.moves = IF lastImage.err = Success THEN Meant(lastImage) ELSE NoMoves
    /\ \A mv \in lastImage.moves : /\ mv[1] < BytesOf(lastImage.target)
                                   /\ mv[2] < BytesOf(lastImage.source)

=============================================================================
