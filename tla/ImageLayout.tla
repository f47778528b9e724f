---------------------------- MODULE ImageLayout -----------------------------
(***************************************************************************)
(* Images: the checks of MemoryObjectBuilder::setImage, the layout it      *)
(* gives an image, and the checks of a device and of a region that all     *)
(* builders of image commands share.                                       *)
(*                                                                         *)
(* A format is [order, type]; a descriptor is a record of the fields of    *)
(* cl_image_desc, in which buffer is a buffer or NoBuffer; the limits of a *)
(* device are a record, with the formats it supports.                      *)
(***************************************************************************)
EXTENDS CommandBuilder, FiniteSetsExt

InvalidFormat == "CL_INVALID_IMAGE_FORMAT_DESCRIPTOR"
InvalidDescriptor == "CL_INVALID_IMAGE_DESCRIPTOR"
InvalidImageSize == "CL_INVALID_IMAGE_SIZE"
FormatNotSupported == "CL_IMAGE_FORMAT_NOT_SUPPORTED"

NoBuffer == [id |-> "none", kind |-> "null"]

---------------------------------------------------------------------------
(* Formats.                                                                *)

OneChannel == {"R", "A", "Rx", "INTENSITY", "LUMINANCE"}
TwoChannels == {"RG", "RA", "RGx"}
ThreeChannels == {"RGB", "RGBx"}
FourChannels == {"RGBA", "BGRA", "ARGB"}
Orders == OneChannel \cup TwoChannels \cup ThreeChannels \cup FourChannels

NumChannels(order) ==
    CASE order \in OneChannel    -> 1
      [] order \in TwoChannels   -> 2
      [] order \in ThreeChannels -> 3
      [] order \in FourChannels  -> 4

OneByte == {"SNORM_INT8", "UNORM_INT8", "SIGNED_INT8", "UNSIGNED_INT8"}
TwoBytes == {"SNORM_INT16", "UNORM_INT16", "SIGNED_INT16", "UNSIGNED_INT16",
             "UNORM_SHORT_565", "UNORM_SHORT_555", "HALF_FLOAT"}
FourBytes == {"SIGNED_INT32", "UNSIGNED_INT32", "UNORM_INT_101010", "FLOAT"}
Types == OneByte \cup TwoBytes \cup FourBytes

ChannelSize(type) ==
    CASE type \in OneByte   -> 1
      [] type \in TwoBytes  -> 2
      [] type \in FourBytes -> 4

Packed == {"UNORM_SHORT_565", "UNORM_SHORT_555", "UNORM_INT_101010"}
Gray == {"UNORM_INT8", "UNORM_INT16", "SNORM_INT8", "SNORM_INT16",
         "HALF_FLOAT", "FLOAT"}

\* The size of a pixel, as setImage and computePixelFeatures compute it.
ElementSize(fmt) ==
    ChannelSize(fmt.type)
    * (IF fmt.type \in Packed THEN 1 ELSE NumChannels(fmt.order))

FormatErrors(fmt) ==
    Check(\/ fmt.order \notin Orders
          \/ fmt.type \notin Types
          \/ fmt.order \in {"RGB", "RGBx"} /\ fmt.type \notin Packed
          \/ fmt.order \in {"ARGB", "BGRA"} /\ fmt.type \notin OneByte
          \/ fmt.order \in {"INTENSITY", "LUMINANCE"} /\ fmt.type \notin Gray,
          InvalidFormat)

---------------------------------------------------------------------------
(* Dimensions.                                                             *)

IsArray(type) == type \in {"1D_ARRAY", "2D_ARRAY"}
RequiresSlicePitch(type) == IsArray(type) \/ type = "3D"

\* What all devices that support the format can take; the limit of the depth
\* is that of the height.
Limits(devices, fmt) ==
    LET can == {d \in devices : fmt \in d.formats}
    IN  [w2 |-> Min({d.w2 : d \in can}), h2 |-> Min({d.h2 : d \in can}),
         w3 |-> Min({d.w3 : d \in can}), h3 |-> Min({d.h3 : d \in can}),
         d3 |-> Min({d.h3 : d \in can}), buf |-> Min({d.buf : d \in can}),
         arr |-> Min({d.arr : d \in can})]

\* A dimension must not be zero and must be below its limit.
Dimension(n, limit, err) ==
    << <<n = 0, InvalidDescriptor>>, <<n >= limit, err>> >>

ArrayErrors(desc, lim) ==
    IF IsArray(desc.image_type)
    THEN Dimension(desc.array, lim.arr, InvalidDescriptor) ELSE <<>>

DimensionErrors(desc, lim, elem) ==
    LET shared == desc.buffer # NoBuffer
    IN  CASE desc.image_type \in {"1D", "1D_BUFFER", "1D_ARRAY"} ->
                FirstOf(Dimension(desc.width, lim.buf \div elem, InvalidImageSize)
                        \o << <<shared # (desc.image_type = "1D_BUFFER"),
                                InvalidDescriptor>> >>
                        \o ArrayErrors(desc, lim))
          [] desc.image_type \in {"2D", "2D_ARRAY"} ->
                FirstOf(Dimension(desc.width, lim.w2, InvalidImageSize)
                        \o Dimension(desc.height, lim.h2, InvalidImageSize)
                        \o << <<shared, InvalidDescriptor>> >>
                        \o ArrayErrors(desc, lim))
          [] desc.image_type = "3D" ->
                FirstOf(Dimension(desc.width, lim.w3, InvalidImageSize)
                        \o Dimension(desc.height, lim.h3, InvalidImageSize)
                        \o Dimension(desc.depth, lim.d3, InvalidImageSize)
                        \o << <<shared, InvalidDescriptor>> >>)
          [] OTHER -> <<InvalidDescriptor>>

Height(desc) == IF desc.image_type \in {"2D", "2D_ARRAY", "3D"} THEN desc.height ELSE 0
Depth(desc) == IF desc.image_type = "3D" THEN desc.depth ELSE 0
ArraySize(desc) == IF IsArray(desc.image_type) THEN desc.array ELSE 0

---------------------------------------------------------------------------
(* Pitches and size.  hostPtr: the pointer of the host is known.           *)

RowPitchOf(desc, elem) ==
    IF desc.row = 0 THEN desc.width * elem ELSE desc.row

\* Images that need no slice pitch keep the zero of the builder.
SlicePitchOf(desc, elem) ==
    IF ~RequiresSlicePitch(desc.image_type) THEN 0
    ELSE IF desc.slice = 0 THEN RowPitchOf(desc, elem) * Height(desc) ELSE desc.slice

ImagePitchErrors(desc, elem, hostPtr) ==
    LET slice == RequiresSlicePitch(desc.image_type)
        row == RowPitchOf(desc, elem)
        bad == IF ~hostPtr
               THEN desc.row # 0 \/ (slice /\ desc.slice # 0)
               ELSE \/ row < desc.width * elem
                    \/ row % elem # 0
                    \/ slice /\ \/ SlicePitchOf(desc, elem) < row * Height(desc)
                                \/ SlicePitchOf(desc, elem) % row # 0
    IN  Check(bad, InvalidDescriptor)

\* Mutant: the images of an array share the space of one.
SizeWithoutArray(desc, row, slice) ==
    IF Height(desc) = 0 THEN row ELSE row * Height(desc)

\* The size of an array of 2D images, and of a 3D image, is generous.
SizeOfImage(desc, row, slice) ==
    CASE desc.image_type \in {"1D", "1D_BUFFER"} -> row
      [] desc.image_type = "1D_ARRAY" -> row * desc.array
      [] desc.image_type = "2D"       -> row * desc.height
      [] desc.image_type = "2D_ARRAY" -> row * slice * desc.array
      [] desc.image_type = "3D"       -> row * slice * desc.depth

\* What setImage checks before it sets the type of the image.
ShapeErrors(devices, fmt, desc, nulls) ==
    IF "format" \in nulls \/ FormatErrors(fmt) # <<>> THEN <<InvalidFormat>>
    ELSE IF "desc" \in nulls \/ desc.mip # 0 \/ desc.samples # 0
    THEN <<InvalidDescriptor>>
    ELSE IF \A d \in devices : fmt \notin d.formats THEN <<FormatNotSupported>>
    ELSE DimensionErrors(desc, Limits(devices, fmt), ElementSize(fmt))

\* setImage: the error it reports, if any ...
SetImageErrors(devices, fmt, desc, hostPtr, nulls) ==
    LET shape == ShapeErrors(devices, fmt, desc, nulls)
    IN  IF shape # <<>> THEN shape ELSE ImagePitchErrors(desc, ElementSize(fmt), hostPtr)

\* ... and the layout it chooses.
SetImage(fmt, desc) ==
    LET elem == ElementSize(fmt)
        row == RowPitchOf(desc, elem)
        slice == SlicePitchOf(desc, elem)
    IN  [fmt |-> fmt, elem |-> elem, type |-> desc.image_type,
         width |-> desc.width, height |-> Height(desc), depth |-> Depth(desc),
         array |-> ArraySize(desc), row |-> row, slice |-> slice,
         buffer |-> desc.buffer, size |-> SizeOfImage(desc, row, slice)]

---------------------------------------------------------------------------
(* What the builders of commands check of an image.                        *)

CheckDevImgSupport(dev, img) ==
    Check(CASE img.type \in {"1D_ARRAY", "2D_ARRAY"} -> img.array > dev.arr
            [] img.type = "1D" -> img.width > dev.w2
            [] img.type = "1D_BUFFER" -> img.width > dev.buf
            [] img.type = "2D" -> img.width > dev.w2 \/ img.height > dev.h2
            [] img.type = "3D" -> \/ img.width > dev.w3
                                  \/ img.height > dev.h3
                                  \/ img.depth > dev.d3, InvalidImageSize)
    \o Check(img.fmt \notin dev.formats, FormatNotSupported)

\* The extent of an image in the coordinates of its regions.
Extent(img) ==
    CASE img.type \in {"1D", "1D_BUFFER"} -> <<img.width, 1, 1>>
      [] img.type = "1D_ARRAY" -> <<img.width, img.array, 1>>
      [] img.type = "2D"       -> <<img.width, img.height, 1>>
      [] img.type = "2D_ARRAY" -> <<img.width, img.height, img.array>>
      [] img.type = "3D"       -> <<img.width, img.height, img.depth>>

\* A coordinate an image does not have must be 0, its region 1: with an extent
\* of 1, and regions that are not empty, that is what the bounds say.
IsValidImgRegion(img, origin, region) ==
    \A i \in 1..3 : origin[i] + region[i] <= Extent(img)[i]

=============================================================================
