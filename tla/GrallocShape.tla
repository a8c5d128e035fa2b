---------------------------- MODULE GrallocShape ----------------------------
(***************************************************************************)
(* The pure part of gralloc/gralloc_gbm.cpp: which GBM format, size and    *)
(* binding a buffer is asked for, how the size is adjusted for the planar  *)
(* YV12, the stride in pixels, and the region a CPU lock maps.             *)
(*                                                                         *)
(* Sizes are numbers, formats are names, usage masks are sets of bits.     *)
(* SW_READ_RARELY is 2 and SW_READ_OFTEN is 3, so each of the CPU usages   *)
(* has two bits here; the same goes for writing.                           *)
(***************************************************************************)
EXTENDS Integers

Formats == {"RGBA_8888", "RGBX_8888", "RGB_888", "RGB_565", "BGRA_8888", "YV12",
            "YCbCr_422_SP", "YCrCb_420_SP", "YCbCr_422_I", "another"}

GbmFormats == {"ABGR8888", "XBGR8888", "RGB888", "RGB565", "ARGB8888", "GR88", "none"}
GbmUses    == {"LINEAR", "CURSOR", "RENDERING", "SCANOUT"}

SwReadRarely  == {"READ_1"}
SwReadOften   == {"READ_0", "READ_1"}
SwWriteRarely == {"WRITE_1"}
SwWriteOften  == {"WRITE_0", "WRITE_1"}
SwBits        == SwReadOften \cup SwWriteOften
UsageBits     == SwBits \cup {"TEXTURE", "RENDER", "COMPOSER", "FB", "CURSOR"}

Description == [width : Nat, height : Nat, format : Formats, usage : SUBSET UsageBits]
-----------------------------------------------------------------------------
(* "none" is the 0 of an unknown format; gbm has no buffer for it.         *)
get_gbm_format(f) ==
  CASE f = "RGBA_8888" -> "ABGR8888"
    [] f = "RGBX_8888" -> "XBGR8888"
    [] f = "RGB_888"   -> "RGB888"
    [] f = "RGB_565"   -> "RGB565"
    [] f = "BGRA_8888" -> "ARGB8888"
    [] f = "YV12"      -> "GR88"
    [] OTHER           -> "none"

gralloc_gbm_get_bpp(f) ==
  CASE f \in {"RGBA_8888", "RGBX_8888", "BGRA_8888"}  -> 4
    [] f = "RGB_888"                                  -> 3
    [] f \in {"RGB_565", "YCbCr_422_I"}               -> 2
    [] f \in {"YV12", "YCbCr_422_SP", "YCrCb_420_SP"} -> 1
    [] OTHER                                          -> 0

(* What libgbm takes for a pixel of the formats asked for.                 *)
GbmCpp(gf) ==
  CASE gf \in {"ABGR8888", "XBGR8888", "ARGB8888"} -> 4
    [] gf = "RGB888"                               -> 3
    [] gf \in {"RGB565", "GR88"}                   -> 2
    [] OTHER                                       -> 0
-----------------------------------------------------------------------------
SlipCpuBound(u) == SwReadOften \subseteq u \/ SwWriteOften \subseteq u   \* all the bits

CpuBound(u) == u \cap SwBits # {}

SlipCursorBound(u) == "CURSOR" \in u   \* the assignment of line 145 put back

CursorBound(u) == FALSE

get_pipe_bind(u) ==
  {b \in GbmUses :
     \/ b = "LINEAR"    /\ CpuBound(u)
     \/ b = "CURSOR"    /\ CursorBound(u)
     \/ b = "RENDERING" /\ u \cap {"RENDER", "TEXTURE", "COMPOSER"} # {}
     \/ b = "SCANOUT"   /\ u \cap {"FB", "COMPOSER"} # {}}
-----------------------------------------------------------------------------
(* YV12 is asked for as GR88, two bytes wide: half the columns, and half   *)
(* as many rows again for the chroma planes.                               *)
SlipChromaRows(h) == 0   \* the planes forgotten

ChromaRows(h) == h \div 2

AtLeast(n, min) == IF n < min THEN min ELSE n

(* The size gbm_alloc asks for.  A cursor would be made 64 pixels wide and *)
(* high, and its chroma rows counted from the height before that.          *)
AllocSize(d) ==
  LET cursor == "CURSOR" \in get_pipe_bind(d.usage)
      w == IF cursor THEN AtLeast(d.width, 64) ELSE d.width
      h == IF cursor THEN AtLeast(d.height, 64) ELSE d.height
  IN IF d.format = "YV12"
     THEN [cols |-> w \div 2, rows |-> h + ChromaRows(d.height)]
     ELSE [cols |-> w, rows |-> h]

(* The size gbm_import tells the driver of.                                *)
ImportSize(d) ==
  IF d.format = "YV12"
  THEN [cols |-> d.width \div 2, rows |-> d.height + ChromaRows(d.height)]
  ELSE [cols |-> d.width, rows |-> d.height]

SlipMapSize(f, r) == [cols |-> r.w, rows |-> r.h]   \* offsets forgotten

(* What gbm_map maps for a lock of rectangle r, always from the origin.    *)
MapSize(f, r) ==
  IF f = "YV12"
  THEN [cols |-> r.x + r.w \div 2, rows |-> r.y + r.h + ChromaRows(r.h)]
  ELSE [cols |-> r.x + r.w, rows |-> r.y + r.h]

PixelStride(stride, f) == stride \div gralloc_gbm_get_bpp(f)

(* The lock's test of its usage against the one the buffer was made for.   *)
Permitted(made, u) ==
  u \subseteq made \/ made \cap (SwReadOften \cup {"FB", "TEXTURE"}) # {}
=============================================================================
