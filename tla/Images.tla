------------------------------- MODULE Images -------------------------------
(***************************************************************************)
(* lumenos_sandbox/image_builder.py: one ImageBuilder, the image objects   *)
(* it handed out, and the VHDX files, one per name.  A caller keeps its    *)
(* image object after the image was deleted and can still build it.  The   *)
(* layers are left out: _apply_layer answers True for each.                *)
(***************************************************************************)
EXTENDS Naturals, Sequences

CONSTANTS
  ImageNames,
  MaxImages         \* bound: image objects ever created

ASSUME ImagesAssumption == MaxImages \in Nat

VARIABLES
  image,            \* image[o]: the o-th VMImage object
  images,           \* images[n]: the object registered as n, or 0
  vhdx              \* vhdx[n]: the object whose build made the file, or 0

imageVars == <<image, images, vhdx>>

ImageStatus == {"PENDING", "READY", "FAILED"}

Made == 1..Len(image)

ImagesInit ==
  /\ image = <<>>
  /\ images = [n \in ImageNames |-> 0]
  /\ vhdx = [n \in ImageNames |-> 0]

CreateImage(n) ==
  /\ Len(image) < MaxImages
  /\ images[n] = 0
  /\ image' = Append(image, [name |-> n, status |-> "PENDING", output |-> "none"])
  /\ images' = [images EXCEPT ![n] = Len(image) + 1]
  /\ UNCHANGED vhdx

\* New-VHD makes the file where there is none
BuildImage(o) ==
  LET n == image[o].name IN
  /\ vhdx[n] = 0
  /\ vhdx' = [vhdx EXCEPT ![n] = o]
  /\ \E status \in {"READY", "FAILED"} :    \* size and hash may raise
       image' = [image EXCEPT ![o] = [name |-> n, status |-> status, output |-> "vhdx"]]
  /\ UNCHANGED images

\* New-VHD does not answer success: the file exists, or it is made too late
\* or not at all; the image does not know of the file
BuildFails(o) ==
  LET n == image[o].name IN
  /\ image' = [image EXCEPT ![o] = [name |-> n, status |-> "FAILED", output |-> @.output]]
  /\ \/ UNCHANGED vhdx
     \/ vhdx[n] = 0 /\ vhdx' = [vhdx EXCEPT ![n] = o]
  /\ UNCHANGED images

\* a bug to catch: the image stays registered without its file
DeleteFileOnly(n) ==
  /\ images[n] # 0
  /\ vhdx' = [vhdx EXCEPT ![n] = IF image[images[n]].output = "vhdx" THEN 0 ELSE @]
  /\ UNCHANGED <<image, images>>

\* a file the image does not know of stays
DeleteImage(n) ==
  /\ images[n] # 0
  /\ vhdx' = [vhdx EXCEPT ![n] = IF image[images[n]].output = "vhdx" THEN 0 ELSE @]
  /\ images' = [images EXCEPT ![n] = 0]
  /\ UNCHANGED image

ImagesNext ==
  \/ \E n \in ImageNames : CreateImage(n) \/ DeleteImage(n)
  \/ \E o \in Made : BuildImage(o) \/ BuildFails(o)

ImagesSpec == ImagesInit /\ [][ImagesNext]_imageVars

-----------------------------------------------------------------------------
(* What image_builder.py owes its callers.                                  *)

\* A registered image that says READY has its VHDX, and it is the file its own
\* build made: no build or delete of an object with the same name, one that a
\* caller kept after its image was deleted included, puts another file in its
\* place or takes it away, so size and hash of the manifest are those of the
\* file deploy uses (image_builder.py:220-223, 233).
ReadyIsOnDisk ==
  \A n \in ImageNames :
    images[n] # 0 /\ image[images[n]].status = "READY" => vhdx[n] = images[n]
=============================================================================
