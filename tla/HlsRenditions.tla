----------------------------- MODULE HlsRenditions -----------------------------
(***************************************************************************)
(* Which pictures the worker asks ffmpeg for: the size of the thumbnail    *)
(* and the HLS ladder, from the video stream that ffprobe describes.  The  *)
(* code computes with floating-point numbers and rounds the result; here   *)
(* the quotients are exact, which gives the same even number except where  *)
(* a quotient falls on the boundary between two of them.                   *)
(***************************************************************************)
EXTENDS Integers, Sequences, FiniteSets

(* A stream has its coded width and height and a rotation in degrees.      *)
Usable(stream) == stream.width >= 2 /\ stream.height >= 2

Rotation(stream) ==
    LET normalized == stream.rotation % 360 IN
    IF normalized > 180 THEN normalized - 360 ELSE normalized

(* The picture is shown on its side, and its sides are swapped.            *)
SwapsDimensions(stream) == Rotation(stream) \in {90, -90}

Displayed(stream) ==
    IF SwapsDimensions(stream)
    THEN [width |-> stream.height, height |-> stream.width]
    ELSE [width |-> stream.width, height |-> stream.height]

Smaller(a, b) == IF a < b THEN a ELSE b
Larger(a, b) == IF a > b THEN a ELSE b

(* Math.round(n / d)                                                       *)
Rounded(n, d) == (2 * n + d) \div (2 * d)

(* Mutation: the nearest even number, even if it is beyond the source.     *)
NearestEven_Upscaling(n, d, source) == Larger(2, 2 * Rounded(n, 2 * d))

(* The even number nearest to n / d, at most the source's even part.       *)
NearestEven(n, d, source) ==
    Larger(2, Smaller(2 * (source \div 2), 2 * Rounded(n, 2 * d)))

(* scaleToHeight with scale = target / height, target <= height.           *)
ScaleToHeight(source, target) ==
    [width |-> NearestEven(source.width * target, source.height, source.width),
     height |-> NearestEven(source.height * target, source.height, source.height)]

Picture(name, size) == [name |-> name, width |-> size.width, height |-> size.height]

RenditionLadder ==
    <<[name |-> "360p", targetHeight |-> 360], [name |-> "480p", targetHeight |-> 480],
      [name |-> "720p", targetHeight |-> 720]>>

(* The ladder ascends: the entries that fit are its first.                 *)
SelectRenditions(source) ==
    LET fits == {i \in DOMAIN RenditionLadder :
                    RenditionLadder[i].targetHeight <= source.height}
        selected == SubSeq(RenditionLadder, 1, Cardinality(fits))
    IN  IF selected = <<>>
        THEN <<Picture("source", ScaleToHeight(source, source.height))>>
        ELSE [i \in DOMAIN selected |->
                 Picture(selected[i].name, ScaleToHeight(source, selected[i].targetHeight))]

(* The thumbnail fits into 1280 x 720 and is never larger than the source. *)
EvenPart(n, d) == Larger(2, 2 * (n \div (2 * d)))

FitWithin720p(source) ==
    LET w == source.width
        h == source.height
        Scaled(n, d) == [width |-> EvenPart(w * n, d), height |-> EvenPart(h * n, d)]
    IN  IF w <= 1280 /\ h <= 720 THEN Scaled(1, 1)
        ELSE IF 1280 * h <= 720 * w THEN Scaled(1280, w)
        ELSE Scaled(720, h)

(* The runs of ffmpeg for a source, in order: the thumbnail, then one for  *)
(* each rendition.                                                         *)
Pictures(source) == <<Picture("thumbnail", FitWithin720p(source))>> \o SelectRenditions(source)
=============================================================================
