----------------------------- MODULE ImageChecks -----------------------------
(***************************************************************************)
(* What the server asks of uploaded bytes before it stores anything: the   *)
(* route's bounds (lib/http/bounded-body.ts), the signature                *)
(* (modules/catalog/image-validation.ts) and the decoded picture           *)
(* (image-processing.ts).  Sizes are classes; the limits lie between them. *)
(***************************************************************************)

\* What the first bytes show, whatever the browser declares.
Formats == {"jpeg", "png", "webp", "gif", "svg", "unknown"}

AcceptedFormats == {"jpeg", "png", "webp"}

Files ==
    [ format: Formats,
      declared: AcceptedFormats \union {"other", "none"},
      bytes: {"empty", "fits", "too_large"},
      pixels: {"undecodable", "too_small", "fits", "dimensions_too_large"} ]

\* The stream is cut off at the limit; an empty body is refused by the routes.
BodyRead(f) == f.bytes = "fits"

\* A declared type must agree with the signature.
ValidateImageBytes(f) ==
    /\ f.bytes = "fits"
    /\ f.format \in AcceptedFormats
    /\ f.declared \in {"none", f.format}

\* The result is always a WebP without metadata.
ProcessImage(f) == f.pixels = "fits"

Accepted(f) == BodyRead(f) /\ ValidateImageBytes(f) /\ ProcessImage(f)

SomeAccepted == \E f \in Files : Accepted(f)

SomeRejected == \E f \in Files : ~Accepted(f)
=============================================================================
