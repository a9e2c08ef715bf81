----------------------------- MODULE MCRelease -----------------------------
(* Small instances of Release for TLC. *)
EXTENDS Release, TLC

CONSTANTS p1, p2, p3, r1, r2, a1, a2

\* A full assembly and one without images.
FullNopic == (a1 :> "full") @@ (a2 :> "nopic")

\* A bundle as large as the baseline, and one that lacks a page of it.
NestedBundles == (r1 :> {p1, p2}) @@ (r2 :> {p2})

\* Two bundles that share one page, so that the stage has more pages than either if
\* they are mixed, but not more than the tolerance allows.
TwoBundles == (r1 :> {p1, p2}) @@ (r2 :> {p2, p3})

=============================================================================
