---------------------------- MODULE MCImageFetch ----------------------------
(* Small instances of ImageFetch for TLC. *)
EXTENDS ImageFetch, TLC

MC2 == 1..2
MCUrls == {"a", "b", "c"}

\* The page of the first hash is all that leads to its images; the input of upgrade
\* has two rows on the second.
MCCandidates == <<<<"a">>, <<"c", "c">>>>

\* "a" links twice to "b", to itself and to "c"; "b" links to "a" and "c".
MCLinks ==
  [a |-> <<[url |-> "c", score |-> 40], [url |-> "b", score |-> 60],
           [url |-> "a", score |-> 60], [url |-> "b", score |-> 90]>>,
   b |-> <<[url |-> "a", score |-> 90], [url |-> "c", score |-> 60]>>,
   c |-> <<>>]
MCFavicons == [a |-> <<"c">>, b |-> <<>>, c |-> <<>>]
MCImages == [a |-> {}, b |-> {1}, c |-> MC2]
MCOld == [h \in MC2 |-> [u \in MCUrls |-> 1]]

\* Neither file nor environment says anything; or they are silent, ask for downloads
\* or forbid them.
MCSilent == {[o \in Options |-> None]}
MCLayers ==
  {[o \in Options |-> None], [o \in Options |-> o = "fetch"], [o \in Options |-> o = "dry_run"]}

=============================================================================
