---------------------------- MODULE AtomicPages -----------------------------
(***************************************************************************)
(* What a crash-safe page flusher promises, whatever it does inside: the   *)
(* copy of a page that survives a power failure changes from one complete  *)
(* image to the next in a single step, the new image is the one in the     *)
(* buffer at that moment, and a page is only called clean once its image   *)
(* survives.                                                               *)
(***************************************************************************)
CONSTANTS
  Pages,
  Images   \* what a page can contain

VARIABLES
  image,   \* image[p] is page p as the buffer shows it
  store,   \* store[p] is page p as it would be found after a power failure
  clean    \* the pages the buffer manager considers written back

avars == <<image, store, clean>>

TypeOK ==
  /\ image \in [Pages -> Images]
  /\ store \in [Pages -> Images]
  /\ clean \subseteq Pages

Init ==
  /\ image \in [Pages -> Images]
  /\ store = image
  /\ clean = Pages

\* A user changes a page: it is dirty from then on.
Write(p) ==
  /\ \E i \in Images : image' = [image EXCEPT ![p] = i]
  /\ clean' = clean \ {p}
  /\ UNCHANGED store

\* The one instant at which the new image replaces the old one.
Commit(p) ==
  /\ store' = [store EXCEPT ![p] = image[p]]
  /\ UNCHANGED <<image, clean>>

\* Only a page whose image has survived may be called clean.
Clean(p) ==
  /\ store[p] = image[p]
  /\ clean' = clean \union {p}
  /\ UNCHANGED <<image, store>>

Next == \E p \in Pages : Write(p) \/ Commit(p) \/ Clean(p)

Spec == Init /\ [][Next]_avars
=============================================================================
