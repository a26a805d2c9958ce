--------------------------- MODULE ShadowHeaders ----------------------------
(***************************************************************************)
(* ShadowFlush.tla with a history variable: every header, page id and pvn, *)
(* that each NVM frame was ever given.                                     *)
(***************************************************************************)
EXTENDS ShadowFlush

VARIABLE written

InitH == Init /\ written = [f \in Frames |-> {<<id[f].vol, pvn[f].vol>>}]

NextH ==
  /\ Next
  /\ written' = [f \in Frames |-> written[f] \union {<<id'[f].vol, pvn'[f].vol>>}]

SpecH == InitH /\ [][NextH]_<<vars, written>>

(* "Able to avoid flush because of pvn trick": page id and pvn need no     *)
(* flush between them because a header that survives is one the program    *)
(* wrote, never the page id of one version of the frame with the pvn of    *)
(* another.                                                                *)
HeaderIsNeverMixed ==
  \A f \in Frames : <<id[f].dur, pvn[f].dur>> \in written[f]
=============================================================================
