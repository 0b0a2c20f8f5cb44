--------------------------- MODULE MCCommitmentPins ---------------------------
(* A node that serves two histories of the stream s: g then a, and g then  *)
(* b, and one history of a second stream t.                                *)
EXTENDS CommitmentPins, TLC

CONSTANTS s, t, g, a, b, h

MCContains == {<<x, x>> : x \in Checkpoints} \cup {<<a, g>>, <<b, g>>}

Offer(x, y, w, ok) ==
  [last |-> (s :> x @@ t :> y), witnessed |-> w, sound |-> ok]

MCCommitments ==
  {Offer(x, NoPin, FALSE, TRUE) : x \in {g, a, b}} \cup
  {Offer(a, h, FALSE, TRUE), Offer(NoPin, h, FALSE, TRUE),
   Offer(b, h, TRUE, TRUE), Offer(a, h, FALSE, FALSE)}
=============================================================================
