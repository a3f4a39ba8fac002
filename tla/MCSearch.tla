------------------------------ MODULE MCSearch ------------------------------
(* Instances of SearchProjection for TLC. *)
EXTENDS SearchProjection

CONSTANTS profile1, profile2, review, item, w1, w2

TwoColumnEdits == {profile1, profile2}
OneRowEdit == {review}
TwoRowEdits == {review, item}
OneWorker == {w1}
TwoWorkers == {w1, w2}

=============================================================================
