------------------------- MODULE MCMapperPipeline -------------------------
(* Captures and detections for TLC.                                          *)
EXTENDS MapperPipeline

Row(id, pair) == [id |-> id, time |-> id, finite |-> TRUE, pair |-> pair,
                  sized |-> TRUE, turned |-> TRUE, pixels |-> IF id = 1 THEN 0 ELSE 9]
Rows(pairs) == [i \in DOMAIN pairs |-> Row(i - 1, pairs[i])]
Whole == [metadata |-> TRUE, media |-> TRUE, video |-> 3, rows |-> Rows(<<TRUE, TRUE, TRUE>>)]

(* Whole; without its first depth image and the end of its video; out of     *)
(* order and with a hole; a number twice; a number that is not finite; a     *)
(* quaternion of zeros; no usable pixel where the preview looks; no media;   *)
(* no metadata.                                                              *)
MCCaptures ==
  {Whole,
   [Whole EXCEPT !.rows = Rows(<<FALSE, TRUE, TRUE, TRUE>>)],
   [Whole EXCEPT !.rows = <<Row(2, TRUE), Row(0, TRUE), Row(1, FALSE)>>],
   [Whole EXCEPT !.rows = <<Row(0, TRUE), Row(0, TRUE)>>],
   [Whole EXCEPT !.rows[2].finite = FALSE],
   [Whole EXCEPT !.rows[3].turned = FALSE],
   [Whole EXCEPT !.rows = <<Row(1, TRUE)>>],
   [Whole EXCEPT !.media = FALSE, !.video = 0],
   [Whole EXCEPT !.metadata = FALSE]}

Seen(label, kind, lo, score, frame) ==
  [label |-> label, kind |-> kind, lo |-> lo, hi |-> lo + 1, score |-> score, points |-> 9, frames |-> {frame}]

(* A floor seen twice, one cup from two frames, another cup, a faint one.    *)
MCDetections ==
  {Seen("floor", "floor", 0, 9, 0), Seen("floor", "floor", 4, 8, 2),
   Seen("cup", "object", 0, 7, 0), Seen("cup", "object", 1, 6, 2),
   Seen("cup", "object", 5, 5, 0), Seen("cup", "object", 3, 1, 0)}
=============================================================================
