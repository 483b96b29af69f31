--------------------------- MODULE MCUploadBuffer ---------------------------
(* UploadBuffer with a ring of three blocks - a lost wakeup is followed by a  *)
(* block that does not lap - two settings and one control thread.            *)
EXTENDS UploadBuffer

CONSTANTS out, quality, v1, v2, none, t1

MCSettings     == {out, quality}
MCValues       == {v1, v2}
MCSetters      == {t1}
MCRingBlocks   == 3
=============================================================================
