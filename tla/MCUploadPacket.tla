--------------------------- MODULE MCUploadPacket ---------------------------
(* UploadPacket with the buffer of the code.  The rates are a hundredth of   *)
(* the plugin's, so that a second of silence is a few reads.                 *)
EXTENDS UploadPacket

MCBufferSize  == 32768
MCSampleRates == {441, 480, 960}
MCReadSizes   == {-200, 0, 300, 500}
MCFullScale   == 1000
MCLevels      == {-1001, -1000, -999, 1, 1000, 1250}
MCMaxConsumed == 3300
MCMaxSetBack  == 400
=============================================================================
