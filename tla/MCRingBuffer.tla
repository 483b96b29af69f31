---------------------------- MODULE MCRingBuffer ----------------------------
(* RingBuffer on a buffer of four frames and blocks of up to three. *)
EXTENDS RingBuffer

MCBufferLength == 8
MCMaxFrames    == 3
MCMaxSamples   == 20
=============================================================================
