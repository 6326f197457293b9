----------------------------- MODULE MCBodyReader -----------------------------
(***************************************************************************)
(* Small instances of BodyReader: sizes wrap at 32, a read delivers up to  *)
(* three bytes, and clients declare lengths from -2 (an int atoi accepts)  *)
(* to more than they ever send.                                            *)
(***************************************************************************)
EXTENDS BodyReader

MCLengths == -2 .. 8

PositiveLengths == 1 .. 6
=============================================================================
