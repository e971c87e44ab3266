------------------------------ MODULE MCFraming ------------------------------
(***************************************************************************)
(* A small instance of Framing: four frames, short enough that a chunk may *)
(* end inside a header, between header and payload or inside a payload,    *)
(* and long enough that it may hold several frames.                        *)
(***************************************************************************)
EXTENDS Framing

\* Payloads of 2, 1, 1 and 3 bytes.
MCStart == <<0, 6, 11, 16, 23>>
=============================================================================
