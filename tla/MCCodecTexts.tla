----------------------------- MODULE MCCodecTexts ------------------------------
(* An instance of CodecTexts for TLC. *)
EXTENDS CodecTexts

\* Every kind of text, each as long as its properties need.
MCMaxPieces == [document |-> 5, literal |-> 4, number |-> 4, content |-> 4]
=============================================================================
