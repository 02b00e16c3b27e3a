----------------------------- MODULE MCKmsFlip -----------------------------
(***************************************************************************)
(* Small instances of KmsFlip for TLC.  Windows are model values; outputs  *)
(* are numbers, for the code searches them in order.                       *)
(***************************************************************************)
EXTENDS KmsFlip

=============================================================================
