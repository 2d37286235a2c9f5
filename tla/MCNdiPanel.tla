----------------------------- MODULE MCNdiPanel -----------------------------
(* Small instances of NdiPanel for TLC.                                     *)
EXTENDS NdiPanel
=============================================================================
