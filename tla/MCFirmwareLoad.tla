--------------------------- MODULE MCFirmwareLoad ---------------------------
(* Instances of FirmwareLoad for TLC. *)
EXTENDS FirmwareLoad, TLC

\* One chunk that is exactly full, and an image that ends in a short chunk.
MCSize == (Btldr :> 2) @@ (App :> 3)
=============================================================================
