----------------------------- MODULE TornBytes -----------------------------
(***************************************************************************)
(* What is read where a write of bytes was cut short.  The trees and the   *)
(* disks have it in common.                                                *)
(***************************************************************************)

CONSTANT Torn

=============================================================================
