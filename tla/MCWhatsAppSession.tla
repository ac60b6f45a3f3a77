-------------------------- MODULE MCWhatsAppSession --------------------------
(***************************************************************************)
(* Instances of WhatsAppSession for TLC.                                   *)
(***************************************************************************)
EXTENDS WhatsAppSession

CONSTANTS s1, s2, p1
==============================================================================
