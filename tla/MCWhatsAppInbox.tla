--------------------------- MODULE MCWhatsAppInbox ---------------------------
(***************************************************************************)
(* Small instances of WhatsAppInbox.                                       *)
(***************************************************************************)
EXTENDS WhatsAppInbox

MCHandlers == 1 .. 2
MCChecks   == 1 .. 2

=============================================================================
