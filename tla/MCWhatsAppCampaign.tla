-------------------------- MODULE MCWhatsAppCampaign --------------------------
(***************************************************************************)
(* Instances of WhatsAppCampaign for TLC: one campaign of three recipients *)
(* in two chunks, one of whom has no phone number, or two small campaigns. *)
(***************************************************************************)
EXTENDS WhatsAppCampaign, TLC

CONSTANTS c1, c2, r1, r2, r3, d1, d2

OneChunks == c1 :> <<{r1, r2}, {r3}>>
TwoChunks == c1 :> <<{r1, r2}>> @@ c2 :> <<{r3}>>

OneDevice   == [c \in Campaigns |-> <<d1>>]
BothDevices == [c \in Campaigns |-> <<d1, d2>>]
==============================================================================
