--------------------------- MODULE MCChatWizard ---------------------------
(***************************************************************************)
(* Small instances of ChatWizard for TLC.                                   *)
(***************************************************************************)
EXTENDS ChatWizard

CONSTANTS anna, h1, r1, r2, nothing
=============================================================================
