-------------------------- MODULE MCServiceSilence --------------------------
(***************************************************************************)
(* The instances of MCService with the history of the announcements.       *)
(***************************************************************************)
EXTENDS MCService, ServiceSilence
=============================================================================
