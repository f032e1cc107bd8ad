---------------------------- MODULE MCChatRuns ----------------------------
(* One message of the operator, with attachments, and every combination of *)
(* three disturbances: a restart, a lost connection, a control or a        *)
(* boundary of the transcript, or a maintenance pass that fails.           *)
EXTENDS ChatRuns

CONSTANT message
=============================================================================
