----------------------------- MODULE MCChatTurns -----------------------------
(* Two turns in one conversation, either of them streamed or not.           *)
EXTENDS ChatTurns
=============================================================================
