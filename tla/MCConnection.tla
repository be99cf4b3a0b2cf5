---------------------------- MODULE MCConnection ----------------------------
(* Instances of Connection for TLC. *)
EXTENDS Connection

CONSTANTS w1, w2, w3

Calls(f, g, h) == [w \in Writers |-> IF w = w1 THEN f ELSE IF w = w2 THEN g ELSE h]

\* Functions under the one lock; imports; and mixed with those that take none.
AllCasts ==
    {Calls(messages_batch, chat_delete, messages_append),
     Calls(chats_reorder, ai_machine_delete, messages_batch),
     Calls(ai_machine_activate, subagent_record, chat_update),
     Calls(usage_import, usage_import, usage_import),
     Calls(usage_import, queue_add, messages_append),
     Calls(orchestrator_delete, queue_add, chat_fork),
     Calls(chat_fork_empty, chat_delete, usage_import)}
=============================================================================
