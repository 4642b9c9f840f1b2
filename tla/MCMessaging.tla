----------------------------- MODULE MCMessaging ----------------------------
(***************************************************************************)
(* Local messaging for TLC, on two instances: requests for runner          *)
(* identities only, and the journal's interactive side, where chats claim  *)
(* and answer requests and the owner reconciles what they left.            *)
(***************************************************************************)
EXTENDS LocalMessaging

CONSTANTS r3, w1, w2, chat, sender, t1, t2, c1

\* Two requests for one worker, a third for another; the rest is for a chat.
MCRecipient == [m \in Msgs |-> IF m \notin Runner THEN chat
                               ELSE IF m = r3 THEN w2 ELSE w1]
\* All from one sender.
MCPair == [m \in Msgs |-> <<sender, MCRecipient[m]>>]
\* Each chat has its own answer, so that a replaced one can be told apart.
MCSays == [c \in Chats |-> IF c = c1 THEN {t1} ELSE {t2}]
=============================================================================
