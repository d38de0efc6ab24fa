----------------------- MODULE MCConversationJobQueue -----------------------
(* Instances of ConversationJobQueue for TLC: a conversation whose jobs show  *)
(* no captcha, and one with a job that does; a challenge comes with a time or *)
(* with a token.                                                              *)
EXTENDS ConversationJobQueue, TLC

CONSTANTS c1, c2

MCConvOf == [j \in Jobs |-> IF j \in {1, 2} THEN c1 ELSE c2]
MCOffers == {[retryAt |-> "future", token |-> FALSE],
             [retryAt |-> "none", token |-> TRUE]}
=============================================================================
