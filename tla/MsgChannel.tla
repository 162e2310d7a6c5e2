----------------------------- MODULE MsgChannel -----------------------------
(***************************************************************************)
(* What one direction of a secure.Session promises to the broker and the   *)
(* agent, and what the link of Wire takes for granted: messages arrive     *)
(* once, in the order they were sent, none skipped, and every one arrives  *)
(* unless the link is closed. A link that was closed may be opened anew.   *)
(***************************************************************************)
EXTENDS Naturals, Sequences

CONSTANT Payload
VARIABLES open, sent, got

channelVars == <<open, sent, got>>

Init == open = FALSE /\ sent = <<>> /\ got = <<>>

Open == ~open /\ open' = TRUE /\ sent' = <<>> /\ got' = <<>>

(* What is sent into a closed link may be lost.                            *)
Send ==
    /\ \E m \in Payload : sent' = Append(sent, m)
    /\ UNCHANGED <<open, got>>

Deliver ==
    /\ Len(got) < Len(sent)
    /\ got' = Append(got, sent[Len(got) + 1])
    /\ UNCHANGED <<open, sent>>

Shut == open /\ open' = FALSE /\ UNCHANGED <<sent, got>>

Next == Open \/ Send \/ Deliver \/ Shut

Spec == Init /\ [][Next]_channelVars /\ WF_channelVars(open /\ Deliver)

=============================================================================
