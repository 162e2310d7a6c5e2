-------------------------- MODULE EnrollmentProofs --------------------------
(***************************************************************************)
(* OneEnrollment and ConsumedIsAccountedFor, for any tokens, any number of *)
(* dials and kills, and any answers lost.                                  *)
(*                                                                         *)
(* Every step of Enrollment is a step of the store or none, so StoreInv    *)
(* and SpentInv hold here too. EnrollInv adds what ties the dials to it: a *)
(* deleted token that has left the file never comes back, so a late dial   *)
(* finds it gone; and whoever was accepted was granted the token by the    *)
(* store.                                                                  *)
(***************************************************************************)
EXTENDS Enrollment, AuthStoreProofs

(* The token of d was accepted by CheckAgentToken.                         *)
Accepted(d) == dial[d].at \in {"accepted", "enrolled"}

(* The token of a late dial is gone for good, and it was not accepted.     *)
LateInv ==
    \A d \in late :
        /\ dial[d].token \in spent /\ dial[d].token \notin disk.tokens
        /\ ~Accepted(d)

(* The store has granted the token of an accepted dial, and twice only if  *)
(* a deletion was not saved.                                               *)
AcceptedInv ==
    /\ \A d \in Dial : Accepted(d) => granted[dial[d].token] > 0
    /\ \A d, e \in Dial :
         d # e /\ dial[d].token = dial[e].token /\ Accepted(d) /\ Accepted(e) =>
           dial[d].token \in slipped

(* The inductive invariant.                                                *)
EnrollInv ==
    /\ StoreInv /\ EnrollTypeOK
    /\ SpentInv /\ LateInv /\ AcceptedInv /\ ConsumedIsAccountedFor

-----------------------------------------------------------------------------
(* A dial that has begun has a token of its configuration.                 *)
LEMMA Begun ==
    ASSUME EnrollTypeOK, NEW d \in Dial, dial[d].at # "idle"
    PROVE  dial[d].token \in AgentToken
  BY DEF EnrollTypeOK, DialT

(* Nothing is deleted, late or accepted at first.                          *)
LEMMA EnrollInvInit == EnrollInit => EnrollInv
<1> SUFFICES ASSUME EnrollInit PROVE EnrollInv
  OBVIOUS
<1>1. StoreInv
  BY StoreInvInit DEF EnrollInit
<1>2. EnrollTypeOK
  BY DEF EnrollInit, EnrollTypeOK, DialT, Stage
<1>3. SpentInv /\ LateInv /\ AcceptedInv /\ ConsumedIsAccountedFor
  BY DEF EnrollInit, Init, SpentInv, LateInv, AcceptedInv, ConsumedIsAccountedFor, Accepted
<1> QED
  BY <1>1, <1>2, <1>3 DEF EnrollInv

(* The requests that agents do not make: none of them deletes or grants a  *)
(* device token.                                                           *)
LEMMA OtherRequests ==
    ASSUME StoreInv, StoreStep
    PROVE  /\ Next /\ UNCHANGED <<dial, late, dropped>>
           /\ AgentToken \cap spent' = AgentToken \cap spent
           /\ \A t \in AgentToken : granted'[t] = granted[t]
           /\ expired \subseteq expired'
<1>1. Next /\ UNCHANGED <<dial, late, dropped>>
  BY DEF StoreStep, Next
<1>2. CASE \E i \in Invite, out \in Outcome : ConsumeInvite(i, out)
  <2>1. PICK i \in Invite, out \in Outcome : ConsumeInvite(i, out)
    BY <1>2
  <2>2. i \notin AgentToken
    BY TokenKinds
  <2> QED
    BY <1>1, <2>1, <2>2 DEF ConsumeInvite, Spend, StoreInv, TypeOK, Token
<1>3. CASE \E out \in Outcome :
             \/ \E u \in User : CreateUser(u, out) \/ PutUser(u, out)
             \/ \E t \in Token : CreateToken(t, out)
  BY <1>1, <1>3 DEF CreateUser, PutUser, CreateToken
<1>4. CASE Kill \/ OpenStore \/ \E t \in Token : Expire(t)
  BY <1>1, <1>4 DEF Kill, OpenStore, Expire
<1> QED
  BY <1>2, <1>3, <1>4 DEF StoreStep, CreateInvite, CreateAgentToken, Token

(* A request to the store that is not about a dial keeps the invariant.    *)
LEMMA StoreStepKeeps ==
    ASSUME EnrollInv, StoreStep
    PROVE  EnrollInv'
<1>1. /\ Next /\ UNCHANGED <<dial, late, dropped>>
      /\ AgentToken \cap spent' = AgentToken \cap spent
      /\ \A t \in AgentToken : granted'[t] = granted[t]
      /\ expired \subseteq expired'
  BY OtherRequests DEF EnrollInv
<1>2. StoreInv'
  BY <1>1, StoreInvStep DEF EnrollInv
<1>3. /\ SpentInv' /\ spent \subseteq spent' /\ slipped \subseteq slipped'
      /\ \A t \in spent : t \notin disk.tokens => t \notin disk'.tokens
  BY <1>1, StoreKeepsSpent DEF EnrollInv
<1>4. EnrollTypeOK' /\ \A d \in Dial : Accepted(d)' <=> Accepted(d)
  BY <1>1 DEF EnrollInv, EnrollTypeOK, Accepted
<1>5. LateInv'
  BY <1>1, <1>3, <1>4 DEF EnrollInv, EnrollTypeOK, LateInv
<1>6. AcceptedInv'
  <2>1. \A d \in Dial : Accepted(d) => dial[d].token \in AgentToken
    BY Begun DEF EnrollInv, Accepted
  <2> QED
    BY <1>1, <1>3, <1>4, <2>1 DEF EnrollInv, AcceptedInv
<1>7. ConsumedIsAccountedFor'
  BY <1>1 DEF EnrollInv, ConsumedIsAccountedFor, With
<1> QED
  BY <1>2, <1>3, <1>4, <1>5, <1>6, <1>7 DEF EnrollInv

(* An agent that registers is late if its token has gone for good; it is   *)
(* not accepted yet.                                                       *)
LEMMA PresentStep ==
    ASSUME EnrollInv, NEW d \in Dial, NEW t \in AgentToken, Present(d, t)
    PROVE  EnrollInv'
<1>1. /\ dial[d].at = "idle" /\ dial' = [dial EXCEPT ![d] = [at |-> "asking", token |-> t]]
      /\ late' = IF t \in spent \ disk.tokens THEN late \cup {d} ELSE late
      /\ UNCHANGED <<storeVars, dropped>>
  BY DEF Present
<1>2. \A e \in Dial : e # d => dial'[e] = dial[e]
  BY <1>1 DEF EnrollInv, EnrollTypeOK
<1>3. dial'[d] = [at |-> "asking", token |-> t] /\ ~Accepted(d) /\ ~Accepted(d)'
  BY <1>1 DEF EnrollInv, EnrollTypeOK, Accepted
<1>4. StoreInv' /\ SpentInv'
  BY <1>1, StoreInvStep, StoreKeepsSpent DEF EnrollInv
<1>5. EnrollTypeOK'
  BY <1>1, NoTokenFresh DEF EnrollInv, EnrollTypeOK, DialT, Stage, Token
<1>6. UNCHANGED <<disk, granted, spent, slipped, expired>>
  BY <1>1 DEF storeVars
<1>7. \A e \in Dial : e # d => Accepted(e)' = Accepted(e)
  BY <1>2 DEF Accepted
<1>8. LateInv'
  <2>1. d \notin late
    BY <1>1, NoTokenFresh DEF EnrollInv, EnrollTypeOK, LateInv, StoreInv, TypeOK
  <2>2. \A e \in late : dial'[e] = dial[e] /\ Accepted(e)' = Accepted(e)
    BY <1>2, <1>7, <2>1 DEF EnrollInv, EnrollTypeOK
  <2> QED
    BY <1>1, <1>3, <1>6, <2>2 DEF EnrollInv, LateInv
<1>9. AcceptedInv'
  BY <1>2, <1>3, <1>6, <1>7 DEF EnrollInv, AcceptedInv
<1>10. ConsumedIsAccountedFor'
  BY <1>1, <1>2, <1>3, <1>6 DEF EnrollInv, ConsumedIsAccountedFor, With, Accepted
<1> QED
  BY <1>4, <1>5, <1>8, <1>9, <1>10 DEF EnrollInv

(* Whoever is accepted presents a token that memory has: so it is not      *)
(* late, and if the token was accepted before, its deletion was not saved. *)
LEMMA AgentCheckStep ==
    ASSUME EnrollInv, NEW d \in Dial, NEW out \in Outcome, AgentCheck(d, out)
    PROVE  EnrollInv'
<1>0. PICK t : t = dial[d].token
  OBVIOUS
<1> DEFINE yes == Answers(out) /\ t \notin expired
           s == IF ~Answers(out) THEN "refused"
                ELSE IF t \in expired THEN "rejected" ELSE "accepted"
<1>1. /\ dial[d].at = "asking" /\ CheckAgentToken(t, out) /\ UNCHANGED late
      /\ dropped' = IF Answers(out) THEN dropped ELSE dropped \cup {t}
      /\ dial' = [dial EXCEPT ![d].at = s]
  BY <1>0 DEF AgentCheck, Move
<1>2. t \in AgentToken /\ t \in Token /\ t \notin Invite /\ t \in mem.tokens
  BY <1>0, <1>1, Begun, TokenKinds DEF EnrollInv, CheckAgentToken, Token
<1>3. /\ spent' = spent \cup {t} /\ UNCHANGED expired
      /\ granted' = [granted EXCEPT ![t] = IF yes THEN @ + 1 ELSE @]
  BY <1>1 DEF CheckAgentToken, Spend
<1>a. s \in Stage \ {"idle", "enrolled"} /\ (s = "accepted" <=> yes)
      /\ (~yes /\ t \notin expired => ~Answers(out))
  BY DEF Stage
<1> HIDE DEF s, yes
<1>4. /\ \A e \in Dial : e # d => dial'[e] = dial[e]
      /\ dial'[d].token = t /\ dial'[d].at = s
  BY <1>0, <1>1 DEF EnrollInv, EnrollTypeOK, DialT
<1>5. Next
  BY <1>1, <1>2 DEF Next
<1>6. StoreInv'
  BY <1>5, StoreInvStep DEF EnrollInv
<1>7. /\ SpentInv' /\ slipped \subseteq slipped'
      /\ \A x \in spent : x \notin disk.tokens => x \notin disk'.tokens
  BY <1>5, StoreKeepsSpent DEF EnrollInv
<1>8. EnrollTypeOK'
  BY <1>0, <1>1, <1>2, <1>a, NoTokenFresh DEF EnrollInv, EnrollTypeOK, DialT, Token
<1>9. ~Accepted(d) /\ (Accepted(d)' <=> yes)
  BY <1>1, <1>4, <1>a DEF Accepted, Stage
<1>10. \A e \in Dial : e # d => Accepted(e)' = Accepted(e)
  BY <1>4 DEF Accepted
<1>11. d \notin late
  BY <1>0, <1>2 DEF EnrollInv, LateInv, SpentInv
<1>12. \A x \in Token : granted[x] \in Nat /\ granted'[x] = granted[x] + (IF x = t /\ yes THEN 1 ELSE 0)
  BY <1>2, <1>3 DEF EnrollInv, StoreInv, TypeOK
<1>13. LateInv'
  BY <1>1, <1>3, <1>4, <1>7, <1>10, <1>11 DEF EnrollInv, EnrollTypeOK, LateInv
<1>14. AcceptedInv'
  <2>1. \A e \in Dial : Accepted(e)' => dial'[e].token \in Token /\ granted'[dial'[e].token] > 0
    <3> TAKE e \in Dial
    <3>1. CASE e = d
      BY <1>2, <1>4, <1>9, <1>12, <3>1
    <3>2. CASE e # d
      <4>1. Accepted(e) => dial[e].token \in Token /\ granted[dial[e].token] > 0
        BY Begun DEF EnrollInv, AcceptedInv, Accepted, Token
      <4> QED
        BY <1>4, <1>10, <1>12, <3>2, <4>1
    <3> QED
      BY <3>1, <3>2
  <2>2. ASSUME NEW e \in Dial, e # d, dial[e].token = t, Accepted(e)
        PROVE  t \in slipped
    <3>1. granted[t] > 0
      BY <2>2 DEF EnrollInv, AcceptedInv
    <3> QED
      BY <1>2, <3>1 DEF EnrollInv, StoreInv, TokenGone, Gone
  <2> QED
    BY <1>4, <1>7, <1>10, <2>1, <2>2 DEF EnrollInv, AcceptedInv
<1>15. ConsumedIsAccountedFor'
  <2>1. (d \in With(t))' /\ (Accepted(d)' \/ t \in expired' \cup dropped')
    BY <1>1, <1>3, <1>4, <1>9, <1>a DEF With
  <2>2. ASSUME NEW x \in AgentToken \cap spent'
        PROVE  (\E e \in With(x) : Accepted(e))' \/ x \in expired' \cup dropped'
    <3>1. CASE x = t
      BY <2>1, <3>1
    <3>2. CASE x # t
      <4>1. (\E e \in With(x) : Accepted(e)) \/ x \in expired \cup dropped
        BY <1>3, <2>2, <3>2 DEF EnrollInv, ConsumedIsAccountedFor, Accepted
      <4>2. ASSUME NEW e \in With(x), Accepted(e)
            PROVE  (e \in With(x))' /\ Accepted(e)'
        BY <1>4, <1>9, <1>10, <4>2 DEF With
      <4>3. expired \cup dropped \subseteq expired' \cup dropped'
        BY <1>1, <1>3
      <4> QED
        BY <4>1, <4>2, <4>3
    <3> QED
      BY <3>1, <3>2
  <2> QED
    BY <2>2 DEF ConsumedIsAccountedFor, Accepted
<1> QED
  BY <1>6, <1>7, <1>8, <1>13, <1>14, <1>15 DEF EnrollInv

(* The exchange goes on without the store: a verdict keeps an accepted     *)
(* dial accepted, and an accepting answer that is lost is in dropped.      *)
LEMMA ExchangeStep ==
    ASSUME EnrollInv, NEW d \in Dial, AgentCheckUnknown(d) \/ Verdict(d) \/ PostFails(d)
    PROVE  EnrollInv'
<1>1. /\ dial[d].at \in {"asking", "accepted", "rejected"} /\ UNCHANGED <<storeVars, late>>
      /\ \E s \in {"rejected", "enrolled", "refused"} :
           /\ dial' = [dial EXCEPT ![d].at = s]
           /\ s = "enrolled" => Accepted(d)
           /\ s # "enrolled" /\ Accepted(d) => dial[d].token \in dropped'
      /\ dropped \subseteq dropped' /\ dropped' \subseteq dropped \cup {dial[d].token}
  BY DEF AgentCheckUnknown, Verdict, PostFails, Move, Accepted
<1>2. \A e \in Dial : /\ dial'[e].token = dial[e].token
                      /\ e # d => dial'[e] = dial[e]
                      /\ Accepted(e)' => Accepted(e)
                      /\ Accepted(e) => Accepted(e)' \/ dial[e].token \in dropped'
  BY <1>1 DEF EnrollInv, EnrollTypeOK, Accepted
<1>3. StoreInv' /\ SpentInv'
  BY <1>1, StoreInvStep, StoreKeepsSpent DEF EnrollInv
<1>4. UNCHANGED <<disk, granted, spent, slipped, expired>>
  BY <1>1 DEF storeVars
<1>5. EnrollTypeOK'
  <2>1. dial[d].token \in AgentToken
    BY <1>1, Begun DEF EnrollInv
  <2> QED
    BY <1>1, <2>1 DEF EnrollInv, EnrollTypeOK, DialT, Stage
<1>6. LateInv'
  BY <1>1, <1>2, <1>4 DEF EnrollInv, EnrollTypeOK, LateInv
<1>7. AcceptedInv'
  BY <1>2, <1>4 DEF EnrollInv, AcceptedInv
<1>8. ConsumedIsAccountedFor'
  <2>1. ASSUME NEW t \in AgentToken \cap spent, NEW e \in With(t), Accepted(e)
        PROVE  (e \in With(t))' /\ (Accepted(e)' \/ t \in dropped')
    BY <1>2, <2>1 DEF With
  <2> QED
    BY <1>1, <1>4, <2>1 DEF EnrollInv, ConsumedIsAccountedFor, Accepted
<1> QED
  BY <1>3, <1>5, <1>6, <1>7, <1>8 DEF EnrollInv

(* Every step keeps the invariant.                                         *)
LEMMA EnrollInvStep == EnrollInv /\ [EnrollNext]_enrollVars => EnrollInv'
<1> SUFFICES ASSUME EnrollInv, [EnrollNext]_enrollVars PROVE EnrollInv'
  OBVIOUS
<1>1. CASE UNCHANGED enrollVars
  <2>1. StoreInv' /\ SpentInv'
    BY <1>1, StoreInvStep, StoreKeepsSpent DEF EnrollInv, enrollVars
  <2> QED
    BY <1>1, <2>1 DEF EnrollInv, enrollVars, storeVars, EnrollTypeOK, LateInv, AcceptedInv,
       ConsumedIsAccountedFor, Accepted, With
<1>2. CASE \E d \in Dial : \E t \in AgentToken : Present(d, t)
  BY <1>2, PresentStep
<1>3. CASE \E d \in Dial : \E out \in Outcome : AgentCheck(d, out)
  BY <1>3, AgentCheckStep
<1>4. CASE \E d \in Dial : AgentCheckUnknown(d) \/ Verdict(d) \/ PostFails(d)
  BY <1>4, ExchangeStep
<1>5. CASE StoreStep
  BY <1>5, StoreStepKeeps
<1> QED
  BY <1>1, <1>2, <1>3, <1>4, <1>5 DEF EnrollNext

(* Hence it holds throughout.                                              *)
LEMMA EnrollCorrect == EnrollSpec => []EnrollInv
  BY EnrollInvInit, EnrollInvStep, PTL DEF EnrollSpec

(* The dials and the tokens they present have their types, whatever is     *)
(* lost.                                                                   *)
THEOREM EnrollTypeCorrect == EnrollSpec => []EnrollTypeOK
<1>1. EnrollInv => EnrollTypeOK
  BY DEF EnrollInv
<1> QED
  BY <1>1, EnrollCorrect, PTL

(* A device that dials again with a consumed token is refused, and a token *)
(* enrolls one dial, unless its deletion was not saved (store.go:173-174). *)
THEOREM OneEnrollmentCorrect == EnrollSpec => []OneEnrollment
<1>1. EnrollInv => OneEnrollment
  BY DEF EnrollInv, LateInv, AcceptedInv, Accepted, OneEnrollment, With
<1> QED
  BY <1>1, EnrollCorrect, PTL

(* A consumed token has enrolled someone, is about to, had expired, or its *)
(* accepting answer was lost (broker.go, checkAgentToken).                 *)
THEOREM ConsumedIsAccountedForCorrect == EnrollSpec => []ConsumedIsAccountedFor
<1>1. EnrollInv => ConsumedIsAccountedFor
  BY DEF EnrollInv
<1> QED
  BY <1>1, EnrollCorrect, PTL

=============================================================================
