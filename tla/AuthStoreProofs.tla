-------------------------- MODULE AuthStoreProofs ---------------------------
(***************************************************************************)
(* Theorems about mm-auth's store, for any users, invites and tokens and   *)
(* any number of kills.                                                    *)
(***************************************************************************)
EXTENDS AuthStore, TLAPS

(* A token in memory or in the file was drawn; one that was never drawn    *)
(* has not been accepted.                                                  *)
Drawn ==
    /\ mem.tokens \subseteq minted
    /\ disk.tokens \subseteq minted
    /\ \A t \in Token : granted[t] > 0 => t \in minted

(* An accepted token whose deletion was saved is neither in memory nor in  *)
(* the file.                                                               *)
Gone(t) == t \notin mem.tokens /\ t \notin disk.tokens

InviteGone == \A i \in Invite : granted[i] > 0 => Gone(i)
TokenGone == \A t \in AgentToken : granted[t] > 0 => Gone(t) \/ t \in slipped

StoreInv ==
    /\ TypeOK
    /\ Drawn /\ InviteGone /\ TokenGone
    /\ InviteOnce /\ TokenOnceIfSaved
    /\ FileCurrent /\ IssuedSurvives

-----------------------------------------------------------------------------
(* What every save does: memory becomes d or is lost, the file becomes d   *)
(* or stays.                                                               *)
LEMMA SaveEffect ==
    ASSUME TypeOK, NEW d \in Data, NEW out \in Outcome, Save(d, out)
    PROVE  /\ up
           /\ up' \in BOOLEAN /\ behind' \in BOOLEAN /\ kills' \in 0..MaxKills
           /\ mem' \in {d, Empty} /\ disk' \in {d, disk}
           /\ up' => mem' = d
           /\ up' /\ ~behind' => disk' = d
           /\ out = "ok" => disk' = d /\ mem' = d
<1>1. CASE out \in {"ok", "failed"}
  <2>1. mem' = d /\ behind' = (out = "failed") /\ up' = up /\ kills' = kills
    BY <1>1 DEF Save, Answers
  <2>2. up /\ disk' = IF out \in {"ok", "killed after"} THEN d ELSE disk
    BY DEF Save
  <2>3. behind' \in BOOLEAN /\ up' \in BOOLEAN /\ kills' \in 0..MaxKills
    BY <2>1 DEF TypeOK
  <2>4. ~behind' => out = "ok"
    BY <1>1, <2>1
  <2> QED BY <2>1, <2>2, <2>3, <2>4
<1>2. CASE out \in {"killed before", "killed after"}
  <2>1. out # "ok" /\ ~Answers(out)
    BY <1>2 DEF Answers
  <2>2. kills < MaxKills /\ kills' = kills + 1
    BY <2>1 DEF Save
  <2>3. kills' \in 0..MaxKills
    BY <2>2, KillsNat DEF TypeOK
  <2>4. up /\ up' = FALSE /\ mem' = Empty /\ behind' = FALSE
    BY <2>1 DEF Save
  <2>5. disk' \in {d, disk}
    BY DEF Save
  <2> QED BY <2>1, <2>3, <2>4, <2>5
<1> QED BY <1>1, <1>2 DEF Outcome

(* A request that spends nothing: it saves memory's keys, with perhaps a   *)
(* new user or a token drawn just now.                                     *)
LEMMA KeepStep ==
    ASSUME StoreInv, NEW d \in Data, NEW out \in Outcome, Save(d, out),
           mem.users \subseteq d.users, mem.tokens \subseteq d.tokens,
           d.tokens \ mem.tokens \subseteq minted' \ minted,
           minted \subseteq minted', minted' \subseteq Token, issued' \in Data,
           out # "ok" => issued' = issued,
           issued'.users \subseteq issued.users \cup d.users,
           issued'.tokens \subseteq issued.tokens \cup d.tokens,
           UNCHANGED <<expired, spent, granted, slipped>>
    PROVE  StoreInv'
<1>1. /\ up
      /\ up' \in BOOLEAN /\ behind' \in BOOLEAN /\ kills' \in 0..MaxKills
      /\ mem' \in {d, Empty} /\ disk' \in {d, disk}
      /\ up' => mem' = d
      /\ up' /\ ~behind' => disk' = d
      /\ out = "ok" => disk' = d /\ mem' = d
  BY SaveEffect DEF StoreInv
<1>2. TypeOK'
  BY <1>1 DEF StoreInv, TypeOK, Data, Empty
<1>3. mem'.tokens \subseteq d.tokens /\ disk'.tokens \subseteq d.tokens \cup disk.tokens
  BY <1>1 DEF Empty, Data
<1>4. Drawn'
  BY <1>3 DEF StoreInv, Drawn
<1>5. ASSUME NEW t \in Token, granted[t] > 0, Gone(t)
      PROVE  Gone(t)'
  BY <1>3, <1>5 DEF StoreInv, Drawn, Gone
<1>6. InviteGone' /\ TokenGone'
  BY <1>5 DEF StoreInv, InviteGone, TokenGone, Token
<1>7. InviteOnce' /\ TokenOnceIfSaved'
  BY DEF StoreInv, InviteOnce, TokenOnceIfSaved
<1>8. FileCurrent'
  BY <1>1 DEF FileCurrent
<1>9. issued'.users \subseteq d.users /\ issued'.tokens \ spent' \subseteq d.tokens
  BY <1>1 DEF StoreInv, IssuedSurvives, Holds
<1>10. Holds(disk)'
  <2>1. CASE disk' = d
    BY <2>1, <1>9 DEF Holds
  <2>2. CASE disk' # d
    <3>1. issued' = issued /\ disk' = disk
      BY <2>2, <1>1
    <3> QED BY <3>1 DEF StoreInv, IssuedSurvives, Holds
  <2> QED BY <2>1, <2>2
<1>11. IssuedSurvives'
  BY <1>1, <1>9, <1>10 DEF IssuedSurvives, Holds
<1> QED BY <1>2, <1>4, <1>6, <1>7, <1>8, <1>11 DEF StoreInv

(* A request that deletes t from memory. An invite is accepted only if the *)
(* save succeeded; a device token also if it failed, and then it slipped.  *)
LEMMA SpendStep ==
    ASSUME StoreInv, NEW t \in Token, NEW out \in Outcome, NEW accepted \in BOOLEAN,
           t \in mem.tokens,
           Save([mem EXCEPT !.tokens = @ \ {t}], out), Spend(t, out, accepted),
           accepted => Answers(out),
           accepted /\ t \in Invite => out = "ok"
    PROVE  StoreInv'
<1> DEFINE d == [mem EXCEPT !.tokens = @ \ {t}]
<1>a. d \in Data /\ d.users = mem.users /\ d.tokens = mem.tokens \ {t}
  BY DEF StoreInv, TypeOK, Data
<1> HIDE DEF d
<1>0. Save(d, out)
  BY DEF d
<1>1. /\ up
      /\ up' \in BOOLEAN /\ behind' \in BOOLEAN /\ kills' \in 0..MaxKills
      /\ mem' \in {d, Empty} /\ disk' \in {d, disk}
      /\ up' => mem' = d
      /\ up' /\ ~behind' => disk' = d
      /\ out = "ok" => disk' = d /\ mem' = d
  BY <1>a, <1>0, SaveEffect DEF StoreInv
<1>2. TypeOK'
  BY <1>1, <1>a DEF StoreInv, TypeOK, Data, Empty, Spend
<1>3. mem'.tokens \subseteq mem.tokens \ {t} /\ disk'.tokens \subseteq mem.tokens \cup disk.tokens
  BY <1>1, <1>a DEF Empty
<1>4. \A x \in Token : granted'[x] = IF x = t /\ accepted THEN granted[x] + 1 ELSE granted[x]
  BY DEF StoreInv, TypeOK, Spend
<1>5. t \in minted
  BY DEF StoreInv, Drawn
<1>6. Drawn'
  BY <1>3, <1>4, <1>5 DEF StoreInv, Drawn, Spend
<1>7. ASSUME NEW x \in Token, x # t, Gone(x)
      PROVE  Gone(x)'
  BY <1>1, <1>a, <1>7 DEF Gone, Empty
<1>8. out = "ok" => Gone(t)'
  BY <1>1, <1>a DEF Gone
<1>9. out = "failed" => t \in slipped'
  BY DEF Spend
<1>10. slipped \subseteq slipped'
  BY DEF Spend
<1>11. t \in Invite => granted[t] = 0
  BY DEF StoreInv, InviteGone, Gone, TypeOK
<1>12. t \in AgentToken => granted[t] = 0 \/ t \in slipped
  BY DEF StoreInv, TokenGone, Gone, TypeOK
<1>13. InviteGone'
  BY <1>4, <1>7, <1>8, <1>11 DEF StoreInv, InviteGone, Token
<1>14. TokenGone'
  BY <1>4, <1>7, <1>8, <1>9, <1>10, <1>12 DEF StoreInv, TokenGone, Token, Answers
<1>15. InviteOnce'
  BY <1>4, <1>11 DEF StoreInv, InviteOnce, Token
<1>16. TokenOnceIfSaved'
  BY <1>4, <1>10, <1>12 DEF StoreInv, TokenOnceIfSaved, Token
<1>17. FileCurrent'
  BY <1>1 DEF FileCurrent
<1>18. issued' = issued /\ spent' = spent \cup {t}
  BY DEF Spend
<1>19. issued'.users \subseteq d.users /\ issued'.tokens \ spent' \subseteq d.tokens
  BY <1>1, <1>a, <1>18 DEF StoreInv, IssuedSurvives, Holds
<1>20. IssuedSurvives'
  BY <1>1, <1>18, <1>19 DEF StoreInv, IssuedSurvives, Holds
<1> QED BY <1>2, <1>6, <1>13, <1>14, <1>15, <1>16, <1>17, <1>20 DEF StoreInv

(* The empty store of a first start satisfies the invariant.               *)
LEMMA StoreInvInit == Init => StoreInv
<1> SUFFICES ASSUME Init PROVE StoreInv
  OBVIOUS
<1>1. TypeOK
  <2>1. Empty \in Data
    BY DEF Empty, Data
  <2>2. kills \in 0..MaxKills /\ granted \in [Token -> Nat]
    BY KillsNat DEF Init
  <2>3. up \in BOOLEAN /\ behind \in BOOLEAN
    BY DEF Init
  <2> QED BY <2>1, <2>2, <2>3 DEF Init, TypeOK
<1>2. Drawn /\ InviteGone /\ TokenGone /\ InviteOnce /\ TokenOnceIfSaved
  BY DEF Init, Drawn, InviteGone, TokenGone, Gone, InviteOnce, TokenOnceIfSaved, Empty, Token
<1>3. FileCurrent /\ IssuedSurvives
  BY DEF Init, FileCurrent, IssuedSurvives, Holds, Empty
<1> QED BY <1>1, <1>2, <1>3 DEF StoreInv

(* Every request, the clock, a kill and a restart preserve it.             *)
LEMMA StoreInvStep == StoreInv /\ [Next]_storeVars => StoreInv'
<1> SUFFICES ASSUME StoreInv, [Next]_storeVars PROVE StoreInv'
  OBVIOUS
<1>0. mem \in Data /\ issued \in Data /\ minted \subseteq Token /\ mem.tokens \subseteq minted
  BY DEF StoreInv, TypeOK, Drawn
<1>1. ASSUME NEW out \in Outcome, NEW u \in User, CreateUser(u, out)
      PROVE  StoreInv'
  <2> DEFINE d == [mem EXCEPT !.users = @ \cup {u}]
  <2>1. d \in Data /\ d.users = mem.users \cup {u} /\ d.tokens = mem.tokens
    BY <1>0 DEF Data
  <2>2. Save(d, out) /\ UNCHANGED <<minted, expired, spent, granted, slipped>>
    BY <1>1 DEF CreateUser
  <2>3. /\ issued' \in Data /\ (out # "ok" => issued' = issued)
        /\ issued'.users \subseteq issued.users \cup {u} /\ issued'.tokens = issued.tokens
    BY <1>0, <1>1 DEF CreateUser, Data
  <2> HIDE DEF d
  <2> QED BY <1>0, <2>1, <2>2, <2>3, KeepStep
<1>2. ASSUME NEW out \in Outcome, NEW u \in User, PutUser(u, out)
      PROVE  StoreInv'
  <2>1. Save(mem, out) /\ UNCHANGED <<minted, expired, issued, spent, granted, slipped>>
    BY <1>2 DEF PutUser
  <2> QED BY <1>0, <2>1, KeepStep
<1>3. ASSUME NEW out \in Outcome, NEW t \in Token, CreateToken(t, out)
      PROVE  StoreInv'
  <2> DEFINE d == [mem EXCEPT !.tokens = @ \cup {t}]
  <2>1. d \in Data /\ d.users = mem.users /\ d.tokens = mem.tokens \cup {t}
    BY <1>0 DEF Data
  <2>2. Save(d, out) /\ UNCHANGED <<expired, spent, granted, slipped>>
    BY <1>3 DEF CreateToken
  <2>3. t \notin minted /\ minted' = minted \cup {t}
    BY <1>3 DEF CreateToken
  <2>4. /\ issued' \in Data /\ (out # "ok" => issued' = issued)
        /\ issued'.users = issued.users /\ issued'.tokens \subseteq issued.tokens \cup {t}
    BY <1>0, <1>3 DEF CreateToken, Data
  <2> HIDE DEF d
  <2> QED BY <1>0, <2>1, <2>2, <2>3, <2>4, KeepStep
<1>4. ASSUME NEW out \in Outcome, NEW i \in Invite, ConsumeInvite(i, out)
      PROVE  StoreInv'
  <2>1. CASE i \in mem.tokens
    <3>1. Spend(i, out, out = "ok" /\ i \notin expired)
      BY <1>4, <2>1 DEF ConsumeInvite
    <3>2. i \in Token /\ Save([mem EXCEPT !.tokens = @ \ {i}], out)
      BY <1>4 DEF ConsumeInvite, Token
    <3>3. (out = "ok" /\ i \notin expired) \in BOOLEAN
      OBVIOUS
    <3>4. (out = "ok" /\ i \notin expired) => Answers(out)
      BY DEF Answers
    <3> QED BY <2>1, <3>1, <3>2, <3>3, <3>4, SpendStep
  <2>2. CASE i \notin mem.tokens
    <3>1. [mem EXCEPT !.tokens = @ \ {i}] = mem
      BY <1>0, <2>2 DEF Data
    <3>2. Save(mem, out) /\ UNCHANGED <<minted, expired, issued, spent, granted, slipped>>
      BY <1>4, <2>2, <3>1 DEF ConsumeInvite
    <3> QED BY <1>0, <3>2, KeepStep
  <2> QED BY <2>1, <2>2
<1>5. ASSUME NEW out \in Outcome, NEW t \in AgentToken, CheckAgentToken(t, out)
      PROVE  StoreInv'
  <2> DEFINE yes == Answers(out) /\ t \notin expired
  <2>1. t \in Token /\ t \in mem.tokens /\ t \notin Invite
    BY <1>5, TokenKinds DEF CheckAgentToken, Token
  <2>2. Save([mem EXCEPT !.tokens = @ \ {t}], out) /\ Spend(t, out, yes)
    BY <1>5 DEF CheckAgentToken
  <2>3. yes \in BOOLEAN /\ (yes => Answers(out))
    BY DEF Answers
  <2> HIDE DEF yes
  <2> QED BY <2>1, <2>2, <2>3, SpendStep
<1>6. ASSUME NEW t \in Token, Expire(t)
      PROVE  StoreInv'
  BY <1>6 DEF Expire, StoreInv, TypeOK, Drawn, InviteGone, TokenGone, Gone, InviteOnce,
     TokenOnceIfSaved, FileCurrent, IssuedSurvives, Holds
<1>7. CASE Kill
  <2>1. up' = FALSE /\ mem' = Empty /\ UNCHANGED <<disk, minted, issued, spent, granted, slipped>>
    BY <1>7 DEF Kill
  <2>2. TypeOK'
    <3>1. kills' \in 0..MaxKills
      BY <1>7, KillsNat DEF Kill, StoreInv, TypeOK
    <3>2. Empty \in Data
      BY DEF Empty, Data
    <3>3. up' \in BOOLEAN /\ behind' \in BOOLEAN /\ expired' = expired
      BY <1>7 DEF Kill
    <3> QED BY <2>1, <3>1, <3>2, <3>3 DEF StoreInv, TypeOK
  <2>3. Drawn' /\ InviteGone' /\ TokenGone'
    BY <2>1 DEF StoreInv, Drawn, InviteGone, TokenGone, Gone, Empty
  <2>4. InviteOnce' /\ TokenOnceIfSaved'
    BY <2>1 DEF StoreInv, InviteOnce, TokenOnceIfSaved
  <2>5. FileCurrent' /\ IssuedSurvives'
    BY <2>1 DEF StoreInv, FileCurrent, IssuedSurvives, Holds
  <2> QED BY <2>2, <2>3, <2>4, <2>5 DEF StoreInv
<1>8. CASE OpenStore
  <2>1. up' = TRUE /\ mem' = disk
        /\ UNCHANGED <<disk, minted, issued, spent, granted, slipped>>
    BY <1>8 DEF OpenStore
  <2>2. TypeOK'
    BY <1>8 DEF OpenStore, StoreInv, TypeOK
  <2>3. Drawn' /\ InviteGone' /\ TokenGone'
    BY <2>1 DEF StoreInv, Drawn, InviteGone, TokenGone, Gone
  <2>4. InviteOnce' /\ TokenOnceIfSaved'
    BY <2>1 DEF StoreInv, InviteOnce, TokenOnceIfSaved
  <2>5. FileCurrent' /\ IssuedSurvives'
    BY <2>1 DEF StoreInv, FileCurrent, IssuedSurvives, Holds
  <2> QED BY <2>2, <2>3, <2>4, <2>5 DEF StoreInv
<1>9. CASE UNCHANGED storeVars
  BY <1>9 DEF storeVars, StoreInv, TypeOK, Drawn, InviteGone, TokenGone, Gone, InviteOnce,
     TokenOnceIfSaved, FileCurrent, IssuedSurvives, Holds
<1> QED BY <1>1, <1>2, <1>3, <1>4, <1>5, <1>6, <1>7, <1>8, <1>9
       DEF Next, CreateInvite, CreateAgentToken, Token

(* A deleted token was drawn, and memory has it only if the file does. The *)
(* file has one that memory has not only if the deletion was not saved.    *)
SpentInv ==
    /\ spent \subseteq minted
    /\ spent \cap mem.tokens \subseteq disk.tokens
    /\ up => disk.tokens \ mem.tokens \subseteq slipped

(* A save puts into memory and the file what memory had, and tokens that   *)
(* are drawn in the same request: none of them was deleted before.         *)
LEMMA SaveKeepsSpent ==
    ASSUME StoreInv, SpentInv, NEW d \in Data, NEW out \in Outcome, Save(d, out),
           minted \subseteq minted', d.tokens \subseteq mem.tokens \cup (minted' \ minted),
           spent \subseteq spent', spent' \subseteq spent \cup mem.tokens,
           d.tokens \cap (spent' \ spent) = {}, slipped \subseteq slipped',
           out = "failed" => mem.tokens \ d.tokens \subseteq slipped'
    PROVE  /\ SpentInv'
           /\ \A t \in spent : t \notin disk.tokens => t \notin disk'.tokens
           /\ \A t \in minted : Gone(t) => Gone(t)'
<1>1. /\ mem' \in {d, Empty} /\ disk' \in {d, disk}
      /\ up /\ (up' => mem' = d) /\ (up' => disk' = d \/ (out = "failed" /\ disk' = disk))
  <2>1. up' => Answers(out)
    BY DEF Save
  <2>2. Answers(out) /\ out # "failed" => out = "ok"
    BY DEF Answers
  <2> QED
    BY <2>1, <2>2, SaveEffect DEF StoreInv
<1>2. mem.tokens \subseteq minted
  BY DEF StoreInv, Drawn
<1>3. mem'.tokens \subseteq d.tokens /\ disk'.tokens \in {d.tokens, disk.tokens}
  BY <1>1 DEF Empty
<1>4. spent \cap d.tokens \subseteq mem.tokens
  BY DEF SpentInv
<1>5. up' => disk'.tokens \ mem'.tokens \subseteq slipped'
  BY <1>1 DEF SpentInv
<1>6. \A t \in minted : Gone(t) => Gone(t)'
  BY <1>3 DEF Gone
<1> QED
  BY <1>2, <1>3, <1>4, <1>5, <1>6 DEF SpentInv

(* What a step of the store does to a deleted token: it stays deleted, and *)
(* does not come back into the file; one that is gone from memory too does *)
(* not come back at all.                                                   *)
LEMMA StoreKeepsSpent ==
    ASSUME StoreInv, SpentInv, [Next]_storeVars
    PROVE  /\ SpentInv' /\ spent \subseteq spent' /\ slipped \subseteq slipped'
           /\ \A t \in spent : t \notin disk.tokens => t \notin disk'.tokens
           /\ \A t \in minted : Gone(t) => Gone(t)'
<1>0. mem \in Data /\ spent \subseteq minted
  BY DEF StoreInv, TypeOK, SpentInv
<1>1. ASSUME NEW out \in Outcome, NEW d \in Data, Save(d, out), d.tokens = mem.tokens,
             UNCHANGED <<minted, spent, slipped>>
      PROVE  /\ SpentInv' /\ spent \subseteq spent' /\ slipped \subseteq slipped'
             /\ \A t \in spent : t \notin disk.tokens => t \notin disk'.tokens
             /\ \A t \in minted : Gone(t) => Gone(t)'
  BY <1>1, SaveKeepsSpent
<1>2. ASSUME NEW out \in Outcome, NEW u \in User, CreateUser(u, out) \/ PutUser(u, out)
      PROVE  /\ SpentInv' /\ spent \subseteq spent' /\ slipped \subseteq slipped'
             /\ \A t \in spent : t \notin disk.tokens => t \notin disk'.tokens
             /\ \A t \in minted : Gone(t) => Gone(t)'
  <2> DEFINE d == [mem EXCEPT !.users = @ \cup {u}]
  <2>1. d \in Data /\ d.tokens = mem.tokens
    BY <1>0 DEF Data
  <2>2. (Save(d, out) \/ Save(mem, out)) /\ UNCHANGED <<minted, spent, slipped>>
    BY <1>2 DEF CreateUser, PutUser
  <2> HIDE DEF d
  <2> QED
    BY <1>0, <1>1, <2>1, <2>2
<1>3. ASSUME NEW out \in Outcome, NEW t \in Token, CreateToken(t, out)
      PROVE  /\ SpentInv' /\ spent \subseteq spent' /\ slipped \subseteq slipped'
             /\ \A x \in spent : x \notin disk.tokens => x \notin disk'.tokens
             /\ \A x \in minted : Gone(x) => Gone(x)'
  <2> DEFINE d == [mem EXCEPT !.tokens = @ \cup {t}]
  <2>1. d \in Data /\ d.tokens = mem.tokens \cup {t}
    BY <1>0 DEF Data
  <2>2. /\ Save(d, out) /\ t \notin minted /\ minted' = minted \cup {t}
        /\ UNCHANGED <<spent, slipped>>
    BY <1>3 DEF CreateToken
  <2> HIDE DEF d
  <2> QED
    BY <2>1, <2>2, SaveKeepsSpent
<1>4. ASSUME NEW out \in Outcome, NEW t \in Token, NEW accepted,
             Save([mem EXCEPT !.tokens = @ \ {t}], out), Spend(t, out, accepted),
             t \in mem.tokens
      PROVE  /\ SpentInv' /\ spent \subseteq spent' /\ slipped \subseteq slipped'
             /\ \A x \in spent : x \notin disk.tokens => x \notin disk'.tokens
             /\ \A x \in minted : Gone(x) => Gone(x)'
  <2> DEFINE d == [mem EXCEPT !.tokens = @ \ {t}]
  <2>1. d \in Data /\ d.tokens = mem.tokens \ {t}
    BY <1>0 DEF Data
  <2>2. /\ Save(d, out) /\ UNCHANGED minted /\ spent' = spent \cup {t}
        /\ slipped \subseteq slipped' /\ (out = "failed" => t \in slipped')
    BY <1>4 DEF Spend
  <2> HIDE DEF d
  <2> QED
    BY <1>4, <2>1, <2>2, SaveKeepsSpent
<1>5. ASSUME NEW out \in Outcome, NEW i \in Invite, ConsumeInvite(i, out)
      PROVE  /\ SpentInv' /\ spent \subseteq spent' /\ slipped \subseteq slipped'
             /\ \A t \in spent : t \notin disk.tokens => t \notin disk'.tokens
             /\ \A t \in minted : Gone(t) => Gone(t)'
  <2>1. CASE i \in mem.tokens
    BY <1>4, <1>5, <2>1 DEF ConsumeInvite, Token
  <2>2. CASE i \notin mem.tokens
    <3>1. [mem EXCEPT !.tokens = @ \ {i}] = mem
      BY <1>0, <2>2 DEF Data
    <3> QED
      BY <1>0, <1>1, <1>5, <2>2, <3>1 DEF ConsumeInvite
  <2> QED
    BY <2>1, <2>2
<1>6. ASSUME NEW out \in Outcome, NEW t \in AgentToken, CheckAgentToken(t, out)
      PROVE  /\ SpentInv' /\ spent \subseteq spent' /\ slipped \subseteq slipped'
             /\ \A x \in spent : x \notin disk.tokens => x \notin disk'.tokens
             /\ \A x \in minted : Gone(x) => Gone(x)'
  BY <1>4, <1>6 DEF CheckAgentToken, Token
<1>7. CASE Kill \/ OpenStore \/ UNCHANGED storeVars \/ \E t \in Token : Expire(t)
  <2>1. /\ UNCHANGED <<disk, minted, spent, slipped>> /\ mem' \in {mem, Empty, disk}
        /\ up' => mem' = disk \/ (mem' = mem /\ up)
    BY <1>7 DEF Kill, OpenStore, storeVars, Expire
  <2> QED
    BY <2>1 DEF SpentInv, Empty, Gone
<1> QED
  BY <1>2, <1>3, <1>5, <1>6, <1>7 DEF Next, CreateInvite, CreateAgentToken, Token

(* Hence it holds throughout.                                              *)
LEMMA StoreCorrect == Spec => []StoreInv
BY StoreInvInit, StoreInvStep, PTL DEF Spec

(* What mm-auth acknowledged survives failed saves and kills at any point. *)
THEOREM IssuedSurvivesCorrect == Spec => []IssuedSurvives
<1>1. StoreInv => IssuedSurvives
  BY DEF StoreInv
<1> QED BY <1>1, StoreCorrect, PTL

(* ConsumeInvite reports success at most once per invite.                  *)
THEOREM InviteOnceCorrect == Spec => []InviteOnce
<1>1. StoreInv => InviteOnce
  BY DEF StoreInv
<1> QED BY <1>1, StoreCorrect, PTL

(* CheckAgentToken accepts a token twice only after a deletion that was    *)
(* not saved: the ignored error is the one way.                            *)
THEOREM TokenOnceIfSavedCorrect == Spec => []TokenOnceIfSaved
<1>1. StoreInv => TokenOnceIfSaved
  BY DEF StoreInv
<1> QED BY <1>1, StoreCorrect, PTL

(* The file lags behind memory only after a failed save.                   *)
THEOREM FileCurrentCorrect == Spec => []FileCurrent
<1>1. StoreInv => FileCurrent
  BY DEF StoreInv
<1> QED BY <1>1, StoreCorrect, PTL
=============================================================================
