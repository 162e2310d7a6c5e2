-------------------------- MODULE AuthServerProofs --------------------------
(***************************************************************************)
(* Proofs about mm-auth's handlers, for any users, browsers, challenges,   *)
(* invites and device tokens, and any number of kills.                     *)
(*                                                                         *)
(* The properties are not inductive. A session is authenticated as it is   *)
(* proven because a request that is past the library's verdict carries     *)
(* what it has shown (BrowserOK, one browser at a time). A credential      *)
(* stays in the records because a registration between its append and its  *)
(* answer is owed the same as one that was answered (Owed). An invite      *)
(* registers once because one browser at a time has it, and one that has   *)
(* registered is in no browser, in no memory and in no file (InviteInv);   *)
(* for that the store has to be known not to bring back what was deleted   *)
(* (SpentInv of AuthStoreProofs). Every request changes the session and    *)
(* the request of its own browser only, or the process is killed and all   *)
(* are gone (Good): so each part needs to look at one browser.             *)
(***************************************************************************)
EXTENDS AuthServer, AuthStoreProofs

(* A browser's session, its request and what was shown in the session fit  *)
(* together: a ceremony is for a user, one that registers has its invite;  *)
(* a request that is past the library's verdict has shown what it was      *)
(* asked for; and an authenticated session has shown something.            *)
BrowserOK(s, r, ev) ==
    /\ s \in SessionT /\ r \in RequestT /\ ev \in SUBSET (User \X Kind)
    /\ s.cer # None => s.user \in User /\ (s.kind = "registered" => s.inv \in Invite)
    /\ r.pc \in {"user", "create"} <=> r.inv # None
    /\ r.pc \in {"read", "append", "consume"} =>
         s.cer # None /\ s.kind = "registered" /\ <<s.user, "registered">> \in ev
    /\ r.pc \in {"count", "enter"} =>
         s.cer # None /\ s.kind = "login" /\ <<s.user, "login">> \in ev
    /\ s.auth => \E k \in Kind : <<s.user, k>> \in ev

(* The sessions and requests.                                              *)
SessInv ==
    /\ sess \in [Browser -> SessionT] /\ req \in [Browser -> RequestT]
    /\ evidence \in [Browser -> SUBSET (User \X Kind)]
    /\ drawn \subseteq Challenge
    /\ \A b \in Browser : BrowserOK(sess[b], req[b], evidence[b])

(* What the records of u have to have: what was answered, and what a       *)
(* registration has saved and is about to answer.                          *)
Owed(u) ==
    acked[u] \cup {sess[b].cer : b \in {o \in Browser : req[o].pc = "consume" /\ sess[o].user = u}}

(* The records and what was answered about them (AnsweredIsKept). A        *)
(* stopped process has only the file.                                      *)
RecInv ==
    /\ rec \in [User -> Record] /\ recFile \in [User -> Record]
    /\ acked \in [User -> SUBSET Challenge] /\ raced \subseteq User /\ confirmed \subseteq User
    /\ \A u \in User : u \notin raced =>
         Owed(u) \subseteq recFile[u].creds /\ (up => Owed(u) \subseteq rec[u].creds)
    /\ \A u \in confirmed : recFile[u].totp /\ (up => rec[u].totp)

(* b's session or its request has invite i.                                *)
HasInvite(b, i) == i \in {sess[b].inv, req[b].inv}

(* An invite in use was drawn; unless it was peeked in the meantime one    *)
(* browser has it, in one place; and one that has registered somebody is   *)
(* nowhere any more, unless its deletion was not saved.                    *)
InviteInv ==
    /\ shared \subseteq Invite /\ regs \in [Invite -> Nat]
    /\ \A b \in Browser, i \in Invite : HasInvite(b, i) => i \in minted
    /\ \A i \in Invite \ shared :
         /\ \A b, o \in Browser : HasInvite(b, i) /\ HasInvite(o, i) => b = o
         /\ \A b \in Browser : ~(sess[b].inv = i /\ req[b].inv = i)
    /\ \A i \in Invite \ (shared \cup slipped) :
         regs[i] > 0 =>
           /\ i \in minted /\ Gone(i) /\ regs[i] = 1
           /\ \A b \in Browser : ~HasInvite(b, i)

(* The inductive invariant.                                                *)
ServerInv == StoreInv /\ SpentInv /\ SessInv /\ RecInv /\ InviteInv

-----------------------------------------------------------------------------
(* A new server: nobody has a session, and the first invites are unused.   *)
LEMMA ServerInvInit == ServerInit => ServerInv
<1> SUFFICES ASSUME ServerInit PROVE ServerInv
  OBVIOUS
<1>1. StoreInv
  <2>1. mem \in Data /\ mem.users = {} /\ mem.tokens = Seed
    BY SeedInvites DEF ServerInit, Data, Token
  <2>2. kills \in 0..MaxKills
    BY KillsNat DEF ServerInit
  <2>3. TypeOK
    BY <2>1, <2>2, SeedInvites DEF ServerInit, TypeOK, Token
  <2>4. Drawn /\ InviteGone /\ TokenGone /\ InviteOnce /\ TokenOnceIfSaved
    BY <2>1 DEF ServerInit, Drawn, InviteGone, TokenGone, InviteOnce, TokenOnceIfSaved, Token
  <2>5. FileCurrent /\ IssuedSurvives
    BY <2>1 DEF ServerInit, FileCurrent, IssuedSurvives, Holds
  <2> QED
    BY <2>3, <2>4, <2>5 DEF StoreInv
<1>2. SessInv
  <2>1. Fresh \in SessionT /\ Idle \in RequestT
    BY DEF Fresh, Idle, SessionT, RequestT, Maybe, Kind
  <2>2. BrowserOK(Fresh, Idle, {})
    BY <2>1 DEF BrowserOK, Fresh, Idle
  <2> QED
    BY <2>1, <2>2 DEF ServerInit, SessInv
<1>3. RecInv
  BY DEF ServerInit, RecInv, Owed, Record, Blank, Idle
<1>4. InviteInv
  BY NoneFresh DEF ServerInit, InviteInv, HasInvite, Fresh, Idle, Token
<1>5. SpentInv
  BY DEF ServerInit, SpentInv
<1> QED
  BY <1>1, <1>2, <1>3, <1>4, <1>5 DEF ServerInv

(* A step of the server is a step of its store, or none: AuthStore leaves  *)
(* out nothing that the handlers do to it.                                 *)
LEMMA ServerStepIsStoreStep ==
    ASSUME ServerInv, [ServerNext]_serverVars
    PROVE  [Next]_storeVars
<1>1. CASE UNCHANGED storeVars
  BY <1>1
<1>2. CASE ~UNCHANGED storeVars
  <2>1. CASE UNCHANGED serverVars \/ SessionInfo
    BY <1>2, <2>1 DEF serverVars, SessionInfo
  <2>2. CASE (\E i \in Invite : ExpireInvite(i)) \/ KillServer \/ StartServer
    BY <2>2 DEF ExpireInvite, KillServer, StartServer, Next, Token
  <2>3. CASE \E b \in Browser : Handler(b)
    <3>1. PICK b \in Browser : Handler(b)
      BY <2>3
    <3>2. \/ \E c \in Challenge, out \in Outcome : CreateAndBegin(b, c, out)
          \/ \E out \in Outcome : AppendCredential(b, out) \/ ConsumeAndAnswer(b, out)
          \/ \E out \in Outcome : SaveSignCount(b, out) \/ TotpConfirm(b, out)
          \/ \E t \in Token, out \in Outcome : Mint(b, t, out)
      BY <1>2, <3>1 DEF Handler, PeekInvite, GetUserNotFound, CreateRefused, RegisterBegin,
         RegisterFinish, Finish, ReadCredentials, LoginBegin, LoginFinish, Enter, TotpVerify,
         TotpEnroll, Logout
    <3>3. BrowserOK(sess[b], req[b], evidence[b])
      BY DEF ServerInv, SessInv
    <3>4. CASE \E c \in Challenge, out \in Outcome : CreateAndBegin(b, c, out)
      <4>1. PICK c \in Challenge, out \in Outcome : CreateAndBegin(b, c, out)
        BY <3>4
      <4>2. InviteFor[req[b].inv] \in User
        BY <3>3, <4>1, SeedInvites DEF CreateAndBegin, BrowserOK, RequestT, Maybe
      <4> QED
        BY <4>1, <4>2 DEF CreateAndBegin, Next
    <3>5. CASE \E out \in Outcome : AppendCredential(b, out) \/ SaveSignCount(b, out)
                                      \/ TotpConfirm(b, out)
      <4>1. PICK out \in Outcome : PutUser(sess[b].user, out)
        BY <3>5 DEF AppendCredential, SaveSignCount, TotpConfirm
      <4>2. sess[b].user \in User
        BY <4>1 DEF PutUser, ServerInv, StoreInv, TypeOK, Data
      <4> QED
        BY <4>1, <4>2 DEF Next
    <3>6. CASE \E out \in Outcome : ConsumeAndAnswer(b, out)
      <4>1. PICK out \in Outcome : req[b].pc = "consume" /\ ConsumeInvite(sess[b].inv, out)
        BY <3>6 DEF ConsumeAndAnswer
      <4>2. sess[b].inv \in Invite
        BY <3>3, <4>1 DEF BrowserOK
      <4> QED
        BY <4>1, <4>2 DEF Next
    <3>7. CASE \E t \in Token, out \in Outcome : Mint(b, t, out)
      BY <3>7 DEF Mint, Next, CreateInvite, CreateAgentToken, Token
    <3> QED
      BY <3>2, <3>4, <3>5, <3>6, <3>7
  <2> QED
    BY <2>1, <2>2, <2>3 DEF ServerNext
<1> QED
  BY <1>1, <1>2

-----------------------------------------------------------------------------
(* What a request does to the sessions: it changes the one of its browser, *)
(* or the process was killed and all are gone.                             *)
Only(b, s, r, ev) ==
    /\ sess' = [sess EXCEPT ![b] = s] /\ req' = [req EXCEPT ![b] = r]
    /\ evidence' = [evidence EXCEPT ![b] = ev]

Wiped ==
    /\ sess' = [b \in Browser |-> Fresh] /\ req' = [b \in Browser |-> Idle]
    /\ UNCHANGED evidence

(* How a session may become authenticated.                                 *)
StepUp(b, s, ev) ==
    s.auth /\ ~sess[b].auth =>
      \/ ev \cap {<<s.user, "registered">>, <<s.user, "code">>} # {}
      \/ <<s.user, "login">> \in ev /\ ~rec[s.user].totp

(* A step of a request of b.                                               *)
Good(b) ==
    \/ Wiped
    \/ \E s \in SessionT, r \in RequestT, ev \in SUBSET (User \X Kind) :
         Only(b, s, r, ev) /\ BrowserOK(s, r, ev) /\ StepUp(b, s, ev)

(* A browser without a session is in order.                                *)
LEMMA FreshOK ==
    /\ Fresh \in SessionT /\ Idle \in RequestT
    /\ \A ev \in SUBSET (User \X Kind) : BrowserOK(Fresh, Idle, ev)
<1>1. Fresh \in SessionT /\ Idle \in RequestT
  BY DEF Fresh, Idle, SessionT, RequestT, Maybe, Kind
<1> QED
  BY <1>1 DEF BrowserOK, Fresh, Idle

(* Such a step leaves all sessions in order.                               *)
LEMMA GoodKeeps ==
    ASSUME SessInv, NEW b \in Browser, Good(b), drawn' \subseteq Challenge
    PROVE  SessInv'
<1>1. CASE Wiped
  BY <1>1, FreshOK DEF SessInv, Wiped
<1>2. CASE \E s \in SessionT, r \in RequestT, ev \in SUBSET (User \X Kind) :
             Only(b, s, r, ev) /\ BrowserOK(s, r, ev)
  <2>1. PICK s \in SessionT, r \in RequestT, ev \in SUBSET (User \X Kind) :
          Only(b, s, r, ev) /\ BrowserOK(s, r, ev)
    BY <1>2
  <2>2. \A o \in Browser :
          /\ sess'[o] = IF o = b THEN s ELSE sess[o]
          /\ req'[o] = IF o = b THEN r ELSE req[o]
          /\ evidence'[o] = IF o = b THEN ev ELSE evidence[o]
    BY <2>1 DEF Only, SessInv
  <2>3. \A o \in Browser : BrowserOK(sess'[o], req'[o], evidence'[o])
    BY <2>1, <2>2 DEF SessInv
  <2>4. /\ sess' \in [Browser -> SessionT] /\ req' \in [Browser -> RequestT]
        /\ evidence' \in [Browser -> SUBSET (User \X Kind)]
    BY <2>1 DEF Only, SessInv
  <2> QED
    BY <2>3, <2>4 DEF SessInv
<1> QED
  BY <1>1, <1>2 DEF Good

(* How a handler is shown to take one: by naming what it leaves to its     *)
(* browser.                                                                *)
LEMMA GoodIntro ==
    ASSUME SessInv, NEW b \in Browser, NEW s, NEW r, NEW ev,
           sess' = [sess EXCEPT ![b] = s], req' = [req EXCEPT ![b] = r],
           evidence' = [evidence EXCEPT ![b] = ev],
           BrowserOK(s, r, ev), StepUp(b, s, ev)
    PROVE  Good(b)
  BY DEF Good, Only, BrowserOK

(* The steps of a registration's begin: the session is given up, and the   *)
(* ceremony keeps the invite.                                              *)
LEMMA RegisterBeginGood ==
    ASSUME ServerInv, NEW b \in Browser,
           \/ \E i \in Invite : PeekInvite(b, i)
           \/ GetUserNotFound(b) \/ CreateRefused(b)
           \/ \E c \in Challenge : RegisterBegin(b, c)
           \/ \E c \in Challenge, out \in Outcome : CreateAndBegin(b, c, out)
    PROVE  Good(b) /\ drawn' \subseteq Challenge
<1> DEFINE s == sess[b] r == req[b] ev == evidence[b]
<1>0. SessInv /\ BrowserOK(s, r, ev) /\ drawn \subseteq Challenge
  BY DEF ServerInv, SessInv
<1>a. sess = [sess EXCEPT ![b] = s] /\ req = [req EXCEPT ![b] = r]
      /\ evidence = [evidence EXCEPT ![b] = ev]
  BY <1>0 DEF SessInv
<1>1. ASSUME NEW i \in Invite, PeekInvite(b, i)
      PROVE  Good(b) /\ drawn' \subseteq Challenge
  <2> DEFINE r2 == [Idle EXCEPT !.pc = "user", !.inv = i]
  <2>1. req' = [req EXCEPT ![b] = r2] /\ UNCHANGED <<sess, evidence, drawn>> /\ r = Idle
    BY <1>1 DEF PeekInvite, Ready
  <2>2. i # None
    BY NoneFresh DEF Token
  <2>3. BrowserOK(s, r2, ev)
    BY <1>0, <2>2 DEF BrowserOK, RequestT, Idle, Maybe
  <2>4. StepUp(b, s, ev)
    BY DEF StepUp
  <2> HIDE DEF s, r, r2, ev
  <2> QED
    BY <1>0, <1>a, <2>1, <2>3, <2>4, GoodIntro
<1>2. ASSUME GetUserNotFound(b)
      PROVE  Good(b) /\ drawn' \subseteq Challenge
  <2> DEFINE r2 == [r EXCEPT !.pc = "create"]
  <2>1. req' = [req EXCEPT ![b] = r2] /\ UNCHANGED <<sess, evidence, drawn>> /\ r.pc = "user"
    BY <1>0, <1>2 DEF GetUserNotFound, Goto, history, SessInv
  <2>2. BrowserOK(s, r2, ev)
    BY <1>0, <2>1 DEF BrowserOK, RequestT
  <2>3. StepUp(b, s, ev)
    BY DEF StepUp
  <2> HIDE DEF s, r, r2, ev
  <2> QED
    BY <1>0, <1>a, <2>1, <2>2, <2>3, GoodIntro
<1>3. ASSUME req' = Answered(b), UNCHANGED <<sess, evidence, drawn>>
      PROVE  Good(b) /\ drawn' \subseteq Challenge
  <2>1. BrowserOK(s, Idle, ev)
    BY <1>0 DEF BrowserOK, RequestT, Idle, Maybe
  <2>2. StepUp(b, s, ev)
    BY DEF StepUp
  <2> HIDE DEF s, r, ev
  <2> QED
    BY <1>0, <1>a, <1>3, <2>1, <2>2, GoodIntro DEF Answered
<1>4. ASSUME NEW c \in Challenge, r.pc \in {"user", "create"}, Draw(b, c), req' = Answered(b),
             sess' = Begin(b, InviteFor[r.inv], c, "registered", r.inv)
      PROVE  Good(b) /\ drawn' \subseteq Challenge
  <2> DEFINE u == InviteFor[r.inv]
             s2 == [s EXCEPT !.user = u, !.cer = c, !.kind = "registered", !.inv = r.inv,
                             !.auth = FALSE]
  <2>1. r.inv \in Invite /\ u \in User
    BY <1>0, <1>4, SeedInvites DEF BrowserOK, RequestT, Maybe
  <2>2. /\ sess' = [sess EXCEPT ![b] = s2] /\ evidence' = [evidence EXCEPT ![b] = {}]
        /\ drawn' = drawn \cup {c} /\ req' = [req EXCEPT ![b] = Idle]
    BY <1>4 DEF Begin, Draw, Answered
  <2>3. s2 \in SessionT /\ s2.user = u /\ s2.inv = r.inv /\ ~s2.auth
    BY <1>0, <2>1 DEF BrowserOK, SessionT, Maybe, Kind
  <2> HIDE DEF s2, u, r
  <2>4. BrowserOK(s2, Idle, {})
    BY <2>1, <2>3, FreshOK DEF BrowserOK, Idle
  <2>5. StepUp(b, s2, {})
    BY <2>3 DEF StepUp
  <2> HIDE DEF s, ev
  <2> QED
    BY <1>0, <2>2, <2>4, <2>5, GoodIntro
<1>5. ASSUME NEW c \in Challenge, NEW out \in Outcome, CreateAndBegin(b, c, out)
      PROVE  Good(b) /\ drawn' \subseteq Challenge
  <2>1. CASE out = "ok"
    BY <1>4, <1>5, <2>1 DEF CreateAndBegin, Persist, Answers
  <2>2. CASE out = "failed"
    BY <1>3, <1>5, <2>2 DEF CreateAndBegin, Persist, Answers
  <2>3. CASE ~Answers(out)
    <3>1. Wiped /\ UNCHANGED drawn
      BY <1>5, <2>3 DEF CreateAndBegin, Persist, Wiped, Answers
    <3> QED
      BY <1>0, <3>1 DEF Good
  <2> QED
    BY <2>1, <2>2, <2>3 DEF Answers
<1>6. ASSUME NEW c \in Challenge, RegisterBegin(b, c)
      PROVE  Good(b) /\ drawn' \subseteq Challenge
  BY <1>4, <1>6 DEF RegisterBegin
<1>7. ASSUME CreateRefused(b)
      PROVE  Good(b) /\ drawn' \subseteq Challenge
  BY <1>3, <1>7 DEF CreateRefused, history
<1> QED
  BY <1>1, <1>2, <1>5, <1>6, <1>7

(* The rest of a registration: from the library's verdict to the answer,   *)
(* the request carries what was shown.                                     *)
LEMMA RegisterFinishGood ==
    ASSUME ServerInv, NEW b \in Browser,
           \/ RegisterFinish(b) \/ ReadCredentials(b)
           \/ \E out \in Outcome : AppendCredential(b, out) \/ ConsumeAndAnswer(b, out)
    PROVE  Good(b) /\ UNCHANGED drawn
<1> DEFINE s == sess[b] r == req[b] ev == evidence[b]
<1>0. /\ SessInv /\ BrowserOK(s, r, ev) /\ s \in SessionT /\ r \in RequestT
      /\ ev \in SUBSET (User \X Kind)
  BY DEF ServerInv, SessInv
<1>a. sess = [sess EXCEPT ![b] = s] /\ req = [req EXCEPT ![b] = r]
      /\ evidence = [evidence EXCEPT ![b] = ev] /\ StepUp(b, s, ev)
  BY <1>0 DEF SessInv, StepUp
<1>1. ASSUME RegisterFinish(b)
      PROVE  Good(b) /\ UNCHANGED drawn
  <2> DEFINE r2 == [r EXCEPT !.pc = "read"] ev2 == ev \cup {<<s.user, "registered">>}
  <2>1. /\ req' = [req EXCEPT ![b] = r2] /\ evidence' = [evidence EXCEPT ![b] = ev2]
        /\ UNCHANGED <<sess, drawn>> /\ r = Idle /\ s.cer # None /\ s.kind = "registered"
    BY <1>0, <1>1 DEF RegisterFinish, Finish, Goto, Ready, SessInv
  <2>2. s.user \in User /\ <<s.user, "registered">> \in User \X Kind
    BY <1>0, <2>1 DEF BrowserOK, Kind
  <2>3. BrowserOK(s, r2, ev2)
    BY <1>0, <2>1, <2>2 DEF BrowserOK, RequestT, Idle
  <2>4. StepUp(b, s, ev2)
    BY DEF StepUp
  <2> HIDE DEF s, r, r2, ev, ev2
  <2> QED
    BY <1>0, <1>a, <2>1, <2>3, <2>4, GoodIntro
<1>2. ASSUME ReadCredentials(b)
      PROVE  Good(b) /\ UNCHANGED drawn
  <2> DEFINE r2 == [r EXCEPT !.pc = "append", !.creds = rec[s.user].creds]
  <2>1. /\ req' = [req EXCEPT ![b] = r2] /\ UNCHANGED <<sess, evidence, drawn>>
        /\ r.pc = "read"
    BY <1>0, <1>2 DEF ReadCredentials, SessInv, history
  <2>2. rec[s.user].creds \subseteq Challenge
    BY <1>0, <2>1 DEF BrowserOK, ServerInv, RecInv, Record
  <2>3. BrowserOK(s, r2, ev)
    BY <1>0, <2>1, <2>2 DEF BrowserOK, RequestT
  <2> HIDE DEF s, r, r2, ev
  <2> QED
    BY <1>0, <1>a, <2>1, <2>3, GoodIntro
<1>3. ASSUME NEW out \in Outcome, AppendCredential(b, out)
      PROVE  Good(b) /\ UNCHANGED drawn
  <2>1. CASE Answers(out)
    <3> DEFINE r2 == IF out = "ok" THEN [Idle EXCEPT !.pc = "consume"] ELSE Idle
    <3>1. /\ req' = [req EXCEPT ![b] = r2] /\ UNCHANGED <<sess, evidence, drawn>>
          /\ r.pc = "append"
      BY <1>0, <1>3, <2>1 DEF AppendCredential, Persist, Answered, SessInv
    <3>2. BrowserOK(s, r2, ev)
      BY <1>0, <3>1, FreshOK DEF BrowserOK, RequestT, Idle
    <3> HIDE DEF s, r, r2, ev
    <3> QED
      BY <1>0, <1>a, <3>1, <3>2, GoodIntro
  <2>2. CASE ~Answers(out)
    BY <1>3, <2>2 DEF AppendCredential, Persist, Wiped, Good
  <2> QED
    BY <2>1, <2>2
<1>4. ASSUME NEW out \in Outcome, ConsumeAndAnswer(b, out)
      PROVE  Good(b) /\ UNCHANGED drawn
  <2>1. CASE Answers(out)
    <3> DEFINE s2 == [s EXCEPT !.cer = None, !.inv = None, !.auth = TRUE]
    <3>1. /\ req' = [req EXCEPT ![b] = Idle] /\ sess' = [sess EXCEPT ![b] = s2]
          /\ UNCHANGED <<evidence, drawn>> /\ r.pc = "consume"
      BY <1>0, <1>4, <2>1 DEF ConsumeAndAnswer, Persist, Answered, Registered
    <3>2. s2 \in SessionT /\ s2.user = s.user /\ s2.cer = None /\ s2.inv = None
      BY <1>0 DEF SessionT, Maybe
    <3>3. <<s2.user, "registered">> \in ev
      BY <1>0, <3>1, <3>2 DEF BrowserOK
    <3> HIDE DEF s, r, s2, ev
    <3>4. BrowserOK(s2, Idle, ev)
      BY <1>0, <3>2, <3>3, FreshOK DEF BrowserOK, Idle, Kind
    <3>5. StepUp(b, s2, ev)
      BY <3>3 DEF StepUp
    <3> QED
      BY <1>0, <1>a, <3>1, <3>4, <3>5, GoodIntro
  <2>2. CASE ~Answers(out)
    BY <1>4, <2>2 DEF ConsumeAndAnswer, Persist, Wiped, Good
  <2> QED
    BY <2>1, <2>2
<1> QED
  BY <1>1, <1>2, <1>3, <1>4

(* A login, and the second factor.                                         *)
LEMMA LoginGood ==
    ASSUME ServerInv, NEW b \in Browser,
           \/ \E u \in User, c \in Challenge : LoginBegin(b, u, c)
           \/ LoginFinish(b) \/ Enter(b) \/ TotpVerify(b)
           \/ \E out \in Outcome : SaveSignCount(b, out)
    PROVE  Good(b) /\ drawn' \subseteq Challenge
<1> DEFINE s == sess[b] r == req[b] ev == evidence[b]
<1>0. /\ SessInv /\ BrowserOK(s, r, ev) /\ s \in SessionT /\ r \in RequestT
      /\ ev \in SUBSET (User \X Kind) /\ drawn \subseteq Challenge
  BY DEF ServerInv, SessInv
<1>a. sess = [sess EXCEPT ![b] = s] /\ req = [req EXCEPT ![b] = r]
      /\ evidence = [evidence EXCEPT ![b] = ev] /\ StepUp(b, s, ev)
  BY <1>0 DEF SessInv, StepUp
<1>1. ASSUME NEW u \in User, NEW c \in Challenge, LoginBegin(b, u, c)
      PROVE  Good(b) /\ drawn' \subseteq Challenge
  <2> DEFINE s2 == [s EXCEPT !.user = u, !.cer = c, !.kind = "login", !.inv = s.inv,
                             !.auth = FALSE]
  <2>1. /\ sess' = [sess EXCEPT ![b] = s2] /\ evidence' = [evidence EXCEPT ![b] = {}]
        /\ drawn' = drawn \cup {c} /\ UNCHANGED req /\ r = Idle
    BY <1>1 DEF LoginBegin, Begin, Draw, Ready
  <2>2. s2 \in SessionT /\ s2.user = u /\ s2.kind = "login" /\ ~s2.auth
    BY <1>0 DEF SessionT, Maybe, Kind
  <2> HIDE DEF s2
  <2>3. BrowserOK(s2, Idle, {})
    BY <2>2, FreshOK DEF BrowserOK, Idle
  <2>4. StepUp(b, s2, {})
    BY <2>2 DEF StepUp
  <2> HIDE DEF s, r, ev
  <2> QED
    BY <1>0, <1>a, <2>1, <2>3, <2>4, GoodIntro
<1>2. ASSUME LoginFinish(b)
      PROVE  Good(b) /\ drawn' \subseteq Challenge
  <2> DEFINE r2 == [r EXCEPT !.pc = "count"] ev2 == ev \cup {<<s.user, "login">>}
  <2>1. /\ req' = [req EXCEPT ![b] = r2] /\ evidence' = [evidence EXCEPT ![b] = ev2]
        /\ UNCHANGED <<sess, drawn>> /\ r = Idle /\ s.cer # None /\ s.kind = "login"
    BY <1>0, <1>2 DEF LoginFinish, Finish, Goto, Ready, SessInv
  <2>2. s.user \in User /\ <<s.user, "login">> \in User \X Kind
    BY <1>0, <2>1 DEF BrowserOK, Kind
  <2>3. BrowserOK(s, r2, ev2)
    BY <1>0, <2>1, <2>2 DEF BrowserOK, RequestT, Idle
  <2>4. StepUp(b, s, ev2)
    BY DEF StepUp
  <2> HIDE DEF s, r, r2, ev, ev2
  <2> QED
    BY <1>0, <1>a, <2>1, <2>3, <2>4, GoodIntro
<1>3. ASSUME Enter(b)
      PROVE  Good(b) /\ drawn' \subseteq Challenge
  <2> DEFINE s2 == [s EXCEPT !.cer = None, !.auth = @ \/ ~rec[s.user].totp]
  <2>1. /\ sess' = [sess EXCEPT ![b] = s2] /\ req' = [req EXCEPT ![b] = Idle]
        /\ UNCHANGED <<evidence, drawn>> /\ r.pc = "enter"
    BY <1>0, <1>3 DEF Enter, Answered, SessInv, history
  <2>2. rec[s.user].totp \in BOOLEAN /\ <<s.user, "login">> \in ev
    BY <1>0, <2>1 DEF BrowserOK, ServerInv, RecInv, Record
  <2>3. s2 \in SessionT /\ s2.user = s.user /\ s2.cer = None
        /\ (s2.auth => s.auth \/ ~rec[s.user].totp)
    BY <1>0, <2>2 DEF SessionT, Maybe
  <2> HIDE DEF s2
  <2>4. BrowserOK(s2, Idle, ev)
    BY <1>0, <2>2, <2>3, FreshOK DEF BrowserOK, Idle, Kind
  <2>5. StepUp(b, s2, ev)
    BY <2>2, <2>3 DEF StepUp
  <2> HIDE DEF s, r, ev
  <2> QED
    BY <1>0, <1>a, <2>1, <2>4, <2>5, GoodIntro
<1>4. ASSUME TotpVerify(b)
      PROVE  Good(b) /\ drawn' \subseteq Challenge
  <2> DEFINE s2 == [s EXCEPT !.auth = TRUE] ev2 == ev \cup {<<s.user, "code">>}
  <2>1. /\ sess' = [sess EXCEPT ![b] = s2] /\ evidence' = [evidence EXCEPT ![b] = ev2]
        /\ UNCHANGED <<req, drawn>> /\ r = Idle /\ s.user \in User
    BY <1>0, <1>4 DEF TotpVerify, Ready, SessInv, ServerInv, StoreInv, TypeOK, Data
  <2>2. /\ s2 \in SessionT /\ s2.user = s.user /\ s2.cer = s.cer /\ s2.kind = s.kind
        /\ s2.inv = s.inv /\ ev2 \in SUBSET (User \X Kind) /\ <<s2.user, "code">> \in ev2
    <3>1. /\ s2 \in SessionT /\ s2.user = s.user /\ s2.cer = s.cer /\ s2.kind = s.kind
          /\ s2.inv = s.inv
      BY <1>0 DEF SessionT
    <3>2. <<s.user, "code">> \in User \X Kind
      BY <2>1 DEF Kind
    <3> HIDE DEF s2
    <3> QED
      BY <1>0, <3>1, <3>2
  <2> HIDE DEF s2, ev2
  <2>3. BrowserOK(s2, Idle, ev2)
    BY <1>0, <2>1, <2>2, FreshOK DEF BrowserOK, Idle, Kind
  <2>4. StepUp(b, s2, ev2)
    BY <2>2 DEF StepUp
  <2> HIDE DEF s, r, ev
  <2> QED
    BY <1>0, <1>a, <2>1, <2>3, <2>4, GoodIntro
<1>5. ASSUME NEW out \in Outcome, SaveSignCount(b, out)
      PROVE  Good(b) /\ drawn' \subseteq Challenge
  <2>1. CASE Answers(out)
    <3> DEFINE r2 == [r EXCEPT !.pc = "enter"]
    <3>1. /\ req' = [req EXCEPT ![b] = r2] /\ UNCHANGED <<sess, evidence, drawn>>
          /\ r.pc = "count"
      BY <1>0, <1>5, <2>1 DEF SaveSignCount, Persist, Goto, SessInv, history
    <3>2. BrowserOK(s, r2, ev)
      BY <1>0, <3>1 DEF BrowserOK, RequestT
    <3> HIDE DEF s, r, r2, ev
    <3> QED
      BY <1>0, <1>a, <3>1, <3>2, GoodIntro
  <2>2. CASE ~Answers(out)
    BY <1>0, <1>5, <2>2 DEF SaveSignCount, Persist, Wiped, Good, history
  <2> QED
    BY <2>1, <2>2
<1> QED
  BY <1>1, <1>2, <1>3, <1>4, <1>5

(* Requests of a logged-in browser, and the logout.                        *)
LEMMA OtherGood ==
    ASSUME ServerInv, NEW b \in Browser,
           \/ TotpEnroll(b) \/ Logout(b)
           \/ \E out \in Outcome : TotpConfirm(b, out)
           \/ \E t \in Token, out \in Outcome : Mint(b, t, out)
    PROVE  Good(b) /\ UNCHANGED drawn
<1> DEFINE s == sess[b] r == req[b] ev == evidence[b]
<1>0. /\ SessInv /\ BrowserOK(s, r, ev) /\ s \in SessionT /\ r \in RequestT
      /\ ev \in SUBSET (User \X Kind)
  BY DEF ServerInv, SessInv
<1>a. sess = [sess EXCEPT ![b] = s] /\ req = [req EXCEPT ![b] = r]
      /\ evidence = [evidence EXCEPT ![b] = ev] /\ StepUp(b, s, ev)
  BY <1>0 DEF SessInv, StepUp
<1>1. ASSUME NEW f \in BOOLEAN, sess' = [sess EXCEPT ![b].totp = f],
             UNCHANGED <<req, evidence, drawn>>, r = Idle
      PROVE  Good(b) /\ UNCHANGED drawn
  <2> DEFINE s2 == [s EXCEPT !.totp = f]
  <2>1. sess' = [sess EXCEPT ![b] = s2]
    BY <1>1
  <2>2. /\ s2 \in SessionT /\ s2.user = s.user /\ s2.cer = s.cer /\ s2.kind = s.kind
        /\ s2.inv = s.inv /\ s2.auth = s.auth
    BY <1>0 DEF SessionT
  <2> HIDE DEF s2
  <2>3. BrowserOK(s2, Idle, ev)
    BY <1>0, <2>2, FreshOK DEF BrowserOK, Idle
  <2>4. StepUp(b, s2, ev)
    BY <2>2 DEF StepUp
  <2> HIDE DEF s, r, ev
  <2> QED
    BY <1>0, <1>a, <1>1, <2>1, <2>3, <2>4, GoodIntro
<1>2. ASSUME TotpEnroll(b)
      PROVE  Good(b) /\ UNCHANGED drawn
  BY <1>1, <1>2 DEF TotpEnroll, LoggedIn, Ready, history
<1>3. ASSUME NEW out \in Outcome, TotpConfirm(b, out)
      PROVE  Good(b) /\ UNCHANGED drawn
  <2>1. CASE Answers(out)
    BY <1>1, <1>3, <2>1 DEF TotpConfirm, Persist, LoggedIn, Ready
  <2>2. CASE ~Answers(out)
    BY <1>3, <2>2 DEF TotpConfirm, Persist, Wiped, Good
  <2> QED
    BY <2>1, <2>2
<1>4. ASSUME NEW t \in Token, NEW out \in Outcome, Mint(b, t, out)
      PROVE  Good(b) /\ UNCHANGED drawn
  <2>1. CASE Answers(out)
    <3>1. UNCHANGED <<sess, req, evidence, drawn>>
      BY <1>4, <2>1 DEF Mint, Persist, history
    <3> HIDE DEF s, r, ev
    <3> QED
      BY <1>0, <1>a, <3>1, GoodIntro
  <2>2. CASE ~Answers(out)
    BY <1>4, <2>2 DEF Mint, Persist, Wiped, Good, history
  <2> QED
    BY <2>1, <2>2
<1>5. ASSUME Logout(b)
      PROVE  Good(b) /\ UNCHANGED drawn
  <2>1. sess' = [sess EXCEPT ![b] = Fresh] /\ UNCHANGED <<req, evidence, drawn>> /\ r = Idle
    BY <1>5 DEF Logout, Ready, history
  <2>2. BrowserOK(Fresh, r, ev) /\ StepUp(b, Fresh, ev)
    BY <1>0, <2>1, FreshOK DEF StepUp, Fresh
  <2> HIDE DEF s, r, ev
  <2> QED
    BY <1>0, <1>a, <2>1, <2>2, GoodIntro
<1> QED
  BY <1>2, <1>3, <1>4, <1>5

(* Every request treats its session well.                                  *)
LEMMA HandlerGood ==
    ASSUME ServerInv, NEW b \in Browser, Handler(b)
    PROVE  Good(b) /\ drawn' \subseteq Challenge
<1>1. drawn \subseteq Challenge
  BY DEF ServerInv, SessInv
<1> QED
  BY <1>1, RegisterBeginGood, RegisterFinishGood, LoginGood, OtherGood DEF Handler

(* Every step leaves all sessions in order.                                *)
LEMMA SessInvStep ==
    ASSUME ServerInv, [ServerNext]_serverVars
    PROVE  SessInv'
<1>1. SessInv
  BY DEF ServerInv
<1>2. CASE UNCHANGED <<sess, req, evidence, drawn>>
  BY <1>1, <1>2 DEF SessInv
<1>3. CASE UNCHANGED serverVars \/ SessionInfo \/ StartServer \/ \E i \in Invite : ExpireInvite(i)
  BY <1>2, <1>3 DEF serverVars, serverOnly, history, SessionInfo, StartServer, ExpireInvite
<1>4. CASE KillServer
  <2>1. Wiped /\ UNCHANGED drawn
    BY <1>4 DEF KillServer, Persist, Answers, Wiped, history
  <2> QED
    BY <1>1, <2>1, FreshOK DEF Wiped, SessInv
<1>5. CASE \E b \in Browser : Handler(b)
  BY <1>1, <1>5, HandlerGood, GoodKeeps
<1> QED
  BY <1>3, <1>4, <1>5 DEF ServerNext

-----------------------------------------------------------------------------
(* No request comes to the point where its registration is as good as      *)
(* answered, and those that are there stay as they are.                    *)
Quiet ==
    \A o \in Browser : req'[o].pc = "consume" => req[o].pc = "consume" /\ sess'[o] = sess[o]

(* Such a step owes nobody more than before.                               *)
LEMMA QuietOwes ==
    ASSUME Quiet, UNCHANGED acked, NEW u \in User
    PROVE  Owed(u)' \subseteq Owed(u)
  BY DEF Quiet, Owed

(* The records stay as they are, the process starts with the file's, or it *)
(* ends.                                                                   *)
LEMMA RecKeeps ==
    ASSUME RecInv, UNCHANGED <<recFile, acked, raced, confirmed>>, Quiet,
           \/ UNCHANGED rec /\ (up' => up)
           \/ rec' = recFile
           \/ rec' \in [User -> Record] /\ ~up'
    PROVE  RecInv'
<1>1. \A u \in User : Owed(u)' \subseteq Owed(u)
  BY QuietOwes
<1>2. rec' \in [User -> Record]
  BY DEF RecInv
<1> QED
  BY <1>1, <1>2 DEF RecInv

(* A save of records that have lost nothing, except to a race.             *)
LEMMA PersistKeeps ==
    ASSUME RecInv, up, NEW r \in [User -> Record], NEW out \in Outcome, NEW ss, NEW rq,
           Persist(r, out, ss, rq), up' => Answers(out),
           acked' \in [User -> SUBSET Challenge],
           raced \subseteq raced', raced' \subseteq User, confirmed' \subseteq User,
           \A u \in User : rec[u].totp => r[u].totp,
           \A u \in confirmed' : u \in confirmed \/ (out = "ok" /\ r[u].totp),
           \A u \in User \ raced' :
             /\ rec[u].creds \subseteq r[u].creds
             /\ \A c \in Owed(u)' : c \in Owed(u) \/ (out = "ok" /\ c \in r[u].creds)
    PROVE  RecInv'
<1>1. /\ recFile' = IF out \in {"ok", "killed after"} THEN r ELSE recFile
      /\ Answers(out) => rec' = r
      /\ ~Answers(out) => rec' = [u \in User |-> Blank]
  BY DEF Persist
<1>2. Blank \in Record
  BY DEF Blank, Record
<1>3. recFile' \in {r, recFile} /\ (out = "ok" => recFile' = r) /\ (up' => rec' = r)
  BY <1>1
<1>4. rec' \in [User -> Record] /\ recFile' \in [User -> Record]
  BY <1>1, <1>2 DEF RecInv
<1>5. ASSUME NEW u \in User, u \notin raced'
      PROVE  Owed(u)' \subseteq recFile'[u].creds /\ (up' => Owed(u)' \subseteq rec'[u].creds)
  <2>1. Owed(u) \subseteq recFile[u].creds /\ Owed(u) \subseteq rec[u].creds
    BY <1>5 DEF RecInv
  <2> QED
    BY <1>3, <1>5, <2>1
<1>6. ASSUME NEW u \in confirmed'
      PROVE  recFile'[u].totp /\ (up' => rec'[u].totp)
  <2>1. u \in confirmed => recFile[u].totp /\ rec[u].totp
    BY DEF RecInv
  <2> QED
    BY <1>3, <2>1
<1> QED
  BY <1>4, <1>5, <1>6 DEF RecInv

(* Only the two last steps of registerFinish are not quiet.                *)
LEMMA HandlerQuiet ==
    ASSUME ServerInv, NEW b \in Browser, Handler(b),
           ~ \E out \in Outcome : AppendCredential(b, out) \/ ConsumeAndAnswer(b, out)
    PROVE  Quiet
<1>0. req \in [Browser -> RequestT] /\ sess \in [Browser -> SessionT] /\ Idle.pc = "idle"
  BY DEF ServerInv, SessInv, Idle
<1>1. CASE Wiped
  BY <1>0, <1>1 DEF Wiped, Quiet
<1>2. \A u, c, k, i : \A o \in Browser : o # b => Begin(b, u, c, k, i)[o] = sess[o]
  BY <1>0 DEF Begin
<1>3. CASE (\E i \in Invite : PeekInvite(b, i)) \/ GetUserNotFound(b) \/ CreateRefused(b)
  <2>1. /\ UNCHANGED sess
        /\ \A o \in Browser : o # b => req'[o] = req[o]
        /\ req'[b].pc \in {"user", "create", "idle"}
    BY <1>0, <1>3 DEF PeekInvite, GetUserNotFound, CreateRefused, Goto, Answered, RequestT, Idle
  <2> QED
    BY <2>1 DEF Quiet
<1>4. CASE \/ \E c \in Challenge : RegisterBegin(b, c)
           \/ \E c \in Challenge, out \in Outcome : CreateAndBegin(b, c, out)
  <2>1. Wiped \/ (req' = Answered(b) /\ \A o \in Browser : o # b => sess'[o] = sess[o])
    <3>1. CASE \E c \in Challenge : RegisterBegin(b, c)
      BY <1>2, <3>1 DEF RegisterBegin
    <3>2. ASSUME NEW c \in Challenge, NEW out \in Outcome, CreateAndBegin(b, c, out)
          PROVE  Wiped \/ (req' = Answered(b) /\ \A o \in Browser : o # b => sess'[o] = sess[o])
      <4>1. CASE out = "ok"
        BY <1>2, <3>2, <4>1 DEF CreateAndBegin, Persist, Answers
      <4>2. CASE out = "failed"
        BY <3>2, <4>2 DEF CreateAndBegin, Persist, Answers
      <4>3. CASE ~Answers(out)
        BY <3>2, <4>3 DEF CreateAndBegin, Persist, Wiped, Answers
      <4> QED
        BY <4>1, <4>2, <4>3 DEF Answers
    <3> QED
      BY <1>4, <3>1, <3>2
  <2> QED
    BY <1>0, <1>1, <2>1 DEF Quiet, Answered
<1>5. CASE RegisterFinish(b) \/ ReadCredentials(b) \/ LoginFinish(b) \/ Enter(b)
           \/ \E out \in Outcome : SaveSignCount(b, out)
  <2>1. \/ Wiped
        \/ /\ \A o \in Browser : o # b => sess'[o] = sess[o] /\ req'[o] = req[o]
           /\ req'[b].pc \in {"read", "append", "count", "enter", "idle"}
    BY <1>0, <1>5 DEF RegisterFinish, LoginFinish, Finish, ReadCredentials, Enter, SaveSignCount,
       Goto, Answered, Persist, Wiped, RequestT, history
  <2> QED
    BY <1>1, <2>1 DEF Quiet
<1>6. CASE \/ \E u \in User, c \in Challenge : LoginBegin(b, u, c)
           \/ TotpVerify(b) \/ TotpEnroll(b) \/ Logout(b)
           \/ \E out \in Outcome : TotpConfirm(b, out)
           \/ \E t \in Token, out \in Outcome : Mint(b, t, out)
  <2>1. /\ req[b] = Idle
        /\ Wiped \/ (UNCHANGED req /\ \A o \in Browser : o # b => sess'[o] = sess[o])
    BY <1>0, <1>6 DEF LoginBegin, TotpVerify, TotpEnroll, Logout, TotpConfirm, Mint, LoggedIn,
       Ready, Begin, Persist, Wiped, history
  <2> QED
    BY <1>0, <1>1, <2>1 DEF Quiet
<1> QED
  BY <1>3, <1>4, <1>5, <1>6 DEF Handler

(* Who saves is up, and who answers stays up.                              *)
LEMMA SaveUp ==
    ASSUME NEW d, NEW out, Save(d, out)
    PROVE  up /\ (up' => Answers(out))
  BY DEF Save

(* A save that answers leaves what the handler meant; the others leave no  *)
(* request.                                                                *)
LEMMA PersistEnds ==
    ASSUME NEW r, NEW out, NEW ss, NEW rq, Persist(r, out, ss, rq)
    PROVE  /\ Answers(out) => rec' = r /\ sess' = ss /\ req' = rq
           /\ ~Answers(out) => \A o \in Browser : req'[o] = Idle /\ req'[o].pc = "idle"
<1>1. Idle.pc = "idle"
  BY DEF Idle
<1>2. CASE Answers(out)
  BY <1>2 DEF Persist
<1>3. CASE ~Answers(out)
  <2>1. req' = [o \in Browser |-> Idle]
    BY <1>3 DEF Persist
  <2> QED
    BY <1>1, <1>3, <2>1
<1> QED
  BY <1>2, <1>3

(* append writes what it read, and the new credential: that loses another  *)
(* one only if the record was changed in between.                          *)
LEMMA AppendRec ==
    ASSUME ServerInv, NEW b \in Browser, NEW out \in Outcome, AppendCredential(b, out)
    PROVE  RecInv'
<1> DEFINE u == sess[b].user c == sess[b].cer q == req[b].creds
           r == [rec EXCEPT ![u].creds = q \cup {c}]
<1>0. /\ RecInv /\ SessInv /\ rec \in [User -> Record] /\ req \in [Browser -> RequestT]
      /\ sess \in [Browser -> SessionT]
  BY DEF ServerInv, SessInv, RecInv
<1>1. /\ req[b].pc = "append" /\ PutUser(u, out)
      /\ raced' = IF rec[u].creds # q THEN raced \cup {u} ELSE raced
      /\ Persist(r, out, sess, IF out = "ok" THEN [Answered(b) EXCEPT ![b].pc = "consume"]
                                             ELSE Answered(b))
      /\ UNCHANGED <<acked, confirmed>>
  BY DEF AppendCredential
<1>2. u \in User /\ c \in Challenge /\ q \subseteq Challenge
  <2>1. BrowserOK(sess[b], req[b], evidence[b])
    BY DEF ServerInv, SessInv
  <2> QED
    BY <1>0, <1>1, <2>1 DEF BrowserOK, SessionT, RequestT, Maybe
<1>3. /\ r \in [User -> Record] /\ r[u].creds = q \cup {c}
      /\ \A v \in User : r[v].totp = rec[v].totp /\ (v # u => r[v] = rec[v])
  BY <1>0, <1>2 DEF Record
<1>4. up /\ (up' => Answers(out))
  BY <1>1, SaveUp DEF PutUser
<1>5. \A o \in Browser : req'[o].pc = "consume" =>
        /\ sess'[o] = sess[o]
        /\ req[o].pc = "consume" \/ (o = b /\ out = "ok")
  <2>1. CASE Answers(out)
    <3>1. /\ UNCHANGED sess
          /\ req' = IF out = "ok" THEN [Answered(b) EXCEPT ![b].pc = "consume"] ELSE Answered(b)
      BY <1>1, <2>1 DEF Persist
    <3>2. \A o \in Browser : o # b => req'[o] = req[o]
      BY <1>0, <3>1 DEF Answered
    <3>3. out # "ok" => req'[b] = Idle
      BY <1>0, <3>1 DEF Answered
    <3>4. Idle.pc = "idle"
      BY DEF Idle
    <3> QED
      BY <3>1, <3>2, <3>3, <3>4
  <2>2. CASE ~Answers(out)
    BY <1>1, <2>2, PersistEnds
  <2> QED
    BY <2>1, <2>2
<1>6. ASSUME NEW v \in User
      PROVE  \A x \in Owed(v)' : x \in Owed(v) \/ (out = "ok" /\ v = u /\ x = c)
  BY <1>1, <1>5 DEF Owed
<1>7. /\ raced \subseteq raced' /\ raced' \subseteq User
      /\ u \notin raced' => rec[u].creds = q
  BY <1>0, <1>1, <1>2 DEF RecInv
<1>8. acked' \in [User -> SUBSET Challenge] /\ confirmed' = confirmed /\ confirmed' \subseteq User
  BY <1>0, <1>1 DEF RecInv
<1>9. ASSUME NEW v \in User \ raced'
      PROVE  /\ rec[v].creds \subseteq r[v].creds
             /\ \A x \in Owed(v)' : x \in Owed(v) \/ (out = "ok" /\ x \in r[v].creds)
  BY <1>3, <1>6, <1>7
<1>10. \E ss, rq : Persist(r, out, ss, rq)
  BY <1>1
<1> HIDE DEF r, u, c, q
<1> QED
  BY <1>0, <1>3, <1>4, <1>7, <1>8, <1>9, <1>10, PersistKeeps

(* What is answered was saved when it was appended, and is in both since.  *)
LEMMA AnswerRec ==
    ASSUME ServerInv, NEW b \in Browser, NEW out \in Outcome, ConsumeAndAnswer(b, out)
    PROVE  RecInv'
<1>0. /\ RecInv /\ rec \in [User -> Record] /\ req \in [Browser -> RequestT]
      /\ sess \in [Browser -> SessionT]
  BY DEF ServerInv, SessInv, RecInv
<1>1. /\ req[b].pc = "consume" /\ ConsumeInvite(sess[b].inv, out)
      /\ Persist(rec, out, Registered(b), Answered(b)) /\ UNCHANGED <<raced, confirmed>>
      /\ Answers(out) => acked' = [acked EXCEPT ![sess[b].user] = @ \cup {sess[b].cer}]
      /\ ~Answers(out) => UNCHANGED acked
  BY DEF ConsumeAndAnswer, Acknowledge
<1>2. sess[b].user \in User /\ sess[b].cer \in Challenge
  <2>1. BrowserOK(sess[b], req[b], evidence[b])
    BY DEF ServerInv, SessInv
  <2> QED
    BY <1>0, <1>1, <2>1 DEF BrowserOK, SessionT, Maybe
<1>3. up /\ (up' => Answers(out))
  BY <1>1, SaveUp DEF ConsumeInvite
<1>4. \A o \in Browser : req'[o].pc = "consume" => sess'[o] = sess[o] /\ req[o].pc = "consume"
  <2>1. CASE Answers(out)
    <3>1. sess' = Registered(b) /\ req' = Answered(b)
      BY <1>1, <2>1, PersistEnds
    <3>2. \A o \in Browser : o # b => sess'[o] = sess[o] /\ req'[o] = req[o]
      BY <1>0, <3>1 DEF Registered, Answered
    <3>3. req'[b].pc = "idle"
      BY <1>0, <3>1 DEF Answered, Idle
    <3> QED
      BY <3>2, <3>3
  <2>2. CASE ~Answers(out)
    BY <1>1, <2>2, PersistEnds
  <2> QED
    BY <2>1, <2>2
<1>5. acked' \in [User -> SUBSET Challenge]
  BY <1>1, <1>2 DEF ServerInv, RecInv
<1>6. ASSUME NEW u \in User
      PROVE  Owed(u)' \subseteq Owed(u)
  <2>1. \A c \in acked'[u] : c \in acked[u] \/ (u = sess[b].user /\ c = sess[b].cer)
    BY <1>1, <1>2 DEF ServerInv, RecInv
  <2> QED
    BY <1>1, <1>4, <2>1 DEF Owed
<1>7. /\ raced' \subseteq User /\ raced \subseteq raced'
      /\ confirmed' = confirmed /\ confirmed \subseteq User
  BY <1>0, <1>1 DEF RecInv
<1>8. \E ss, rq : Persist(rec, out, ss, rq)
  BY <1>1
<1> QED
  BY <1>0, <1>3, <1>5, <1>6, <1>7, <1>8, PersistKeeps

(* The other saves change no credential, and the second factor only to set *)
(* it.                                                                     *)
LEMMA OtherRec ==
    ASSUME ServerInv, NEW b \in Browser, NEW out \in Outcome, Quiet,
           \/ \E c \in Challenge : CreateAndBegin(b, c, out)
           \/ SaveSignCount(b, out) \/ TotpConfirm(b, out)
           \/ \E t \in Token : Mint(b, t, out)
    PROVE  RecInv'
<1>0. RecInv /\ rec \in [User -> Record] /\ raced \subseteq User /\ confirmed \subseteq User
  BY DEF ServerInv, RecInv
<1>1. /\ up /\ (up' => Answers(out)) /\ UNCHANGED <<acked, raced>>
      /\ \E r \in [User -> Record] :
           /\ \E ss, rq : Persist(r, out, ss, rq)
           /\ \A u \in User : r[u].creds = rec[u].creds /\ (rec[u].totp => r[u].totp)
           /\ \A u \in confirmed' : u \in confirmed \/ (out = "ok" /\ u \in User /\ r[u].totp)
  <2>1. CASE \/ \E c \in Challenge : CreateAndBegin(b, c, out)
             \/ SaveSignCount(b, out) \/ \E t \in Token : Mint(b, t, out)
    <3>1. /\ up /\ (up' => Answers(out)) /\ UNCHANGED <<acked, raced, confirmed>>
          /\ \E ss, rq : Persist(rec, out, ss, rq)
      BY <2>1, SaveUp DEF CreateAndBegin, SaveSignCount, Mint, CreateUser, PutUser, CreateToken,
         history
    <3> QED
      BY <1>0, <3>1
  <2>2. CASE TotpConfirm(b, out)
    <3> DEFINE u == sess[b].user r == [rec EXCEPT ![u].totp = TRUE]
    <3>1. /\ PutUser(u, out) /\ UNCHANGED <<acked, raced>>
          /\ confirmed' = IF out = "ok" THEN confirmed \cup {u} ELSE confirmed
          /\ \E ss, rq : Persist(r, out, ss, rq)
      BY <2>2 DEF TotpConfirm
    <3>2. u \in User
      BY <3>1 DEF PutUser, ServerInv, StoreInv, TypeOK, Data
    <3>3. /\ r \in [User -> Record] /\ r[u].totp
          /\ \A v \in User : r[v].creds = rec[v].creds /\ (rec[v].totp => r[v].totp)
      BY <1>0, <3>2 DEF Record
    <3>4. up /\ (up' => Answers(out))
      BY <3>1, SaveUp DEF PutUser
    <3> HIDE DEF r, u
    <3> QED
      BY <3>1, <3>2, <3>3, <3>4
  <2> QED
    BY <2>1, <2>2
<1>2. PICK r \in [User -> Record] :
        /\ \E ss, rq : Persist(r, out, ss, rq)
        /\ \A u \in User : r[u].creds = rec[u].creds /\ (rec[u].totp => r[u].totp)
        /\ \A u \in confirmed' : u \in confirmed \/ (out = "ok" /\ u \in User /\ r[u].totp)
  BY <1>1
<1>3. \A u \in User : Owed(u)' \subseteq Owed(u)
  BY <1>1, QuietOwes
<1>4. acked' \in [User -> SUBSET Challenge]
  BY <1>0, <1>1 DEF RecInv
<1>5. raced \subseteq raced' /\ raced' \subseteq User /\ confirmed' \subseteq User
  BY <1>0, <1>1, <1>2
<1> QED
  BY <1>0, <1>1, <1>2, <1>3, <1>4, <1>5, PersistKeeps

(* Every handler keeps the records.                                        *)
LEMMA HandlerRec ==
    ASSUME ServerInv, NEW b \in Browser, Handler(b)
    PROVE  RecInv'
<1>1. CASE \E out \in Outcome : AppendCredential(b, out) \/ ConsumeAndAnswer(b, out)
  BY <1>1, AppendRec, AnswerRec
<1>2. CASE ~ \E out \in Outcome : AppendCredential(b, out) \/ ConsumeAndAnswer(b, out)
  <2>0. Quiet /\ RecInv
    BY <1>2, HandlerQuiet DEF ServerInv
  <2>1. CASE \E out \in Outcome :
               \/ \E c \in Challenge : CreateAndBegin(b, c, out)
               \/ SaveSignCount(b, out) \/ TotpConfirm(b, out)
               \/ \E t \in Token : Mint(b, t, out)
    BY <2>0, <2>1, OtherRec
  <2>2. CASE \/ \E i \in Invite : PeekInvite(b, i)
             \/ GetUserNotFound(b) \/ CreateRefused(b)
             \/ \E c \in Challenge : RegisterBegin(b, c)
             \/ RegisterFinish(b) \/ ReadCredentials(b)
             \/ \E u \in User, c \in Challenge : LoginBegin(b, u, c)
             \/ LoginFinish(b) \/ Enter(b) \/ TotpVerify(b) \/ TotpEnroll(b) \/ Logout(b)
    <3>1. UNCHANGED <<storeVars, rec, recFile, acked, raced, confirmed>>
      BY <2>2 DEF PeekInvite, GetUserNotFound, CreateRefused, RegisterBegin, RegisterFinish,
         LoginFinish, Finish, ReadCredentials, LoginBegin, Enter, TotpVerify, TotpEnroll, Logout,
         history
    <3> QED
      BY <2>0, <3>1, RecKeeps DEF storeVars
  <2> QED
    BY <1>2, <2>1, <2>2 DEF Handler
<1> QED
  BY <1>1, <1>2

(* So does a kill, after which only the file counts, and a start, which    *)
(* reads it.                                                               *)
LEMMA RecInvStep ==
    ASSUME ServerInv, [ServerNext]_serverVars
    PROVE  RecInv'
<1>0. RecInv
  BY DEF ServerInv
<1>1. CASE UNCHANGED serverVars \/ SessionInfo \/ \E i \in Invite : ExpireInvite(i)
  <2>1. UNCHANGED <<rec, recFile, sess, req, acked, raced, confirmed, up>>
    BY <1>1 DEF serverVars, serverOnly, storeVars, history, SessionInfo, ExpireInvite, Expire
  <2> QED
    BY <1>0, <2>1, RecKeeps DEF Quiet
<1>2. CASE StartServer
  <2>1. rec' = recFile /\ UNCHANGED <<recFile, sess, req, acked, raced, confirmed>>
    BY <1>2 DEF StartServer, history
  <2> QED
    BY <1>0, <2>1, RecKeeps DEF Quiet
<1>3. CASE KillServer
  <2>1. /\ Persist(rec, "killed before", sess, req) /\ ~up'
        /\ UNCHANGED <<acked, raced, confirmed>>
    BY <1>3 DEF KillServer, Kill, history
  <2>2. /\ UNCHANGED recFile /\ rec' = [u \in User |-> Blank]
        /\ ~Answers("killed before")
    BY <2>1 DEF Persist, Answers
  <2>3. Quiet
    BY <2>1, <2>2, PersistEnds DEF Quiet
  <2>4. rec' \in [User -> Record]
    BY <2>2 DEF Blank, Record
  <2> QED
    BY <1>0, <2>1, <2>2, <2>3, <2>4, RecKeeps
<1>4. CASE \E b \in Browser : Handler(b)
  BY <1>4, HandlerRec
<1> QED
  BY <1>1, <1>2, <1>3, <1>4 DEF ServerNext

(* No browser comes to an invite: it keeps what it has, moves it from its  *)
(* request to its session, or gives it up.                                 *)
Shrinks ==
    \A o \in Browser, i \in Invite :
      /\ HasInvite(o, i)' => HasInvite(o, i)
      /\ sess'[o].inv = i /\ req'[o].inv = i => sess[o].inv = i /\ req[o].inv = i

(* Then an invite that was used up stays used up: the store does not bring *)
(* it back.                                                                *)
LEMMA ShrinkKeeps ==
    ASSUME ServerInv, [Next]_storeVars, Shrinks, UNCHANGED <<shared, regs>>
    PROVE  InviteInv'
<1>0. InviteInv /\ StoreInv /\ SpentInv
  BY DEF ServerInv
<1>1. /\ slipped \subseteq slipped' /\ \A t \in minted : Gone(t) => Gone(t)'
      /\ minted \subseteq minted'
  <2>1. minted \subseteq minted'
    BY DEF Next, storeVars, CreateUser, PutUser, CreateInvite, CreateAgentToken, CreateToken,
       ConsumeInvite, CheckAgentToken, Spend, Expire, Kill, OpenStore
  <2> QED
    BY <1>0, <2>1, StoreKeepsSpent
<1>2. shared' \subseteq Invite /\ regs' \in [Invite -> Nat]
  BY <1>0 DEF InviteInv
<1>3. \A o \in Browser, i \in Invite : HasInvite(o, i)' => i \in minted'
  BY <1>0, <1>1 DEF InviteInv, Shrinks
<1>4. ASSUME NEW i \in Invite \ shared'
      PROVE  /\ \A c, o \in Browser : HasInvite(c, i)' /\ HasInvite(o, i)' => c = o
             /\ \A c \in Browser : ~(sess'[c].inv = i /\ req'[c].inv = i)
  BY <1>0 DEF InviteInv, Shrinks
<1>5. ASSUME NEW i \in Invite \ (shared' \cup slipped'), regs'[i] > 0
      PROVE  /\ i \in minted' /\ Gone(i)' /\ regs'[i] = 1
             /\ \A c \in Browser : ~HasInvite(c, i)'
  <2>1. /\ i \in minted /\ Gone(i) /\ regs[i] = 1
        /\ \A c \in Browser : ~HasInvite(c, i)
    BY <1>0, <1>1, <1>5 DEF InviteInv
  <2> QED
    BY <1>1, <2>1 DEF Shrinks
<1> QED
  BY <1>2, <1>3, <1>4, <1>5 DEF InviteInv

(* PeekInvite: the invite is in the store, so it has not registered        *)
(* anybody for good, and if somebody has it, it counts as shared now.      *)
LEMMA PeekKeeps ==
    ASSUME ServerInv, NEW b \in Browser, NEW i \in Invite, PeekInvite(b, i)
    PROVE  InviteInv'
<1>0. /\ InviteInv /\ req \in [Browser -> RequestT] /\ Idle.inv = None /\ None \notin Invite
  BY NoneFresh DEF ServerInv, SessInv, Idle, Token
<1>1. /\ req[b] = Idle /\ i \in mem.tokens /\ UNCHANGED <<storeVars, sess, regs>>
      /\ req' = [req EXCEPT ![b] = [Idle EXCEPT !.pc = "user", !.inv = i]]
      /\ shared' = IF \E o \in Browser : HasInvite(o, i) THEN shared \cup {i} ELSE shared
  BY DEF PeekInvite, Ready, HasInvite
<1>2. /\ req'[b].inv = i
      /\ \A o \in Browser : o # b => req'[o] = req[o]
  BY <1>0, <1>1 DEF Idle
<1>3. \A o \in Browser, j \in Invite :
        /\ HasInvite(o, j)' => HasInvite(o, j) \/ (o = b /\ j = i)
        /\ sess'[o].inv = j /\ req'[o].inv = j =>
             (sess[o].inv = j /\ req[o].inv = j) \/ (o = b /\ j = i /\ HasInvite(b, i))
  BY <1>1, <1>2 DEF HasInvite
<1>4. /\ shared \subseteq shared' /\ shared' \subseteq Invite /\ UNCHANGED <<minted, slipped>>
      /\ \A t : Gone(t)' = Gone(t)
  BY <1>0, <1>1 DEF InviteInv, storeVars, Gone
<1>5. i \in minted /\ ~Gone(i)
  BY <1>1 DEF ServerInv, StoreInv, Drawn, Gone
<1>6. \A o \in Browser, j \in Invite : HasInvite(o, j)' => j \in minted'
  BY <1>0, <1>3, <1>4, <1>5 DEF InviteInv
<1>7. ASSUME NEW j \in Invite \ shared'
      PROVE  /\ \A c, o \in Browser : HasInvite(c, j)' /\ HasInvite(o, j)' => c = o
             /\ \A c \in Browser : ~(sess'[c].inv = j /\ req'[c].inv = j)
  <2>1. j = i => \A o \in Browser : ~HasInvite(o, i)
    BY <1>1
  <2> QED
    BY <1>0, <1>3, <1>4, <2>1 DEF InviteInv
<1>8. ASSUME NEW j \in Invite \ (shared' \cup slipped'), regs'[j] > 0
      PROVE  /\ j \in minted' /\ Gone(j)' /\ regs'[j] = 1
             /\ \A c \in Browser : ~HasInvite(c, j)'
  <2>1. /\ j \in minted /\ Gone(j) /\ regs[j] = 1
        /\ \A c \in Browser : ~HasInvite(c, j)
    BY <1>0, <1>1, <1>4, <1>8 DEF InviteInv
  <2> QED
    BY <1>1, <1>3, <1>4, <1>5, <2>1
<1>9. regs' \in [Invite -> Nat]
  BY <1>0, <1>1 DEF InviteInv
<1> QED
  BY <1>4, <1>6, <1>7, <1>8, <1>9 DEF InviteInv

(* The answer of a registration gives the invite up, and it counts once.   *)
(* What is not in memory after a save that answered is not in the file     *)
(* either, unless a deletion was not saved.                                *)
LEMMA AnswerKeepsInvites ==
    ASSUME ServerInv, [Next]_storeVars, NEW b \in Browser, NEW out \in Outcome,
           ConsumeAndAnswer(b, out), Answers(out)
    PROVE  InviteInv'
<1>0. /\ InviteInv /\ StoreInv /\ SpentInv /\ SessInv
      /\ sess \in [Browser -> SessionT] /\ req \in [Browser -> RequestT]
      /\ None \notin Invite /\ Idle.inv = None
  BY NoneFresh DEF ServerInv, SessInv, Idle, Token
<1>2. PICK i \in Invite : sess[b].inv = i
  BY <1>0 DEF SessInv, BrowserOK, ConsumeAndAnswer
<1>1. /\ req[b].pc = "consume" /\ ConsumeInvite(i, out)
      /\ sess' = Registered(b) /\ req' = Answered(b)
      /\ regs' = [regs EXCEPT ![i] = @ + 1] /\ UNCHANGED shared
  BY <1>2, PersistEnds DEF ConsumeAndAnswer, Acknowledge
<1>3. /\ sess'[b].inv = None /\ req'[b].inv = None
      /\ \A o \in Browser : o # b => sess'[o] = sess[o] /\ req'[o] = req[o]
  BY <1>0, <1>1 DEF Registered, Answered, SessionT
<1>4. \A o \in Browser, j \in Invite :
        /\ HasInvite(o, j)' => HasInvite(o, j) /\ o # b
        /\ sess'[o].inv = j /\ req'[o].inv = j => sess[o].inv = j /\ req[o].inv = j
  BY <1>0, <1>3 DEF HasInvite
<1>5. /\ UNCHANGED minted /\ up' /\ i \notin mem'.tokens
      /\ SpentInv' /\ slipped \subseteq slipped' /\ \A t \in minted : Gone(t) => Gone(t)'
  <2>1. /\ Save([mem EXCEPT !.tokens = @ \ {i}], out) /\ UNCHANGED minted /\ mem \in Data
    BY <1>0, <1>1 DEF ConsumeInvite, Spend, StoreInv, TypeOK
  <2>2. up' /\ mem' = [mem EXCEPT !.tokens = @ \ {i}]
    BY <2>1 DEF Save
  <2>3. i \notin mem'.tokens
    BY <2>1, <2>2 DEF Data
  <2> QED
    BY <1>0, <2>1, <2>2, <2>3, StoreKeepsSpent
<1>6. i \notin slipped' => Gone(i)'
  BY <1>5 DEF SpentInv, Gone
<1>7. /\ i \in minted /\ regs[i] \in Nat /\ regs'[i] = regs[i] + 1
      /\ i \notin shared \cup slipped => ~(regs[i] > 0)
      /\ i \notin shared => \A o \in Browser : HasInvite(o, i) => o = b
  BY <1>0, <1>1, <1>2 DEF InviteInv, HasInvite
<1>8. regs' \in [Invite -> Nat] /\ \A j \in Invite : j # i => regs'[j] = regs[j]
  BY <1>0, <1>1, <1>2 DEF InviteInv
<1>9. ASSUME NEW j \in Invite \ (shared' \cup slipped'), regs'[j] > 0
      PROVE  /\ j \in minted' /\ Gone(j)' /\ regs'[j] = 1
             /\ \A c \in Browser : ~HasInvite(c, j)'
  <2>1. CASE j = i
    <3>1. \A n \in Nat : ~(n > 0) => n + 1 = 1
      OBVIOUS
    <3>2. regs'[j] = 1
      BY <1>1, <1>5, <1>7, <1>9, <2>1, <3>1
    <3> QED
      BY <1>1, <1>4, <1>5, <1>6, <1>7, <1>9, <2>1, <3>2
  <2>2. CASE j # i
    <3>1. /\ j \in minted /\ Gone(j) /\ regs[j] = 1
          /\ \A c \in Browser : ~HasInvite(c, j)
      BY <1>0, <1>1, <1>5, <1>8, <1>9, <2>2 DEF InviteInv
    <3> QED
      BY <1>4, <1>5, <1>8, <2>2, <3>1
  <2> QED
    BY <2>1, <2>2
<1>10. \A o \in Browser, j \in Invite : HasInvite(o, j)' => j \in minted'
  BY <1>0, <1>4, <1>5 DEF InviteInv
<1>11. ASSUME NEW j \in Invite \ shared'
       PROVE  /\ \A c, o \in Browser : HasInvite(c, j)' /\ HasInvite(o, j)' => c = o
              /\ \A c \in Browser : ~(sess'[c].inv = j /\ req'[c].inv = j)
  BY <1>0, <1>1, <1>4 DEF InviteInv
<1>12. shared' \subseteq Invite
  BY <1>0, <1>1 DEF InviteInv
<1> QED
  BY <1>8, <1>9, <1>10, <1>11, <1>12 DEF InviteInv

(* A killed process has forgotten who has what.                            *)
LEMMA WipedShrinks == Wiped => Shrinks
<1>1. Fresh.inv = None /\ Idle.inv = None /\ None \notin Invite
  BY NoneFresh DEF Fresh, Idle, Token
<1> QED
  BY <1>1 DEF Wiped, Shrinks, HasInvite

(* The requests that neither peek nor answer a registration.               *)
LEMMA HandlerShrinks ==
    ASSUME ServerInv, NEW b \in Browser, Handler(b),
           ~ \E i \in Invite : PeekInvite(b, i),
           ~ \E out \in Outcome : ConsumeAndAnswer(b, out)
    PROVE  Shrinks /\ UNCHANGED <<shared, regs>>
<1>0. /\ req \in [Browser -> RequestT] /\ sess \in [Browser -> SessionT]
      /\ Idle.inv = None /\ Fresh.inv = None /\ None \notin Invite
  BY NoneFresh DEF ServerInv, SessInv, Idle, Fresh, Token
<1>1. ASSUME \A o \in Browser : /\ sess'[o].inv \in {sess[o].inv, None}
                                /\ req'[o].inv \in {req[o].inv, None}
      PROVE  Shrinks
  BY <1>0, <1>1 DEF Shrinks, HasInvite
<1>2. CASE \/ \E c \in Challenge : RegisterBegin(b, c)
           \/ \E c \in Challenge, out \in Outcome : CreateAndBegin(b, c, out)
  <2>1. ASSUME NEW c \in Challenge, NEW u,
               sess' = Begin(b, u, c, "registered", req[b].inv), req' = Answered(b)
        PROVE  Shrinks
    <3>1. /\ sess'[b].inv = req[b].inv /\ req'[b].inv = None
          /\ \A o \in Browser : o # b => sess'[o] = sess[o] /\ req'[o] = req[o]
      BY <1>0, <2>1 DEF Begin, Answered, SessionT
    <3> QED
      BY <1>0, <3>1 DEF Shrinks, HasInvite
  <2>2. CASE \E c \in Challenge : RegisterBegin(b, c)
    BY <2>1, <2>2 DEF RegisterBegin
  <2>3. ASSUME NEW c \in Challenge, NEW out \in Outcome, CreateAndBegin(b, c, out)
        PROVE  Shrinks /\ UNCHANGED <<shared, regs>>
    <3>1. CASE out = "ok"
      BY <2>1, <2>3, <3>1 DEF CreateAndBegin, Persist, Answers
    <3>2. CASE out = "failed"
      <4>1. UNCHANGED sess /\ req' = Answered(b) /\ UNCHANGED <<shared, regs>>
        BY <2>3, <3>2 DEF CreateAndBegin, Persist, Answers
      <4> QED
        BY <1>0, <1>1, <4>1 DEF Answered
    <3>3. CASE ~Answers(out)
      <4>1. Wiped /\ UNCHANGED <<shared, regs>>
        BY <2>3, <3>3 DEF CreateAndBegin, Persist, Wiped, Answers
      <4> QED
        BY <4>1, WipedShrinks
    <3> QED
      BY <3>1, <3>2, <3>3 DEF Answers
  <2> QED
    BY <1>2, <2>2, <2>3 DEF RegisterBegin
<1>3. CASE GetUserNotFound(b) \/ CreateRefused(b) \/ RegisterFinish(b) \/ ReadCredentials(b)
           \/ LoginFinish(b)
  <2>1. /\ UNCHANGED <<sess, shared, regs>>
        /\ \A o \in Browser : o # b => req'[o] = req[o]
        /\ req'[b].inv \in {req[b].inv, None}
    BY <1>0, <1>3 DEF GetUserNotFound, CreateRefused, RegisterFinish, LoginFinish, Finish,
       ReadCredentials, Goto, Answered, RequestT, history
  <2> QED
    BY <1>1, <2>1
<1>4. CASE \E out \in Outcome : AppendCredential(b, out) \/ SaveSignCount(b, out)
  <2>1. PICK out \in Outcome : AppendCredential(b, out) \/ SaveSignCount(b, out)
    BY <1>4
  <2>2. \E r, rq : /\ Persist(r, out, sess, rq) /\ UNCHANGED <<shared, regs>>
                   /\ \A o \in Browser : rq[o].inv \in {req[o].inv, None}
    <3>1. \A o \in Browser : Answered(b)[o].inv \in {req[o].inv, None}
      BY <1>0 DEF Answered
    <3>2. \A o \in Browser : Goto(b, "enter")[o].inv = req[o].inv
      BY <1>0 DEF Goto, RequestT
    <3>3. \A o \in Browser : [Answered(b) EXCEPT ![b].pc = "consume"][o].inv \in {req[o].inv, None}
      BY <1>0 DEF Answered, Idle
    <3> QED
      BY <2>1, <3>1, <3>2, <3>3 DEF AppendCredential, SaveSignCount, history
  <2>3. CASE Answers(out)
    BY <1>1, <2>2, <2>3, PersistEnds
  <2>4. CASE ~Answers(out)
    <3>1. Wiped
      BY <2>1, <2>2, <2>4 DEF Persist, Wiped, AppendCredential, SaveSignCount, history
    <3> QED
      BY <2>2, <3>1, WipedShrinks
  <2> QED
    BY <2>3, <2>4
<1>5. CASE \/ \E u \in User, c \in Challenge : LoginBegin(b, u, c)
           \/ TotpVerify(b) \/ TotpEnroll(b) \/ Logout(b) \/ Enter(b)
  <2>1. \A u, c : \A o \in Browser : Begin(b, u, c, "login", sess[b].inv)[o].inv = sess[o].inv
    BY <1>0 DEF Begin, SessionT
  <2>2. \A o \in Browser : [sess EXCEPT ![b] = Fresh][o].inv \in {sess[o].inv, None}
    BY <1>0
  <2>3. \A x, y : \A o \in Browser :
          /\ [sess EXCEPT ![b].cer = x, ![b].auth = y][o].inv = sess[o].inv
          /\ [sess EXCEPT ![b].auth = y][o].inv = sess[o].inv
          /\ [sess EXCEPT ![b].totp = y][o].inv = sess[o].inv
    BY <1>0 DEF SessionT
  <2>4. CASE (\E u \in User, c \in Challenge : LoginBegin(b, u, c)) \/ Logout(b)
    BY <1>0, <1>1, <2>1, <2>2, <2>4 DEF LoginBegin, Logout, history
  <2>5. CASE TotpVerify(b) \/ TotpEnroll(b)
    <3>1. /\ UNCHANGED <<req, shared, regs>>
          /\ sess' = [sess EXCEPT ![b].auth = TRUE] \/ sess' = [sess EXCEPT ![b].totp = TRUE]
      BY <2>5 DEF TotpVerify, TotpEnroll, history
    <3>2. \A o \in Browser : /\ [sess EXCEPT ![b].auth = TRUE][o].inv = sess[o].inv
                             /\ [sess EXCEPT ![b].totp = TRUE][o].inv = sess[o].inv
      BY <1>0 DEF SessionT
    <3>3. \A o \in Browser : sess'[o].inv = sess[o].inv
      BY <3>1, <3>2
    <3> QED
      BY <1>1, <3>1, <3>3
  <2>6. CASE Enter(b)
    <3>1. /\ sess' = [sess EXCEPT ![b].cer = None, ![b].auth = @ \/ ~rec[sess[b].user].totp]
          /\ req' = Answered(b) /\ UNCHANGED <<shared, regs>>
      BY <2>6 DEF Enter, history
    <3>2. \A o \in Browser : sess'[o].inv = sess[o].inv /\ req'[o].inv \in {req[o].inv, None}
      BY <1>0, <3>1, <2>3 DEF Answered
    <3> QED
      BY <1>1, <3>1, <3>2
  <2> QED
    BY <1>5, <2>4, <2>5, <2>6
<1>6. CASE \/ \E out \in Outcome : TotpConfirm(b, out)
           \/ \E t \in Token, out \in Outcome : Mint(b, t, out)
  <2>1. \A o \in Browser : [sess EXCEPT ![b].totp = FALSE][o].inv = sess[o].inv
    BY <1>0 DEF SessionT
  <2>2. PICK out \in Outcome : TotpConfirm(b, out) \/ \E t \in Token : Mint(b, t, out)
    BY <1>6
  <2>3. \E r, ss : /\ Persist(r, out, ss, req) /\ UNCHANGED <<shared, regs>>
                   /\ \A o \in Browser : ss[o].inv = sess[o].inv
    BY <2>1, <2>2 DEF TotpConfirm, Mint, history
  <2>4. CASE Answers(out)
    BY <1>1, <2>3, <2>4, PersistEnds
  <2>5. CASE ~Answers(out)
    <3>1. UNCHANGED evidence
      BY <2>2 DEF TotpConfirm, Mint, history
    <3>2. Wiped
      BY <2>3, <2>5, <3>1 DEF Persist, Wiped
    <3> QED
      BY <2>3, <3>2, WipedShrinks
  <2> QED
    BY <2>4, <2>5
<1> QED
  BY <1>2, <1>3, <1>4, <1>5, <1>6 DEF Handler

(* Every step keeps what is known of the invites.                          *)
LEMMA InviteInvStep ==
    ASSUME ServerInv, [ServerNext]_serverVars
    PROVE  InviteInv'
<1>0. [Next]_storeVars
  BY ServerStepIsStoreStep
<1>1. CASE UNCHANGED serverVars \/ SessionInfo \/ StartServer \/ \E i \in Invite : ExpireInvite(i)
  <2>1. UNCHANGED <<sess, req, shared, regs>>
    BY <1>1 DEF serverVars, serverOnly, history, SessionInfo, ExpireInvite, StartServer
  <2>2. Shrinks
    BY <2>1 DEF Shrinks, HasInvite
  <2> QED
    BY <1>0, <2>1, <2>2, ShrinkKeeps
<1>2. CASE KillServer
  <2>1. Wiped /\ UNCHANGED <<shared, regs>>
    BY <1>2 DEF KillServer, Persist, Wiped, Answers, history
  <2> QED
    BY <1>0, <2>1, ShrinkKeeps, WipedShrinks
<1>3. ASSUME NEW b \in Browser, Handler(b)
      PROVE  InviteInv'
  <2>1. CASE \E i \in Invite : PeekInvite(b, i)
    BY <2>1, PeekKeeps
  <2>2. ASSUME NEW out \in Outcome, ConsumeAndAnswer(b, out)
        PROVE  InviteInv'
    <3>1. CASE Answers(out)
      BY <1>0, <2>2, <3>1, AnswerKeepsInvites
    <3>2. CASE ~Answers(out)
      <4>1. Wiped /\ UNCHANGED <<shared, regs>>
        BY <2>2, <3>2 DEF ConsumeAndAnswer, Persist, Wiped
      <4> QED
        BY <1>0, <4>1, ShrinkKeeps, WipedShrinks
    <3> QED
      BY <3>1, <3>2
  <2> QED
    BY <1>0, <1>3, <2>1, <2>2, HandlerShrinks, ShrinkKeeps
<1> QED
  BY <1>1, <1>2, <1>3 DEF ServerNext

-----------------------------------------------------------------------------
(* The invariant is inductive.                                             *)
LEMMA ServerInvStep == ServerInv /\ [ServerNext]_serverVars => ServerInv'
<1> SUFFICES ASSUME ServerInv, [ServerNext]_serverVars PROVE ServerInv'
  OBVIOUS
<1>1. [Next]_storeVars
  BY ServerStepIsStoreStep
<1>2. StoreInv' /\ SpentInv'
  BY <1>1, StoreInvStep, StoreKeepsSpent DEF ServerInv
<1>3. SessInv' /\ RecInv' /\ InviteInv'
  BY SessInvStep, RecInvStep, InviteInvStep
<1> QED
  BY <1>2, <1>3 DEF ServerInv

(* The inductive invariant holds throughout.                               *)
THEOREM ServerInvariant == ServerSpec => []ServerInv
<1> QED
  BY ServerInvInit, ServerInvStep, PTL DEF ServerSpec

(* What the handlers do to the store are the steps of AuthStore, and so    *)
(* what is proved of a step of the store is true of mm-auth (server.go     *)
(* calls store.go's methods and touches its maps in no other way).         *)
THEOREM ServerUsesStore == ServerSpec => [][Next]_storeVars
<1>1. ServerInv /\ [ServerNext]_serverVars => [Next]_storeVars
  BY ServerStepIsStoreStep
<1> QED
  BY <1>1, ServerInvariant, PTL DEF ServerSpec

(* Every variable has its type, and registerFinish has a challenge and an  *)
(* invite in its session as long as it needs them (server.go:119).         *)
THEOREM ServerTypeCorrect == ServerSpec => []ServerTypeOK
<1>1. ServerInv => ServerTypeOK
  <2> SUFFICES ASSUME ServerInv PROVE ServerTypeOK
    OBVIOUS
  <2>1. ASSUME NEW b \in Browser, req[b].pc \in {"read", "append", "consume"}
        PROVE  sess[b].cer # None /\ sess[b].inv # None
    BY <2>1, NoneFresh DEF ServerInv, SessInv, BrowserOK, Token
  <2> QED
    BY <2>1 DEF ServerInv, SessInv, RecInv, InviteInv, ServerTypeOK
<1> QED
  BY <1>1, ServerInvariant, PTL

(* No session is authenticated as a user for whom nothing was shown in it  *)
(* (session.go:13), whatever other browsers' requests, failed saves and    *)
(* restarts come in between.                                               *)
THEOREM AuthenticatedAsProvenCorrect == ServerSpec => []AuthenticatedAsProven
<1>1. ServerInv => AuthenticatedAsProven
  BY DEF ServerInv, SessInv, BrowserOK, AuthenticatedAsProven
<1> QED
  BY <1>1, ServerInvariant, PTL

(* What registerFinish and totpConfirm have answered ok is in the file and *)
(* in memory from then on, unless two registrations of the user crossed in *)
(* append (server.go:133).                                                 *)
THEOREM AnsweredIsKeptCorrect == ServerSpec => []AnsweredIsKept
<1>1. ServerInv => AnsweredIsKept
  BY DEF ServerInv, RecInv, Owed, AnsweredIsKept
<1> QED
  BY <1>1, ServerInvariant, PTL

(* PeekInvite and ConsumeInvite together let an invite register somebody   *)
(* once (store.go:129), but for the two ways the property names: it was    *)
(* peeked while another registration had it, or its deletion was not saved *)
(* and the result of ConsumeInvite ignored (server.go:138).                *)
THEOREM InviteReusedInOverlapCorrect == ServerSpec => []InviteReusedInOverlap
<1>1. ServerInv => InviteReusedInOverlap
  <2> SUFFICES ASSUME ServerInv, NEW i \in Invite, regs[i] > 1, i \notin shared \cup slipped
               PROVE  FALSE
    BY DEF InviteReusedInOverlap
  <2>1. regs[i] \in Nat /\ (regs[i] > 0 => regs[i] = 1)
    BY DEF ServerInv, InviteInv
  <2> QED
    BY <2>1
<1> QED
  BY <1>1, ServerInvariant, PTL

(* loginFinish holds the session back until the second factor was shown    *)
(* (server.go:197): no step makes a session authenticated otherwise.       *)
THEOREM HeldForStepUpCorrect == ServerSpec => HeldForStepUp
<1> DEFINE Held(b) ==
      sess'[b].auth /\ ~sess[b].auth =>
        LET u == sess'[b].user IN
        \/ evidence'[b] \cap {<<u, "registered">>, <<u, "code">>} # {}
        \/ <<u, "login">> \in evidence'[b] /\ ~rec[u].totp
<1>1. ServerInv /\ [ServerNext]_serverVars => [\A b \in Browser : Held(b)]_serverVars
  <2> SUFFICES ASSUME ServerInv, [ServerNext]_serverVars, NEW b \in Browser
               PROVE  Held(b)
    OBVIOUS
  <2>0. sess \in [Browser -> SessionT] /\ evidence \in [Browser -> SUBSET (User \X Kind)]
    BY DEF ServerInv, SessInv
  <2>1. CASE Wiped
    BY <2>1 DEF Wiped, Fresh
  <2>2. CASE UNCHANGED sess
    BY <2>2
  <2>3. ASSUME NEW o \in Browser, Good(o)
        PROVE  Held(b)
    <3>1. CASE b # o
      <4>1. Wiped \/ sess'[b] = sess[b]
        BY <2>0, <2>3, <3>1 DEF Good, Only
      <4> QED
        BY <2>1, <4>1
    <3>2. CASE b = o
      <4>1. CASE \E s \in SessionT, r \in RequestT, ev \in SUBSET (User \X Kind) :
                   Only(b, s, r, ev) /\ StepUp(b, s, ev)
        <5>1. PICK s \in SessionT, r \in RequestT, ev \in SUBSET (User \X Kind) :
                     Only(b, s, r, ev) /\ StepUp(b, s, ev)
          BY <4>1
        <5>2. sess'[b] = s /\ evidence'[b] = ev
          BY <2>0, <5>1 DEF Only
        <5> QED
          BY <5>1, <5>2 DEF StepUp
      <4> QED
        BY <2>1, <2>3, <3>2, <4>1 DEF Good
    <3> QED
      BY <3>1, <3>2
  <2>4. CASE UNCHANGED serverVars \/ SessionInfo \/ StartServer \/ \E i \in Invite : ExpireInvite(i)
    BY <2>2, <2>4 DEF serverVars, serverOnly, SessionInfo, StartServer, ExpireInvite
  <2>5. CASE KillServer
    BY <2>1, <2>5 DEF KillServer, Persist, Wiped, Answers, history
  <2>6. CASE \E o \in Browser : Handler(o)
    BY <2>3, <2>6, HandlerGood
  <2> HIDE DEF Held
  <2> QED
    BY <2>4, <2>5, <2>6 DEF ServerNext
<1> QED
  BY <1>1, ServerInvariant, PTL DEF ServerSpec, HeldForStepUp

=============================================================================
