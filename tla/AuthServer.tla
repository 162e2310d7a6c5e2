----------------------------- MODULE AuthServer -----------------------------
(***************************************************************************)
(* internal/auth/server.go and session.go: the handlers of mm-auth that    *)
(* register an operator, log one in and out, enroll a second factor and    *)
(* mint invites, over the store of AuthStore.                              *)
(*                                                                         *)
(* Every request runs in a goroutine of its own. The store and the table   *)
(* of sessions have locks; the fields of a user record and of a session    *)
(* do not. A browser awaits the answer to one request before it sends the  *)
(* next, as the dashboard does, so a session is used by one request at a   *)
(* time, and a user record by as many as there are browsers. A handler is  *)
(* cut where another browser's request can come between two of its         *)
(* accesses to what they share: each store call is a step, and             *)
(* append(user.Credentials, ...) reads in one step and writes in another.  *)
(* A request that is refused changes nothing.                              *)
(*                                                                         *)
(* WebAuthn is external: a browser answers a challenge with a response of  *)
(* its kind, and the library accepts it against that challenge only. A     *)
(* code of the second factor is either right or refused.                   *)
(***************************************************************************)
EXTENDS AuthStore

CONSTANTS
    Browser,     \* browsers; each holds at most one session cookie
    Challenge,   \* WebAuthn challenges, each drawn once; also names the
                 \* credential that a registration creates
    None,
    InviteFor,   \* whom an invite is for
    Seed         \* invites that are in the file from the start

ASSUME SeedInvites == Seed \subseteq Invite /\ InviteFor \in [Invite -> User]
ASSUME NoneFresh == None \notin Token \cup User \cup Challenge

VARIABLES
    rec,        \* what the records of s.d.Users hold
    recFile,    \* what they hold in the file
    sess,       \* the session of each browser
    drawn,      \* challenges drawn so far
    req,        \* the request each browser has in flight
    evidence,   \* history: what was shown in a session since its last begin
    acked,      \* history: credentials whose registration was answered ok
    raced,      \* history: users whose record changed under an append
    confirmed,  \* history: users whose second factor was confirmed
    shared,     \* history: invites peeked while a registration had them
    regs        \* history: registrations answered ok per invite

serverOnly == <<rec, recFile, sess, drawn, req>>
history == <<evidence, acked, raced, confirmed, shared, regs>>
serverVars == <<storeVars, serverOnly, history>>

Maybe(S) == S \cup {None}

(* User: the fields that the handlers change.                              *)
Record == [creds : SUBSET Challenge, totp : BOOLEAN]
Blank == [creds |-> {}, totp |-> FALSE]

(* session. A browser without one has Fresh, what getOrCreate would make:  *)
(* every handler refuses both alike, for the Username is empty.            *)
Kind == {"registered", "login", "code"}
SessionT == [user : Maybe(User), auth : BOOLEAN, cer : Maybe(Challenge), kind : Kind,
             inv : Maybe(Invite), totp : BOOLEAN]
Fresh == [user |-> None, auth |-> FALSE, cer |-> None, kind |-> "login",
          inv |-> None, totp |-> FALSE]

(* Where a request is, and the local variables it needs from there on.     *)
RequestT == [pc : {"idle", "user", "create", "read", "append", "consume", "count", "enter"},
             inv : Maybe(Invite), creds : SUBSET Challenge]
Idle == [pc |-> "idle", inv |-> None, creds |-> {}]

(* Types, and that registerFinish has a challenge and an invite in its     *)
(* session (server.go:119) as long as it needs them.                       *)
ServerTypeOK ==
    /\ rec \in [User -> Record] /\ recFile \in [User -> Record]
    /\ sess \in [Browser -> SessionT]
    /\ drawn \subseteq Challenge
    /\ req \in [Browser -> RequestT]
    /\ \A b \in Browser : req[b].pc \in {"read", "append", "consume"} =>
         sess[b].cer # None /\ sess[b].inv # None
    /\ evidence \in [Browser -> SUBSET (User \X Kind)]
    /\ acked \in [User -> SUBSET Challenge]
    /\ raced \subseteq User /\ confirmed \subseteq User
    /\ shared \subseteq Invite
    /\ regs \in [Invite -> Nat]

(* NewServer over a file in which an operator has put the first invites.   *)
ServerInit ==
    /\ up = TRUE /\ behind = FALSE /\ kills = 0
    /\ mem = [users |-> {}, tokens |-> Seed] /\ disk = mem /\ issued = mem
    /\ minted = Seed /\ expired = {} /\ spent = {} /\ slipped = {}
    /\ granted = [t \in Token |-> 0]
    /\ rec = [u \in User |-> Blank] /\ recFile = rec
    /\ sess = [b \in Browser |-> Fresh] /\ drawn = {}
    /\ req = [b \in Browser |-> Idle]
    /\ evidence = [b \in Browser |-> {}]
    /\ raced = {} /\ confirmed = {} /\ shared = {}
    /\ acked = [u \in User |-> {}]
    /\ regs = [i \in Invite |-> 0]

-----------------------------------------------------------------------------
(* The records after a save of r, and the sessions and requests of a       *)
(* process that may have been killed in it.                                *)
Persist(r, out, ss, rq) ==
    /\ recFile' = IF out \in {"ok", "killed after"} THEN r ELSE recFile
    /\ IF Answers(out)
         THEN rec' = r /\ sess' = ss /\ req' = rq
         ELSE /\ rec' = [u \in User |-> Blank]
              /\ sess' = [b \in Browser |-> Fresh]
              /\ req' = [b \in Browser |-> Idle]

Ready(b) == up /\ req[b] = Idle
Goto(b, pc) == [req EXCEPT ![b].pc = pc]
Answered(b) == [req EXCEPT ![b] = Idle]

(* requireAuth.                                                            *)
LoggedIn(b) == Ready(b) /\ sess[b].auth /\ sess[b].user \in mem.users

(* A mutant: the session stays authenticated when a ceremony begins.       *)
BeginKeepsAuth(b, u, c, kind, i) ==
    [sess EXCEPT ![b] = [@ EXCEPT !.user = u, !.cer = c, !.kind = kind, !.inv = i]]

(* getOrCreate, and what registerBegin and loginBegin put in the session.  *)
Begin(b, u, c, kind, i) ==
    [sess EXCEPT ![b] = [@ EXCEPT !.user = u, !.cer = c, !.kind = kind, !.inv = i,
                                  !.auth = FALSE]]

(* BeginRegistration and BeginLogin draw a challenge.                      *)
Draw(b, c) ==
    /\ c \notin drawn /\ drawn' = drawn \cup {c}
    /\ evidence' = [evidence EXCEPT ![b] = {}]

(* registerBegin: PeekInvite.                                              *)
PeekInvite(b, i) ==
    /\ Ready(b) /\ i \in mem.tokens \ expired
    /\ req' = [req EXCEPT ![b] = [Idle EXCEPT !.pc = "user", !.inv = i]]
    /\ shared' = IF \E o \in Browser : i \in {sess[o].inv, req[o].inv}
                   THEN shared \cup {i} ELSE shared
    /\ UNCHANGED <<storeVars, rec, recFile, sess, drawn,
                   evidence, acked, raced, confirmed, regs>>

(* GetUser finds the user, and the ceremony begins.                        *)
RegisterBegin(b, c) ==
    LET i == req[b].inv u == InviteFor[i] IN
    /\ req[b].pc = "user" /\ u \in mem.users
    /\ Draw(b, c)
    /\ sess' = Begin(b, u, c, "registered", i)
    /\ req' = Answered(b)
    /\ UNCHANGED <<storeVars, rec, recFile, acked, raced, confirmed, shared, regs>>

(* GetUser finds nobody.                                                   *)
GetUserNotFound(b) ==
    /\ req[b].pc = "user" /\ InviteFor[req[b].inv] \notin mem.users
    /\ req' = Goto(b, "create")
    /\ UNCHANGED <<storeVars, rec, recFile, sess, drawn, history>>

(* CreateUser is refused, another request having created the user.         *)
CreateRefused(b) ==
    /\ req[b].pc = "create" /\ InviteFor[req[b].inv] \in mem.users
    /\ req' = Answered(b)
    /\ UNCHANGED <<storeVars, rec, recFile, sess, drawn, history>>

(* CreateUser, and the ceremony unless the save failed.                    *)
CreateAndBegin(b, c, out) ==
    LET i == req[b].inv u == InviteFor[i] IN
    /\ req[b].pc = "create"
    /\ CreateUser(u, out)
    /\ IF out = "ok"
         THEN Draw(b, c) /\ Persist(rec, out, Begin(b, u, c, "registered", i), Answered(b))
         ELSE Persist(rec, out, sess, Answered(b)) /\ UNCHANGED <<drawn, evidence>>
    /\ UNCHANGED <<acked, raced, confirmed, shared, regs>>

(* registerFinish and loginFinish up to the library's verdict: the browser *)
(* answers the challenge its session holds. A refused answer leaves the    *)
(* ceremony in place.                                                      *)
Finish(b, kind, pc) ==
    /\ Ready(b) /\ sess[b].cer # None /\ sess[b].kind = kind
    /\ req' = Goto(b, pc)
    /\ evidence' = [evidence EXCEPT ![b] = @ \cup {<<sess[b].user, kind>>}]
    /\ UNCHANGED <<storeVars, rec, recFile, sess, drawn,
                   acked, raced, confirmed, shared, regs>>

RegisterFinish(b) == Finish(b, "registered", "read")

(* append reads user.Credentials ...                                       *)
ReadCredentials(b) ==
    /\ req[b].pc = "read"
    /\ req' = [req EXCEPT ![b].pc = "append", ![b].creds = rec[sess[b].user].creds]
    /\ UNCHANGED <<storeVars, rec, recFile, sess, drawn, history>>

(* A mutant: the error of PutUser is dropped, as loginFinish does.         *)
AppendDropsError(b, out) ==
    LET u == sess[b].user IN
    /\ req[b].pc = "append"
    /\ PutUser(u, out)
    /\ raced' = IF rec[u].creds # req[b].creds THEN raced \cup {u} ELSE raced
    /\ Persist([rec EXCEPT ![u].creds = req[b].creds \cup {sess[b].cer}], out, sess,
               Goto(b, "consume"))
    /\ UNCHANGED <<drawn, evidence, acked, confirmed, shared, regs>>

(* A mutant: the pending invite is cleared before it is consumed.          *)
AppendForgetsInvite(b, out) ==
    LET u == sess[b].user IN
    /\ req[b].pc = "append"
    /\ PutUser(u, out)
    /\ Persist([rec EXCEPT ![u].creds = req[b].creds \cup {sess[b].cer}], out,
               [sess EXCEPT ![b].inv = None],
               IF out = "ok" THEN [Answered(b) EXCEPT ![b].pc = "consume"] ELSE Answered(b))
    /\ UNCHANGED <<drawn, evidence, acked, raced, confirmed, shared, regs>>

(* ... writes it, and PutUser saves it. The request fails if the save      *)
(* does, and memory keeps the credential.                                  *)
AppendCredential(b, out) ==
    LET u == sess[b].user IN
    /\ req[b].pc = "append"
    /\ PutUser(u, out)
    /\ raced' = IF rec[u].creds # req[b].creds THEN raced \cup {u} ELSE raced
    /\ Persist([rec EXCEPT ![u].creds = req[b].creds \cup {sess[b].cer}], out, sess,
               IF out = "ok" THEN [Answered(b) EXCEPT ![b].pc = "consume"] ELSE Answered(b))
    /\ UNCHANGED <<drawn, evidence, acked, confirmed, shared, regs>>

(* The session after registerFinish.                                       *)
Registered(b) ==
    [sess EXCEPT ![b] = [@ EXCEPT !.cer = None, !.inv = None, !.auth = TRUE]]

(* What registerFinish has answered.                                       *)
Acknowledge(b) ==
    /\ acked' = [acked EXCEPT ![sess[b].user] = @ \cup {sess[b].cer}]
    /\ regs' = [regs EXCEPT ![sess[b].inv] = @ + 1]

(* A mutant: the invite is not consumed.                                   *)
ConsumeSkipped(b, out) ==
    /\ req[b].pc = "consume" /\ out = "ok"
    /\ sess' = Registered(b) /\ req' = Answered(b) /\ Acknowledge(b)
    /\ UNCHANGED <<storeVars, rec, recFile, drawn, evidence, raced, confirmed, shared>>

(* ConsumeInvite, its result ignored, and the answer.                      *)
ConsumeAndAnswer(b, out) ==
    /\ req[b].pc = "consume"
    /\ ConsumeInvite(sess[b].inv, out)
    /\ Persist(rec, out, Registered(b), Answered(b))
    /\ IF Answers(out) THEN Acknowledge(b) ELSE UNCHANGED <<acked, regs>>
    /\ UNCHANGED <<drawn, evidence, raced, confirmed, shared>>

(* loginBegin. BeginLogin fails for a user without credentials, and        *)
(* PendingInvite is left alone.                                            *)
LoginBegin(b, u, c) ==
    /\ Ready(b) /\ u \in mem.users /\ rec[u].creds # {}
    /\ Draw(b, c)
    /\ sess' = Begin(b, u, c, "login", sess[b].inv)
    /\ UNCHANGED <<storeVars, rec, recFile, req, acked, raced, confirmed, shared, regs>>

LoginFinish(b) == Finish(b, "login", "count")

(* PutUser saves the signature counter; its error is dropped.              *)
SaveSignCount(b, out) ==
    /\ req[b].pc = "count"
    /\ PutUser(sess[b].user, out)
    /\ Persist(rec, out, sess, Goto(b, "enter"))
    /\ UNCHANGED <<drawn, history>>

(* A mutant: a login is enough whatever second factor the user has.        *)
EnterAnyway(b) ==
    /\ req[b].pc = "enter"
    /\ sess' = [sess EXCEPT ![b].cer = None, ![b].auth = TRUE]
    /\ req' = Answered(b)
    /\ UNCHANGED <<storeVars, rec, recFile, drawn, history>>

(* The rest of loginFinish: the session is held back if the user has TOTP. *)
Enter(b) ==
    /\ req[b].pc = "enter"
    /\ sess' = [sess EXCEPT ![b].cer = None, ![b].auth = @ \/ ~rec[sess[b].user].totp]
    /\ req' = Answered(b)
    /\ UNCHANGED <<storeVars, rec, recFile, drawn, history>>

(* totpVerify with a right code.                                           *)
TotpVerify(b) ==
    LET u == sess[b].user IN
    /\ Ready(b) /\ u \in mem.users /\ rec[u].totp
    /\ sess' = [sess EXCEPT ![b].auth = TRUE]
    /\ evidence' = [evidence EXCEPT ![b] = @ \cup {<<u, "code">>}]
    /\ UNCHANGED <<storeVars, rec, recFile, drawn, req, acked, raced, confirmed, shared, regs>>

(* totpEnroll.                                                             *)
TotpEnroll(b) ==
    /\ LoggedIn(b)
    /\ sess' = [sess EXCEPT ![b].totp = TRUE]
    /\ UNCHANGED <<storeVars, rec, recFile, drawn, req, history>>

(* totpConfirm with a right code. The secret is in force, and the pending  *)
(* one gone, also when the save fails.                                     *)
TotpConfirm(b, out) ==
    LET u == sess[b].user IN
    /\ LoggedIn(b) /\ sess[b].totp
    /\ PutUser(u, out)
    /\ Persist([rec EXCEPT ![u].totp = TRUE], out, [sess EXCEPT ![b].totp = FALSE], req)
    /\ confirmed' = IF out = "ok" THEN confirmed \cup {u} ELSE confirmed
    /\ UNCHANGED <<drawn, evidence, acked, raced, shared, regs>>

(* createInvite and createAgentToken.                                      *)
Mint(b, t, out) ==
    /\ LoggedIn(b)
    /\ CreateToken(t, out)
    /\ Persist(rec, out, sess, req)
    /\ UNCHANGED <<drawn, history>>

(* logout: destroy takes the session out of the table and the cookie out   *)
(* of the browser. So does, between two requests, the passing of twelve    *)
(* hours: sessions.get no longer finds it.                                 *)
Logout(b) ==
    /\ Ready(b) /\ sess[b] # Fresh
    /\ sess' = [sess EXCEPT ![b] = Fresh]
    /\ UNCHANGED <<storeVars, rec, recFile, drawn, req, history>>

(* sessionInfo, which the broker's checkUser calls too, and every request  *)
(* that is refused, changes nothing.                                       *)
SessionInfo ==
    /\ up
    /\ UNCHANGED serverVars

ExpireInvite(i) ==
    /\ Expire(i)
    /\ UNCHANGED <<serverOnly, history>>

KillServer ==
    /\ Kill
    /\ Persist(rec, "killed before", sess, req)
    /\ UNCHANGED <<drawn, history>>

(* main: OpenStore and NewServer, with an empty table of sessions.         *)
StartServer ==
    /\ OpenStore
    /\ rec' = recFile
    /\ UNCHANGED <<recFile, sess, drawn, req, history>>

(* Handler: the requests of a browser.                                     *)
Handler(b) ==
    \/ \E i \in Invite : PeekInvite(b, i)
    \/ GetUserNotFound(b) \/ CreateRefused(b)
    \/ \E c \in Challenge : RegisterBegin(b, c)
    \/ \E c \in Challenge, out \in Outcome : CreateAndBegin(b, c, out)
    \/ RegisterFinish(b) \/ ReadCredentials(b)
    \/ \E out \in Outcome : AppendCredential(b, out) \/ ConsumeAndAnswer(b, out)
    \/ \E u \in User, c \in Challenge : LoginBegin(b, u, c)
    \/ LoginFinish(b) \/ Enter(b)
    \/ \E out \in Outcome : SaveSignCount(b, out)
    \/ TotpVerify(b) \/ TotpEnroll(b)
    \/ \E out \in Outcome : TotpConfirm(b, out)
    \/ \E t \in Token, out \in Outcome : Mint(b, t, out)
    \/ Logout(b)

ServerNext ==
    \/ \E b \in Browser : Handler(b)
    \/ \E i \in Invite : ExpireInvite(i)
    \/ SessionInfo \/ KillServer \/ StartServer

ServerSpec == ServerInit /\ [][ServerNext]_serverVars

-----------------------------------------------------------------------------
(* A session is authenticated only as a user for whom something was shown  *)
(* in it since its last begin (session.go:13: "the logged-in user once     *)
(* authenticated"): whatever the user's other sessions do, whatever fails, *)
(* and across restarts.                                                    *)
AuthenticatedAsProven ==
    \A b \in Browser :
        sess[b].auth => \E k \in Kind : <<sess[b].user, k>> \in evidence[b]

(* server.go:197: "Hold the session unauthenticated until the TOTP step-up *)
(* succeeds". A session becomes authenticated by a registration, by a      *)
(* code, or by a login of a user who has no second factor at that moment.  *)
HeldForStepUp ==
    [][\A b \in Browser :
         sess'[b].auth /\ ~sess[b].auth =>
           LET u == sess'[b].user IN
           \/ evidence'[b] \cap {<<u, "registered">>, <<u, "code">>} # {}
           \/ <<u, "login">> \in evidence'[b] /\ ~rec[u].totp]_serverVars

(* A credential whose registration was answered ok, and a confirmed second *)
(* factor, stay in the file and in memory through failed saves and kills,  *)
(* unless two registrations of the user crossed inside append              *)
(* (server.go:133), which may lose either one.                             *)
AnsweredIsKept ==
    \A u \in User :
        /\ u \notin raced =>
             acked[u] \subseteq recFile[u].creds /\ (up => acked[u] \subseteq rec[u].creds)
        /\ u \in confirmed => recFile[u].totp /\ (up => rec[u].totp)

(* An invite registers more than once only if it was peeked again while a  *)
(* registration held it, or its deletion was once not saved.               *)
InviteReusedInOverlap ==
    \A i \in Invite : regs[i] > 1 => i \in shared \cup slipped

(* store.go:129: "CreateInvite mints a single-use registration invite".    *)
InviteRegistersOnce == \A i \in Invite : regs[i] <= 1

=============================================================================
