----------------------------- MODULE Enrollment -----------------------------
(***************************************************************************)
(* How a device token travels: an agent presents it to the broker, the     *)
(* broker asks mm-auth over HTTP (broker.go, checkAgentToken), and mm-auth *)
(* consumes it in the store (server.go, agentCheck) before it answers.     *)
(*                                                                         *)
(* A dial is one attempt of an agent to register. A device that lost its   *)
(* link, was refused or was restarted dials again with the token of its    *)
(* configuration; two devices may be given the same one. The exchange with *)
(* mm-auth can be lost on the way there or on the way back, and mm-auth    *)
(* can be killed in it: the broker then refuses the agent. http.Post has   *)
(* no timeout and is not repeated.                                         *)
(***************************************************************************)
EXTENDS AuthStore

CONSTANTS Dial,    \* registrations that agents attempt
          NoToken

ASSUME NoTokenFresh == NoToken \notin Token

VARIABLES
    dial,     \* where each registration is, and the token it presents
    late,     \* history: dials begun when the file no longer had their token
    dropped   \* history: tokens whose accepting answer never arrived

enrollVars == <<storeVars, dial, late, dropped>>

Stage == {"idle", "asking", "accepted", "rejected", "enrolled", "refused"}
DialT == [at : Stage, token : AgentToken \cup {NoToken}]

(* Types, and that a dial has a token exactly once it has begun.           *)
EnrollTypeOK ==
    /\ dial \in [Dial -> DialT]
    /\ \A d \in Dial : dial[d].at = "idle" <=> dial[d].token = NoToken
    /\ late \subseteq Dial /\ dropped \subseteq AgentToken

EnrollInit ==
    /\ Init
    /\ dial = [d \in Dial |-> [at |-> "idle", token |-> NoToken]]
    /\ late = {} /\ dropped = {}

Move(d, stage) == dial' = [dial EXCEPT ![d].at = stage]
With(t) == {d \in Dial : dial[d].token = t}

(* The broker reads Register with a token that was once issued, and posts  *)
(* it to mm-auth.                                                          *)
Present(d, t) ==
    /\ dial[d].at = "idle" /\ t \in issued.tokens
    /\ dial' = [dial EXCEPT ![d] = [at |-> "asking", token |-> t]]
    /\ late' = IF t \in spent \ disk.tokens THEN late \cup {d} ELSE late
    /\ UNCHANGED <<storeVars, dropped>>

(* A mutant: the verdict is given before the token is consumed.            *)
AgentCheckKeeps(d, out) ==
    /\ up /\ dial[d].at = "asking" /\ out = "ok"
    /\ Move(d, IF dial[d].token \in mem.tokens THEN "accepted" ELSE "rejected")
    /\ UNCHANGED <<storeVars, late, dropped>>

(* A mutant: a token whose deletion could not be saved is refused, as      *)
(* ConsumeInvite refuses an invite.                                        *)
AgentCheckStrict(d, out) ==
    LET t == dial[d].token IN
    /\ dial[d].at = "asking"
    /\ CheckAgentToken(t, out)
    /\ Move(d, IF out = "ok" /\ t \notin expired THEN "accepted" ELSE "refused")
    /\ dropped' = IF Answers(out) THEN dropped ELSE dropped \cup {t}
    /\ UNCHANGED late

(* agentCheck with a token the store has: the answer is on its way, or     *)
(* mm-auth was killed and the broker's request fails.                      *)
AgentCheck(d, out) ==
    LET t == dial[d].token IN
    /\ dial[d].at = "asking"
    /\ CheckAgentToken(t, out)
    /\ Move(d, IF ~Answers(out) THEN "refused"
               ELSE IF t \in expired THEN "rejected" ELSE "accepted")
    /\ dropped' = IF Answers(out) THEN dropped ELSE dropped \cup {t}
    /\ UNCHANGED late

(* agentCheck with a token the store does not have.                        *)
AgentCheckUnknown(d) ==
    /\ up /\ dial[d].at = "asking" /\ dial[d].token \notin mem.tokens
    /\ Move(d, "rejected")
    /\ UNCHANGED <<storeVars, late, dropped>>

(* The broker decodes the answer: status "ok" or anything else.            *)
Verdict(d) ==
    /\ dial[d].at \in {"accepted", "rejected"}
    /\ Move(d, IF dial[d].at = "accepted" THEN "enrolled" ELSE "refused")
    /\ UNCHANGED <<storeVars, late, dropped>>

(* A mutant: a failed post starts the registration over.                   *)
PostFailsRestarts(d) ==
    /\ dial[d].at \in {"asking", "accepted", "rejected"}
    /\ Move(d, "idle")
    /\ dropped' = IF dial[d].at = "accepted" THEN dropped \cup {dial[d].token} ELSE dropped
    /\ UNCHANGED <<storeVars, late>>

(* The post fails before mm-auth has handled it, or its answer is lost.    *)
PostFails(d) ==
    /\ dial[d].at \in {"asking", "accepted", "rejected"}
    /\ Move(d, "refused")
    /\ dropped' = IF dial[d].at = "accepted" THEN dropped \cup {dial[d].token} ELSE dropped
    /\ UNCHANGED <<storeVars, late>>

(* The rest of the store, and mm-auth killed between two requests.         *)
StoreStep ==
    /\ \/ \E out \in Outcome :
            \/ \E u \in User : CreateUser(u, out)
            \/ \E u \in User : PutUser(u, out)
            \/ \E i \in Invite : CreateInvite(i, out)
            \/ \E t \in AgentToken : CreateAgentToken(t, out)
            \/ \E i \in Invite : ConsumeInvite(i, out)
       \/ \E t \in Token : Expire(t)
       \/ Kill \/ OpenStore
    /\ UNCHANGED <<dial, late, dropped>>

EnrollNext ==
    \/ \E d \in Dial :
         \/ \E t \in AgentToken : Present(d, t)
         \/ \E out \in Outcome : AgentCheck(d, out)
         \/ AgentCheckUnknown(d) \/ Verdict(d) \/ PostFails(d)
    \/ StoreStep

EnrollSpec == EnrollInit /\ [][EnrollNext]_enrollVars

-----------------------------------------------------------------------------
(* A dial begun after its token's deletion was saved is never enrolled, so *)
(* a device that reconnects with the token of its configuration is refused *)
(* (agent.go:41-42: "Callers can loop with backoff to reconnect"); and a   *)
(* token enrolls at most one dial, unless its deletion was once not saved. *)
OneEnrollment ==
    \A d, e \in Dial :
        dial[d].at = "enrolled" =>
          /\ d \notin late
          /\ e \in With(dial[d].token) \ {d} /\ dial[e].at = "enrolled" =>
               dial[d].token \in slipped

(* A token is never lost without a reason: one that was consumed has       *)
(* enrolled a dial or is about to, had expired, or its accepting answer    *)
(* did not reach the broker, in which case no later dial can use it.       *)
ConsumedIsAccountedFor ==
    \A t \in AgentToken \cap spent :
        \/ \E d \in With(t) : dial[d].at \in {"accepted", "enrolled"}
        \/ t \in expired \cup dropped

=============================================================================
