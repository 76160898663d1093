----------------------------- MODULE KlereoAPI -----------------------------
(***************************************************************************)
(* The authenticated call of klereo_api.py.  One KlereoAPI object, hence   *)
(* one `jwt`, is shared by everything the entry runs: the coordinator's    *)
(* poll, every write and every CommandStatus request.  requests is         *)
(* blocking, so each call is an executor thread of its own, and nothing    *)
(* locks the object.  A thread's steps are the reads and writes of         *)
(* self.jwt and the two HTTP exchanges, in the order _post and get_jwt     *)
(* make them.                                                              *)
(*                                                                         *)
(* Tokens are numbered in the order the server issues them; 0 is Python's  *)
(* None.  A token lapses on the server at any moment.                      *)
(***************************************************************************)
EXTENDS Naturals, FiniteSets

CONSTANTS
  Threads,     \* the executor threads that may be in a call at once
  MaxCalls     \* bound of the model: the calls one thread makes

ASSUME MaxCallsAssumption == MaxCalls \in Nat

VARIABLES
  jwt,         \* self.jwt
  live,        \* the tokens the server still accepts
  issued,      \* how many tokens the server has issued
  pc,          \* where each thread is in _post / get_jwt
  token,       \* what the thread's Authorization header carries
  retryAuth,   \* the retry_auth argument of the _post in progress
  calls,       \* the calls each thread has made
  posts,       \* requests this call sent to its endpoint
  logins,      \* requests this call sent to GetJWT
  carriedOut,  \* how many times the endpoint carried this call out
  refused,     \* what the server refused of this call: tokens, or 0
  rejected,    \* GetJWT refused the login of this call
  overlapped   \* another thread was in a call during this one

serverVars == <<live, issued>>
ghosts == <<posts, logins, carriedOut, refused, rejected, overlapped>>
vars == <<jwt, live, issued, pc, token, retryAuth, calls,
          posts, logins, carriedOut, refused, rejected, overlapped>>

None == 0

InCall == {"check", "login", "assign", "header", "posted", "refused"}
Ended == {"ok", "error", "autherror"}

(* The counts are kept to see a third request, and no further.             *)
OneMore(n) == IF n < 3 THEN n + 1 ELSE n

Goto(t, from, to) == pc[t] = from /\ pc' = [pc EXCEPT ![t] = to]

----------------------------------------------------------------------------
Init ==
  /\ jwt = None
  /\ live = {}
  /\ issued = 0
  /\ pc = [t \in Threads |-> "idle"]
  /\ token = [t \in Threads |-> None]
  /\ retryAuth = [t \in Threads |-> TRUE]
  /\ calls = [t \in Threads |-> 0]
  /\ posts = [t \in Threads |-> 0]
  /\ logins = [t \in Threads |-> 0]
  /\ carriedOut = [t \in Threads |-> 0]
  /\ refused = [t \in Threads |-> {}]
  /\ rejected = [t \in Threads |-> FALSE]
  /\ overlapped = [t \in Threads |-> FALSE]

(* get_pool, set_out, set_param or command_status calls _post.             *)
Call(t) ==
  /\ pc[t] \in {"idle"} \cup Ended
  /\ calls[t] < MaxCalls
  /\ pc' = [pc EXCEPT ![t] = "check"]
  /\ calls' = [calls EXCEPT ![t] = @ + 1]
  /\ retryAuth' = [retryAuth EXCEPT ![t] = TRUE]
  /\ token' = [token EXCEPT ![t] = None]
  /\ posts' = [posts EXCEPT ![t] = 0]
  /\ logins' = [logins EXCEPT ![t] = 0]
  /\ carriedOut' = [carriedOut EXCEPT ![t] = 0]
  /\ refused' = [refused EXCEPT ![t] = {}]
  /\ rejected' = [rejected EXCEPT ![t] = FALSE]
  /\ overlapped' = [s \in Threads |->
                      IF s = t THEN \E u \in Threads \ {t} : pc[u] \in InCall
                      ELSE overlapped[s] \/ pc[s] \in InCall]
  /\ UNCHANGED <<jwt, serverVars>>

(* `if not self.jwt`: the test, and only the test.                         *)
CheckToken(t) ==
  /\ Goto(t, "check", IF jwt = None THEN "login" ELSE "header")
  /\ UNCHANGED <<jwt, serverVars, token, retryAuth, calls, ghosts>>

(* Mutant: get_jwt stores whatever the reply holds, a missing token too.   *)
LoginAcceptsNoToken(t) ==
  /\ logins' = [logins EXCEPT ![t] = OneMore(@)]
  /\ Goto(t, "login", "assign")
  /\ \/ /\ issued' = issued + 1
        /\ live' = live \cup {issued'}
        /\ token' = [token EXCEPT ![t] = issued']
     \/ /\ token' = [token EXCEPT ![t] = None]
        /\ UNCHANGED serverVars
  /\ UNCHANGED <<jwt, retryAuth, calls, posts, carriedOut, refused, rejected,
                 overlapped>>

(* Mutant: a login without a usable reply is simply tried again.           *)
LoginUntilAnswered(t) ==
  /\ logins' = [logins EXCEPT ![t] = OneMore(@)]
  /\ \/ /\ Goto(t, "login", "assign")
        /\ issued' = issued + 1
        /\ live' = live \cup {issued'}
        /\ token' = [token EXCEPT ![t] = issued']
     \/ /\ Goto(t, "login", "check")
        /\ UNCHANGED <<serverVars, token>>
  /\ UNCHANGED <<jwt, retryAuth, calls, posts, carriedOut, refused, rejected,
                 overlapped>>

(* GetJWT answers: a token, a refusal of any kind (401, 403, an error      *)
(* payload or no token: all KlereoAuthError), or nothing readable.         *)
Login(t) ==
  /\ logins' = [logins EXCEPT ![t] = OneMore(@)]
  /\ \/ /\ Goto(t, "login", "assign")
        /\ issued' = issued + 1
        /\ live' = live \cup {issued'}
        /\ token' = [token EXCEPT ![t] = issued']
        /\ UNCHANGED rejected
     \/ /\ Goto(t, "login", "autherror")
        /\ rejected' = [rejected EXCEPT ![t] = TRUE]
        /\ UNCHANGED <<serverVars, token>>
     \/ /\ Goto(t, "login", "error")
        /\ UNCHANGED <<serverVars, token, rejected>>
  /\ UNCHANGED <<jwt, retryAuth, calls, posts, carriedOut, refused, overlapped>>

(* get_jwt's `self.jwt = jwt`.                                             *)
AssignToken(t) ==
  /\ Goto(t, "assign", "header")
  /\ jwt' = token[t]
  /\ UNCHANGED <<serverVars, token, retryAuth, calls, ghosts>>

(* The header is built from self.jwt as it is now, and the request leaves. *)
SendPost(t) ==
  /\ Goto(t, "header", "posted")
  /\ token' = [token EXCEPT ![t] = jwt]
  /\ posts' = [posts EXCEPT ![t] = OneMore(@)]
  /\ UNCHANGED <<jwt, serverVars, retryAuth, calls, logins, carriedOut,
                 refused, rejected, overlapped>>

(* Mutant: a lost reply is retried like a refusal.                         *)
ReplayLostReply(t) ==
  /\ token[t] \in live
  /\ \/ Goto(t, "posted", "ok")
     \/ Goto(t, "posted", IF retryAuth[t] THEN "refused" ELSE "error")
  /\ carriedOut' = [carriedOut EXCEPT ![t] = OneMore(@)]
  /\ UNCHANGED <<jwt, serverVars, token, retryAuth, calls, posts, logins,
                 refused, rejected, overlapped>>

(* The endpoint took the token and did what it was asked; the reply comes  *)
(* back, or it is lost or unreadable (RequestException, KlereoError).      *)
EndpointServes(t) ==
  /\ token[t] \in live
  /\ \/ Goto(t, "posted", "ok")
     \/ Goto(t, "posted", "error")
  /\ carriedOut' = [carriedOut EXCEPT ![t] = OneMore(@)]
  /\ UNCHANGED <<jwt, serverVars, token, retryAuth, calls, posts, logins,
                 refused, rejected, overlapped>>

(* The request never got there, or the endpoint refused it for a reason    *)
(* that does not read like an authentication failure.                      *)
PostFails(t) ==
  /\ Goto(t, "posted", "error")
  /\ UNCHANGED <<jwt, serverVars, token, retryAuth, calls, ghosts>>

(* 401, 403, or an error payload with one of AUTH_HINTS in it: a token     *)
(* that is not live always gets it, and a live one may, since the hints    *)
(* match words of unrelated errors too.  Nothing was carried out.          *)
PostRefused(t) ==
  /\ Goto(t, "posted", IF retryAuth[t] THEN "refused" ELSE "autherror")
  /\ refused' = [refused EXCEPT ![t] = @ \cup {token[t]}]
  /\ UNCHANGED <<jwt, serverVars, token, retryAuth, calls, posts, logins,
                 carriedOut, rejected, overlapped>>

(* Mutant: the recursive call forgets retry_auth=False.                    *)
RenewForever(t) ==
  /\ Goto(t, "refused", "check")
  /\ jwt' = None
  /\ UNCHANGED <<serverVars, token, retryAuth, calls, ghosts>>

(* Mutant: the refused token is kept and sent a second time.               *)
RetrySameToken(t) ==
  /\ Goto(t, "refused", "check")
  /\ retryAuth' = [retryAuth EXCEPT ![t] = FALSE]
  /\ UNCHANGED <<jwt, serverVars, token, calls, ghosts>>

(* `self.jwt = None` and the recursive _post(retry_auth=False).            *)
Renew(t) ==
  /\ Goto(t, "refused", "check")
  /\ jwt' = None
  /\ retryAuth' = [retryAuth EXCEPT ![t] = FALSE]
  /\ UNCHANGED <<serverVars, token, calls, ghosts>>

(* The server forgets a token.                                             *)
Lapse(k) ==
  /\ k \in live
  /\ live' = live \ {k}
  /\ UNCHANGED <<jwt, issued, pc, token, retryAuth, calls, ghosts>>

ThreadStep(t) ==
  \/ CheckToken(t)
  \/ Login(t)
  \/ AssignToken(t)
  \/ SendPost(t)
  \/ EndpointServes(t)
  \/ PostFails(t)
  \/ PostRefused(t)
  \/ Renew(t)

Next ==
  \/ \E t \in Threads : Call(t) \/ ThreadStep(t)
  \/ \E k \in 1..issued : Lapse(k)

Spec == Init /\ [][Next]_vars

(* Every HTTP exchange ends: HTTP_TIMEOUT bounds it.  An executor thread   *)
(* is never starved.  Calls need not be made and tokens need not lapse.    *)
FairSpec == Spec /\ \A t \in Threads : WF_vars(ThreadStep(t))

----------------------------------------------------------------------------
(* Every value has its type; a token that is about to become self.jwt is   *)
(* one the server issued, the reply without a token having been refused.   *)
TypeOK ==
  /\ jwt \in 0..issued
  /\ issued \in Nat
  /\ live \subseteq 1..issued
  /\ pc \in [Threads -> {"idle"} \cup InCall \cup Ended]
  /\ token \in [Threads -> 0..issued]
  /\ \A t \in Threads : pc[t] = "assign" => token[t] # None
  /\ retryAuth \in [Threads -> BOOLEAN]
  /\ calls \in [Threads -> Nat]
  /\ posts \in [Threads -> 0..3]
  /\ logins \in [Threads -> 0..3]
  /\ carriedOut \in [Threads -> 0..3]
  /\ refused \in [Threads -> SUBSET (0..issued)]
  /\ rejected \in [Threads -> BOOLEAN]
  /\ overlapped \in [Threads -> BOOLEAN]

(* A call costs the server at most two logins and two posts, whatever the  *)
(* other threads do to the shared token meanwhile: _post renews "once", so *)
(* a token that is always refused cannot make a call hammer the account.   *)
RenewsOnce == \A t \in Threads : posts[t] <= 2 /\ logins[t] <= 2

(* A write is carried out at most once, and exactly once when the call     *)
(* returns: the replay inside _post never repeats a SetOut the server had  *)
(* accepted, even though the same request is posted twice.                 *)
CarriedOutOnce ==
  \A t \in Threads :
    /\ carriedOut[t] <= 1
    /\ pc[t] = "ok" => carriedOut[t] = 1
    /\ pc[t] = "autherror" => carriedOut[t] = 0

(* The server refused the login, or two different tokens of its own in     *)
(* turn; a header that carried no token at all earns nothing.              *)
Earned(t) ==
  \/ rejected[t]
  \/ /\ None \notin refused[t]
     /\ \E a, b \in refused[t] : a # b

(* KlereoAuthError, "The Klereo API rejected the credentials or the JWT",  *)
(* is what starts the reauth flow: the user is asked for a password.  A    *)
(* call that had the API object to itself raises it only if it is earned.  *)
ReauthIsEarnedAlone ==
  \A t \in Threads : pc[t] = "autherror" /\ ~overlapped[t] => Earned(t)

(* Every call ends, even if the server refuses every token: no endless     *)
(* renewal, whichever threads keep dropping each other's token.            *)
CallsEnd == \A t \in Threads : pc[t] = "check" ~> pc[t] \in Ended

(* Where a call is, as its caller knows it.                                *)
StageOf(t) ==
  CASE pc[t] = "idle" -> "idle"
    [] pc[t] = "ok" -> "answered"
    [] pc[t] = "error" -> "failed"
    [] pc[t] = "autherror" -> "unauthorized"
    [] OTHER -> "called"

Promised == INSTANCE ApiCalls WITH
  Callers <- Threads,
  stage   <- [t \in Threads |-> StageOf(t)],
  carried <- carriedOut

(* The logins, renewals and replays of a call are invisible to its caller, *)
(* whatever other threads do to the token: what is carried out ends the    *)
(* call, and an authentication error says nothing was (ApiCalls).          *)
ServesCalls == Promised!Spec

----------------------------------------------------------------------------
(* What the documentation says and the code does not keep: whatever other  *)
(* threads do, KlereoAuthError says the API rejected something.            *)
ReauthIsEarned == \A t \in Threads : pc[t] = "autherror" => Earned(t)
============================================================================
