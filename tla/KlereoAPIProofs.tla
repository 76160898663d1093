-------------------------- MODULE KlereoAPIProofs --------------------------
(***************************************************************************)
(* What an authenticated call may cost and repeat, for any number of       *)
(* threads, calls and tokens; and that a call which shares its KlereoAPI   *)
(* with no other thread never raises KlereoAuthError unearned.             *)
(***************************************************************************)
EXTENDS KlereoAPI, TLAPS

BeforePost == {"check", "login", "assign", "header"}

(* The requests a call has sent, by where it is and which try this is.     *)
Budget ==
  \A t \in Threads :
    /\ pc[t] \in BeforePost => posts[t] = IF retryAuth[t] THEN 0 ELSE 1
    /\ pc[t] = "posted" => posts[t] = IF retryAuth[t] THEN 1 ELSE 2
    /\ pc[t] = "refused" => retryAuth[t] /\ posts[t] = 1
    /\ pc[t] \in {"check", "login"} =>
         logins[t] <= IF retryAuth[t] THEN 0 ELSE 1
    /\ pc[t] \in {"assign", "header", "posted", "refused"} =>
         logins[t] <= IF retryAuth[t] THEN 1 ELSE 2

(* A call still under way has been carried out by no endpoint.             *)
NotYet == \A t \in Threads : pc[t] \in InCall => carriedOut[t] = 0

Inv == TypeOK /\ RenewsOnce /\ CarriedOutOnce /\ Budget /\ NotYet

(* The invariant holds at first.                                           *)
THEOREM InitInv == Init => Inv
  BY DEF Init, Inv, TypeOK, RenewsOnce, CarriedOutOnce, Budget, NotYet,
         None, InCall, Ended, BeforePost

(* Every step keeps it.                                                    *)
THEOREM NextInv == Inv /\ [Next]_vars => Inv'
  <1> SUFFICES ASSUME Inv, [Next]_vars PROVE Inv'
    OBVIOUS
  <1> USE DEF Inv, TypeOK, RenewsOnce, CarriedOutOnce, Budget, NotYet, None,
              InCall, Ended, BeforePost, Goto, OneMore, serverVars, ghosts
  <1>1. ASSUME NEW t \in Threads, Call(t) PROVE Inv'
    <2>1. overlapped' \in [Threads -> BOOLEAN]
      <3> DEFINE other(s) == IF s = t
                             THEN \E u \in Threads \ {t} : pc[u] \in InCall
                             ELSE overlapped[s] \/ pc[s] \in InCall
      <3>1. overlapped' = [s \in Threads |-> other(s)]
        BY <1>1 DEF Call
      <3>2. \A s \in Threads : other(s) \in BOOLEAN
        BY Zenon
      <3> HIDE DEF other
      <3> QED BY <3>1, <3>2
    <2>2. /\ pc' = [pc EXCEPT ![t] = "check"] /\ calls' = [calls EXCEPT ![t] = @ + 1]
          /\ retryAuth' = [retryAuth EXCEPT ![t] = TRUE]
          /\ token' = [token EXCEPT ![t] = None] /\ posts' = [posts EXCEPT ![t] = 0]
          /\ logins' = [logins EXCEPT ![t] = 0]
          /\ carriedOut' = [carriedOut EXCEPT ![t] = 0]
          /\ refused' = [refused EXCEPT ![t] = {}]
          /\ rejected' = [rejected EXCEPT ![t] = FALSE]
          /\ UNCHANGED <<jwt, live, issued>>
      BY <1>1 DEF Call
    <2>3. TypeOK'
      BY <2>1, <2>2
    <2>4. RenewsOnce' /\ CarriedOutOnce' /\ Budget' /\ NotYet'
      BY <2>2
    <2> QED BY <2>3, <2>4
  <1>2. ASSUME NEW t \in Threads, CheckToken(t) PROVE Inv'
    BY <1>2 DEF CheckToken
  <1>3. ASSUME NEW t \in Threads, Login(t) PROVE Inv'
    <2>0. pc[t] = "login" /\ logins[t] \in {0, 1}
      BY <1>3 DEF Login
    <2>1. /\ logins' \in [Threads -> 0..3]
          /\ logins'[t] = logins[t] + 1
          /\ \A u \in Threads : u # t => logins'[u] = logins[u]
      <3>1. logins' = [logins EXCEPT ![t] = OneMore(logins[t])]
        BY <1>3 DEF Login
      <3>2. OneMore(logins[t]) = logins[t] + 1
        BY <2>0
      <3> QED BY <2>0, <3>1, <3>2
    <2>2. CASE Goto(t, "login", "assign")
      <3>1. issued' = issued + 1 /\ live' = live \cup {issued'}
        BY <1>3, <2>2 DEF Login
      <3>2. /\ token' = [token EXCEPT ![t] = issued'] /\ issued' # None
            /\ UNCHANGED <<jwt, retryAuth, calls, posts, carriedOut, refused,
                           rejected, overlapped>>
        BY <1>3, <2>2, <3>1 DEF Login
      <3>3. TypeOK'
        <4>1. 0..issued \subseteq 0..issued' /\ issued' \in 1..issued'
          BY <3>1
        <4> QED BY <2>1, <2>2, <3>1, <3>2, <4>1
      <3>4. RenewsOnce' /\ CarriedOutOnce' /\ Budget' /\ NotYet'
        BY <2>1, <2>2, <3>2
      <3> QED BY <3>3, <3>4
    <2>3. CASE Goto(t, "login", "autherror") \/ Goto(t, "login", "error")
      <3>1. /\ UNCHANGED <<jwt, live, issued, token, retryAuth, calls, posts,
                           carriedOut, refused, overlapped>>
            /\ rejected' \in [Threads -> BOOLEAN]
        BY <1>3, <2>3 DEF Login
      <3>2. /\ pc' \in [Threads -> {"idle"} \cup InCall \cup Ended]
            /\ pc'[t] \in {"autherror", "error"}
            /\ \A u \in Threads : u # t => pc'[u] = pc[u]
        BY <2>3
      <3>3. TypeOK'
        BY <2>1, <3>1, <3>2
      <3>4. Budget' /\ NotYet'
        BY <2>1, <3>1, <3>2
      <3>5. RenewsOnce' /\ CarriedOutOnce'
        BY <2>0, <2>1, <3>1, <3>2
      <3> QED BY <3>3, <3>4, <3>5
    <2> QED BY <1>3, <2>2, <2>3 DEF Login
  <1>4. ASSUME NEW t \in Threads, AssignToken(t) PROVE Inv'
    BY <1>4 DEF AssignToken
  <1>5. ASSUME NEW t \in Threads, SendPost(t) PROVE Inv'
    BY <1>5 DEF SendPost
  <1>6. ASSUME NEW t \in Threads, EndpointServes(t) PROVE Inv'
    BY <1>6 DEF EndpointServes
  <1>7. ASSUME NEW t \in Threads, PostFails(t) PROVE Inv'
    BY <1>7 DEF PostFails
  <1>8. ASSUME NEW t \in Threads, PostRefused(t) PROVE Inv'
    BY <1>8 DEF PostRefused
  <1>9. ASSUME NEW t \in Threads, Renew(t) PROVE Inv'
    BY <1>9 DEF Renew
  <1>10. ASSUME NEW k \in 1..issued, Lapse(k) PROVE Inv'
    BY <1>10 DEF Lapse
  <1>11. CASE UNCHANGED vars
    BY <1>11 DEF vars
  <1> QED BY <1>1, <1>2, <1>3, <1>4, <1>5, <1>6, <1>7, <1>8, <1>9, <1>10,
             <1>11 DEF Next, ThreadStep

(* The invariant holds throughout every behaviour.                         *)
THEOREM Invariance == Spec => []Inv
  <1> QED BY InitInv, NextInv, PTL DEF Spec

(* Tokens are the server's, and none is stored that was not issued.        *)
THEOREM Typing == Spec => []TypeOK
  <1>1. Inv => TypeOK
    BY DEF Inv
  <1> QED BY <1>1, Invariance, PTL

(* However many threads drop each other's token, each call posts at most   *)
(* twice and logs in at most twice.                                        *)
THEOREM RenewsOnceAlways == Spec => []RenewsOnce
  <1>1. Inv => RenewsOnce
    BY DEF Inv
  <1> QED BY <1>1, Invariance, PTL

(* No write is carried out twice by the replay of a refused request.       *)
THEOREM CarriedOutOnceAlways == Spec => []CarriedOutOnce
  <1>1. Inv => CarriedOutOnce
    BY DEF Inv
  <1> QED BY <1>1, Invariance, PTL

----------------------------------------------------------------------------
(* A call that has overlapped no other is alone in its thread's calls, and *)
(* what self.jwt holds is what it put or found there itself: the second    *)
(* try carries a token newer than the refused one.                         *)
Alone(t) == pc[t] \in InCall /\ ~overlapped[t]

Apart == \A s, t \in Threads : Alone(t) /\ pc[s] \in InCall => s = t

NewerThan(k, refusals) == k # None /\ \A r \in refusals : r < k

OwnToken ==
  \A t \in Threads : Alone(t) =>
    /\ None \notin refused[t]
    /\ pc[t] \in BeforePost \cup {"posted"} =>
         IF retryAuth[t] THEN refused[t] = {} ELSE refused[t] # {}
    /\ pc[t] = "refused" => refused[t] # {}
    /\ pc[t] \in {"check", "login"} /\ ~retryAuth[t] => jwt = None
    /\ pc[t] = "assign" => NewerThan(token[t], refused[t])
    /\ pc[t] = "header" => NewerThan(jwt, refused[t])
    /\ pc[t] = "posted" => NewerThan(token[t], refused[t])

AloneInv == Inv /\ Apart /\ OwnToken /\ ReauthIsEarnedAlone

(* Every step keeps the stronger invariant: a call that starts ends the    *)
(* solitude of those under way, and no other thread can disturb one.       *)
THEOREM AloneNextInv == AloneInv /\ [Next]_vars => AloneInv'
  <1> SUFFICES ASSUME AloneInv, [Next]_vars
               PROVE  Apart' /\ OwnToken' /\ ReauthIsEarnedAlone'
    BY NextInv DEF AloneInv
  <1> USE DEF Alone, AloneInv, Inv, TypeOK, Apart, OwnToken, NewerThan,
              ReauthIsEarnedAlone, Earned, None, InCall, Ended, BeforePost,
              Goto, serverVars, ghosts
  <1> DEFINE Kept == Apart' /\ OwnToken' /\ ReauthIsEarnedAlone'
  <1>1. ASSUME NEW t \in Threads, Call(t) PROVE Kept
    BY <1>1 DEF Call
  <1>2. ASSUME NEW t \in Threads, CheckToken(t) PROVE Kept
    BY <1>2 DEF CheckToken
  <1>3. ASSUME NEW t \in Threads, Login(t) PROVE Kept
    BY <1>3 DEF Login
  <1>4. ASSUME NEW t \in Threads, AssignToken(t) PROVE Kept
    BY <1>4 DEF AssignToken
  <1>5. ASSUME NEW t \in Threads, SendPost(t) PROVE Kept
    BY <1>5 DEF SendPost
  <1>6. ASSUME NEW t \in Threads, EndpointServes(t) \/ PostFails(t) PROVE Kept
    BY <1>6 DEF EndpointServes, PostFails
  <1>7. ASSUME NEW t \in Threads, PostRefused(t) PROVE Kept
    BY <1>7 DEF PostRefused
  <1>8. ASSUME NEW t \in Threads, Renew(t) PROVE Kept
    BY <1>8 DEF Renew
  <1>9. ASSUME NEW k \in 1..issued, Lapse(k) PROVE Kept
    BY <1>9 DEF Lapse
  <1>10. CASE UNCHANGED vars
    BY <1>10 DEF vars
  <1> QED BY <1>1, <1>2, <1>3, <1>4, <1>5, <1>6, <1>7, <1>8, <1>9, <1>10
          DEF Next, ThreadStep

(* Without a second thread, KlereoAuthError always means that the server   *)
(* refused the login or two tokens of its own in turn.  Overlapping calls  *)
(* do break it, so what it takes is the exclusion self.jwt has not got.    *)
THEOREM ReauthIsEarnedAloneAlways == Spec => []ReauthIsEarnedAlone
  <1>1. Init => AloneInv
    BY InitInv DEF Init, AloneInv, Apart, Alone, OwnToken, ReauthIsEarnedAlone,
                   InCall, BeforePost
  <1>2. AloneInv => ReauthIsEarnedAlone
    BY DEF AloneInv
  <1> QED BY <1>1, <1>2, AloneNextInv, PTL DEF Spec
----------------------------------------------------------------------------
(* Calls that exclude each other: none begins while another is under way,  *)
(* as a lock held around _post would have it.                              *)
CallsExclude ==
  \A t \in Threads : Call(t) => \A u \in Threads : pc[u] \notin InCall

(* What the doc of KlereoAuthError says, with no exception, holds of any   *)
(* number of threads as soon as their calls exclude each other: overlap is *)
(* the whole of what breaks it (_post, get_jwt).                           *)
THEOREM ReauthIsEarnedUnderLock ==
  Spec /\ [][CallsExclude]_vars => []ReauthIsEarned
  <1> DEFINE Never == \A t \in Threads : ~overlapped[t]
  <1>1. Init => Never
    BY DEF Init
  <1>2. TypeOK /\ Never /\ [Next]_vars /\ [CallsExclude]_vars => Never'
    <2> SUFFICES ASSUME TypeOK, Never, [Next]_vars, [CallsExclude]_vars
                 PROVE  Never'
      OBVIOUS
    <2>1. ASSUME NEW t \in Threads, Call(t), CallsExclude PROVE Never'
      BY <2>1 DEF Call, CallsExclude
    <2>2. ASSUME NEW t \in Threads, ThreadStep(t) PROVE UNCHANGED overlapped
      BY <2>2 DEF ThreadStep, CheckToken, Login, AssignToken, SendPost,
                  EndpointServes, PostFails, PostRefused, Renew, ghosts
    <2>3. ASSUME NEW k \in 1..issued, Lapse(k) PROVE UNCHANGED overlapped
      BY <2>3 DEF Lapse, ghosts
    <2>4. CASE UNCHANGED vars
      BY <2>4 DEF vars
    <2>5. CASE Next /\ CallsExclude
      BY <2>1, <2>2, <2>3, <2>5 DEF Next
    <2> QED BY <2>4, <2>5
  <1>3. Never /\ ReauthIsEarnedAlone => ReauthIsEarned
    BY DEF ReauthIsEarnedAlone, ReauthIsEarned
  <1> HIDE DEF Never
  <1> QED BY <1>1, <1>2, <1>3, Typing, ReauthIsEarnedAloneAlways, PTL DEF Spec

----------------------------------------------------------------------------
(* How many more steps a call may take, were nobody to serve it better:    *)
(* six for each of the two tries _post makes.                              *)
TryLeft ==
  [check |-> 6, login |-> 5, assign |-> 4, header |-> 3, posted |-> 2, refused |-> 1]

StepsLeft(t) ==
  IF pc[t] \in InCall THEN TryLeft[pc[t]] + IF retryAuth[t] THEN 6 ELSE 0 ELSE 0

(* A call under way comes nearer to its end with each of its own steps, by *)
(* a count that starts at twelve and that no other thread can put up: two  *)
(* threads that keep dropping each other's token cannot renew for ever.    *)
ComesNearer(t) ==
  pc[t] \in InCall =>
    /\ StepsLeft(t) \in 1..12
    /\ UNCHANGED <<pc[t], retryAuth[t]>> \/ StepsLeft(t)' < StepsLeft(t)
    /\ ThreadStep(t) => pc'[t] # pc[t]

(* Which is what the endings of calls rest on (CallsEnd): what TLC adds to *)
(* it is that a step of the thread is always there to be taken.            *)
THEOREM CallsComeNearer == Spec => [][\A t \in Threads : ComesNearer(t)]_vars
  <1>1. Inv /\ Next => \A t \in Threads : ComesNearer(t)
    <2> SUFFICES ASSUME Inv, Next, NEW t \in Threads, pc[t] \in InCall
                 PROVE  ComesNearer(t)
      BY DEF ComesNearer
    <2> USE DEF Inv, TypeOK, InCall, Ended, Goto
    <2>1. StepsLeft(t) \in 1..12
      BY DEF StepsLeft, TryLeft
    <2>2. ASSUME ThreadStep(t)
          PROVE  StepsLeft(t)' < StepsLeft(t) /\ pc'[t] # pc[t]
      <3> USE DEF StepsLeft, TryLeft
      <3>1. CASE CheckToken(t) \/ AssignToken(t) \/ SendPost(t)
        BY <3>1 DEF CheckToken, AssignToken, SendPost
      <3>2. CASE Login(t)
        BY <3>2 DEF Login
      <3>3. CASE EndpointServes(t) \/ PostFails(t)
        BY <3>3 DEF EndpointServes, PostFails
      <3>4. CASE PostRefused(t)
        BY <3>4 DEF PostRefused
      <3>5. CASE Renew(t)
        <4>1. pc[t] = "refused" /\ retryAuth[t] /\ pc'[t] = "check" /\ ~retryAuth'[t]
          BY <3>5 DEF Renew, Budget
        <4> QED BY <4>1
      <3> QED BY <2>2, <3>1, <3>2, <3>3, <3>4, <3>5 DEF ThreadStep
    <2>3. ASSUME NEW u \in Threads \ {t}, Call(u) \/ ThreadStep(u)
          PROVE  UNCHANGED <<pc[t], retryAuth[t]>>
      BY <2>3 DEF Call, ThreadStep, CheckToken, Login, AssignToken, SendPost,
                  EndpointServes, PostFails, PostRefused, Renew
    <2>4. ~Call(t)
      BY DEF Call
    <2>5. ASSUME NEW k \in 1..issued, Lapse(k)
          PROVE  UNCHANGED <<pc[t], retryAuth[t]>>
      BY <2>5 DEF Lapse
    <2>6. CASE ThreadStep(t)
      BY <2>1, <2>2, <2>6 DEF ComesNearer
    <2>7. CASE ~ThreadStep(t)
      BY <2>1, <2>3, <2>4, <2>5, <2>7 DEF ComesNearer, Next
    <2> QED BY <2>6, <2>7
  <1> QED BY <1>1, Invariance, PTL DEF Spec
----------------------------------------------------------------------------
(* Each place in _post and get_jwt as the caller sees it.                  *)
LEMMA StageTable ==
  ASSUME NEW t \in Threads, pc[t] \in {"idle"} \cup InCall \cup Ended
  PROVE  /\ pc[t] = "idle" => StageOf(t) = "idle"
         /\ pc[t] = "ok" => StageOf(t) = "answered"
         /\ pc[t] = "error" => StageOf(t) = "failed"
         /\ pc[t] = "autherror" => StageOf(t) = "unauthorized"
         /\ pc[t] \in InCall => StageOf(t) = "called"
  BY DEF StageOf, InCall, Ended

(* A step that moves no call out of, or into, its call and carries nothing *)
(* out is none of the promise's.                                           *)
LEMMA Unseen ==
  ASSUME TypeOK, TypeOK', UNCHANGED carriedOut,
         \A t \in Threads : pc'[t] = pc[t] \/ {pc[t], pc'[t]} \subseteq InCall
  PROVE  UNCHANGED Promised!vars
  <1>1. \A t \in Threads : StageOf(t)' = StageOf(t)
    <2> TAKE t \in Threads
    <2>1. pc[t] \in {"idle"} \cup InCall \cup Ended
      BY DEF TypeOK
    <2>2. pc'[t] \in {"idle"} \cup InCall \cup Ended
      BY DEF TypeOK
    <2> QED BY <2>1, <2>2 DEF StageOf, InCall
  <1> QED BY <1>1 DEF Promised!vars

(* A step of one thread changes the stage of its call alone.               *)
LEMMA OneStage ==
  ASSUME TypeOK, NEW t \in Threads, NEW to, pc' = [pc EXCEPT ![t] = to]
  PROVE  \A u \in Threads \ {t} : StageOf(u)' = StageOf(u)
  BY DEF TypeOK, StageOf

(* Every step of KlereoAPI is a step of ApiCalls, or none.                 *)
THEOREM StepServesCalls == Inv /\ [Next]_vars => [Promised!Next]_Promised!vars
  <1> SUFFICES ASSUME Inv, [Next]_vars PROVE [Promised!Next]_Promised!vars
    OBVIOUS
  <1>t. TypeOK /\ TypeOK' /\ NotYet
    BY NextInv DEF Inv
  <1>s. \A t \in Threads :
          /\ pc[t] \in {"idle"} \cup InCall \cup Ended
          /\ pc'[t] \in {"idle"} \cup InCall \cup Ended
    BY <1>t DEF TypeOK
  <1>1. ASSUME NEW t \in Threads, Call(t) PROVE Promised!Begins(t)
    <2>1. StageOf(t) # "called"
      BY <1>1, <1>s DEF Call, StageOf, Ended
    <2>2. StageOf(t)' = "called"
      BY <1>1, <1>t DEF Call, StageOf, TypeOK
    <2>3. \A u \in Threads \ {t} : StageOf(u)' = StageOf(u)
      BY <1>1, <1>t, OneStage DEF Call
    <2>4. carriedOut' = [carriedOut EXCEPT ![t] = 0]
      BY <1>1 DEF Call
    <2> QED BY <2>1, <2>2, <2>3, <2>4 DEF Promised!Begins
  <1>2. ASSUME NEW t \in Threads, NEW to \in Ended,
               pc[t] \in InCall, pc' = [pc EXCEPT ![t] = to]
        PROVE  Promised!Ends(t, StageOf(t)')
    <2>1. StageOf(t) = "called"
      BY <1>2, <1>s, StageTable
    <2>2. \A u \in Threads \ {t} : StageOf(u)' = StageOf(u)
      BY <1>2, <1>t, OneStage
    <2>3. carriedOut[t] = 0
      BY <1>2, <1>t DEF NotYet
    <2> QED BY <2>1, <2>2, <2>3 DEF Promised!Ends
  <1>3. ASSUME NEW t \in Threads, NEW to \in Ended,
               pc[t] \in InCall, pc' = [pc EXCEPT ![t] = to]
        PROVE  StageOf(t)' = CASE to = "ok" -> "answered"
                               [] to = "error" -> "failed"
                               [] to = "autherror" -> "unauthorized"
    BY <1>3, <1>t DEF TypeOK, StageOf, Ended
  <1>4. ASSUME NEW t \in Threads, EndpointServes(t)
        PROVE  Promised!Answered(t) \/ Promised!Failed(t)
    <2>1. pc[t] \in InCall /\ carriedOut[t] = 0
      BY <1>4, <1>t DEF EndpointServes, Goto, InCall, NotYet
    <2>2. carriedOut' = [carriedOut EXCEPT ![t] = 1]
      BY <1>4, <2>1 DEF EndpointServes, OneMore
    <2>3. PICK to \in {"ok", "error"} : pc' = [pc EXCEPT ![t] = to]
      BY <1>4 DEF EndpointServes, Goto
    <2>4. to \in Ended
      BY DEF Ended
    <2>5. Promised!Ends(t, StageOf(t)')
      BY <2>1, <2>3, <2>4, <1>2
    <2>6. StageOf(t)' = IF to = "ok" THEN "answered" ELSE "failed"
      BY <2>1, <2>3, <2>4, <1>3
    <2>7. CASE to = "ok"
      BY <2>2, <2>5, <2>6, <2>7 DEF Promised!Answered
    <2>8. CASE to = "error"
      <3>1. 1 \in 0..1 /\ Promised!Ends(t, "failed")
        BY <2>5, <2>6, <2>8
      <3> QED BY <2>2, <3>1 DEF Promised!Failed
    <2> QED BY <2>7, <2>8
  <1>5. ASSUME NEW t \in Threads, NEW to \in {"error", "autherror"},
               pc[t] \in InCall, pc' = [pc EXCEPT ![t] = to], UNCHANGED carriedOut
        PROVE  Promised!Failed(t) \/ Promised!Unauthorized(t)
    <2>1. to \in Ended
      BY DEF Ended
    <2>2. carriedOut' = [carriedOut EXCEPT ![t] = 0]
      BY <1>5, <1>t DEF NotYet, TypeOK
    <2>3. Promised!Ends(t, StageOf(t)')
      BY <1>5, <2>1, <1>2
    <2>4. StageOf(t)' = IF to = "error" THEN "failed" ELSE "unauthorized"
      BY <1>5, <2>1, <1>3
    <2>5. CASE to = "error"
      <3>1. 0 \in 0..1 /\ Promised!Ends(t, "failed")
        BY <2>3, <2>4, <2>5
      <3> QED BY <2>2, <3>1 DEF Promised!Failed
    <2>6. CASE to = "autherror"
      BY <1>5, <2>3, <2>4, <2>6 DEF Promised!Unauthorized
    <2> QED BY <2>5, <2>6
  <1>6. ASSUME NEW t \in Threads, ThreadStep(t)
        PROVE  [Promised!Next]_Promised!vars
    <2>1. CASE CheckToken(t) \/ AssignToken(t) \/ SendPost(t) \/ Renew(t)
      BY <2>1, <1>t, Unseen
         DEF CheckToken, AssignToken, SendPost, Renew, Goto, InCall, TypeOK, ghosts
    <2>2. CASE Login(t)
      <3>1. pc[t] = "login" /\ UNCHANGED carriedOut
        BY <2>2 DEF Login, Goto
      <3>2. PICK to \in {"assign", "error", "autherror"} : pc' = [pc EXCEPT ![t] = to]
        BY <2>2 DEF Login, Goto
      <3>3. CASE to = "assign"
        BY <3>1, <3>2, <3>3, <1>t, Unseen DEF InCall, TypeOK
      <3>4. CASE to \in {"error", "autherror"}
        BY <3>1, <3>2, <3>4, <1>5 DEF Promised!Next, InCall
      <3> QED BY <3>2, <3>3, <3>4
    <2>3. CASE EndpointServes(t)
      BY <2>3, <1>4 DEF Promised!Next
    <2>4. CASE PostFails(t)
      BY <2>4, <1>5 DEF PostFails, Goto, InCall, ghosts, Promised!Next
    <2>5. CASE PostRefused(t) /\ retryAuth[t]
      BY <2>5, <1>t, Unseen DEF PostRefused, Goto, InCall, TypeOK
    <2>6. CASE PostRefused(t) /\ ~retryAuth[t]
      BY <2>6, <1>5 DEF PostRefused, Goto, InCall, Promised!Next
    <2> QED BY <1>6, <2>1, <2>2, <2>3, <2>4, <2>5, <2>6 DEF ThreadStep
  <1>7. ASSUME NEW k \in 1..issued, Lapse(k) PROVE UNCHANGED Promised!vars
    BY <1>7, <1>t, Unseen DEF Lapse, ghosts
  <1>8. CASE UNCHANGED vars
    BY <1>8, <1>t, Unseen DEF vars
  <1> QED BY <1>1, <1>6, <1>7, <1>8 DEF Next, Promised!Next

(* A KlereoAPI shared by any threads keeps what is promised of a call.     *)
THEOREM CallsServed == Spec => ServesCalls
  <1>1. Init => Promised!Init
    BY DEF Init, Promised!Init, StageOf
  <1> QED BY <1>1, StepServesCalls, Invariance, PTL
          DEF Spec, ServesCalls, Promised!Spec
============================================================================
