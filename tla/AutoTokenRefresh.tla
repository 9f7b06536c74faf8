-------------------------- MODULE AutoTokenRefresh -------------------------
(***************************************************************************)
(* FIRAuth's automatic refresh of the current user's access token.         *)
(*                                                                         *)
(* Once another SDK has asked for a token, a timer is armed for every new  *)
(* token, and fires five minutes before the token expires.  A timer acts   *)
(* only while its token is still the current one and the app is in the     *)
(* foreground; a refresh that fails arms a retry.  Blocks of the work      *)
(* queue run one at a time, but the observers of the app's state run on    *)
(* the main thread and share three flags with them; FIRSecureTokenService  *)
(* runs the requests of one user one after the other.                      *)
(*                                                                         *)
(* A signed-in user is a FIRUser object, named by the number of its        *)
(* sign-in; two of them may carry the same uid.  The accesses to a flag    *)
(* are taken to happen in the order in which the code makes them.          *)
(***************************************************************************)
EXTENDS Naturals, Sequences, SequencesExt, BagsExt

CONSTANTS
    Uids,        \* the users who can sign in
    MaxSignIns,  \* bound: sign-ins
    MaxTokens,   \* bound: access tokens issued
    MaxPending,  \* bound: timers and requests when the app becomes active or
                 \* a token is asked for
    MaxFailures  \* bound: refreshes that fail

ASSUME RefreshAssumption ==
    /\ MaxSignIns \in Nat \ {0} /\ MaxTokens \in Nat \ {0}
    /\ MaxPending \in Nat /\ MaxFailures \in Nat

VARIABLES
    owners,      \* the uid of each FIRUser, in the order of the sign-ins
    session,     \* _currentUser, 0 for nil
    token,       \* its rawAccessToken, 0 for nil
    fresh,       \* that token is valid for more than five minutes
    issued,      \* the token issued last
    notified,    \* _lastNotifiedUserToken
    enabled,     \* _autoRefreshTokens
    scheduled,   \* _autoRefreshScheduled
    background,  \* _isAppInBackground
    timers,      \* the armed timers, a bag
    stalled,     \* history: since a timer was last armed, an automatic refresh
                 \* was answered with the token the user had
    firing,      \* timers whose block has passed its checks: none or one
    main,        \* where the observer on the main thread is
    requests,    \* calls of fetchAccessToken, in order
    failures     \* refreshes that have failed, bounded by MaxFailures

userVars == <<owners, session>>
tokenVars == <<token, fresh, issued, notified>>
armVars == <<scheduled, timers, stalled>>
refreshVars == <<userVars, tokenVars, enabled, background, armVars, firing,
                 main, requests, failures>>

Sessions == 0 .. MaxSignIns
TokenIds == 0 .. MaxTokens

(* The delay of a retry in minutes; 0 for the first attempt, whose delay   *)
(* runs until five minutes before the token expires.                       *)
kMaxWaitTimeForBackoff == 16
Smaller(a, b) == IF a < b THEN a ELSE b

RescheduleDelay(delay) ==
    IF delay = 0 THEN 1 ELSE Smaller(delay * 2, kMaxWaitTimeForBackoff)
Delays == {0, 1, 2, 4, 8, 16}

Timers == [token : TokenIds, delay : Delays]
Requests == [session : Sessions, auto : BOOLEAN, force : BOOLEAN,
             delay : Delays, again : BOOLEAN]

(* Launch: a user may have been restored, with a token of any age.         *)
RefreshInit ==
    /\ \/ owners = <<>> /\ session = 0 /\ token = 0 /\ issued = 0
       \/ /\ \E u \in Uids : owners = <<u>>
          /\ session = 1 /\ token = 1 /\ issued = 1
    /\ fresh \in BOOLEAN /\ notified = token
    /\ enabled = FALSE /\ scheduled = FALSE /\ background = FALSE
    /\ timers = EmptyBag /\ stalled = FALSE /\ firing = {}
    /\ main = [at |-> "idle", token |-> 0]
    /\ requests = <<>> /\ failures = 0

-----------------------------------------------------------------------------
(* scheduleAutoTokenRefreshWithDelay: no timer without a token.            *)
Arm(tok, delay) ==
    IF tok = 0
    THEN UNCHANGED armVars
    ELSE /\ scheduled' = TRUE /\ stalled' = FALSE
         /\ timers' = BagAdd(timers, [token |-> tok, delay |-> delay])

(* possiblyPostAuthStateChangeNotification, for a token other than the one *)
(* it told of last.                                                        *)
TokenChanges(tok) ==
    /\ notified' = tok
    /\ IF enabled THEN Arm(tok, 0) ELSE UNCHANGED armVars

WorkQueueIsFree == firing = {}

MorePending == BagCardinality(timers) + Len(requests) < MaxPending

SignIn(u) ==
    /\ WorkQueueIsFree
    /\ Len(owners) < MaxSignIns /\ issued < MaxTokens
    /\ owners' = Append(owners, u)
    /\ session' = Len(owners) + 1
    /\ issued' = issued + 1
    /\ token' = issued + 1
    /\ fresh' = TRUE
    /\ TokenChanges(issued + 1)
    /\ UNCHANGED <<enabled, background, firing, main, requests,
                   failures>>

SignedOut ==
    /\ session' = 0
    /\ token' = 0 /\ notified' = 0
    /\ UNCHANGED <<owners, fresh, issued>>

SignsOut ==
    /\ WorkQueueIsFree
    /\ session # 0
    /\ SignedOut
    /\ UNCHANGED <<enabled, background, armVars, firing, main, requests,
                   failures>>

(* Time: less than five minutes are left.                                  *)
TokenAges ==
    /\ fresh /\ fresh' = FALSE
    /\ UNCHANGED <<userVars, token, issued, notified, enabled, background,
                   armVars, firing, main, requests, failures>>

(* getTokenForcingRefresh, for another SDK: the first call turns the       *)
(* automatic refresh on.                                                   *)
GetToken(force) ==
    /\ WorkQueueIsFree
    /\ MorePending
    /\ enabled' = TRUE
    /\ IF enabled THEN UNCHANGED armVars ELSE Arm(token, 0)
    /\ requests' =
           IF session = 0 THEN requests
           ELSE Append(requests, [session |-> session, auto |-> FALSE,
                                  force |-> force, delay |-> 0,
                                  again |-> FALSE])
    /\ UNCHANGED <<userVars, tokenVars, background, firing, main, failures>>

-----------------------------------------------------------------------------
(* The observers on the main thread *)

DidEnterBackground ==
    /\ enabled
    /\ main.at = "idle"
    /\ background' = TRUE
    /\ UNCHANGED <<userVars, tokenVars, enabled, armVars, firing, main,
                   requests, failures>>

(* A mistake: nothing is made up for.                                      *)
BecomesActiveOnly ==
    /\ enabled
    /\ main.at = "idle"
    /\ MorePending
    /\ background' = FALSE
    /\ UNCHANGED <<userVars, tokenVars, enabled, armVars, firing, main,
                   requests, failures>>

DidBecomeActive ==
    /\ enabled
    /\ main.at = "idle"
    /\ MorePending
    /\ background' = FALSE
    /\ main' = [main EXCEPT !.at = "checks"]
    /\ UNCHANGED <<userVars, tokenVars, enabled, armVars, firing, requests,
                   failures>>

MainReadsToken ==
    /\ main.at = "checks"
    /\ main' = IF scheduled \/ token = 0
               THEN [main EXCEPT !.at = "idle"]
               ELSE [at |-> "arms", token |-> token]
    /\ UNCHANGED <<userVars, tokenVars, enabled, background, armVars, firing,
                   requests, failures>>

MainArms ==
    /\ main.at = "arms"
    /\ Arm(main.token, 0)
    /\ main' = [at |-> "idle", token |-> 0]
    /\ UNCHANGED <<userVars, tokenVars, enabled, background, firing, requests,
                   failures>>

-----------------------------------------------------------------------------
(* The timer's block *)

(* A timer of another token leaves the flag alone.                         *)
TimerFires(t) ==
    /\ WorkQueueIsFree
    /\ BagIn(t, timers)
    /\ timers' = BagRemove(timers, t)
    /\ IF t.token = token
       THEN scheduled' = FALSE /\ firing' = {t}
       ELSE UNCHANGED <<scheduled, firing>>
    /\ UNCHANGED <<userVars, tokenVars, enabled, background, stalled, main,
                   requests, failures>>

TimerRefreshes(t) ==
    /\ t \in firing
    /\ firing' = {}
    /\ requests' =
           IF background THEN requests
           ELSE Append(requests, [session |-> session, auto |-> TRUE,
                                  force |-> TRUE, delay |-> t.delay,
                                  again |-> FALSE])
    /\ UNCHANGED <<userVars, tokenVars, enabled, background, armVars, main,
                   failures>>

-----------------------------------------------------------------------------
(* The answers to fetchAccessToken *)

(* The serial task queue of one FIRUser: its first request is under way.   *)
UnderWay(i) ==
    /\ WorkQueueIsFree
    /\ \A j \in 1 .. i - 1 : requests[j].session # requests[i].session

(* A mistake: a failure is the end of it.                                  *)
GiveUp(r) == UNCHANGED armVars

(* The callback of an automatic refresh that failed, in the state after    *)
(* the answer: it retries for whoever has the uid it was made for.         *)
Reschedule(r) ==
    IF r.auto /\ session' # 0 /\ owners[session'] = owners[r.session]
    THEN Arm(token', RescheduleDelay(r.delay))
    ELSE UNCHANGED armVars

Done(i) ==
    /\ requests' = RemoveAt(requests, i)
    /\ UNCHANGED <<owners, enabled, background, firing, main>>

(* hasValidAccessToken: no request is made.                                *)
TokenStillValid(i) ==
    /\ UnderWay(i)
    /\ ~requests[i].force
    /\ requests[i].session = session => fresh
    /\ Done(i)
    /\ UNCHANGED <<session, tokenVars, armVars, failures>>

(* The new token has less than five minutes left: asked for once more.     *)
AnswerTooLate(i) ==
    /\ UnderWay(i)
    /\ ~requests[i].again
    /\ requests' = [requests EXCEPT ![i].again = TRUE]
    /\ UNCHANGED <<userVars, tokenVars, enabled, background, armVars, firing,
                   main, failures>>

Fails == failures < MaxFailures /\ failures' = failures + 1

NewToken(i) ==
    /\ UnderWay(i)
    /\ issued < MaxTokens
    /\ issued' = issued + 1
    /\ UNCHANGED session
    /\ IF requests[i].session = session
       THEN token' = issued + 1 /\ fresh' = TRUE
       ELSE UNCHANGED <<token, fresh>>
    /\ Done(i)

(* updateKeychainWithUser: only the current user is saved, and its new     *)
(* token noticed.                                                          *)
RefreshSucceeds(i) ==
    /\ NewToken(i)
    /\ UNCHANGED failures
    /\ IF requests[i].session = session
       THEN TokenChanges(issued + 1)
       ELSE UNCHANGED <<notified, armVars>>

(* The new token is in use, but nobody is told of it, and no timer is      *)
(* armed for it unless the refresh was an automatic one: the comment that  *)
(* "another auto refresh must have been scheduled" when a timer finds      *)
(* another token than its own does not hold after this.                    *)
RefreshIsNotSaved(i) ==
    /\ requests[i].session = session
    /\ NewToken(i) /\ Fails
    /\ UNCHANGED notified
    /\ Reschedule(requests[i])

(* The answer has the access token that the user has, and the token and    *)
(* its age stay: an automatic refresh ends with neither a timer nor a      *)
(* retry.  A new refresh token in it changes this only if the user is      *)
(* saved and the token is one that nobody was told of.                     *)
SameToken(i) ==
    /\ UnderWay(i)
    /\ UNCHANGED <<session, token, fresh, issued, failures>>
    /\ Done(i)

AnswerUnchanged(i) ==
    /\ SameToken(i)
    /\ stalled' = (stalled \/ (requests[i].auto /\ requests[i].session = session))
    /\ UNCHANGED <<notified, scheduled, timers>>

RefreshTokenIsSaved(i) ==
    /\ SameToken(i)
    /\ requests[i].session = session /\ token # notified
    /\ TokenChanges(token)

(* The request fails, or a refresh token that comes alone is not saved.    *)
RefreshFails(i) ==
    /\ UnderWay(i) /\ Fails
    /\ UNCHANGED <<session, tokenVars>>
    /\ Reschedule(requests[i])
    /\ Done(i)

(* signOutIfTokenIsInvalidWithError: the FIRUser that asked is signed out, *)
(* should it be the current one.                                           *)
TokenIsRevoked(i) ==
    /\ UnderWay(i) /\ Fails
    /\ IF requests[i].session = session
       THEN SignedOut
       ELSE UNCHANGED <<session, tokenVars>>
    /\ Reschedule(requests[i])
    /\ Done(i)

-----------------------------------------------------------------------------
RefreshNext ==
    \/ \E u \in Uids : SignIn(u)
    \/ SignsOut
    \/ TokenAges
    \/ \E force \in BOOLEAN : GetToken(force)
    \/ DidEnterBackground \/ DidBecomeActive \/ MainReadsToken \/ MainArms
    \/ \E t \in BagToSet(timers) : TimerFires(t)
    \/ \E t \in firing : TimerRefreshes(t)
    \/ \E i \in DOMAIN requests :
          \/ TokenStillValid(i) \/ AnswerTooLate(i)
          \/ RefreshSucceeds(i) \/ RefreshIsNotSaved(i)
          \/ AnswerUnchanged(i) \/ RefreshTokenIsSaved(i)
          \/ RefreshFails(i) \/ TokenIsRevoked(i)

RefreshSpec == RefreshInit /\ [][RefreshNext]_refreshVars

(* Timers fire and blocks run; a request is answered, and not for ever by  *)
(* a failure or with the token that the user has.                          *)
RefreshFairness ==
    /\ WF_refreshVars(MainReadsToken \/ MainArms)
    /\ \A t \in Timers : WF_refreshVars(TimerFires(t))
    /\ WF_refreshVars(\E t \in firing : TimerRefreshes(t))
    /\ WF_refreshVars(\E i \in DOMAIN requests :
                          TokenStillValid(i) \/ RefreshSucceeds(i)
                          \/ AnswerUnchanged(i) \/ RefreshFails(i)
                          \/ TokenIsRevoked(i))
    /\ SF_refreshVars(\E i \in DOMAIN requests :
                          requests[i].session = session /\ RefreshSucceeds(i))

RefreshLiveSpec == RefreshSpec /\ RefreshFairness

-----------------------------------------------------------------------------
(* Every variable has its type (FIRAuth, FIRSecureTokenService).           *)
RefreshTypeOK ==
    /\ owners \in BoundedSeq(Uids, MaxSignIns)
    /\ session \in 0 .. Len(owners)
    /\ token \in TokenIds /\ issued \in TokenIds /\ notified \in TokenIds
    /\ fresh \in BOOLEAN /\ enabled \in BOOLEAN
    /\ scheduled \in BOOLEAN /\ stalled \in BOOLEAN /\ background \in BOOLEAN
    /\ BagToSet(timers) \subseteq Timers /\ IsABag(timers)
    /\ firing \subseteq Timers
    /\ main \in [at : {"idle", "checks", "arms"}, token : TokenIds]
    /\ \A i \in DOMAIN requests : requests[i] \in Requests
    /\ failures \in 0 .. MaxFailures

Active == enabled /\ session # 0 /\ ~background /\ main.at = "idle"

(* An automatic refresh for the current user is about to be asked for, or  *)
(* has been.  A timer that is merely armed is not enough: a refresh that   *)
(* is not saved replaces its token.                                        *)
RefreshIsAsked ==
    \/ firing # {}
    \/ \E i \in DOMAIN requests : requests[i].auto /\ requests[i].session = session

RefreshIsComing ==
    RefreshIsAsked \/ \E t \in BagToSet(timers) : t.token = token

(* While the flag says that nothing is scheduled, a refresh of an active   *)
(* app's user has been asked for: the timer that took the flag down in the *)
(* background is made up for when the app becomes active, whichever of the *)
(* two threads comes first, and every answer arms a timer but one, that    *)
(* with the token the user has.  After that one no refresh follows until   *)
(* the app becomes active again or another token is noticed.               *)
FlagDownMeansAsked == Active /\ ~scheduled => RefreshIsAsked \/ stalled

(* The observers know the current token, unless a token was not saved.     *)
OnlyUnsavedUnnoticed == token # notified => failures > 0

(* The flags, timers, requests and notices of the automatic refresh fit    *)
(* together (FIRAuth.autoTokenRefreshWithToken).                           *)
RefreshConsistent ==
    RefreshTypeOK /\ FlagDownMeansAsked /\ OnlyUnsavedUnnoticed

(* A refresh that is scheduled or under way replaces the token in the end, *)
(* through any number of failures, unless its user signs out, the app goes *)
(* to the background, or the backend answers it with the token that is to  *)
(* be replaced: then the automatic refresh has come to its end.            *)
ComingRefreshArrives ==
    (enabled /\ session # 0 /\ RefreshIsComing)
        ~> (fresh \/ session = 0 \/ background \/ stalled \/ issued = MaxTokens)
=============================================================================
