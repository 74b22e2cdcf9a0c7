----------------------------- MODULE ApiClient -----------------------------
(***************************************************************************)
(* AMMApiClient (connector/api_client.py) and its TokenManager             *)
(* (connector/auth.py): calls of several coroutines that share one access  *)
(* token and one refresh token, with the retries of each kind of call.     *)
(*                                                                         *)
(* A call is a coroutine inside a method of AMMApiClient.  Every await is  *)
(* a step boundary, and nothing but the tokens is shared: no lock keeps    *)
(* two coroutines from refreshing together.  A request whose reply does    *)
(* not come may be executed later, when its caller has long given up.      *)
(***************************************************************************)
EXTENDS Integers

CONSTANTS
    Calls,        \* the calls made in a behaviour
    MaxAttempts,  \* MAX_RETRY_ATTEMPTS
    MaxTicks,     \* bound: moments at which access tokens expire
    MaxSessions,  \* bound: refresh tokens, until none is revoked any more
    MaxLate       \* bound: requests of a call that are on their way at once

ASSUME BoundsAssumption ==
    /\ MaxAttempts \in Nat \ {0}
    /\ MaxTicks \in Nat /\ MaxSessions \in Nat \ {0} /\ MaxLate \in Nat

VARIABLES
    pc,        \* the await a call stands at
    kind,      \* its kind
    attempt,   \* attempt in _request
    timeouts,  \* timeout_retries in replace_order
    bearer,    \* the access token its request carries
    shown,     \* the refresh token its refresh carries
    result,    \* what it returned or raised
    granted,   \* the tokens the server answered it with
    access,    \* TokenManager.access_token
    refresh,   \* TokenManager._refresh_token
    now,       \* server: its clock, in moments at which tokens expire
    session,   \* server: the refresh token it accepts
    executed,  \* exchange: how often it executed the call
    late,      \* exchange: requests of the call still on their way
    aged,      \* history: moments of expiry during the call
    unlucky    \* history: calls to which the token service failed

call == <<pc, kind, attempt, timeouts, bearer, shown, result, granted>>
tokens == <<access, refresh>>
server == <<now, session>>
exchange == <<executed, late>>
history == <<aged, unlucky>>
vars == <<call, tokens, server, exchange, history>>

\* GET: reading; POST: orders, cancels, mints and burns; REPLACE: replace_order.
Kinds == {"GET", "POST", "REPLACE"}
NoReplies == {"timeout", "broken"}  \* TimeoutException, other TransportErrors
\* busy: HTTPStatusError with 429, 502, 503 or 504.
Transient == NoReplies \cup {"busy"}
\* HTTPStatusError with another status, from the exchange or from the token
\* service; RuntimeError("Max retries exceeded").
Results == {"ok", "transient", "refused", "unauthorized", "exhausted"}

\* An access token is the moment at which it expires.
Tokens == 1 .. MaxTicks + 1

Places == {"idle", "sent", "backoff", "paused", "refresh", "login", "granted",
           "ended"}

TypeOK ==
    /\ pc \in [Calls -> Places] /\ kind \in [Calls -> Kinds \cup {"none"}]
    /\ attempt \in [Calls -> 0 .. MaxAttempts - 1]
    /\ timeouts \in [Calls -> 0 .. MaxAttempts]
    /\ bearer \in [Calls -> Tokens \cup {0}]
    /\ shown \in [Calls -> 0 .. MaxSessions]
    /\ result \in [Calls -> Results \cup {"none"}]
    /\ granted \in [Calls -> [access : Tokens \cup {0}, refresh : 0 .. MaxSessions]]
    /\ access \in Tokens /\ refresh \in 1 .. session
    /\ now \in 0 .. MaxTicks /\ session \in 1 .. MaxSessions
    /\ executed \in [Calls -> Nat] /\ late \in [Calls -> 0 .. MaxLate]
    /\ aged \in [Calls -> 0 .. MaxTicks]
    /\ unlucky \subseteq Calls

-----------------------------------------------------------------------------
NoTokens == [access |-> 0, refresh |-> 0]

\* After the login in amm_main.
Init ==
    /\ pc = [c \in Calls |-> "idle"] /\ kind = [c \in Calls |-> "none"]
    /\ attempt = [c \in Calls |-> 0] /\ timeouts = [c \in Calls |-> 0]
    /\ bearer = [c \in Calls |-> 0] /\ shown = [c \in Calls |-> 0]
    /\ result = [c \in Calls |-> "none"]
    /\ granted = [c \in Calls |-> NoTokens]
    /\ access = 1 /\ refresh = 1 /\ now = 0 /\ session = 1
    /\ executed = [c \in Calls |-> 0] /\ late = [c \in Calls |-> 0]
    /\ aged = [c \in Calls |-> 0] /\ unlucky = {}

(***************************************************************************)
(* The exchange: it executes a replacement once per idempotency key, and   *)
(* anything else that changes something as often as it arrives.            *)
(***************************************************************************)
Valid(c) == bearer[c] > now

Execute(c) ==
    executed' = IF kind[c] = "GET" \/ (kind[c] = "REPLACE" /\ executed[c] > 0)
                THEN executed ELSE [executed EXCEPT ![c] = @ + 1]

\* What happened to a request without a reply: lost, executed, or delayed.
LosesReply(c) ==
    \/ UNCHANGED exchange
    \/ Valid(c) /\ Execute(c) /\ UNCHANGED late
    \/ /\ kind[c] # "GET" /\ late[c] < MaxLate
       /\ late' = [late EXCEPT ![c] = @ + 1]
       /\ UNCHANGED executed

\* A delayed request arrives, or never does.
Arrive(c) ==
    /\ late[c] > 0 /\ late' = [late EXCEPT ![c] = @ - 1]
    /\ Execute(c) \/ UNCHANGED executed
    /\ UNCHANGED <<call, tokens, server, history>>

-----------------------------------------------------------------------------
(***************************************************************************)
(* AMMApiClient._request and replace_order.                                *)
(***************************************************************************)
\* Mutation: the headers are built once, before the loop.
SendSameHeaders(c, token, n) ==
    /\ pc' = [pc EXCEPT ![c] = "sent"]
    /\ attempt' = [attempt EXCEPT ![c] = n]
    /\ bearer' = [bearer EXCEPT ![c] = IF n = 0 THEN token ELSE @]

\* The head of the loop builds the headers and sends.
Send(c, token, n) ==
    /\ pc' = [pc EXCEPT ![c] = "sent"]
    /\ attempt' = [attempt EXCEPT ![c] = n]
    /\ bearer' = [bearer EXCEPT ![c] = token]

Begin(c) ==
    /\ pc[c] = "idle" /\ Send(c, access, 0)
    /\ \E k \in Kinds : kind' = [kind EXCEPT ![c] = k]
    /\ UNCHANGED <<timeouts, shown, result, granted, tokens, server,
                   exchange, history>>

Class(outcome) == IF outcome \in Transient THEN "transient" ELSE outcome
End(c, outcome) ==
    /\ pc' = [pc EXCEPT ![c] = "ended"]
    /\ result' = [result EXCEPT ![c] = Class(outcome)]
    /\ attempt' = [attempt EXCEPT ![c] = 0]
    /\ timeouts' = [timeouts EXCEPT ![c] = 0]
    /\ bearer' = [bearer EXCEPT ![c] = 0]

\* Mutation: replace_order goes on while there are timeouts.
TriesAgainForever(c, outcome) == kind[c] = "REPLACE" /\ outcome = "timeout"

\* replace_order: a timeout, also one of a refresh, is tried again.
TriesAgain(c, outcome) ==
    kind[c] = "REPLACE" /\ outcome = "timeout" /\ timeouts[c] < MaxAttempts

\* Mutation: timeout_retries is not counted up.
RaiseUncounted(c, outcome) ==
    IF TriesAgain(c, outcome)
    THEN /\ pc' = [pc EXCEPT ![c] = "paused"]
         /\ UNCHANGED <<timeouts, result, attempt, bearer>>
    ELSE End(c, outcome)

Raise(c, outcome) ==
    IF TriesAgain(c, outcome)
    THEN /\ pc' = [pc EXCEPT ![c] = "paused"]
         /\ timeouts' = [timeouts EXCEPT ![c] = @ + 1]
         /\ UNCHANGED <<result, attempt, bearer>>
    ELSE End(c, outcome)

\* Mutation: what was not answered is sent again, whatever it is.
MayRetryAll(c) == attempt[c] < MaxAttempts - 1

\* can_retry, and this was not the last attempt.
MayRetry(c) == kind[c] = "GET" /\ attempt[c] < MaxAttempts - 1

Disappoint(c, outcome) ==
    /\ IF MayRetry(c)
       THEN /\ pc' = [pc EXCEPT ![c] = "backoff"]
            /\ UNCHANGED <<timeouts, result, attempt, bearer>>
       ELSE Raise(c, outcome)
    /\ UNCHANGED <<kind, shown, granted, tokens, server, history>>

NoReply(c) ==
    /\ pc[c] = "sent" /\ LosesReply(c)
    /\ \E how \in NoReplies : Disappoint(c, how)

\* 429 comes before the order is looked at, a 502 or 504 perhaps after.
Busy(c) ==
    /\ pc[c] = "sent" /\ LosesReply(c)
    /\ Disappoint(c, "busy")

\* resp.raise_for_status with any other code; a 500 may come after the effect.
Refuse(c) ==
    /\ pc[c] = "sent" /\ Valid(c) /\ LosesReply(c)
    /\ End(c, "refused")
    /\ UNCHANGED <<kind, shown, granted, tokens, server, history>>

Succeed(c) ==
    /\ pc[c] = "sent" /\ Valid(c) /\ Execute(c) /\ End(c, "ok")
    /\ UNCHANGED <<kind, shown, granted, tokens, server, late, history>>

\* 401: the refresh is sent at once.
Unauthorized(c) ==
    /\ pc[c] = "sent" /\ ~Valid(c)
    /\ pc' = [pc EXCEPT ![c] = "refresh"]
    /\ shown' = [shown EXCEPT ![c] = refresh]
    /\ UNCHANGED <<kind, attempt, timeouts, bearer, result, granted, tokens,
                   server, exchange, history>>

\* asyncio.sleep is over.
Resume(c) ==
    /\ \/ pc[c] = "backoff" /\ Send(c, access, attempt[c] + 1)
       \/ pc[c] = "paused" /\ Send(c, access, 0)
    /\ UNCHANGED <<kind, timeouts, shown, result, granted, tokens, server,
                   exchange, history>>

-----------------------------------------------------------------------------
(***************************************************************************)
(* TokenManager.refresh and login, and the server's side of them.          *)
(***************************************************************************)
Grant(c, newRefresh) ==
    /\ pc' = [pc EXCEPT ![c] = "granted"]
    /\ \E token \in Tokens :
           /\ token > now
           /\ granted' = [granted EXCEPT
                              ![c] = [access |-> token, refresh |-> newRefresh]]
    /\ shown' = [shown EXCEPT ![c] = 0]
    /\ UNCHANGED <<kind, attempt, timeouts, bearer, result, tokens, now,
                   exchange, history>>

\* The answer may hold a new refresh token, which ends the old one.
RefreshGranted(c) ==
    /\ pc[c] = "refresh" /\ shown[c] = session
    /\ \/ Grant(c, 0) /\ UNCHANGED session
       \/ /\ session < MaxSessions /\ session' = session + 1
          /\ Grant(c, session + 1)

RefreshRefused(c) ==
    /\ pc[c] = "refresh" /\ shown[c] # session
    /\ pc' = [pc EXCEPT ![c] = "login"]
    /\ shown' = [shown EXCEPT ![c] = 0]
    /\ UNCHANGED <<kind, attempt, timeouts, bearer, result, granted,
                   tokens, server, exchange, history>>

LoginGranted(c) ==
    /\ pc[c] = "login"
    /\ Grant(c, session) /\ UNCHANGED session

\* Neither request is repeated: its exception leaves _request.
AuthFails(c) ==
    /\ pc[c] \in {"refresh", "login"}
    /\ \E outcome \in NoReplies \cup {"busy", "unauthorized"} : Raise(c, outcome)
    /\ unlucky' = unlucky \cup {c}
    /\ shown' = [shown EXCEPT ![c] = 0]
    /\ UNCHANGED <<kind, granted, tokens, server, exchange, aged>>

\* The reply: the tokens are stored, and _request goes on without an await.
StoreTokens(c) ==
    /\ pc[c] = "granted"
    /\ access' = granted[c].access
    /\ refresh' = IF granted[c].refresh > 0 THEN granted[c].refresh ELSE refresh
    /\ granted' = [granted EXCEPT ![c] = NoTokens]
    /\ IF attempt[c] < MaxAttempts - 1
       THEN Send(c, access', attempt[c] + 1) /\ UNCHANGED <<timeouts, result>>
       ELSE End(c, "exhausted")
    /\ UNCHANGED <<kind, shown, server, exchange, history>>

\* The server's clock.
InProgress(c) == pc[c] \notin {"idle", "ended"}
Expire ==
    /\ now < MaxTicks /\ now' = now + 1
    /\ aged' = [c \in Calls |-> IF InProgress(c) THEN aged[c] + 1 ELSE aged[c]]
    /\ UNCHANGED <<call, tokens, session, exchange, unlucky>>
Revoke ==
    /\ session < MaxSessions /\ session' = session + 1
    /\ UNCHANGED <<call, tokens, now, exchange, history>>

-----------------------------------------------------------------------------
Answer(c) == NoReply(c) \/ Busy(c) \/ Refuse(c) \/ Succeed(c) \/ Unauthorized(c)
AuthAnswer(c) ==
    RefreshGranted(c) \/ RefreshRefused(c) \/ LoginGranted(c) \/ AuthFails(c)

Next ==
    \/ \E c \in Calls : \/ Begin(c) \/ Answer(c) \/ Resume(c)
                        \/ AuthAnswer(c) \/ StoreTokens(c) \/ Arrive(c)
    \/ Expire \/ Revoke

Spec == Init /\ [][Next]_vars

-----------------------------------------------------------------------------
(***************************************************************************)
(* Properties.                                                             *)
(***************************************************************************)
\* Whatever is retried and however late requests arrive, no call takes effect
\* twice, and one that returned has taken effect.  A POST that gave up over
\* its tokens has no effect, now or later.
GivesUp(c) == result[c] \in {"unauthorized", "exhausted"}
ExecutedOnce ==
    \A c \in Calls : kind[c] # "GET" =>
        /\ executed[c] <= 1
        /\ result[c] = "ok" => executed[c] = 1
        /\ GivesUp(c) /\ kind[c] = "POST" => executed[c] = 0 /\ late[c] = 0

\* One expired token costs a writing call nothing, even if other coroutines
\* refresh at the same time and the server replaces refresh tokens: it gives
\* up over its tokens only if one expired before each further attempt, or the
\* token service failed.
Excused(c) == aged[c] >= MaxAttempts - 1 \/ c \in unlucky
SurvivesExpiry ==
    \A c \in Calls : kind[c] # "GET" /\ GivesUp(c) => Excused(c)

\* Every call returns or raises: whatever it is answered, each of its steps
\* uses up a try of replace_order, an attempt, or a stage of an attempt.
Stage == [place \in Places |->
    CASE place = "sent" -> 5 [] place = "refresh" -> 4 [] place = "login" -> 3
      [] place = "granted" -> 2 [] place = "backoff" -> 1 [] OTHER -> 0]
Comes(c) ==   \* a pause precedes the attempts of the next try
    IF pc[c] = "paused" THEN MaxAttempts ELSE MaxAttempts - 1 - attempt[c]
CallsGetOn ==
    [][\A c \in Calls :
           \/ UNCHANGED <<pc[c], attempt[c], timeouts[c]>>
           \/ pc[c] = "idle" \/ pc'[c] = "ended"
           \/ timeouts'[c] > timeouts[c]
           \/ timeouts'[c] = timeouts[c] /\ Comes(c)' < Comes(c)
           \/ /\ timeouts'[c] = timeouts[c] /\ Comes(c)' = Comes(c)
              /\ Stage[pc'[c]] < Stage[pc[c]]]_vars
=============================================================================
