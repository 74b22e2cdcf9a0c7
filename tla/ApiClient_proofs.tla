-------------------------- MODULE ApiClient_proofs --------------------------
(***************************************************************************)
(* Proofs about ApiClient, for any set of calls and every number of        *)
(* attempts, expiries, sessions and late requests.                         *)
(*                                                                         *)
(* The invariant is about one call at a time.  The calls share the tokens  *)
(* only, and the invariant says nothing of those: whichever token a        *)
(* coroutine finds there, what counts is whether its own refresh was fresh *)
(* and how many tokens have expired since.                                 *)
(***************************************************************************)
EXTENDS ApiClient, TLAPS

-----------------------------------------------------------------------------
\* What a call's place says about its other variables.
Shape(c) ==
    /\ kind[c] = "none" <=> pc[c] = "idle"
    /\ pc[c] = "backoff" => kind[c] = "GET" /\ attempt[c] < MaxAttempts - 1
    /\ pc[c] = "granted" =>
           granted[c].access \in Tokens /\ granted[c].refresh <= session
    /\ aged[c] <= now
    /\ result[c] # "none" => pc[c] = "ended"

\* A POST has no effect, now or later, until it ends, and then one at most.
Effect(c) ==
    /\ pc[c] = "idle" => executed[c] = 0 /\ late[c] = 0
    /\ kind[c] = "POST" =>
           /\ executed[c] + late[c] <= 1
           /\ \/ pc[c] = "ended" /\ ~GivesUp(c)
              \/ executed[c] = 0 /\ late[c] = 0
    /\ kind[c] = "REPLACE" => executed[c] <= 1
    /\ kind[c] # "GET" /\ result[c] = "ok" => executed[c] = 1

\* A writing call gets from one attempt to the next by an expiry only.
Lifetime(c) ==
    kind[c] # "GET" =>
        /\ pc[c] = "sent" =>
               \/ attempt[c] = 0
               \/ bearer[c] > now /\ aged[c] >= attempt[c] - 1
               \/ aged[c] >= attempt[c]
        /\ pc[c] \in {"refresh", "login"} => aged[c] >= attempt[c]
        /\ pc[c] = "granted" =>
               \/ granted[c].access > now /\ aged[c] >= attempt[c]
               \/ aged[c] >= attempt[c] + 1
        /\ GivesUp(c) => Excused(c)

CallInv(c) == Shape(c) /\ Effect(c) /\ Lifetime(c)
IInv == TypeOK /\ \A c \in Calls : CallInv(c)

-----------------------------------------------------------------------------
\* The step of another call, as far as this call can tell.
Untouched(c) ==
    /\ pc'[c] = pc[c] /\ kind'[c] = kind[c] /\ attempt'[c] = attempt[c]
    /\ bearer'[c] = bearer[c] /\ result'[c] = result[c]
    /\ granted'[c] = granted[c] /\ aged'[c] = aged[c]
    /\ executed'[c] = executed[c] /\ late'[c] = late[c]
    /\ c \in unlucky => c \in unlucky'
    /\ now' = now /\ session <= session'

LEMMA OthersAreUntouched ==
    ASSUME TypeOK, session' \in Nat, NEW c \in Calls, CallInv(c), Untouched(c)
    PROVE  CallInv(c)'
BY DEF Untouched, CallInv, Shape, Effect, Lifetime, GivesUp, Excused, TypeOK

\* How a call ends.
LEMMA Classes ==
    ASSUME NEW outcome \in Transient \cup Results
    PROVE  /\ Class(outcome) \in Results
           /\ outcome \in Transient => Class(outcome) = "transient"
           /\ outcome \notin Transient => Class(outcome) = outcome
BY DEF Class, Transient, NoReplies, Results

\* The types of what a step writes into a call's variables.
LEMMA Ranges ==
    ASSUME TypeOK
    PROVE  /\ pc \in [Calls -> Places]
           /\ attempt \in [Calls -> 0 .. MaxAttempts - 1]
           /\ timeouts \in [Calls -> 0 .. MaxAttempts]
           /\ bearer \in [Calls -> Tokens \cup {0}]
           /\ result \in [Calls -> Results \cup {"none"}]
           /\ access \in Tokens
           /\ {"sent", "backoff", "paused", "refresh", "ended"} \subseteq Places
           /\ {"transient", "unauthorized", "exhausted"} \subseteq Results
           /\ 0 \in 0 .. MaxAttempts - 1 /\ 0 \in 0 .. MaxAttempts
           /\ \A n \in 0 .. MaxAttempts - 1 :
                  n < MaxAttempts - 1 => n + 1 \in 0 .. MaxAttempts - 1
BY BoundsAssumption DEF TypeOK, Places, Results

LEMMA InitIsInv == Init => IInv
BY BoundsAssumption
   DEF Init, IInv, TypeOK, CallInv, Shape, Effect, Lifetime, GivesUp, NoTokens,
       Places, Kinds, Results, Tokens

-----------------------------------------------------------------------------
(***************************************************************************)
(* The steps.                                                              *)
(***************************************************************************)
LEMMA BeginKeeps ==
    ASSUME IInv, NEW d \in Calls, Begin(d)
    PROVE  IInv'
<1>1. TypeOK'
  BY BoundsAssumption
     DEF IInv, TypeOK, Begin, Send, tokens, server, exchange, history, Places, Kinds, Tokens
<1>2. CallInv(d)'
  BY BoundsAssumption
     DEF IInv, TypeOK, CallInv, Shape, Effect, Lifetime, GivesUp, Excused, Begin, Send,
         tokens, server, exchange, history, Kinds
<1>3. ASSUME NEW c \in Calls \ {d} PROVE CallInv(c)'
  <2>1. Untouched(c)
    BY DEF IInv, TypeOK, Untouched, Begin, Send, tokens, server, exchange, history
  <2> QED BY <1>1, <2>1, OthersAreUntouched DEF IInv, TypeOK
<1> QED BY <1>1, <1>2, <1>3 DEF IInv

\* What happened to the request of a call that has no reply.
LEMMA LostReplies ==
    ASSUME IInv, NEW d \in Calls, LosesReply(d), pc[d] = "sent"
    PROVE  /\ executed' \in [Calls -> Nat] /\ late' \in [Calls -> 0 .. MaxLate]
           /\ \A c \in Calls \ {d} : executed'[c] = executed[c] /\ late'[c] = late[c]
           /\ kind[d] = "POST" => executed'[d] + late'[d] <= 1
           /\ kind[d] = "REPLACE" => executed'[d] <= 1
<1>1. CallInv(d) /\ TypeOK BY DEF IInv
<1>2. CASE UNCHANGED exchange
  BY <1>1, <1>2 DEF CallInv, Effect, TypeOK, exchange
<1>3. CASE Execute(d) /\ UNCHANGED late
  BY <1>1, <1>3 DEF CallInv, Effect, TypeOK, Execute
<1>4. CASE /\ late[d] < MaxLate /\ late' = [late EXCEPT ![d] = @ + 1]
           /\ UNCHANGED executed
  BY <1>1, <1>4, BoundsAssumption DEF CallInv, Effect, TypeOK
<1> QED BY <1>2, <1>3, <1>4 DEF LosesReply

\* How a call goes on after an exception: to the next try, or to its end.
LEMMA Raised ==
    ASSUME IInv, NEW d \in Calls, NEW outcome \in Transient \cup Results, Raise(d, outcome)
    PROVE  /\ \/ pc' = [pc EXCEPT ![d] = "paused"]
                 /\ kind[d] = "REPLACE" /\ UNCHANGED <<result, attempt, bearer>>
              \/ pc' = [pc EXCEPT ![d] = "ended"]
                 /\ result' = [result EXCEPT ![d] = Class(outcome)]
                 /\ attempt' = [attempt EXCEPT ![d] = 0]
                 /\ bearer' = [bearer EXCEPT ![d] = 0]
           /\ timeouts' \in [Calls -> 0 .. MaxAttempts]
<1>0. timeouts \in [Calls -> 0 .. MaxAttempts] BY DEF IInv, TypeOK
<1>1. CASE TriesAgain(d, outcome)
  <2>1. timeouts[d] + 1 \in 0 .. MaxAttempts
    BY <1>0, <1>1, BoundsAssumption DEF TriesAgain
  <2> QED BY <1>0, <1>1, <2>1 DEF Raise, TriesAgain
<1>2. CASE ~TriesAgain(d, outcome)
  BY <1>0, <1>2, BoundsAssumption DEF Raise, End
<1> QED BY <1>1, <1>2

LEMMA NoReplyKeeps ==
    ASSUME IInv, NEW d \in Calls, NEW outcome \in Transient,
           pc[d] = "sent", LosesReply(d), Disappoint(d, outcome)
    PROVE  IInv'
<1> USE DEF Disappoint
<1>0. CallInv(d) /\ TypeOK BY DEF IInv
<1>1. Class(outcome) = "transient" BY Classes
<1>2. \/ /\ pc' = [pc EXCEPT ![d] = "backoff"] /\ MayRetry(d)
         /\ UNCHANGED <<timeouts, result, attempt, bearer>>
      \/ /\ pc' = [pc EXCEPT ![d] = "paused"]
         /\ kind[d] = "REPLACE" /\ UNCHANGED <<result, attempt, bearer>>
      \/ /\ pc' = [pc EXCEPT ![d] = "ended"]
         /\ result' = [result EXCEPT ![d] = "transient"]
         /\ attempt' = [attempt EXCEPT ![d] = 0]
         /\ bearer' = [bearer EXCEPT ![d] = 0]
  BY <1>1, Raised
<1>3. timeouts' \in [Calls -> 0 .. MaxAttempts]
  BY <1>0, Raised DEF TypeOK
<1>4. TypeOK'
  <2>1. /\ pc' \in [Calls -> Places] /\ attempt' \in [Calls -> 0 .. MaxAttempts - 1]
        /\ bearer' \in [Calls -> Tokens \cup {0}]
        /\ result' \in [Calls -> Results \cup {"none"}]
    BY <1>0, <1>2, Ranges
  <2> QED BY <1>0, <1>3, <2>1, LostReplies DEF TypeOK, tokens, server, history
<1>5. CallInv(d)'
  BY <1>0, <1>2, LostReplies
     DEF TypeOK, CallInv, Shape, Effect, Lifetime, GivesUp, Excused, MayRetry,
         server, history, Kinds
<1>6. ASSUME NEW c \in Calls \ {d} PROVE CallInv(c)'
  <2>1. Untouched(c)
    BY <1>0, <1>2, LostReplies DEF TypeOK, Untouched, server, history
  <2> QED BY <1>4, <2>1, OthersAreUntouched DEF IInv, TypeOK
<1> QED BY <1>4, <1>5, <1>6 DEF IInv

LEMMA RefuseKeeps ==
    ASSUME IInv, NEW d \in Calls, Refuse(d)
    PROVE  IInv'
<1>0. CallInv(d) /\ TypeOK BY DEF IInv
<1>1. Class("refused") = "refused"
  BY Classes DEF Transient, NoReplies, Results
<1>2. pc[d] = "sent" /\ LosesReply(d) BY DEF Refuse
<1>4. TypeOK'
  BY <1>0, <1>1, <1>2, LostReplies, BoundsAssumption
     DEF TypeOK, Refuse, End, tokens, server, history, Places, Results
<1>5. CallInv(d)'
  BY <1>0, <1>1, <1>2, LostReplies
     DEF TypeOK, CallInv, Shape, Effect, Lifetime, GivesUp, Excused, Refuse, End,
         server, history, Kinds
<1>6. ASSUME NEW c \in Calls \ {d} PROVE CallInv(c)'
  <2>1. Untouched(c)
    BY <1>0, <1>2, LostReplies DEF TypeOK, Untouched, Refuse, End, server, history
  <2> QED BY <1>4, <2>1, OthersAreUntouched DEF IInv, TypeOK
<1> QED BY <1>4, <1>5, <1>6 DEF IInv

LEMMA SucceedKeeps ==
    ASSUME IInv, NEW d \in Calls, Succeed(d)
    PROVE  IInv'
<1>0. CallInv(d) /\ TypeOK BY DEF IInv
<1>1. Class("ok") = "ok"
  BY Classes DEF Transient, NoReplies, Results
<1>4. TypeOK'
  BY <1>0, <1>1, BoundsAssumption
     DEF TypeOK, Succeed, Execute, End, tokens, server, history, Places, Results
<1>5. CallInv(d)'
  BY <1>0, <1>1
     DEF TypeOK, CallInv, Shape, Effect, Lifetime, GivesUp, Excused, Succeed, Execute,
         End, server, history, Kinds
<1>6. ASSUME NEW c \in Calls \ {d} PROVE CallInv(c)'
  <2>1. Untouched(c)
    BY <1>0 DEF TypeOK, Untouched, Succeed, Execute, End, server, history
  <2> QED BY <1>4, <2>1, OthersAreUntouched DEF IInv, TypeOK
<1> QED BY <1>4, <1>5, <1>6 DEF IInv

LEMMA UnauthorizedKeeps ==
    ASSUME IInv, NEW d \in Calls, Unauthorized(d)
    PROVE  IInv'
<1>0. CallInv(d) /\ TypeOK BY DEF IInv
<1>4. TypeOK'
  BY <1>0, BoundsAssumption
     DEF TypeOK, Unauthorized, tokens, server, exchange, history, Places
<1>5. CallInv(d)'
  BY <1>0
     DEF TypeOK, CallInv, Shape, Effect, Lifetime, GivesUp, Excused, Unauthorized, Valid,
         server, exchange, history, Kinds, Tokens
<1>6. ASSUME NEW c \in Calls \ {d} PROVE CallInv(c)'
  <2>1. Untouched(c)
    BY <1>0 DEF TypeOK, Untouched, Unauthorized, server, exchange, history
  <2> QED BY <1>4, <2>1, OthersAreUntouched DEF IInv, TypeOK
<1> QED BY <1>4, <1>5, <1>6 DEF IInv

LEMMA ResumeKeeps ==
    ASSUME IInv, NEW d \in Calls, Resume(d)
    PROVE  IInv'
<1>0. CallInv(d) /\ TypeOK BY DEF IInv
<1>4. TypeOK'
  <2>1. attempt' \in [Calls -> 0 .. MaxAttempts - 1]
    <3>1. pc[d] = "backoff" => attempt[d] < MaxAttempts - 1
      BY <1>0 DEF CallInv, Shape
    <3> QED BY <1>0, <3>1, Ranges DEF Resume, Send
  <2>2. pc' \in [Calls -> Places] /\ bearer' \in [Calls -> Tokens \cup {0}]
    BY <1>0, Ranges DEF Resume, Send
  <2> QED BY <1>0, <2>1, <2>2 DEF TypeOK, Resume, tokens, server, exchange, history
<1>5. CallInv(d)'
  BY <1>0
     DEF TypeOK, CallInv, Shape, Effect, Lifetime, GivesUp, Excused, Resume, Send,
         server, exchange, history, Kinds
<1>6. ASSUME NEW c \in Calls \ {d} PROVE CallInv(c)'
  <2>1. Untouched(c)
    BY <1>0 DEF TypeOK, Untouched, Resume, Send, server, exchange, history
  <2> QED BY <1>4, <2>1, OthersAreUntouched DEF IInv, TypeOK
<1> QED BY <1>4, <1>5, <1>6 DEF IInv

LEMMA GrantKeeps ==
    ASSUME IInv, NEW d \in Calls, pc[d] \in {"refresh", "login"},
           NEW newRefresh \in 0 .. MaxSessions, Grant(d, newRefresh),
           session' \in session .. MaxSessions, newRefresh <= session'
    PROVE  IInv'
<1>0. CallInv(d) /\ TypeOK BY DEF IInv
<1>1. PICK token \in Tokens :
          token > now
          /\ granted' = [granted EXCEPT
                             ![d] = [access |-> token, refresh |-> newRefresh]]
  BY DEF Grant
<1>4. TypeOK'
  BY <1>0, <1>1, BoundsAssumption
     DEF TypeOK, Grant, tokens, exchange, history, Places
<1>5. CallInv(d)'
  BY <1>0, <1>1
     DEF TypeOK, CallInv, Shape, Effect, Lifetime, GivesUp, Excused, Grant,
         exchange, history, Kinds, Tokens
<1>6. ASSUME NEW c \in Calls \ {d} PROVE CallInv(c)'
  <2>1. Untouched(c)
    BY <1>0, <1>1 DEF TypeOK, Untouched, Grant, exchange, history
  <2> QED BY <1>4, <2>1, OthersAreUntouched DEF IInv, TypeOK
<1> QED BY <1>4, <1>5, <1>6 DEF IInv

LEMMA RefreshRefusedKeeps ==
    ASSUME IInv, NEW d \in Calls, RefreshRefused(d)
    PROVE  IInv'
<1>0. CallInv(d) /\ TypeOK BY DEF IInv
<1>4. TypeOK'
  BY <1>0, BoundsAssumption
     DEF TypeOK, RefreshRefused, tokens, server, exchange, history, Places
<1>5. CallInv(d)'
  BY <1>0
     DEF TypeOK, CallInv, Shape, Effect, Lifetime, GivesUp, Excused, RefreshRefused,
         server, exchange, history
<1>6. ASSUME NEW c \in Calls \ {d} PROVE CallInv(c)'
  <2>1. Untouched(c)
    BY <1>0 DEF TypeOK, Untouched, RefreshRefused, server, exchange, history
  <2> QED BY <1>4, <2>1, OthersAreUntouched DEF IInv, TypeOK
<1> QED BY <1>4, <1>5, <1>6 DEF IInv

LEMMA AuthFailsKeeps ==
    ASSUME IInv, NEW d \in Calls, AuthFails(d)
    PROVE  IInv'
<1>0. CallInv(d) /\ TypeOK BY DEF IInv
<1>1. PICK outcome \in NoReplies \cup {"busy", "unauthorized"} : Raise(d, outcome)
  BY DEF AuthFails
<1>2. outcome \in Transient \cup Results BY <1>1 DEF Transient, Results
<1>3. /\ \/ pc' = [pc EXCEPT ![d] = "paused"]
            /\ kind[d] = "REPLACE" /\ UNCHANGED <<result, attempt, bearer>>
         \/ pc' = [pc EXCEPT ![d] = "ended"]
            /\ result' = [result EXCEPT ![d] = Class(outcome)]
            /\ attempt' = [attempt EXCEPT ![d] = 0]
            /\ bearer' = [bearer EXCEPT ![d] = 0]
      /\ timeouts' \in [Calls -> 0 .. MaxAttempts]
      /\ Class(outcome) \in {"transient", "unauthorized"}
  BY <1>1, <1>2, Raised, Classes DEF Transient
<1> HIDE DEF AuthFails
<1>4. TypeOK'
  <2>1. /\ pc' \in [Calls -> Places] /\ attempt' \in [Calls -> 0 .. MaxAttempts - 1]
        /\ bearer' \in [Calls -> Tokens \cup {0}]
        /\ result' \in [Calls -> Results \cup {"none"}]
    BY <1>0, <1>3, Ranges
  <2>2. shown' \in [Calls -> 0 .. MaxSessions] /\ unlucky' \subseteq Calls
    BY <1>0, BoundsAssumption DEF TypeOK, AuthFails
  <2> QED BY <1>0, <1>3, <2>1, <2>2 DEF TypeOK, AuthFails, tokens, server, exchange
<1>5. CallInv(d)'
  BY <1>0, <1>3
     DEF TypeOK, CallInv, Shape, Effect, Lifetime, GivesUp, Excused, AuthFails,
         server, exchange, Kinds
<1>6. ASSUME NEW c \in Calls \ {d} PROVE CallInv(c)'
  <2>1. Untouched(c)
    BY <1>0, <1>3 DEF TypeOK, Untouched, AuthFails, server, exchange
  <2> QED BY <1>4, <2>1, OthersAreUntouched DEF IInv, TypeOK
<1> QED BY <1>4, <1>5, <1>6 DEF IInv

LEMMA StoreTokensKeeps ==
    ASSUME IInv, NEW d \in Calls, StoreTokens(d)
    PROVE  IInv'
<1>0. CallInv(d) /\ TypeOK BY DEF IInv
<1>1. Class("exhausted") = "exhausted"
  BY Classes DEF Transient, NoReplies, Results
<1>2. \/ /\ attempt[d] < MaxAttempts - 1
         /\ pc' = [pc EXCEPT ![d] = "sent"]
         /\ attempt' = [attempt EXCEPT ![d] = attempt[d] + 1]
         /\ bearer' = [bearer EXCEPT ![d] = granted[d].access]
         /\ UNCHANGED <<timeouts, result>>
      \/ /\ attempt[d] = MaxAttempts - 1
         /\ pc' = [pc EXCEPT ![d] = "ended"]
         /\ result' = [result EXCEPT ![d] = "exhausted"]
         /\ attempt' = [attempt EXCEPT ![d] = 0]
         /\ timeouts' = [timeouts EXCEPT ![d] = 0]
         /\ bearer' = [bearer EXCEPT ![d] = 0]
  <2>1. attempt[d] \in 0 .. MaxAttempts - 1 /\ access' = granted[d].access
    BY <1>0 DEF TypeOK, StoreTokens
  <2>2. CASE attempt[d] < MaxAttempts - 1
    BY <2>1, <2>2 DEF StoreTokens, Send
  <2>3. CASE ~(attempt[d] < MaxAttempts - 1)
    <3>1. attempt[d] = MaxAttempts - 1 BY <2>1, <2>3, BoundsAssumption
    <3> QED BY <1>1, <2>3, <3>1 DEF StoreTokens, End
  <2> QED BY <2>2, <2>3
<1>3. granted[d].access \in Tokens /\ granted[d].refresh \in 0 .. session
  BY <1>0 DEF TypeOK, CallInv, Shape, StoreTokens
<1>4. TypeOK'
  <2>1. /\ pc' \in [Calls -> Places] /\ attempt' \in [Calls -> 0 .. MaxAttempts - 1]
        /\ timeouts' \in [Calls -> 0 .. MaxAttempts]
        /\ bearer' \in [Calls -> Tokens \cup {0}]
        /\ result' \in [Calls -> Results \cup {"none"}]
    BY <1>0, <1>2, <1>3, Ranges
  <2>2. /\ access' \in Tokens /\ refresh' \in 1 .. session
        /\ granted' \in [Calls -> [access : Tokens \cup {0}, refresh : 0 .. MaxSessions]]
    BY <1>0, <1>3, BoundsAssumption DEF TypeOK, StoreTokens, NoTokens
  <2> QED BY <1>0, <2>1, <2>2 DEF TypeOK, StoreTokens, server, exchange, history
<1>5. CallInv(d)'
  BY <1>0, <1>2
     DEF TypeOK, CallInv, Shape, Effect, Lifetime, GivesUp, Excused, StoreTokens,
         server, exchange, history, Tokens
<1>6. ASSUME NEW c \in Calls \ {d} PROVE CallInv(c)'
  <2>1. Untouched(c)
    BY <1>0, <1>2 DEF TypeOK, Untouched, StoreTokens, server, exchange, history
  <2> QED BY <1>4, <2>1, OthersAreUntouched DEF IInv, TypeOK
<1> QED BY <1>4, <1>5, <1>6 DEF IInv

LEMMA ArriveKeeps ==
    ASSUME IInv, NEW d \in Calls, Arrive(d)
    PROVE  IInv'
<1>0. CallInv(d) /\ TypeOK BY DEF IInv
<1>4. TypeOK'
  BY <1>0, BoundsAssumption
     DEF TypeOK, Arrive, Execute, call, tokens, server, history
<1>5. CallInv(d)'
  <2>1. Shape(d)' BY <1>0 DEF CallInv, Shape, Arrive, call, server, history
  <2>2. Lifetime(d)'
    BY <1>0 DEF CallInv, Lifetime, GivesUp, Excused, Arrive, call, server, history
  <2>3. Effect(d)'
    <3>1. CASE UNCHANGED executed
      BY <1>0, <3>1 DEF TypeOK, CallInv, Effect, GivesUp, Arrive, call
    <3>2. CASE Execute(d)
      <4>1. kind[d] # "POST" => executed'[d] = executed[d] \/ executed'[d] = executed[d] + 1
        BY <1>0, <3>2 DEF TypeOK, Execute
      <4>2. kind[d] = "POST" => executed'[d] + late'[d] <= 1 /\ executed'[d] = 1
        <5>1. /\ executed[d] \in Nat /\ late[d] \in Nat /\ late[d] > 0
              /\ late'[d] = late[d] - 1
          BY <1>0, BoundsAssumption DEF TypeOK, Arrive
        <5>2. kind[d] = "POST" => executed[d] + late[d] <= 1
          BY <1>0 DEF CallInv, Effect
        <5>3. kind[d] = "POST" => executed'[d] = executed[d] + 1
          BY <1>0, <3>2 DEF TypeOK, Execute
        <5> QED BY <5>1, <5>2, <5>3
      <4>3. kind[d] = "REPLACE" => executed'[d] = 1
        BY <1>0, <3>2 DEF TypeOK, CallInv, Effect, Execute
      <4>4. pc[d] # "idle" /\ kind[d] # "none"
        BY <1>0 DEF TypeOK, CallInv, Shape, Effect, Arrive
      <4> QED
        BY <1>0, <4>1, <4>2, <4>3, <4>4
           DEF TypeOK, CallInv, Effect, GivesUp, Arrive, call, Kinds
    <3> QED BY <3>1, <3>2 DEF Arrive
  <2> QED BY <2>1, <2>2, <2>3 DEF CallInv
<1>6. ASSUME NEW c \in Calls \ {d} PROVE CallInv(c)'
  <2>1. Untouched(c)
    BY <1>0 DEF TypeOK, Untouched, Arrive, Execute, call, server, history
  <2> QED BY <1>4, <2>1, OthersAreUntouched DEF IInv, TypeOK
<1> QED BY <1>4, <1>5, <1>6 DEF IInv

\* A token expires: the calls in progress are a moment older.
LEMMA ExpireKeeps == ASSUME IInv, Expire PROVE IInv'
<1>1. TypeOK'
  BY BoundsAssumption
     DEF IInv, TypeOK, CallInv, Shape, Expire, call, tokens, exchange
<1>2. ASSUME NEW c \in Calls PROVE CallInv(c)'
  BY BoundsAssumption
     DEF IInv, TypeOK, CallInv, Shape, Effect, Lifetime, GivesUp, Excused, Expire,
         InProgress, call, exchange, Tokens
<1> QED BY <1>1, <1>2 DEF IInv

LEMMA RevokeKeeps == ASSUME IInv, Revoke PROVE IInv'
<1>1. TypeOK'
  BY BoundsAssumption DEF IInv, TypeOK, Revoke, call, tokens, exchange, history
<1>2. ASSUME NEW c \in Calls PROVE CallInv(c)'
  <2>1. Untouched(c)
    BY DEF IInv, TypeOK, Untouched, Revoke, call, exchange, history
  <2> QED BY <1>1, <2>1, OthersAreUntouched DEF IInv, TypeOK
<1> QED BY <1>1, <1>2 DEF IInv

LEMMA NextKeeps == IInv /\ [Next]_vars => IInv'
<1> SUFFICES ASSUME IInv, [Next]_vars PROVE IInv'
  OBVIOUS
<1>1. ASSUME NEW d \in Calls, NoReply(d) \/ Busy(d) PROVE IInv'
  BY <1>1, NoReplyKeeps DEF NoReply, Busy, Transient, NoReplies
<1>2. ASSUME NEW d \in Calls, RefreshGranted(d) PROVE IInv'
  <2>1. pc[d] \in {"refresh", "login"} BY <1>2 DEF RefreshGranted
  <2>2. CASE Grant(d, 0) /\ UNCHANGED session
    BY <2>1, <2>2, GrantKeeps, BoundsAssumption DEF IInv, TypeOK
  <2>3. CASE session < MaxSessions /\ session' = session + 1 /\ Grant(d, session + 1)
    BY <2>1, <2>3, GrantKeeps, BoundsAssumption DEF IInv, TypeOK
  <2> QED BY <1>2, <2>2, <2>3 DEF RefreshGranted
<1>3. ASSUME NEW d \in Calls, LoginGranted(d) PROVE IInv'
  BY <1>3, GrantKeeps, BoundsAssumption DEF IInv, TypeOK, LoginGranted
<1>4. CASE UNCHANGED vars
  BY <1>4
     DEF IInv, TypeOK, CallInv, Shape, Effect, Lifetime, GivesUp, Excused, vars, call,
         tokens, server, exchange, history
<1> QED
  BY <1>1, <1>2, <1>3, <1>4, BeginKeeps, RefuseKeeps, SucceedKeeps, UnauthorizedKeeps,
     ResumeKeeps, RefreshRefusedKeeps, AuthFailsKeeps, StoreTokensKeeps, ArriveKeeps,
     ExpireKeeps, RevokeKeeps
     DEF Next, Answer, AuthAnswer

LEMMA Invariance == Spec => []IInv
BY InitIsInv, NextKeeps, PTL DEF Spec

-----------------------------------------------------------------------------
(***************************************************************************)
(* The theorems.                                                           *)
(***************************************************************************)
\* Attempts, tries and tokens stay within their limits, whatever the server
\* answers.
THEOREM TypeCorrect == Spec => []TypeOK
BY Invariance, PTL DEF IInv

\* Retries and late requests never make a call take effect twice, for any
\* number of attempts and of requests on their way.
THEOREM NoCallTakesEffectTwice == Spec => []ExecutedOnce
<1>1. IInv => ExecutedOnce
  BY DEF IInv, TypeOK, CallInv, Shape, Effect, GivesUp, ExecutedOnce, Kinds
<1> QED BY <1>1, Invariance, PTL

\* However many coroutines refresh together, a writing call gives up over its
\* tokens only if one expired before each further attempt, or the service failed.
THEOREM ExpiredTokensAreSurvived == Spec => []SurvivesExpiry
<1>1. IInv => SurvivesExpiry
  BY DEF IInv, CallInv, Lifetime, SurvivesExpiry
<1> QED BY <1>1, Invariance, PTL

-----------------------------------------------------------------------------
(***************************************************************************)
(* The end of every call: each of its steps uses up a try, an attempt, or  *)
(* a stage of an attempt.                                                  *)
(***************************************************************************)
GetsOn(c) ==
    \/ UNCHANGED <<pc[c], attempt[c], timeouts[c]>>
    \/ pc[c] = "idle" \/ pc'[c] = "ended"
    \/ timeouts'[c] > timeouts[c]
    \/ timeouts'[c] = timeouts[c] /\ Comes(c)' < Comes(c)
    \/ /\ timeouts'[c] = timeouts[c] /\ Comes(c)' = Comes(c)
       /\ Stage[pc'[c]] < Stage[pc[c]]

\* The stages of an attempt, from the request to the next.
LEMMA StagesOrdered ==
    /\ Stage["sent"] = 5 /\ Stage["refresh"] = 4 /\ Stage["login"] = 3
    /\ Stage["granted"] = 2 /\ Stage["backoff"] = 1
BY DEF Stage, Places

\* An exception ends the call or uses up a try.
LEMMA RaisingGetsOn ==
    ASSUME TypeOK, NEW d \in Calls, NEW outcome, Raise(d, outcome), NEW c \in Calls
    PROVE  GetsOn(c)
<1>1. CASE TriesAgain(d, outcome)
  <2>1. /\ pc' = [pc EXCEPT ![d] = "paused"] /\ UNCHANGED attempt
        /\ timeouts' = [timeouts EXCEPT ![d] = timeouts[d] + 1]
    BY <1>1 DEF Raise
  <2> QED BY <2>1 DEF TypeOK, GetsOn
<1>2. CASE ~TriesAgain(d, outcome)
  <2>1. /\ pc' = [pc EXCEPT ![d] = "ended"] /\ attempt' = [attempt EXCEPT ![d] = 0]
        /\ timeouts' = [timeouts EXCEPT ![d] = 0]
    BY <1>2 DEF Raise, End
  <2> QED BY <2>1 DEF TypeOK, GetsOn
<1> QED BY <1>1, <1>2

LEMMA AnswersGetOn ==
    ASSUME TypeOK, NEW d \in Calls, Answer(d), NEW c \in Calls
    PROVE  GetsOn(c)
<1>1. ASSUME NEW outcome, pc[d] = "sent", Disappoint(d, outcome) PROVE GetsOn(c)
  <2>1. CASE MayRetry(d)
    <3>1. /\ pc' = [pc EXCEPT ![d] = "backoff"] /\ UNCHANGED <<attempt, timeouts>>
      BY <1>1, <2>1 DEF Disappoint
    <3> QED BY <1>1, <3>1, StagesOrdered DEF TypeOK, GetsOn, Comes
  <2>2. CASE ~MayRetry(d)
    BY <1>1, <2>2, RaisingGetsOn DEF Disappoint
  <2> QED BY <2>1, <2>2
<1>2. ASSUME NEW outcome, End(d, outcome) PROVE GetsOn(c)
  BY <1>2 DEF TypeOK, GetsOn, End
<1>3. CASE Unauthorized(d)
  <2>1. /\ pc[d] = "sent" /\ pc' = [pc EXCEPT ![d] = "refresh"]
        /\ UNCHANGED <<attempt, timeouts>>
    BY <1>3 DEF Unauthorized
  <2> QED BY <2>1, StagesOrdered DEF TypeOK, GetsOn, Comes
<1> QED BY <1>1, <1>2, <1>3 DEF Answer, NoReply, Busy, Refuse, Succeed

LEMMA AuthAnswersGetOn ==
    ASSUME TypeOK, NEW d \in Calls, AuthAnswer(d), NEW c \in Calls
    PROVE  GetsOn(c)
<1>1. ASSUME NEW r, pc[d] \in {"refresh", "login"}, Grant(d, r) PROVE GetsOn(c)
  <2>1. pc' = [pc EXCEPT ![d] = "granted"] /\ UNCHANGED <<attempt, timeouts>>
    BY <1>1 DEF Grant
  <2> QED BY <1>1, <2>1, StagesOrdered DEF TypeOK, GetsOn, Comes
<1>2. CASE RefreshRefused(d)
  <2>1. /\ pc[d] = "refresh" /\ pc' = [pc EXCEPT ![d] = "login"]
        /\ UNCHANGED <<attempt, timeouts>>
    BY <1>2 DEF RefreshRefused
  <2> QED BY <2>1, StagesOrdered DEF TypeOK, GetsOn, Comes
<1>3. CASE AuthFails(d) BY <1>3, RaisingGetsOn DEF AuthFails
<1> QED BY <1>1, <1>2, <1>3 DEF AuthAnswer, RefreshGranted, LoginGranted

LEMMA ResumingGetsOn ==
    ASSUME TypeOK, NEW d \in Calls, Resume(d) \/ StoreTokens(d), NEW c \in Calls
    PROVE  GetsOn(c)
<1>1. attempt[d] \in 0 .. MaxAttempts - 1 /\ MaxAttempts \in Nat
  BY BoundsAssumption DEF TypeOK
<1>2. ASSUME NEW token, Send(d, token, attempt[d] + 1), pc[d] \in {"backoff", "granted"},
             UNCHANGED timeouts
      PROVE  GetsOn(c)
  <2>1. /\ pc' = [pc EXCEPT ![d] = "sent"]
        /\ attempt' = [attempt EXCEPT ![d] = attempt[d] + 1]
    BY <1>2 DEF Send
  <2> QED BY <1>1, <1>2, <2>1 DEF TypeOK, GetsOn, Comes
<1>3. ASSUME NEW token, Send(d, token, 0), pc[d] = "paused", UNCHANGED timeouts
      PROVE  GetsOn(c)
  <2>1. pc' = [pc EXCEPT ![d] = "sent"] /\ attempt' = [attempt EXCEPT ![d] = 0]
    BY <1>3 DEF Send
  <2> QED BY <1>1, <1>3, <2>1 DEF TypeOK, GetsOn, Comes
<1>4. ASSUME NEW outcome, End(d, outcome) PROVE GetsOn(c)
  BY <1>4 DEF TypeOK, GetsOn, End
<1> QED BY <1>2, <1>3, <1>4 DEF Resume, StoreTokens

\* Whatever it is answered, and in whichever order with the other calls, every
\* step of a call brings it nearer to its end.
THEOREM NoCallGoesOnForEver == Spec => CallsGetOn
<1>1. IInv /\ [Next]_vars => [\A c \in Calls : GetsOn(c)]_vars
  <2> SUFFICES ASSUME TypeOK, Next, NEW c \in Calls PROVE GetsOn(c)
    BY DEF IInv
  <2>1. ASSUME NEW d \in Calls, Begin(d) PROVE GetsOn(c)
    BY <2>1 DEF TypeOK, GetsOn, Begin, Send
  <2>2. ASSUME UNCHANGED call PROVE GetsOn(c)
    BY <2>2 DEF call, GetsOn
  <2> QED
    BY <2>1, <2>2, AnswersGetOn, AuthAnswersGetOn, ResumingGetsOn
       DEF Next, Arrive, Expire, Revoke
<1>2. [][\A c \in Calls : GetsOn(c)]_vars <=> CallsGetOn
  BY DEF GetsOn, CallsGetOn
<1> QED BY <1>1, <1>2, Invariance, PTL DEF Spec
=============================================================================
