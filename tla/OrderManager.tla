---------------------------- MODULE OrderManager ----------------------------
(***************************************************************************)
(* The order manager of one market (connector/order_manager.py), the Redis *)
(* state it keeps (amm:orders, amm:intent, the pending-sell fields of      *)
(* amm:inventory) and the exchange it talks to.                            *)
(*                                                                         *)
(* One coroutine runs execute_intents or cancel_all at a time; every await *)
(* is a step boundary, so fills, lost replies, Redis errors, the expiry of *)
(* a dedupe mark, a signal and a crash can come between any two of them.   *)
(*                                                                         *)
(* An order is named by the number of the request that created it: each    *)
(* submission carries a fresh client_order_id and the exchange creates at  *)
(* most one order for it.  The fields of an ActiveOrder are those of its   *)
(* request and are never updated, so a copy of an order is its number.     *)
(***************************************************************************)
EXTENDS Naturals, Sequences, FiniteSets, FiniteSetsExt, SequencesExt

CONSTANTS
    Keys,         \* the (side, direction, price_cents) triples in use
    Quantities,   \* the quantities in use
    IntentLists,  \* the lists of intents a quote cycle may ask for
    MaxOrders,    \* bound: number of submissions in a behaviour
    Faults        \* the kinds of fault that may occur

Sides == {"YES", "NO"}
Directions == {"SELL", "BUY"}
Actions == {"PLACE", "REPLACE"}

FaultKinds == {"api",     \* a call to the exchange times out or answers 5xx
               "redis",   \* a Redis command raises
               "expire",  \* a dedupe mark outlives its 300 s
               "exit",    \* a signal, or a dead background task, ends the bot
               "crash"}   \* the process dies

Intent == [action : Actions, key : Keys, qty : Quantities]

ASSUME KeysAssumption ==
    Keys \subseteq Sides \X Directions \X Nat
ASSUME QuantitiesAssumption == Quantities \subseteq Nat \ {0}
ASSUME IntentListsAssumption == IntentLists \subseteq Seq(Intent)
ASSUME MaxOrdersAssumption == MaxOrders \in Nat
ASSUME FaultsAssumption == Faults \subseteq FaultKinds

Ids == 1 .. MaxOrders
NoOrder == 0

VARIABLES
    req,       \* exchange: the n-th submission, as the task that caused it
    status,    \* exchange: what became of the n-th submission
    active,    \* memory: OrderManager.active_orders
    heldKeys,  \* memory: the keys of active_keys, as the cycle found them
    toCancel,  \* memory: what is left of to_cancel
    plan,      \* memory: the intents still to place, with replace targets
    pc,        \* memory: the await the coroutine stands at
    exiting,   \* memory: this cancel_all is the one of GracefulShutdown
    cached,    \* Redis: the fields of amm:orders:{market}
    marks,     \* Redis: the fingerprints that have an amm:intent key
    pending,   \* Redis: yes_pending_sell and no_pending_sell
    seen       \* history: the kinds of fault that have occurred

exchange == <<req, status>>
locals == <<heldKeys, toCancel, plan>>   \* of execute_intents
memory == <<active, locals, pc, exiting>>
redis == <<cached, marks, pending>>
vars == <<req, status, active, heldKeys, toCancel, plan, pc,
          exiting, cached, marks, pending, seen>>

Statuses == {"sent", "live", "refused", "gone"}

Places == {"down", "load", "idle", "cycle", "uncache", "send", "await",
           "uncacheOld", "record", "unmark", "failed",
           "batchCancel", "syncAll", "clearAll"}

\* An intent with the order it is to replace; the intent is the fingerprint.
Task == [intent : Intent, old : Ids \cup {NoOrder}]

TypeOK ==
    /\ req \in Seq(Task)
    /\ status \in Seq(Statuses)
    /\ Len(status) = Len(req) /\ Len(req) <= MaxOrders
    /\ active \subseteq DOMAIN req
    /\ heldKeys \subseteq Keys
    /\ toCancel \subseteq DOMAIN req
    /\ plan \in Seq(Task)
    /\ pc \in Places
    /\ exiting \in BOOLEAN
    /\ cached \subseteq DOMAIN req
    /\ marks \subseteq Intent
    /\ DOMAIN pending = Sides
    /\ seen \subseteq Faults

-----------------------------------------------------------------------------
Live == {o \in DOMAIN status : status[o] = "live"}
Accepted == {o \in DOMAIN status : status[o] \in {"live", "gone"}}
Latest == Len(req)   \* the submission the coroutine made last

KeyOf(o) == req[o].intent.key

\* _find_replace_target: the order the intent names if it is still active,
\* else the only active order on the same side and direction.
SameBook(k, l) == k[1] = l[1] /\ k[2] = l[2]

FindReplaceTarget(intent, old) ==
    LET matches == {o \in active : SameBook(KeyOf(o), intent.key)}
    IN  IF old \in active THEN old
        ELSE IF \E o \in active : matches = {o}
             THEN CHOOSE o \in active : matches = {o}
             ELSE NoOrder

\* active_keys: one order per key, the one inserted last.  (A Redis hash of
\* this size keeps insertion order, so that is also the order of a reload.)
ActiveKeys == {KeyOf(o) : o \in active}
LastOfItsKey ==
    {o \in active : \A p \in active : KeyOf(p) = KeyOf(o) => p <= o}

\* get_pending_sells.
SellsOf(orders, side) ==
    {o \in orders : KeyOf(o)[1] = side /\ KeyOf(o)[2] = "SELL"}
Quantity(orders) ==
    SumFunctionOnSet([o \in DOMAIN req |-> req[o].intent.qty], orders)
PendingSells(orders) ==
    [side \in Sides |-> Quantity(SellsOf(orders, side))]

\* A step that needs a fault of this kind, and one that needs none.
Fault(kind) == kind \in Faults /\ seen' = seen \cup {kind}
NoFault == UNCHANGED seen

\* execute_intents is over: it returned, or an exception left it.
ForgetLocals == heldKeys' = {} /\ toCancel' = {} /\ plan' = <<>>

-----------------------------------------------------------------------------
Init ==
    /\ req = <<>> /\ status = <<>>
    /\ active = {} /\ heldKeys = {} /\ toCancel = {} /\ plan = <<>>
    /\ pc = "down" /\ exiting = FALSE
    /\ cached = {} /\ marks = {} /\ pending = [side \in Sides |-> 0]
    /\ seen = {}

(***************************************************************************)
(* The exchange.                                                           *)
(***************************************************************************)
SetStatus(o, s) == status' = [status EXCEPT ![o] = s]

\* A submission that arrives is accepted; a replacement closes the old order
\* in the same transaction, and needs it to be untouched.
ExchangeAccept(o) ==
    /\ status[o] = "sent"
    /\ IF req[o].old = NoOrder
       THEN SetStatus(o, "live")
       ELSE /\ req[o].old \in Live
            /\ status' = [status EXCEPT ![o] = "live", ![req[o].old] = "gone"]
    /\ UNCHANGED <<req, memory, redis, seen>>

\* ... or refused, in an error or in a reply without order_id.  Refusing to
\* replace a partially filled order still cancels the rest of it.
ExchangeRefuse(o) ==
    /\ status[o] = "sent"
    /\ \/ SetStatus(o, "refused")
       \/ /\ req[o].old \in Live
          /\ status' =
                [status EXCEPT ![o] = "refused", ![req[o].old] = "gone"]
    /\ UNCHANGED <<req, memory, redis, seen>>

\* An order is filled; nothing tells the order manager.
ExchangeFill(o) ==
    /\ status[o] = "live"
    /\ SetStatus(o, "gone")
    /\ UNCHANGED <<req, memory, redis, seen>>

(***************************************************************************)
(* execute_intents.                                                        *)
(***************************************************************************)
Tasks(intents, olds) ==
    [i \in DOMAIN intents |->
        [intent |-> intents[i],
         old |-> IF intents[i].action = "REPLACE"
                 THEN FindReplaceTarget(intents[i], olds[i]) ELSE NoOrder]]

\* The diff of the wanted intents against active_orders, taken once: active
\* orders on no wanted key and with no replacement are to be cancelled.
StartCycle(intents, olds) ==
    LET tasks   == Tasks(intents, olds)
        wanted  == {intents[i].key : i \in DOMAIN intents}
        targets == {tasks[i].old : i \in DOMAIN tasks}
    IN  /\ pc = "idle"
        /\ Len(req) + Len(intents) <= MaxOrders
        /\ toCancel' = {o \in LastOfItsKey :
                            KeyOf(o) \notin wanted /\ o \notin targets}
        /\ heldKeys' = ActiveKeys
        /\ plan' = tasks
        /\ pc' = "cycle"
        /\ NoFault /\ UNCHANGED <<exchange, active, exiting, redis>>

\* The next order of to_cancel; the loop follows the dictionary's order.
Doomed == Min(toCancel)

CancelOrder ==
    /\ pc = "cycle" /\ toCancel # {}
    /\ Doomed \in Live /\ SetStatus(Doomed, "gone")
    /\ active' = active \ {Doomed}
    /\ pc' = "uncache"
    /\ NoFault /\ UNCHANGED <<req, locals, exiting, redis>>

\* Mutation: a cancel that fails is tried again until it succeeds.
CancelOrderRetries ==
    /\ pc = "cycle" /\ toCancel # {}
    /\ \/ Doomed \notin Live /\ NoFault /\ UNCHANGED status
       \/ Doomed \in Live /\ Fault("api") /\ UNCHANGED status
       \/ Doomed \in Live /\ Fault("api") /\ SetStatus(Doomed, "gone")
    /\ UNCHANGED <<req, active, locals, pc, exiting, redis>>

\* cancel_order raises: the order is no longer open (4006), or the call
\* fails after its retries and may have taken effect.  The loop goes on.
CancelOrderFails ==
    /\ pc = "cycle" /\ toCancel # {}
    /\ \/ Doomed \notin Live /\ NoFault /\ UNCHANGED status
       \/ Doomed \in Live /\ Fault("api") /\ UNCHANGED status
       \/ Doomed \in Live /\ Fault("api") /\ SetStatus(Doomed, "gone")
    /\ toCancel' = toCancel \ {Doomed}
    /\ UNCHANGED <<req, active, heldKeys, plan, pc, exiting, redis>>

\* order_cache.delete_order; its failure is swallowed with the others.
Uncache ==
    /\ pc = "uncache"
    /\ \/ NoFault /\ cached' = cached \ {Doomed}
       \/ Fault("redis") /\ UNCHANGED cached
    /\ toCancel' = toCancel \ {Doomed}
    /\ pc' = "cycle"
    /\ UNCHANGED <<exchange, active, heldKeys, plan, exiting, marks, pending>>

\* The loop over the intents, at its first one.
AtIntent == pc = "cycle" /\ toCancel = {} /\ plan # <<>>
Fingerprint == Head(plan).intent

\* Mutation: an intent is held only by an order of the same quantity.
IntentIsHeld == Fingerprint \in {req[o].intent : o \in active}

KeyIsHeld == Fingerprint.key \in heldKeys

\* A key that had an order when the cycle began is left as it is.
SkipHeldKey ==
    /\ AtIntent /\ KeyIsHeld
    /\ plan' = Tail(plan)
    /\ NoFault
    /\ UNCHANGED <<exchange, active, heldKeys, toCancel, pc, exiting, redis>>

Placing == AtIntent /\ ~KeyIsHeld

\* Mutation: SET without NX.
MarkWithoutNX ==
    /\ Placing
    /\ marks' = marks \cup {Fingerprint}
    /\ pc' = "send"
    /\ NoFault
    /\ UNCHANGED <<exchange, active, locals, exiting, cached, pending>>

\* mark_order_submission: SET NX.
Mark ==
    /\ Placing /\ Fingerprint \notin marks
    /\ marks' = marks \cup {Fingerprint}
    /\ pc' = "send"
    /\ NoFault
    /\ UNCHANGED <<exchange, active, locals, exiting, cached, pending>>

SkipDuplicate ==
    /\ Placing /\ Fingerprint \in marks
    /\ plan' = Tail(plan)
    /\ NoFault
    /\ UNCHANGED <<exchange, active, heldKeys, toCancel, pc, exiting, redis>>

\* place_order or replace_order puts the request on the wire.
Submit ==
    /\ pc = "send"
    /\ req' = Append(req, Head(plan))
    /\ status' = Append(status, "sent")
    /\ pc' = "await"
    /\ NoFault
    /\ UNCHANGED <<active, locals, exiting, redis>>

\* The reply carries an order_id: memory first, then Redis.
ReplyAccepted ==
    /\ pc = "await" /\ Latest \in Accepted
    /\ active' = (active \ {req[Latest].old}) \cup {Latest}
    /\ pc' = IF req[Latest].old = NoOrder THEN "record" ELSE "uncacheOld"
    /\ NoFault
    /\ UNCHANGED <<exchange, locals, exiting, redis>>

\* The reply carries none, or the call raises.  A call that fails may still
\* be executed, before or after.
ReplyFails ==
    /\ pc = "await"
    /\ \/ status[Latest] = "refused" /\ NoFault
       \/ Fault("api")
    /\ pc' = "unmark"
    /\ UNCHANGED <<exchange, active, locals, exiting, redis>>

\* clear_order_submission, in the handler of the failed submission.
Unmark ==
    /\ pc = "unmark"
    /\ marks' = marks \ {Fingerprint}
    /\ plan' = Tail(plan)
    /\ pc' = "cycle"
    /\ NoFault
    /\ UNCHANGED <<exchange, active, heldKeys, toCancel, exiting>>
    /\ UNCHANGED <<cached, pending>>

\* Mutation: a replacement leaves the old order in Redis.
KeepOldCached ==
    /\ pc = "uncacheOld"
    /\ pc' = "record"
    /\ NoFault
    /\ UNCHANGED <<exchange, active, locals, exiting, redis>>

UncacheOld ==
    /\ pc = "uncacheOld"
    /\ cached' = cached \ {req[Latest].old}
    /\ pc' = "record"
    /\ NoFault
    /\ UNCHANGED <<exchange, active, locals, exiting, marks, pending>>

\* Mutations: a replacement is not written to Redis; a wrong id is.
RecordPlacesOnly ==
    /\ pc = "record"
    /\ cached' = cached \cup {o \in {Latest} : req[o].old = NoOrder}
    /\ plan' = Tail(plan)
    /\ pc' = "cycle"
    /\ NoFault
    /\ UNCHANGED <<exchange, active, heldKeys, toCancel, exiting>>
    /\ UNCHANGED <<marks, pending>>

RecordNextId ==
    /\ pc = "record"
    /\ cached' = cached \cup {Latest + 1}
    /\ plan' = Tail(plan)
    /\ pc' = "cycle"
    /\ NoFault
    /\ UNCHANGED <<exchange, active, heldKeys, toCancel, exiting>>
    /\ UNCHANGED <<marks, pending>>

Record ==
    /\ pc = "record"
    /\ cached' = cached \cup {Latest}
    /\ plan' = Tail(plan)
    /\ pc' = "cycle"
    /\ NoFault
    /\ UNCHANGED <<exchange, active, heldKeys, toCancel, exiting>>
    /\ UNCHANGED <<marks, pending>>

\* set_order raises after a plain place, executed or not: the handler of a
\* failed placement runs although the order was accepted.
RecordFails ==
    /\ pc = "record" /\ req[Latest].old = NoOrder
    /\ Fault("redis")
    /\ cached' \in {cached, cached \cup {Latest}}
    /\ pc' = "unmark"
    /\ UNCHANGED <<exchange, active, locals, exiting, marks, pending>>

\* Any other Redis error in execute_intents is not caught: the market's task
\* ends with the exception.  A command that was executed before it raised is
\* its own step followed by this one, so "send" is among the places.
RedisError ==
    /\ \/ Placing
       \/ pc = "cycle" /\ toCancel = {} /\ plan = <<>>
       \/ pc \in {"send", "unmark", "uncacheOld"}
       \/ pc = "record" /\ req[Latest].old # NoOrder
    /\ Fault("redis")
    /\ pc' = "failed" /\ ForgetLocals
    /\ UNCHANGED <<exchange, active, exiting, redis>>

\* Mutation: the counters are synchronised before the last placement.
EndCycleEarly ==
    /\ pc = "cycle" /\ toCancel = {} /\ plan = <<>>
    /\ pending' = PendingSells(active \ {Latest})
    /\ pc' = "idle"
    /\ NoFault
    /\ ForgetLocals
    /\ UNCHANGED <<exchange, active, exiting, cached, marks>>

\* _sync_pending_sell ends the cycle, and with it the local variables.
EndCycle ==
    /\ pc = "cycle" /\ toCancel = {} /\ plan = <<>>
    /\ pending' = PendingSells(active)
    /\ pc' = "idle"
    /\ NoFault
    /\ ForgetLocals
    /\ UNCHANGED <<exchange, active, exiting, cached, marks>>

(***************************************************************************)
(* cancel_all: on KILL_SWITCH and winding down (the task goes on, or dies  *)
(* of the error) and in GracefulShutdown (errors are logged, the bot ends).*)
(***************************************************************************)
KillSwitch ==
    /\ pc = "idle"
    /\ pc' = "batchCancel"
    /\ NoFault
    /\ UNCHANGED <<exchange, active, locals, exiting, redis>>

\* A signal cancels the task at whatever await it stands; a task that has
\* failed waits for the end of the others.  Then GracefulShutdown runs.
Shutdown ==
    /\ pc \notin {"down", "load"} /\ ~exiting
    /\ IF pc = "failed" THEN NoFault ELSE Fault("exit")
    /\ pc' = "batchCancel" /\ exiting' = TRUE
    /\ ForgetLocals
    /\ UNCHANGED <<exchange, active, redis>>

\* What follows the await: in GracefulShutdown the end of the process.
EndProcess ==
    pc' = "down" /\ exiting' = FALSE /\ active' = {}

BatchCancel ==
    /\ pc = "batchCancel"
    /\ status' = [o \in DOMAIN status |->
                    IF status[o] = "live" THEN "gone" ELSE status[o]]
    /\ active' = {}
    /\ pc' = "syncAll"
    /\ NoFault
    /\ UNCHANGED <<req, locals, exiting, redis>>

\* Mutation: active_orders is cleared in a finally block.
BatchCancelForgets ==
    /\ pc = "batchCancel"
    /\ Fault("api")
    /\ \/ UNCHANGED status
       \/ status' = [o \in DOMAIN status |->
                        IF status[o] = "live" THEN "gone" ELSE status[o]]
    /\ active' = {}
    /\ \/ exiting /\ pc' = "down" /\ exiting' = FALSE
       \/ ~exiting /\ pc' \in {"idle", "failed"} /\ UNCHANGED exiting
    /\ UNCHANGED <<req, locals, redis>>

\* Mutation: a batch cancel that fails is taken for one that succeeded.
BatchCancelSwallows ==
    /\ pc = "batchCancel"
    /\ Fault("api")
    /\ pc' = "syncAll"
    /\ UNCHANGED <<exchange, active, locals, exiting, redis>>

BatchCancelFails ==
    /\ pc = "batchCancel"
    /\ Fault("api")
    /\ \/ UNCHANGED status
       \/ status' = [o \in DOMAIN status |->
                        IF status[o] = "live" THEN "gone" ELSE status[o]]
    /\ \/ exiting /\ EndProcess
       \/ /\ ~exiting /\ pc' \in {"idle", "failed"}
          /\ UNCHANGED <<active, exiting>>
    /\ UNCHANGED <<req, locals, redis>>

SyncAll ==
    /\ pc = "syncAll"
    /\ pending' = PendingSells(active)
    /\ pc' = "clearAll"
    /\ NoFault
    /\ UNCHANGED <<exchange, active, locals, exiting, cached, marks>>

ClearAll ==
    /\ pc = "clearAll"
    /\ cached' = {}
    /\ \/ exiting /\ EndProcess
       \/ ~exiting /\ pc' = "idle" /\ UNCHANGED <<active, exiting>>
    /\ NoFault
    /\ UNCHANGED <<exchange, locals, marks, pending>>

CancelAllRedisError ==
    /\ pc \in {"syncAll", "clearAll"}
    /\ Fault("redis")
    /\ \/ exiting /\ EndProcess
       \/ ~exiting /\ pc' = "failed" /\ UNCHANGED <<active, exiting>>
    /\ UNCHANGED <<exchange, locals, redis>>

(***************************************************************************)
(* The process and Redis.                                                  *)
(***************************************************************************)
Crash ==
    /\ pc # "down"
    /\ Fault("crash")
    /\ EndProcess
    /\ ForgetLocals
    /\ UNCHANGED <<exchange, redis>>

\* AMMInitializer writes the inventory with nothing pending ...
Boot ==
    /\ pc = "down"
    /\ pending' = [side \in Sides |-> 0]
    /\ pc' = "load"
    /\ NoFault
    /\ UNCHANGED <<exchange, active, locals, exiting, cached, marks>>

\* ... and load_from_cache restores the orders from Redis,
LoadFromCache ==
    /\ pc = "load"
    /\ active' = cached
    /\ pending' = PendingSells(cached)
    /\ pc' = "idle"
    /\ NoFault
    /\ UNCHANGED <<exchange, locals, exiting, cached, marks>>

\* or raises at one of its two commands: the bot starts without orders.
LoadFails ==
    /\ pc = "load"
    /\ Fault("redis")
    /\ active' = {}
    /\ pending' \in {pending, PendingSells(cached)}
    /\ pc' = "idle"
    /\ UNCHANGED <<exchange, locals, exiting, cached, marks>>

ExpireMark(fingerprint) ==
    /\ fingerprint \in marks
    /\ Fault("expire")
    /\ marks' = marks \ {fingerprint}
    /\ UNCHANGED <<exchange, memory, cached, pending>>

-----------------------------------------------------------------------------
Exchange ==
    \E o \in DOMAIN status :
        ExchangeAccept(o) \/ ExchangeRefuse(o) \/ ExchangeFill(o)

\* The names a caller may give in old_order_id.
Olds(intents) == [DOMAIN intents -> {NoOrder} \cup DOMAIN req]

Start == \E intents \in IntentLists :
            \E olds \in Olds(intents) : StartCycle(intents, olds)

\* The steps of execute_intents and cancel_all once begun.
Work ==
    \/ CancelOrder \/ CancelOrderFails \/ Uncache
    \/ SkipHeldKey \/ Mark \/ SkipDuplicate \/ Submit
    \/ ReplyAccepted \/ ReplyFails \/ Unmark \/ UncacheOld
    \/ Record \/ RecordFails \/ RedisError \/ EndCycle
    \/ BatchCancel \/ BatchCancelFails \/ SyncAll \/ ClearAll
    \/ CancelAllRedisError

Next ==
    \/ Exchange \/ Start \/ Work
    \/ KillSwitch \/ Shutdown \/ Crash \/ Boot \/ LoadFromCache \/ LoadFails
    \/ \E fingerprint \in marks : ExpireMark(fingerprint)

Spec == Init /\ [][Next]_vars

\* Every await of the coroutine ends: the HTTP client has a timeout and Redis
\* answers or raises; run_market starts the next cycle after a sleep.
\* Nothing is assumed of the exchange ...
FairSpec == /\ Spec
            /\ WF_vars(Work) /\ WF_vars(Start)
            /\ WF_vars(Boot) /\ WF_vars(LoadFromCache)

\* ... except, where no call may fail, that it answers.
AnsweringSpec ==
    /\ FairSpec
    /\ WF_vars(\E o \in DOMAIN status : ExchangeAccept(o) \/ ExchangeRefuse(o))

-----------------------------------------------------------------------------
(***************************************************************************)
(* Properties.                                                             *)
(***************************************************************************)
Unseen(kinds) == seen \cap kinds = {}

\* The dedupe mark (inventory_cache.py:103) does what it is for, across
\* crashes and restarts at any await: no intent is submitted a second time
\* while a first submission of it has not been refused, unless a mark
\* expired, a call failed undecided or Redis raised.
NoDuplicateSubmission ==
    Unseen({"api", "redis", "expire"}) =>
        \A m, n \in DOMAIN req :
            /\ m # n
            /\ req[m].intent = req[n].intent
            => status[m] = "refused" \/ status[n] = "refused"

\* active_orders only ever forgets an order that has left the book: a cancel,
\* a replacement or cancel_all that failed or was only sent removes nothing.
\* Only the end of the process loses the rest.
ForgetsOnlyDeadOrders ==
    [][\A o \in active \ active' : pc' # "down" => status'[o] # "live"]_vars

\* The order manager is an order registry (OrderRegistry): active_orders and
\* amm:orders give up an order only when it can no longer trade, whatever
\* fails, only accepted orders enter them, Redis learns from memory, and a
\* restart knows what Redis knew.
Registry == INSTANCE OrderRegistry
            WITH book <- status, known <- active, durable <- cached
ImplementsRegistry == Registry!Spec

\* Between cycles the order manager knows every order it has on the book, in
\* memory and in Redis, if nothing failed or interrupted it on the way.
KnowsItsBook ==
    (pc = "idle" /\ Unseen({"api", "redis", "crash", "exit"})) =>
        Live \subseteq active \cap cached

\* Between cycles memory, amm:orders and the pending-sell counters are copies
\* of each other, through failed calls, crashes and restarts, as long as no
\* Redis command raises.
CopiesAgree ==
    (pc = "idle" /\ Unseen({"redis"})) =>
        cached = active /\ pending = PendingSells(active)

\* yes_available = volume - yes_pending_sell never offers a share that a
\* resting sell order already offers: between cycles the counter covers the
\* live sell orders, however many of the tracked ones have been filled.
PendingCoversTheBook ==
    (pc = "idle" /\ Unseen({"api", "redis", "crash", "exit"})) =>
        \A side \in Sides : pending[side] >= Quantity(SellsOf(Live, side))

\* One order per (side, direction, price): active_keys, which keeps one order
\* id per key, hides no order from the diff, though marks may have expired.
OneOrderPerKey ==
    Unseen({"api", "redis", "crash", "exit"}) =>
        \A m, n \in active : KeyOf(m) = KeyOf(n) => m = n

\* A begun cycle or cancel_all ends, even if no cancel ever succeeds: the
\* market returns to idle, or its task or the process is over.
CyclesEnd ==
    pc \notin {"idle", "failed", "down"} ~> pc \in {"idle", "failed", "down"}

\* AMM_Bot_Design/02_AMM_接口与事件流契约_v1.0.md:1008: an order that was
\* filled or cancelled is deleted from amm:orders.
DeadOrdersLeaveTheCache ==
    \A o \in 1 .. MaxOrders :
        (o \in cached /\ o \notin Live) ~> (o \notin cached)
=============================================================================
