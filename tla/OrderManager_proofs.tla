------------------------ MODULE OrderManager_proofs ------------------------
(***************************************************************************)
(* Theorems about OrderManager, for every set of keys, quantities, intent  *)
(* lists and faults, and every number of submissions.                      *)
(***************************************************************************)
EXTENDS OrderManager, SequenceTheorems, SumTheorems, TLAPS

\* The awaits at which the submission of the first intent of plan is under way.
Submitted == {"await", "unmark", "uncacheOld", "record"}

(***************************************************************************)
(* The control invariant.  At each await of a placement the first intent   *)
(* of plan is the one being placed, once submitted it is the last          *)
(* submission; a replacement names an earlier submission; and a process    *)
(* that has not loaded its orders has none.                                *)
(***************************************************************************)
Shape ==
    /\ pc \in Submitted \cup {"send"} => plan # <<>>
    /\ pc \in Submitted => req # <<>> /\ req[Latest] = Head(plan)
    /\ Len(req) + Len(plan) <= IF pc \in Submitted THEN MaxOrders + 1 ELSE MaxOrders
    /\ \A i \in DOMAIN plan : plan[i].old \in DOMAIN req \cup {NoOrder}
    /\ pc \in {"down", "load"} => active = {}

-----------------------------------------------------------------------------
(* Sequences. *)

LEMMA MappedSeq ==
    ASSUME NEW T, NEW n \in Nat, NEW f \in [1 .. n -> T]
    PROVE  f \in Seq(T) /\ Len(f) = n /\ DOMAIN f = 1 .. n
BY SeqDef

LEMMA TypedLengths ==
    ASSUME TypeOK
    PROVE  /\ Len(req) \in Nat /\ Len(req) <= MaxOrders
           /\ DOMAIN req = 1 .. Len(req) /\ DOMAIN status = 1 .. Len(req)
           /\ DOMAIN req \subseteq Ids
           /\ Len(plan) \in Nat /\ DOMAIN plan = 1 .. Len(plan)
           /\ Latest = Len(req)
           /\ req # <<>> => Latest \in DOMAIN req
<1>1. /\ Len(req) \in Nat /\ DOMAIN req = 1 .. Len(req)
      /\ DOMAIN status = 1 .. Len(status)
      /\ Len(plan) \in Nat /\ DOMAIN plan = 1 .. Len(plan)
      /\ Len(status) = Len(req) /\ Len(req) <= MaxOrders
  BY LenProperties DEF TypeOK
<1>2. req # <<>> => Len(req) >= 1
  BY EmptySeq DEF TypeOK
<1> QED BY <1>1, <1>2, MaxOrdersAssumption DEF Ids, Latest

-----------------------------------------------------------------------------
(***************************************************************************)
(* What a step may do to the exchange's view of the submissions.           *)
(***************************************************************************)
Evolves ==
    /\ req' = req
    /\ status' \in Seq(Statuses) /\ Len(status') = Len(status)
    /\ \A o \in DOMAIN status :
          \/ status'[o] = status[o]
          \/ status[o] = "sent" /\ status'[o] = "refused"
          \/ status[o] = "live" /\ status'[o] = "gone"
          \/ /\ status[o] = "sent" /\ status'[o] = "live"
             /\ req[o].old = NoOrder \/
                (req[o].old \in DOMAIN status /\ status'[req[o].old] = "gone")

LEMMA SetOne ==
    ASSUME TypeOK, NEW o \in DOMAIN status, NEW s \in Statuses
    PROVE  LET t == [status EXCEPT ![o] = s]
           IN  /\ t \in Seq(Statuses) /\ Len(t) = Len(status)
               /\ t[o] = s /\ \A p \in DOMAIN status \ {o} : t[p] = status[p]
<1>1. status \in Seq(Statuses) /\ DOMAIN status = 1 .. Len(status)
  BY LenProperties DEF TypeOK
<1>2. o \in 1 .. Len(status)
  BY <1>1
<1> QED BY <1>1, <1>2, ExceptSeq

LEMMA SetTwo ==
    ASSUME TypeOK, NEW o \in DOMAIN status, NEW s \in Statuses,
           NEW q \in DOMAIN status, NEW r \in Statuses, o # q,
           status' = [status EXCEPT ![o] = s, ![q] = r]
    PROVE  /\ status' \in Seq(Statuses) /\ Len(status') = Len(status)
           /\ status'[o] = s /\ status'[q] = r
           /\ \A p \in DOMAIN status \ {o, q} : status'[p] = status[p]
<1> DEFINE u == [status EXCEPT ![o] = s]
<1>1. /\ u \in Seq(Statuses) /\ Len(u) = Len(status)
      /\ u[o] = s /\ \A p \in DOMAIN status \ {o} : u[p] = status[p]
  BY SetOne
<1>2. DOMAIN status = 1 .. Len(status) /\ DOMAIN u = 1 .. Len(u)
  BY <1>1, LenProperties DEF TypeOK
<1>3. q \in 1 .. Len(u)
  BY <1>1, <1>2
<1> DEFINE t == [u EXCEPT ![q] = r]
<1>4. status' = t
  OBVIOUS
<1> HIDE DEF u
<1>5. /\ t \in Seq(Statuses) /\ Len(t) = Len(u)
      /\ \A j \in 1 .. Len(u) : t[j] = IF j = q THEN r ELSE u[j]
  BY <1>1, <1>3, ExceptSeq
<1> HIDE DEF t
<1> QED BY <1>1, <1>2, <1>4, <1>5

LEMMA NothingHappens ==
    ASSUME TypeOK, UNCHANGED exchange
    PROVE  Evolves
BY DEF TypeOK, Evolves, exchange

LEMMA OneCloses ==
    ASSUME TypeOK, NEW o \in Live, SetStatus(o, "gone"), UNCHANGED req
    PROVE  Evolves
<1>1. o \in DOMAIN status /\ status[o] = "live" /\ "gone" \in Statuses
  BY DEF Live, Statuses
<1> QED BY <1>1, SetOne DEF Evolves, SetStatus

LEMMA AllClose ==
    ASSUME TypeOK, UNCHANGED req,
           status' = [o \in DOMAIN status |->
                        IF status[o] = "live" THEN "gone" ELSE status[o]]
    PROVE  Evolves /\ \A o \in DOMAIN status : status'[o] # "live"
<1>1. Len(status) \in Nat /\ DOMAIN status = 1 .. Len(status)
      /\ \A o \in 1 .. Len(status) : status[o] \in Statuses
  BY LenProperties, ElementOfSeq DEF TypeOK
<1>2. status' \in [1 .. Len(status) -> Statuses]
  BY <1>1 DEF Statuses
<1>3. status' \in Seq(Statuses) /\ Len(status') = Len(status)
  BY <1>1, <1>2, MappedSeq
<1> QED BY <1>3 DEF Evolves

LEMMA ExchangeEvolves ==
    ASSUME TypeOK, Exchange
    PROVE  Evolves
<1>1. PICK o \in DOMAIN status :
            ExchangeAccept(o) \/ ExchangeRefuse(o) \/ ExchangeFill(o)
  BY DEF Exchange
<1>2. CASE ExchangeAccept(o)
  <2>1. CASE req[o].old = NoOrder
    <3>1. status[o] = "sent" /\ SetStatus(o, "live") /\ req' = req
      BY <1>2, <2>1 DEF ExchangeAccept
    <3> QED BY <2>1, <3>1, SetOne DEF Evolves, SetStatus, Statuses
  <2>2. CASE req[o].old # NoOrder
    <3>1. /\ status[o] = "sent" /\ req' = req
          /\ req[o].old \in DOMAIN status /\ status[req[o].old] = "live"
          /\ status' = [status EXCEPT ![o] = "live", ![req[o].old] = "gone"]
      BY <1>2, <2>2 DEF ExchangeAccept, Live
    <3> DEFINE q == req[o].old
    <3>2. /\ o # q /\ q \in DOMAIN status
          /\ "live" \in Statuses /\ "gone" \in Statuses
          /\ status' = [status EXCEPT ![o] = "live", ![q] = "gone"]
      BY <3>1 DEF Statuses
    <3> HIDE DEF q
    <3>3. /\ status' \in Seq(Statuses) /\ Len(status') = Len(status)
          /\ status'[o] = "live" /\ status'[q] = "gone"
          /\ \A p \in DOMAIN status \ {o, q} : status'[p] = status[p]
      BY <3>2, SetTwo
    <3> QED BY <3>1, <3>3 DEF Evolves, q
  <2> QED BY <2>1, <2>2
<1>3. CASE ExchangeRefuse(o)
  <2>1. CASE SetStatus(o, "refused")
    BY <1>3, <2>1, SetOne DEF ExchangeRefuse, Evolves, SetStatus, Statuses
  <2>2. CASE /\ req[o].old \in Live
             /\ status' = [status EXCEPT ![o] = "refused", ![req[o].old] = "gone"]
    <3>1. /\ status[o] = "sent" /\ req' = req
          /\ req[o].old \in DOMAIN status /\ status[req[o].old] = "live"
      BY <1>3, <2>2 DEF ExchangeRefuse, Live
    <3> DEFINE q == req[o].old
    <3>2. /\ o # q /\ q \in DOMAIN status
          /\ "refused" \in Statuses /\ "gone" \in Statuses
          /\ status' = [status EXCEPT ![o] = "refused", ![q] = "gone"]
      BY <2>2, <3>1 DEF Statuses
    <3> HIDE DEF q
    <3>3. /\ status' \in Seq(Statuses) /\ Len(status') = Len(status)
          /\ status'[o] = "refused" /\ status'[q] = "gone"
          /\ \A p \in DOMAIN status \ {o, q} : status'[p] = status[p]
      BY <3>2, SetTwo
    <3> QED BY <3>1, <3>3 DEF Evolves, q
  <2> QED BY <1>3, <2>1, <2>2 DEF ExchangeRefuse
<1>4. CASE ExchangeFill(o)
  BY <1>4, OneCloses DEF ExchangeFill, Live
<1> QED BY <1>1, <1>2, <1>3, <1>4

\* Only Submit adds a submission.
LEMMA StepEvolves ==
    ASSUME TypeOK, [Next]_vars
    PROVE  Evolves \/ Submit
<1>1. CASE Exchange
  BY <1>1, ExchangeEvolves
<1>2. CASE CancelOrder
  BY <1>2, OneCloses DEF CancelOrder
<1>3. CASE CancelOrderFails
  BY <1>3, OneCloses, NothingHappens DEF CancelOrderFails, exchange
<1>4. CASE BatchCancel
  BY <1>4, AllClose DEF BatchCancel
<1>5. CASE BatchCancelFails
  BY <1>5, AllClose, NothingHappens DEF BatchCancelFails, exchange
<1>6. CASE UNCHANGED exchange
  BY <1>6, NothingHappens
<1>7. ASSUME Next PROVE Exchange \/ CancelOrder \/ CancelOrderFails \/ Submit
            \/ BatchCancel \/ BatchCancelFails \/ UNCHANGED exchange
  BY <1>7 DEF Next, Work, Start, StartCycle, Uncache, SkipHeldKey, Mark,
     SkipDuplicate, ReplyAccepted, ReplyFails, Unmark, UncacheOld, Record,
     RecordFails, RedisError, EndCycle, SyncAll, ClearAll, CancelAllRedisError,
     KillSwitch, Shutdown, Crash, Boot, LoadFromCache, LoadFails, ExpireMark
<1> QED BY <1>1, <1>2, <1>3, <1>4, <1>5, <1>6, <1>7 DEF vars, exchange

-----------------------------------------------------------------------------
(* Type correctness and the control invariant. *)

LEMMA FirstOfPlan ==
    ASSUME TypeOK, plan # <<>>
    PROVE  /\ Head(plan) \in Task /\ Head(plan) = plan[1]
           /\ Fingerprint \in Intent
           /\ Len(plan) >= 1 /\ 1 \in DOMAIN plan
           /\ Tail(plan) \in Seq(Task) /\ Len(Tail(plan)) = Len(plan) - 1
           /\ \A i \in DOMAIN Tail(plan) :
                 i + 1 \in DOMAIN plan /\ Tail(plan)[i] = plan[i + 1]
<1>1. plan \in Seq(Task)
  BY DEF TypeOK
<1>2. /\ Head(plan) \in Task /\ Tail(plan) \in Seq(Task)
      /\ Len(Tail(plan)) = Len(plan) - 1
      /\ \A i \in 1 .. Len(Tail(plan)) : Tail(plan)[i] = plan[i + 1]
  BY <1>1, HeadTailProperties
<1>3. Len(plan) \in Nat \ {0}
  BY <1>1, EmptySeq
<1>4. DOMAIN plan = 1 .. Len(plan) /\ DOMAIN Tail(plan) = 1 .. Len(Tail(plan))
  BY <1>1, <1>2, LenProperties
<1>5. Head(plan) = plan[1]
  BY <1>1
<1>6. Fingerprint \in Intent
  BY <1>2 DEF Fingerprint, Task
<1>7. \A i \in DOMAIN Tail(plan) : i + 1 \in DOMAIN plan
  BY <1>2, <1>3, <1>4
<1> QED BY <1>2, <1>3, <1>4, <1>5, <1>6, <1>7

LEMMA TargetIsActive ==
    ASSUME NEW intent, NEW old
    PROVE  FindReplaceTarget(intent, old) \in active \cup {NoOrder}
BY DEF FindReplaceTarget

LEMMA StartTypes ==
    ASSUME TypeOK, Shape, Start
    PROVE  /\ heldKeys' \subseteq Keys /\ toCancel' \subseteq DOMAIN req
           /\ plan' \in Seq(Task)
           /\ \A i \in DOMAIN plan' : plan'[i].old \in DOMAIN req \cup {NoOrder}
           /\ Len(req) + Len(plan') <= MaxOrders
<1>1. PICK intents \in IntentLists : \E olds \in Olds(intents) :
            StartCycle(intents, olds)
  BY DEF Start
<1>2. PICK olds \in Olds(intents) : StartCycle(intents, olds)
  BY <1>1
<1>3. intents \in Seq(Intent)
  BY IntentListsAssumption
<1>4. /\ Len(intents) \in Nat /\ DOMAIN intents = 1 .. Len(intents)
      /\ \A i \in 1 .. Len(intents) : intents[i] \in Intent
  BY <1>3, LenProperties, ElementOfSeq
<1>5. /\ active \subseteq DOMAIN req /\ DOMAIN req \subseteq Ids
      /\ \A o \in DOMAIN req : req[o] \in Task
  BY TypedLengths, ElementOfSeq DEF TypeOK
<1> DEFINE tasks == Tasks(intents, olds)
<1>6. \A i \in 1 .. Len(intents) :
            tasks[i] \in Task /\ tasks[i].old \in DOMAIN req \cup {NoOrder}
  <2> TAKE i \in 1 .. Len(intents)
  <2> DEFINE old == IF intents[i].action = "REPLACE"
                    THEN FindReplaceTarget(intents[i], olds[i]) ELSE NoOrder
  <2>1. old \in DOMAIN req \cup {NoOrder}
    BY <1>5, TargetIsActive
  <2>2. tasks[i] = [intent |-> intents[i], old |-> old]
    BY <1>4 DEF Tasks
  <2> HIDE DEF old
  <2> QED BY <2>1, <2>2, <1>4, <1>5 DEF Task
<1>7. DOMAIN tasks = 1 .. Len(intents)
  BY <1>4 DEF Tasks
<1>8. tasks = [i \in 1 .. Len(intents) |-> tasks[i]]
  BY <1>4 DEF Tasks
<1>9. plan' = tasks /\ Len(req) + Len(intents) <= MaxOrders
      /\ heldKeys' = ActiveKeys /\ toCancel' \subseteq LastOfItsKey
  BY <1>2 DEF StartCycle
<1> HIDE DEF tasks
<1>10. tasks \in [1 .. Len(intents) -> Task]
  BY <1>6, <1>8
<1>11. tasks \in Seq(Task) /\ Len(tasks) = Len(intents)
  BY <1>4, <1>10, MappedSeq
<1>12. ActiveKeys \subseteq Keys /\ LastOfItsKey \subseteq DOMAIN req
  BY <1>5 DEF ActiveKeys, LastOfItsKey, KeyOf, Task, Intent
<1> QED BY <1>6, <1>7, <1>9, <1>11, <1>12

\* The part of the state that a submission which is not new leaves in type.
LEMMA EvolvesTypes ==
    ASSUME TypeOK, Evolves
    PROVE  /\ req' \in Seq(Task) /\ status' \in Seq(Statuses)
           /\ Len(status') = Len(req') /\ Len(req') <= MaxOrders
           /\ Latest' = Latest
BY DEF TypeOK, Evolves, Latest

LEMMA TypeShapeStep ==
    ASSUME TypeOK, Shape, [Next]_vars
    PROVE  TypeOK' /\ Shape'
<1> USE DEF NoFault, Fault, exchange, memory, locals, redis, ForgetLocals,
            EndProcess
<1>l. /\ Len(req) \in Nat /\ Len(req) <= MaxOrders
      /\ DOMAIN req = 1 .. Len(req) /\ Len(plan) \in Nat
      /\ Latest = Len(req) /\ (req # <<>> => Latest \in DOMAIN req)
  BY TypedLengths
<1>e. Len(<<>>) = 0 /\ <<>> \in Seq(Task) /\ DOMAIN <<>> = {}
  OBVIOUS
<1>m. MaxOrders \in Nat
  BY MaxOrdersAssumption
<1>1. CASE Exchange
  <2>1. UNCHANGED <<memory, redis, seen>>
    BY <1>1 DEF Exchange, ExchangeAccept, ExchangeRefuse, ExchangeFill
  <2>2. Evolves
    BY <1>1, ExchangeEvolves
  <2> QED BY <2>1, <2>2, EvolvesTypes DEF TypeOK, Shape, Evolves
<1>2. CASE Start
  <2>1. UNCHANGED <<exchange, active, exiting, redis, seen>> /\ pc' = "cycle"
    BY <1>2 DEF Start, StartCycle
  <2> QED BY <1>2, <2>1, StartTypes DEF TypeOK, Shape, Places, Submitted, Latest
<1>3. CASE CancelOrder
  <2>1. Evolves
    BY <1>3, OneCloses DEF CancelOrder
  <2> QED BY <1>3, <2>1, EvolvesTypes
      DEF CancelOrder, TypeOK, Shape, Places, Submitted, Evolves
<1>4. CASE CancelOrderFails
  <2>1. Evolves
    BY <1>4, OneCloses, NothingHappens DEF CancelOrderFails
  <2> QED BY <1>4, <2>1, EvolvesTypes
      DEF CancelOrderFails, TypeOK, Shape, Places, Submitted, Evolves
<1>5. CASE Uncache
  BY <1>5 DEF Uncache, TypeOK, Shape, Places, Submitted, Latest
<1>6. CASE SkipHeldKey \/ SkipDuplicate
  <2>1. /\ pc = "cycle" /\ plan # <<>> /\ plan' = Tail(plan)
        /\ UNCHANGED <<exchange, active, heldKeys, toCancel, pc, exiting>>
        /\ UNCHANGED <<redis, seen>>
    BY <1>6 DEF SkipHeldKey, SkipDuplicate, Placing, AtIntent
  <2>2. /\ Tail(plan) \in Seq(Task) /\ Len(Tail(plan)) = Len(plan) - 1
        /\ \A i \in DOMAIN Tail(plan) :
                i + 1 \in DOMAIN plan /\ Tail(plan)[i] = plan[i + 1]
    BY <2>1, FirstOfPlan
  <2>3. TypeOK'
    BY <2>1, <2>2 DEF TypeOK
  <2>4. Len(req') + Len(plan') <= MaxOrders
    BY <2>1, <2>2, <1>l, <1>m DEF Shape, Submitted
  <2>5. \A i \in DOMAIN plan' : plan'[i].old \in DOMAIN req' \cup {NoOrder}
    BY <2>1, <2>2 DEF Shape
  <2> QED BY <2>1, <2>3, <2>4, <2>5 DEF Shape, Submitted
<1>7. CASE Mark
  BY <1>7, FirstOfPlan
  DEF Mark, Placing, AtIntent, TypeOK, Shape, Places, Submitted, Latest
<1>8. CASE Submit
  <2>1. plan # <<>> /\ Len(req) + Len(plan) <= MaxOrders
    BY <1>8 DEF Submit, Shape, Submitted
  <2>2. Head(plan) \in Task /\ Len(plan) >= 1 /\ Head(plan).old \in DOMAIN req \cup {NoOrder}
    BY <2>1, FirstOfPlan DEF Shape
  <2>3. /\ req' \in Seq(Task) /\ Len(req') = Len(req) + 1 /\ req' # <<>>
        /\ req'[Len(req) + 1] = Head(plan)
    BY <1>8, <2>2, AppendProperties DEF Submit, TypeOK
  <2>4. /\ status' \in Seq(Statuses) /\ Len(status') = Len(req) + 1
    BY <1>8, AppendProperties DEF Submit, TypeOK, Statuses
  <2>5. DOMAIN req' = 1 .. Len(req) + 1
    BY <2>3, LenProperties
  <2>6. /\ Len(req') <= MaxOrders /\ DOMAIN req \subseteq DOMAIN req'
        /\ Len(req') + Len(plan') <= MaxOrders + 1
    BY <1>8, <2>1, <2>2, <2>3, <2>5, <1>l, <1>m DEF Submit
  <2>7. UNCHANGED <<active, locals, exiting, redis, seen>> /\ pc' = "await"
    BY <1>8 DEF Submit
  <2>8. TypeOK'
    BY <2>3, <2>4, <2>5, <2>6, <2>7 DEF TypeOK, Places
  <2>9. Shape'
    BY <2>1, <2>3, <2>6, <2>7 DEF Shape, Submitted, Latest
  <2> QED BY <2>8, <2>9
<1>9. CASE ReplyAccepted
  BY <1>9, <1>l DEF ReplyAccepted, TypeOK, Shape, Places, Submitted, Latest
<1>10. CASE ReplyFails
  BY <1>10 DEF ReplyFails, TypeOK, Shape, Places, Submitted, Latest
<1>11. CASE Unmark
  BY <1>11, <1>l, FirstOfPlan, <1>m
  DEF Unmark, TypeOK, Shape, Places, Submitted, Latest
<1>12. CASE UncacheOld
  BY <1>12 DEF UncacheOld, TypeOK, Shape, Places, Submitted, Latest
<1>13. CASE Record
  BY <1>13, <1>l, FirstOfPlan, <1>m
  DEF Record, TypeOK, Shape, Places, Submitted, Latest
<1>14. CASE RecordFails
  BY <1>14, <1>l DEF RecordFails, TypeOK, Shape, Places, Submitted, Latest
<1>15. CASE RedisError
  BY <1>15, <1>l, <1>e, <1>m DEF RedisError, TypeOK, Shape, Places, Submitted, Latest
<1>16. CASE EndCycle
  BY <1>16, <1>l, <1>e DEF EndCycle, PendingSells, TypeOK, Shape, Places, Submitted, Latest
<1>17. CASE BatchCancel
  <2>1. Evolves
    BY <1>17, AllClose DEF BatchCancel
  <2> QED BY <1>17, <2>1, EvolvesTypes
      DEF BatchCancel, TypeOK, Shape, Places, Submitted, Evolves
<1>18. CASE BatchCancelFails
  <2>1. Evolves
    BY <1>18, AllClose, NothingHappens DEF BatchCancelFails
  <2> QED BY <1>18, <2>1, EvolvesTypes
      DEF BatchCancelFails, TypeOK, Shape, Places, Submitted, Evolves
<1>19. CASE SyncAll
  BY <1>19 DEF SyncAll, PendingSells, TypeOK, Shape, Places, Submitted, Latest
<1>20. CASE ClearAll \/ CancelAllRedisError
  BY <1>20 DEF ClearAll, CancelAllRedisError, TypeOK, Shape, Places, Submitted, Latest
<1>21. CASE KillSwitch
  BY <1>21 DEF KillSwitch, TypeOK, Shape, Places, Submitted, Latest
<1>22. CASE Shutdown
  BY <1>22, <1>l, <1>e, <1>m DEF Shutdown, TypeOK, Shape, Places, Submitted, Latest
<1>23. CASE Crash
  <2>1. /\ pc' = "down" /\ exiting' = FALSE /\ active' = {} /\ ForgetLocals
        /\ UNCHANGED <<exchange, redis>> /\ seen' \subseteq Faults
    BY <1>23 DEF Crash, TypeOK
  <2>2. TypeOK'
    BY <2>1, <1>e DEF TypeOK, Places
  <2> QED BY <2>1, <2>2, <1>l, <1>e, <1>m DEF Shape, Submitted, Latest
<1>24. CASE Boot \/ LoadFromCache \/ LoadFails
  BY <1>24 DEF Boot, LoadFromCache, LoadFails, PendingSells, TypeOK, Shape,
               Places, Submitted, Latest
<1>25. CASE \E fingerprint \in marks : ExpireMark(fingerprint)
  BY <1>25 DEF ExpireMark, TypeOK, Shape, Latest
<1>26. CASE UNCHANGED vars
  BY <1>26 DEF vars, TypeOK, Shape, Latest
<1> QED
  BY <1>1, <1>2, <1>3, <1>4, <1>5, <1>6, <1>7, <1>8, <1>9, <1>10, <1>11, <1>12,
     <1>13, <1>14, <1>15, <1>16, <1>17, <1>18, <1>19, <1>20, <1>21, <1>22, <1>23,
     <1>24, <1>25, <1>26
  DEF Next, Work

LEMMA TypeShapeInit == Init => TypeOK /\ Shape
<1> SUFFICES ASSUME Init PROVE TypeOK /\ Shape
  OBVIOUS
<1>1. Len(<<>>) = 0 /\ DOMAIN <<>> = {} /\ <<>> \in Seq(Task) /\ <<>> \in Seq(Statuses)
  OBVIOUS
<1>2. TypeOK
  <2>1. req \in Seq(Task) /\ status \in Seq(Statuses) /\ plan \in Seq(Task)
    BY <1>1 DEF Init
  <2>2. Len(status) = Len(req) /\ Len(req) <= MaxOrders
    BY <1>1, MaxOrdersAssumption DEF Init
  <2>3. pc \in Places /\ exiting \in BOOLEAN /\ DOMAIN pending = Sides
    BY DEF Init, Places
  <2>4. /\ active = {} /\ toCancel = {} /\ cached = {}
        /\ heldKeys = {} /\ marks = {} /\ seen = {}
    BY DEF Init
  <2> QED BY <2>1, <2>2, <2>3, <2>4 DEF TypeOK
<1>3. Shape
  BY <1>1, MaxOrdersAssumption DEF Init, Shape, Submitted
<1> QED BY <1>2, <1>3

\* Type correctness of the order manager, its Redis state and the exchange.
THEOREM TypeCorrect == Spec => []TypeOK
<1>1. TypeOK /\ Shape /\ [Next]_vars => (TypeOK /\ Shape)'
  BY TypeShapeStep
<1> QED BY TypeShapeInit, <1>1, PTL DEF Spec

-----------------------------------------------------------------------------
(***************************************************************************)
(* active_orders forgets dead orders only.  A replacement removes the old  *)
(* order on the word of the reply, so what is needed of the exchange is    *)
(* that the order an accepted replacement names is closed.                 *)
(***************************************************************************)
ReplacedAreGone ==
    \A n \in DOMAIN req :
        req[n].old # NoOrder =>
            /\ req[n].old \in DOMAIN req
            /\ status[n] \in {"live", "gone"} => status[req[n].old] = "gone"

LEMMA ReplacedInit == Init => ReplacedAreGone
BY DEF Init, ReplacedAreGone

\* What Submit adds, and that it changes nothing else at the exchange.
LEMMA SubmitAppends ==
    ASSUME TypeOK, Shape, Submit
    PROVE  /\ plan # <<>> /\ Head(plan) \in Task
           /\ Head(plan).old \in DOMAIN req \cup {NoOrder}
           /\ Latest' = Len(req) + 1 /\ DOMAIN req' = DOMAIN req \cup {Latest'}
           /\ Latest' \notin DOMAIN req
           /\ req'[Latest'] = Head(plan) /\ status'[Latest'] = "sent"
           /\ \A n \in DOMAIN req : req'[n] = req[n] /\ status'[n] = status[n]
<1>1. plan # <<>>
  BY DEF Submit, Shape
<1>2. Head(plan) \in Task /\ Head(plan).old \in DOMAIN req \cup {NoOrder}
  BY <1>1, FirstOfPlan DEF Shape
<1>3. /\ req' \in Seq(Task) /\ Len(req') = Len(req) + 1
      /\ req'[Len(req) + 1] = Head(plan)
      /\ \A n \in 1 .. Len(req) : req'[n] = req[n]
  BY <1>2, AppendProperties DEF Submit, TypeOK
<1>4. /\ status'[Len(status) + 1] = "sent"
      /\ \A n \in 1 .. Len(status) : status'[n] = status[n]
  BY AppendProperties DEF Submit, TypeOK, Statuses
<1>5. /\ Len(req) \in Nat /\ Len(status) = Len(req) /\ DOMAIN req = 1 .. Len(req)
      /\ DOMAIN req' = 1 .. Len(req) + 1
  BY <1>3, TypedLengths, LenProperties DEF TypeOK
<1> QED BY <1>1, <1>2, <1>3, <1>4, <1>5 DEF Latest

LEMMA ReplacedStep ==
    ASSUME TypeOK, Shape, ReplacedAreGone, [Next]_vars
    PROVE  ReplacedAreGone'
<1>1. DOMAIN status = DOMAIN req
  BY TypedLengths
<1>2. CASE Evolves
  <2>1. DOMAIN req' = DOMAIN req
    BY <1>2 DEF Evolves
  <2> QED BY <1>1, <1>2, <2>1 DEF Evolves, ReplacedAreGone
<1>3. CASE Submit
  BY <1>1, <1>3, SubmitAppends DEF ReplacedAreGone
<1> QED BY <1>2, <1>3, StepEvolves

LEMMA ForgetsStep ==
    ASSUME TypeOK, Shape, ReplacedAreGone, [Next]_vars,
           NEW o \in active, o \notin active', pc' # "down"
    PROVE  status'[o] # "live"
<1> USE DEF memory
<1>1. CASE CancelOrder
  <2>1. o = Doomed /\ Doomed \in DOMAIN status /\ SetStatus(Doomed, "gone")
    BY <1>1 DEF CancelOrder, Live
  <2> QED BY <2>1, SetOne DEF SetStatus, Statuses
<1>2. CASE ReplyAccepted
  <2>1. /\ o = req[Latest].old /\ status[Latest] \in {"live", "gone"}
        /\ status' = status
    BY <1>2 DEF ReplyAccepted, Accepted, exchange
  <2>2. pc = "await"
    BY <1>2 DEF ReplyAccepted
  <2>3. Latest \in DOMAIN req /\ o \in DOMAIN req
    BY <2>2, TypedLengths DEF Shape, Submitted, TypeOK
  <2>4. 0 \notin DOMAIN req
    BY TypedLengths
  <2> QED BY <2>1, <2>3, <2>4 DEF ReplacedAreGone, NoOrder
<1>3. CASE BatchCancel
  BY <1>3, AllClose, TypedLengths DEF BatchCancel, TypeOK
<1>4. CASE active' = active \/ active = {} \/ EndProcess
  BY <1>4 DEF EndProcess
<1>5. ASSUME Next PROVE CancelOrder \/ ReplyAccepted \/ BatchCancel
                \/ active' = active \/ active = {} \/ EndProcess
  BY <1>5
  DEF Next, Work, Exchange, ExchangeAccept, ExchangeRefuse, ExchangeFill, Start,
      StartCycle, CancelOrderFails, Uncache, SkipHeldKey, Mark, SkipDuplicate,
      Submit, ReplyFails, Unmark, UncacheOld, Record, RecordFails, RedisError,
      EndCycle, BatchCancelFails, SyncAll, ClearAll, CancelAllRedisError,
      KillSwitch, Shutdown, Crash, Boot, LoadFromCache, LoadFails, ExpireMark,
      Shape
<1> QED BY <1>1, <1>2, <1>3, <1>4, <1>5 DEF vars

\* As long as the process lives, an order leaves active_orders only when it
\* has left the book, whatever fails.
THEOREM OnlyDeadOrdersAreForgotten == Spec => ForgetsOnlyDeadOrders
<1> DEFINE I == TypeOK /\ Shape /\ ReplacedAreGone
           A == \A o \in active \ active' : pc' # "down" => status'[o] # "live"
<1>1. Init => I
  BY TypeShapeInit, ReplacedInit
<1>2. I /\ [Next]_vars => I'
  BY TypeShapeStep, ReplacedStep
<1>3. I /\ [Next]_vars => [A]_vars
  BY ForgetsStep
<1> QED BY <1>1, <1>2, <1>3, PTL DEF Spec, ForgetsOnlyDeadOrders

-----------------------------------------------------------------------------
(***************************************************************************)
(* No intent is submitted twice.  The invariant says who holds a mark:     *)
(* every submission that is not refused does, and at the await where the   *)
(* mark is taken or given back, nobody else with the same fingerprint.     *)
(***************************************************************************)
Quiet == Unseen({"api", "redis", "expire"})

MarksHold ==
    /\ \A n \in DOMAIN req :
          status[n] # "refused" => req[n].intent \in marks
    /\ pc = "send" =>
          /\ Fingerprint \in marks
          /\ \A n \in DOMAIN req :
                req[n].intent = Fingerprint => status[n] = "refused"
    /\ pc \in {"await", "unmark"} =>
          \A n \in DOMAIN req \ {Latest} :
                req[n].intent = Fingerprint => status[n] = "refused"
    /\ pc = "unmark" => status[Latest] = "refused"

Distinct ==
    \A m, n \in DOMAIN req :
        /\ m # n
        /\ req[m].intent = req[n].intent
        => status[m] = "refused" \/ status[n] = "refused"

DInv == Quiet => MarksHold /\ Distinct

LEMMA DedupeInit == Init => DInv
BY DEF Init, DInv, MarksHold, Distinct

\* A step that submits nothing and returns no mark.
LEMMA DedupeKeeps ==
    ASSUME TypeOK, Evolves, MarksHold, Distinct, marks \subseteq marks',
           pc' \notin {"send", "await", "unmark"} \/ UNCHANGED <<pc, plan>>
    PROVE  MarksHold' /\ Distinct'
<1>1. DOMAIN status = DOMAIN req /\ DOMAIN req' = DOMAIN req /\ Latest' = Latest
  BY TypedLengths DEF Evolves, Latest
<1>2. \A n \in DOMAIN req : req'[n] = req[n]
                         /\ (status[n] = "refused" => status'[n] = "refused")
  BY <1>1 DEF Evolves
<1>3. Distinct'
  BY <1>1, <1>2 DEF Distinct
<1>4. \A n \in DOMAIN req : status'[n] # "refused" => status[n] # "refused"
  BY <1>2
<1>5. \A n \in DOMAIN req' : status'[n] # "refused" => req'[n].intent \in marks'
  BY <1>1, <1>2, <1>4 DEF MarksHold
<1>6. CASE pc' \notin {"send", "await", "unmark"}
  BY <1>3, <1>5, <1>6 DEF MarksHold
<1>7. CASE UNCHANGED <<pc, plan>>
  <2>1. Fingerprint' = Fingerprint
    BY <1>7 DEF Fingerprint
  <2>2. pc = "unmark" => status'[Latest] = "refused"
    BY TypedLengths, <1>2, <1>1 DEF MarksHold, Evolves
  <2> QED BY <1>1, <1>2, <1>3, <1>5, <1>7, <2>1, <2>2 DEF MarksHold
<1> QED BY <1>6, <1>7

LEMMA DedupeStep ==
    ASSUME TypeOK, Shape, DInv, [Next]_vars
    PROVE  DInv'
<1> SUFFICES ASSUME Quiet' PROVE MarksHold' /\ Distinct'
  BY DEF DInv
<1>1. seen \subseteq seen'
  BY DEF Next, Work, Exchange, ExchangeAccept, ExchangeRefuse, ExchangeFill, Start,
      StartCycle, CancelOrder, CancelOrderFails, Uncache, SkipHeldKey, Mark,
      SkipDuplicate, Submit, ReplyAccepted, ReplyFails, Unmark, UncacheOld, Record,
      RecordFails, RedisError, EndCycle, BatchCancel, BatchCancelFails, SyncAll,
      ClearAll, CancelAllRedisError, KillSwitch, Shutdown, Crash, Boot,
      LoadFromCache, LoadFails, ExpireMark, NoFault, Fault, vars
<1>2. ~Fault("api") /\ ~Fault("redis") /\ ~Fault("expire")
  BY DEF Quiet, Unseen, Fault
<1>3. MarksHold /\ Distinct
  BY <1>1 DEF DInv, Quiet, Unseen
<1>d. DOMAIN status = DOMAIN req /\ (req # <<>> => Latest \in DOMAIN req)
  BY TypedLengths
<1>4. CASE Mark
  <2>1. /\ UNCHANGED <<req, status, plan>> /\ pc' = "send"
        /\ Fingerprint \notin marks /\ marks' = marks \cup {Fingerprint}
    BY <1>4 DEF Mark, exchange, locals
  <2>2. Fingerprint' = Fingerprint /\ Latest' = Latest
    BY <2>1 DEF Fingerprint, Latest
  <2>3. Distinct'
    BY <1>3, <2>1 DEF Distinct
  <2>4. \A n \in DOMAIN req : req[n].intent = Fingerprint => status[n] = "refused"
    BY <1>3, <2>1 DEF MarksHold
  <2> QED BY <1>3, <2>1, <2>2, <2>3, <2>4 DEF MarksHold
<1>5. CASE Submit
  <2>1. /\ UNCHANGED <<plan, marks>> /\ pc = "send" /\ pc' = "await"
    BY <1>5 DEF Submit, locals, redis
  <2>2. Fingerprint' = Fingerprint
    BY <2>1 DEF Fingerprint
  <2>3. /\ DOMAIN req' = DOMAIN req \cup {Latest'} /\ Latest' \notin DOMAIN req
        /\ req'[Latest'].intent = Fingerprint /\ status'[Latest'] = "sent"
        /\ \A n \in DOMAIN req : req'[n] = req[n] /\ status'[n] = status[n]
    BY <1>5, SubmitAppends DEF Fingerprint
  <2>4. /\ Fingerprint \in marks
        /\ \A n \in DOMAIN req : req[n].intent = Fingerprint => status[n] = "refused"
    BY <1>3, <2>1 DEF MarksHold
  <2>5. Distinct'
    BY <1>3, <2>3, <2>4 DEF Distinct
  <2>6. MarksHold'
    BY <1>3, <2>1, <2>2, <2>3, <2>4 DEF MarksHold
  <2> QED BY <2>5, <2>6
<1>6. CASE ReplyFails
  <2>1. /\ UNCHANGED <<req, status, plan, marks>> /\ pc = "await"
        /\ pc' = "unmark" /\ status[Latest] = "refused"
    BY <1>2, <1>6 DEF ReplyFails, exchange, locals, redis
  <2>2. Fingerprint' = Fingerprint /\ Latest' = Latest
    BY <2>1 DEF Fingerprint, Latest
  <2> QED BY <1>3, <2>1, <2>2 DEF MarksHold, Distinct
<1>7. CASE Unmark
  <2>1. /\ UNCHANGED <<req, status>> /\ pc = "unmark" /\ pc' = "cycle"
        /\ marks' = marks \ {Fingerprint}
    BY <1>7 DEF Unmark, exchange
  <2>2. \A n \in DOMAIN req : req[n].intent = Fingerprint => status[n] = "refused"
    BY <1>3, <2>1 DEF MarksHold
  <2> QED BY <1>3, <2>1, <2>2 DEF MarksHold, Distinct
<1>8. CASE ~(Mark \/ Submit \/ ReplyFails \/ Unmark)
  <2>1. Evolves
    BY <1>8, StepEvolves
  <2>2. marks \subseteq marks' /\
            (pc' \notin {"send", "await", "unmark"} \/ UNCHANGED <<pc, plan>>)
    BY <1>2, <1>8
    DEF Next, Work, Exchange, ExchangeAccept, ExchangeRefuse, ExchangeFill, Start,
      StartCycle, CancelOrder, CancelOrderFails, Uncache, SkipHeldKey,
      SkipDuplicate, ReplyAccepted, UncacheOld, Record, RecordFails, RedisError,
      EndCycle, BatchCancel, BatchCancelFails, SyncAll, ClearAll,
      CancelAllRedisError, KillSwitch, Shutdown, Crash, Boot, LoadFromCache,
      LoadFails, ExpireMark, EndProcess, AtIntent, Placing, memory, locals,
      redis, vars
  <2> QED BY <1>3, <2>1, <2>2, DedupeKeeps
<1> QED BY <1>4, <1>5, <1>6, <1>7, <1>8

\* The dedupe mark keeps its promise across crashes, restarts, shutdowns and
\* cancel_all at any await: as long as no mark has expired, no exchange call
\* has failed undecided and no Redis command has raised, no two submissions
\* that are on the way, resting or executed ask for the same thing.
THEOREM NoIntentIsSubmittedTwice == Spec => []NoDuplicateSubmission
<1> DEFINE I == TypeOK /\ Shape /\ DInv
<1>1. Init => I
  BY TypeShapeInit, DedupeInit
<1>2. I /\ [Next]_vars => I'
  BY TypeShapeStep, DedupeStep
<1>3. I => NoDuplicateSubmission
  BY DEF DInv, Distinct, Quiet, NoDuplicateSubmission
<1> QED BY <1>1, <1>2, <1>3, PTL DEF Spec

-----------------------------------------------------------------------------
(***************************************************************************)
(* The order manager implements OrderRegistry.  What it deletes from Redis *)
(* it deletes some awaits after it has learnt that the order is closed,    *)
(* so the invariant carries that knowledge to the place where it is used.  *)
(***************************************************************************)
ClosedOrders == {o \in DOMAIN status : status[o] = "gone"}

RegistryShape ==
    /\ active \cup cached \subseteq Accepted
    /\ pc = "uncache" => Doomed \in ClosedOrders
    /\ pc = "uncacheOld" => req[Latest].old # NoOrder
    /\ pc \in {"uncacheOld", "record"} => Latest \in active
    /\ pc \in {"syncAll", "clearAll"} => active \cup cached \subseteq ClosedOrders

LEMMA RegistryInit == Init => RegistryShape
BY DEF Init, RegistryShape

\* The exchange goes on as the abstract specification says.
LEMMA BookMovesOn ==
    ASSUME TypeOK, Evolves
    PROVE  /\ Registry!BookMoves
           /\ Accepted \subseteq Accepted' /\ ClosedOrders \subseteq ClosedOrders'
<1>1. /\ DOMAIN status = 1 .. Len(status) /\ DOMAIN status' = 1 .. Len(status')
      /\ Len(status') = Len(status)
      /\ \A o \in DOMAIN status : status[o] \in Statuses
  BY LenProperties, ElementOfSeq DEF TypeOK, Evolves
<1>2. \A o \in DOMAIN status : status'[o] \in Registry!Successors[status[o]]
  BY <1>1 DEF Evolves, Registry!Successors, Statuses
<1> QED BY <1>1, <1>2 DEF Evolves, Registry!BookMoves, Accepted, ClosedOrders

LEMMA SubmissionKeeps ==
    ASSUME TypeOK, Shape, Submit
    PROVE  Accepted \subseteq Accepted' /\ ClosedOrders \subseteq ClosedOrders'
<1>1. /\ \A n \in DOMAIN req : status'[n] = status[n]
      /\ DOMAIN status = DOMAIN req
  BY SubmitAppends, TypedLengths
<1>2. DOMAIN status \subseteq DOMAIN status'
  <2>1. status' \in Seq(Statuses) /\ Len(status') = Len(status) + 1
    BY AppendProperties DEF Submit, TypeOK, Statuses
  <2>2. Len(status) \in Nat /\ DOMAIN status = 1 .. Len(status)
        /\ DOMAIN status' = 1 .. Len(status')
    BY <2>1, LenProperties DEF TypeOK
  <2> QED BY <2>1, <2>2
<1> QED BY <1>1, <1>2 DEF Accepted, ClosedOrders

LEMMA ClosedStay ==
    ASSUME TypeOK, Shape, [Next]_vars
    PROVE  Accepted \subseteq Accepted' /\ ClosedOrders \subseteq ClosedOrders'
BY StepEvolves, BookMovesOn, SubmissionKeeps

LEMMA RegistryStep ==
    ASSUME TypeOK, Shape, ReplacedAreGone, RegistryShape, [Next]_vars
    PROVE  RegistryShape'
<1> USE DEF exchange, memory, locals, redis, ForgetLocals, EndProcess
<1>1. Accepted \subseteq Accepted' /\ ClosedOrders \subseteq ClosedOrders'
  BY ClosedStay
<1>2. CASE UNCHANGED <<active, cached, pc, toCancel>> /\ (Exchange \/ UNCHANGED req)
  <2>1. Doomed' = Doomed
    BY <1>2 DEF Doomed
  <2>2. req' = req
    BY <1>2, ExchangeEvolves DEF Evolves
  <2> QED BY <1>1, <1>2, <2>1, <2>2 DEF RegistryShape, Latest
<1>3. CASE CancelOrder
  <2>1. /\ Doomed \in DOMAIN status /\ Doomed' = Doomed
        /\ SetStatus(Doomed, "gone") /\ UNCHANGED cached
        /\ active' \subseteq active /\ pc' = "uncache"
    BY <1>3 DEF CancelOrder, Live, Doomed
  <2>2. Doomed \in ClosedOrders'
    <3>1. /\ status' \in Seq(Statuses) /\ Len(status') = Len(status)
          /\ status'[Doomed] = "gone"
      BY <2>1, SetOne DEF SetStatus, Statuses
    <3>2. DOMAIN status' = DOMAIN status
      BY <3>1, LenProperties DEF TypeOK
    <3> QED BY <2>1, <3>1, <3>2 DEF ClosedOrders
  <2> QED BY <1>1, <2>1, <2>2 DEF RegistryShape
<1>4. CASE ReplyAccepted
  <2>1. /\ Latest \in Accepted /\ UNCHANGED <<req, cached>> /\ Latest \in active'
        /\ active' \subseteq active \cup {Latest}
        /\ pc' = IF req[Latest].old = NoOrder THEN "record" ELSE "uncacheOld"
    BY <1>4 DEF ReplyAccepted
  <2> QED BY <1>1, <2>1 DEF RegistryShape, Latest
<1>5. CASE UncacheOld
  <2>1. /\ UNCHANGED <<req, active>> /\ cached' \subseteq cached
        /\ pc = "uncacheOld" /\ pc' = "record"
    BY <1>5 DEF UncacheOld
  <2> QED BY <1>1, <2>1 DEF RegistryShape, Latest
<1>6. CASE Record \/ RecordFails
  <2>1. /\ cached' \subseteq cached \cup {Latest} /\ UNCHANGED active
        /\ pc = "record" /\ pc' \in {"cycle", "unmark"}
    BY <1>6 DEF Record, RecordFails
  <2> QED BY <1>1, <2>1 DEF RegistryShape
<1>7. CASE BatchCancel
  <2>1. /\ active' = {} /\ UNCHANGED cached /\ pc' = "syncAll"
        /\ \A o \in DOMAIN status : status'[o] # "live"
    BY <1>7, AllClose DEF BatchCancel
  <2>2. Accepted' \subseteq ClosedOrders'
    <3>1. Evolves
      BY <1>7, AllClose DEF BatchCancel
    <3>2. DOMAIN status' = DOMAIN status
      BY <3>1, LenProperties DEF Evolves, TypeOK
    <3> QED BY <2>1, <3>2 DEF Accepted, ClosedOrders
  <2> QED BY <1>1, <2>1, <2>2 DEF RegistryShape
<1>8. CASE SyncAll
  <2>1. UNCHANGED <<active, cached>> /\ pc = "syncAll" /\ pc' = "clearAll"
    BY <1>8 DEF SyncAll
  <2> QED BY <1>1, <2>1 DEF RegistryShape
<1>9. CASE /\ active' \subseteq active \cup cached /\ cached' \subseteq cached
           /\ pc' \notin {"uncache", "uncacheOld", "record", "syncAll", "clearAll"}
  BY <1>1, <1>9 DEF RegistryShape
<1>10. ASSUME Next
       PROVE  \/ UNCHANGED <<active, cached, pc, toCancel>> /\ (Exchange \/ UNCHANGED req)
              \/ CancelOrder \/ ReplyAccepted \/ UncacheOld \/ Record
              \/ RecordFails \/ BatchCancel \/ SyncAll
              \/ /\ active' \subseteq active \cup cached /\ cached' \subseteq cached
                 /\ pc' \notin {"uncache", "uncacheOld", "record", "syncAll", "clearAll"}
  <2>1. CASE Exchange
    BY <2>1 DEF Exchange, ExchangeAccept, ExchangeRefuse, ExchangeFill
  <2>2. CASE Start \/ Work
    BY <2>2 DEF Work, Start, StartCycle, CancelOrderFails, Uncache, SkipHeldKey,
       Mark, SkipDuplicate, Submit, ReplyFails, Unmark, RedisError, EndCycle,
       BatchCancelFails, ClearAll, CancelAllRedisError
  <2>3. CASE ~(Exchange \/ Start \/ Work)
    BY <1>10, <2>3 DEF Next, KillSwitch, Shutdown, Crash, Boot, LoadFromCache,
       LoadFails, ExpireMark
  <2> QED BY <2>1, <2>2, <2>3
<1>11. CASE UNCHANGED vars
  BY <1>2, <1>11 DEF vars
<1> QED BY <1>2, <1>3, <1>4, <1>5, <1>6, <1>7, <1>8, <1>9, <1>10, <1>11

\* What a step may delete from amm:orders, and what it may add.
LEMMA StorageStep ==
    ASSUME TypeOK, Shape, ReplacedAreGone, RegistryShape, [Next]_vars
    PROVE  /\ \A o \in cached \ cached' : o \in ClosedOrders
           /\ cached' \ cached \subseteq active'
           /\ pc' = "down" => cached' \subseteq cached
<1> USE DEF exchange, memory, locals, redis, EndProcess
<1>1. CASE Uncache
  BY <1>1 DEF Uncache, RegistryShape
<1>2. CASE UncacheOld
  <2>1. /\ pc = "uncacheOld" /\ pc' = "record"
        /\ cached' = cached \ {req[Latest].old}
    BY <1>2 DEF UncacheOld
  <2>2. /\ req[Latest].old # NoOrder /\ Latest \in DOMAIN req
        /\ status[Latest] \in {"live", "gone"}
    BY <2>1, TypedLengths DEF RegistryShape, Accepted
  <2>3. req[Latest].old \in ClosedOrders
    BY <2>2, TypedLengths DEF ReplacedAreGone, ClosedOrders
  <2> QED BY <2>1, <2>3
<1>3. CASE Record \/ RecordFails
  BY <1>3 DEF Record, RecordFails, RegistryShape
<1>4. CASE ClearAll
  BY <1>4 DEF ClearAll, RegistryShape
<1>5. ASSUME Next PROVE \/ Uncache \/ UncacheOld \/ Record \/ RecordFails
                        \/ ClearAll \/ cached' = cached
  BY <1>5
  DEF Next, Work, Exchange, ExchangeAccept, ExchangeRefuse, ExchangeFill, Start,
      StartCycle, CancelOrder, CancelOrderFails, SkipHeldKey, Mark,
      SkipDuplicate, Submit, ReplyAccepted, ReplyFails, Unmark, RedisError,
      EndCycle, BatchCancel, BatchCancelFails, SyncAll, CancelAllRedisError,
      KillSwitch, Shutdown, Crash, Boot, LoadFromCache, LoadFails, ExpireMark
<1> QED BY <1>1, <1>2, <1>3, <1>4, <1>5 DEF vars

\* What a step may add to active_orders, restarts apart.
LEMMA MemoryLearns ==
    ASSUME TypeOK, Shape, RegistryShape, [Next]_vars, ~LoadFromCache
    PROVE  active' \ active \subseteq Accepted
<1>1. ASSUME Next PROVE ReplyAccepted \/ active' \subseteq active
  BY <1>1
  DEF Next, Work, Exchange, ExchangeAccept, ExchangeRefuse, ExchangeFill, Start,
      StartCycle, CancelOrder, CancelOrderFails, Uncache, SkipHeldKey, Mark,
      SkipDuplicate, Submit, ReplyFails, Unmark, UncacheOld, Record, RecordFails,
      RedisError, EndCycle, BatchCancel, BatchCancelFails, SyncAll, ClearAll,
      CancelAllRedisError, KillSwitch, Shutdown, Crash, Boot, LoadFails,
      ExpireMark, memory, EndProcess
<1>2. CASE ReplyAccepted
  BY <1>2 DEF ReplyAccepted
<1> QED BY <1>1, <1>2 DEF vars

LEMMA RegistrySimulates ==
    ASSUME TypeOK, Shape, ReplacedAreGone, RegistryShape, [Next]_vars
    PROVE  [Registry!Next]_(Registry!vars)
<1>1. Accepted \subseteq Accepted' /\ ClosedOrders \subseteq ClosedOrders'
  BY ClosedStay
<1>2. /\ Registry!GivesUpTheDead(cached, cached')
      /\ cached' \ cached \subseteq active'
      /\ pc' = "down" => cached' \subseteq cached
  BY <1>1, StorageStep DEF Registry!GivesUpTheDead, ClosedOrders
<1>3. Registry!BookMoves \/ (Registry!Submission /\ pc' = "await")
  BY StepEvolves, BookMovesOn DEF Registry!Submission, Submit
<1>4. CASE pc' = "down"
  <2>1. active' = {}
    BY <1>4, TypeShapeStep DEF Shape
  <2> QED BY <1>2, <1>3, <1>4, <2>1 DEF Registry!Next, Registry!Stop
<1>5. CASE LoadFromCache
  BY <1>5 DEF LoadFromCache, Shape, exchange, Registry!Next, Registry!Restart
<1>6. CASE pc' # "down" /\ ~LoadFromCache
  <2>1. Registry!LearnsAccepted(active, active')
    BY <1>1, <1>6, MemoryLearns DEF Registry!LearnsAccepted, Accepted
  <2>2. Registry!GivesUpTheDead(active, active')
    <3> SUFFICES ASSUME NEW o \in active \ active' PROVE status'[o] = "gone"
      BY DEF Registry!GivesUpTheDead
    <3>1. status'[o] # "live"
      BY <1>6, ForgetsStep
    <3>2. o \in Accepted'
      BY <1>1 DEF RegistryShape
    <3> QED BY <3>1, <3>2 DEF Accepted
  <2> QED BY <1>2, <1>3, <2>1, <2>2 DEF Registry!Next, Registry!Track, Registry!Stores
<1> QED BY <1>4, <1>5, <1>6

\* The order manager with Redis, behind all its failed calls, crashes and
\* restarts, is a registry that gives up only orders that can trade no more.
THEOREM OrderManagerIsARegistry == Spec => ImplementsRegistry
<1> DEFINE I == TypeOK /\ Shape /\ ReplacedAreGone /\ RegistryShape
<1>1. Init => I
  BY TypeShapeInit, ReplacedInit, RegistryInit
<1>2. I /\ [Next]_vars => I'
  BY TypeShapeStep, ReplacedStep, RegistryStep
<1>3. Init => Registry!Init
  BY DEF Init, Registry!Init
<1>4. I /\ [Next]_vars => [Registry!Next]_(Registry!vars)
  BY RegistrySimulates
<1> QED BY <1>1, <1>2, <1>3, <1>4, PTL DEF Spec, ImplementsRegistry, Registry!Spec

-----------------------------------------------------------------------------
(***************************************************************************)
(* Memory, Redis and the pending-sell counters are copies of each other    *)
(* between cycles.  The invariant says how far apart they may be at each   *)
(* await: by the one order whose two writes are under way.                 *)
(***************************************************************************)
\* The awaits at which nothing is half written, and those at which the counters
\* have been synchronised, too.
Settled ==
    pc \in {"idle", "cycle", "send", "await", "unmark"} \/ (pc = "batchCancel" /\ ~exiting)
Counted == pc \in {"idle", "clearAll"} \/ (pc = "batchCancel" /\ ~exiting)

Copies ==
    /\ Settled => cached = active
    /\ pc = "uncache" => cached \ {Doomed} = active
    /\ pc = "uncacheOld" => (cached \ {req[Latest].old}) \cup {Latest} = active
    /\ pc = "record" => cached \cup {Latest} = active
    /\ pc \in {"syncAll", "clearAll"} => active = {}
    /\ Counted => pending = PendingSells(active)

CInv == Unseen({"redis"}) => Copies

LEMMA CopiesInit == Init => CInv
BY DEF Init, CInv, Copies, Settled, Counted

\* The counters are a function of the orders.
LEMMA SellsStay ==
    ASSUME UNCHANGED <<req, active>>
    PROVE  PendingSells(active)' = PendingSells(active)
BY DEF PendingSells, Quantity, SellsOf, KeyOf

\* Whatever the exchange does, it does not touch the copies.
LEMMA CopiesStay ==
    ASSUME Copies, UNCHANGED <<req, active, cached, pending, toCancel, pc, exiting>>
    PROVE  Copies'
<1>1. Latest' = Latest /\ Doomed' = Doomed BY DEF Latest, Doomed
<1> QED BY <1>1, SellsStay DEF Copies, Settled, Counted

LEMMA CopiesStep ==
    ASSUME TypeOK, Shape, CInv, [Next]_vars
    PROVE  CInv'
<1> USE DEF NoFault, Fault, exchange, memory, locals, redis, ForgetLocals, EndProcess
<1> SUFFICES ASSUME Unseen({"redis"})' PROVE Copies'
  BY DEF CInv
<1>0. seen \subseteq seen'
  BY DEF Next, vars, Exchange, ExchangeAccept, ExchangeRefuse, ExchangeFill, Work, Start,
     StartCycle, CancelOrder, CancelOrderFails, Uncache, SkipHeldKey, Mark,
     SkipDuplicate, Submit, ReplyAccepted, ReplyFails, Unmark, UncacheOld, Record,
     RecordFails, RedisError, EndCycle, BatchCancel, BatchCancelFails, SyncAll,
     ClearAll, CancelAllRedisError, KillSwitch, Shutdown, Crash, Boot,
     LoadFromCache, LoadFails, ExpireMark
<1>1. Copies /\ "redis" \notin seen'
  BY <1>0 DEF CInv, Unseen
<1>2. CASE Exchange \/ (\E fingerprint \in marks : ExpireMark(fingerprint)) \/ UNCHANGED vars
  <2>1. UNCHANGED <<req, active, cached, pending, toCancel, pc, exiting>>
    BY <1>2 DEF Exchange, ExchangeAccept, ExchangeRefuse, ExchangeFill, ExpireMark, vars
  <2> QED BY <1>1, <2>1, CopiesStay
<1>3. CASE Start \/ SkipHeldKey \/ SkipDuplicate \/ Mark
  <2>1. /\ UNCHANGED <<active, cached>> /\ pc \in {"idle", "cycle"}
        /\ pc' \in {"cycle", "send"}
    BY <1>3 DEF Start, StartCycle, SkipHeldKey, SkipDuplicate, Placing, AtIntent, Mark
  <2> QED BY <1>1, <2>1 DEF Copies, Settled, Counted
<1>4. CASE CancelOrder
  <2>1. Doomed' = Doomed BY <1>4 DEF Doomed, CancelOrder
  <2> QED BY <1>1, <1>4, <2>1 DEF CancelOrder, Copies, Settled, Counted
<1>5. CASE CancelOrderFails
  BY <1>1, <1>5 DEF CancelOrderFails, Copies, Settled, Counted
<1>6. CASE Uncache
  BY <1>1, <1>6 DEF Uncache, Copies, Settled, Counted
<1>7. CASE Submit \/ ReplyFails \/ Unmark
  BY <1>1, <1>7 DEF Submit, ReplyFails, Unmark, Copies, Settled, Counted
<1>8. CASE ReplyAccepted
  <2>1. cached = active /\ UNCHANGED <<req, cached>>
    BY <1>1, <1>8 DEF ReplyAccepted, Copies, Settled
  <2>2. Latest' = Latest BY <2>1 DEF Latest
  <2>3. CASE req[Latest].old = NoOrder
    <3>1. NoOrder \notin active BY TypedLengths DEF TypeOK, Ids, NoOrder
    <3>2. active' = active \cup {Latest} /\ pc' = "record"
      BY <1>8, <2>3, <3>1 DEF ReplyAccepted
    <3> QED BY <2>1, <2>2, <3>2 DEF Copies, Settled, Counted
  <2>4. CASE req[Latest].old # NoOrder
    <3>1. active' = (active \ {req[Latest].old}) \cup {Latest} /\ pc' = "uncacheOld"
      BY <1>8, <2>4 DEF ReplyAccepted
    <3> QED BY <2>1, <2>2, <3>1 DEF Copies, Settled, Counted
  <2> QED BY <2>3, <2>4
<1>9. CASE UncacheOld \/ Record
  <2>1. Latest' = Latest BY <1>9 DEF UncacheOld, Record, Latest
  <2> QED BY <1>1, <1>9, <2>1 DEF UncacheOld, Record, Copies, Settled, Counted
<1>10. CASE EndCycle
  <2>1. /\ pending' = PendingSells(active) /\ cached = active /\ pc' = "idle"
        /\ UNCHANGED <<req, active, cached>>
    BY <1>1, <1>10 DEF EndCycle, Copies, Settled
  <2> QED BY <2>1, SellsStay DEF Copies, Settled, Counted
<1>11. CASE KillSwitch
  <2>1. /\ UNCHANGED <<req, active, cached, pending>> /\ pc = "idle" /\ pc' = "batchCancel"
    BY <1>11 DEF KillSwitch
  <2> QED BY <1>1, <2>1, SellsStay DEF Copies, Settled, Counted
<1>12. CASE Shutdown
  BY <1>12 DEF Shutdown, Copies, Settled, Counted
<1>13. CASE BatchCancel
  BY <1>13 DEF BatchCancel, Copies, Settled, Counted
<1>14. CASE BatchCancelFails
  <2>1. CASE exiting
    BY <1>14, <2>1 DEF BatchCancelFails, Copies, Settled, Counted
  <2>2. CASE ~exiting
    <3>1. /\ UNCHANGED <<req, active, cached, pending>> /\ pc = "batchCancel"
          /\ pc' \in {"idle", "failed"}
      BY <1>14, <2>2 DEF BatchCancelFails
    <3> QED BY <1>1, <2>2, <3>1, SellsStay DEF Copies, Settled, Counted
  <2> QED BY <2>1, <2>2
<1>15. CASE SyncAll
  <2>1. /\ pending' = PendingSells(active) /\ active = {} /\ pc' = "clearAll"
        /\ UNCHANGED <<req, active>>
    BY <1>1, <1>15 DEF SyncAll, Copies
  <2> QED BY <2>1, SellsStay DEF Copies, Settled, Counted
<1>16. CASE ClearAll
  <2>1. CASE exiting
    BY <1>16, <2>1 DEF ClearAll, Copies, Settled, Counted
  <2>2. CASE ~exiting
    <3>1. /\ UNCHANGED <<req, active, pending>> /\ pc = "clearAll" /\ cached' = {}
          /\ pc' = "idle"
      BY <1>16, <2>2 DEF ClearAll
    <3> QED BY <1>1, <3>1, SellsStay DEF Copies, Settled, Counted
  <2> QED BY <2>1, <2>2
<1>17. CASE Crash \/ Boot
  BY <1>17 DEF Crash, Boot, Copies, Settled, Counted
<1>18. CASE LoadFromCache
  <2>1. active' = cached /\ pending' = PendingSells(cached) /\ UNCHANGED <<req, cached>>
    BY <1>18 DEF LoadFromCache
  <2>2. PendingSells(active)' = PendingSells(cached)
    BY <2>1 DEF PendingSells, Quantity, SellsOf, KeyOf
  <2>3. pc' = "idle" BY <1>18 DEF LoadFromCache
  <2> QED BY <2>1, <2>2, <2>3 DEF Copies, Settled, Counted
<1>19. CASE RecordFails \/ RedisError \/ CancelAllRedisError \/ LoadFails
  BY <1>1, <1>19 DEF RecordFails, RedisError, CancelAllRedisError, LoadFails
<1> QED
  BY <1>2, <1>3, <1>4, <1>5, <1>6, <1>7, <1>8, <1>9, <1>10, <1>11, <1>12, <1>13, <1>14,
     <1>15, <1>16, <1>17, <1>18, <1>19 DEF Next, Work

\* Between cycles memory, amm:orders and the counters agree, through failed
\* calls, crashes and restarts, unless a Redis command raised.
THEOREM MemoryAndRedisAgree == Spec => []CopiesAgree
<1>1. TypeOK /\ Shape /\ CInv /\ [Next]_vars => (TypeOK /\ Shape /\ CInv)'
  BY TypeShapeStep, CopiesStep
<1>2. CInv => CopiesAgree
  BY DEF CInv, Copies, Settled, Counted, CopiesAgree
<1> QED BY TypeShapeInit, CopiesInit, <1>1, <1>2, PTL DEF Spec

-----------------------------------------------------------------------------
(***************************************************************************)
(* Between cycles the order manager knows every order on the book.  An     *)
(* order it does not know is the one whose reply it awaits; a process that *)
(* meets no fault never restarts, so it is the first and has no orders.    *)
(***************************************************************************)
Calm == Unseen({"api", "redis", "crash", "exit"})

Tracked ==
    /\ ~exiting /\ pc # "failed"
    /\ pc \in {"down", "load"} => req = <<>>
    /\ \A o \in DOMAIN req :
           /\ status[o] = "live" => o \in active \/ (pc = "await" /\ o = Latest)
           /\ status[o] = "sent" => pc = "await" /\ o = Latest

KInv == Calm => Tracked

LEMMA TrackedInit == Init => KInv
BY DEF Init, KInv, Tracked

\* A step that forgets no order, submits none and awaits no reply.
LEMMA TrackedKeeps ==
    ASSUME TypeOK, Tracked, Evolves, active \subseteq active', pc # "await",
           pc' \notin {"failed", "down", "load"}, ~exiting'
    PROVE  Tracked'
<1>1. DOMAIN req' = DOMAIN req /\ DOMAIN status = DOMAIN req
  BY TypedLengths DEF Evolves
<1> QED BY <1>1 DEF Tracked, Evolves

LEMMA TrackedStep ==
    ASSUME TypeOK, Shape, ReplacedAreGone, KInv, [Next]_vars
    PROVE  KInv'
<1> USE DEF NoFault, Fault, exchange, memory, locals, redis, ForgetLocals, EndProcess
<1> SUFFICES ASSUME Calm' PROVE Tracked'
  BY DEF KInv
<1>0. seen \subseteq seen'
  BY DEF Next, vars, Exchange, ExchangeAccept, ExchangeRefuse, ExchangeFill, Work, Start,
     StartCycle, CancelOrder, CancelOrderFails, Uncache, SkipHeldKey, Mark,
     SkipDuplicate, Submit, ReplyAccepted, ReplyFails, Unmark, UncacheOld, Record,
     RecordFails, RedisError, EndCycle, BatchCancel, BatchCancelFails, SyncAll,
     ClearAll, CancelAllRedisError, KillSwitch, Shutdown, Crash, Boot,
     LoadFromCache, LoadFails, ExpireMark
<1>1. Tracked /\ {"api", "redis", "crash", "exit"} \cap seen' = {}
  BY <1>0 DEF KInv, Calm, Unseen
<1>d. /\ DOMAIN status = DOMAIN req /\ Latest = Len(req)
      /\ (req # <<>> => Latest \in DOMAIN req) /\ DOMAIN <<>> = {}
  BY TypedLengths
<1>2. CASE Exchange
  <2>1. Evolves /\ UNCHANGED <<active, pc, exiting>>
    BY <1>2, ExchangeEvolves
       DEF Exchange, ExchangeAccept, ExchangeRefuse, ExchangeFill
  <2>2. DOMAIN req' = DOMAIN req /\ Latest' = Latest /\ req' = req
    BY <2>1 DEF Evolves, Latest
  <2> QED BY <1>1, <1>d, <2>1, <2>2 DEF Tracked, Evolves
<1>3. CASE CancelOrder
  <2>1. /\ Doomed \in DOMAIN status /\ status' = [status EXCEPT ![Doomed] = "gone"]
        /\ UNCHANGED <<req, exiting>> /\ active' = active \ {Doomed}
        /\ pc = "cycle" /\ pc' = "uncache"
    BY <1>3 DEF CancelOrder, SetStatus, Live
  <2>2. status'[Doomed] = "gone" /\ \A o \in DOMAIN req \ {Doomed} : status'[o] = status[o]
    BY <1>d, <2>1
  <2> QED BY <1>1, <2>1, <2>2 DEF Tracked
<1>4. CASE Submit
  <2>1. UNCHANGED <<active, exiting>> /\ pc = "send" /\ pc' = "await"
    BY <1>4 DEF Submit
  <2> QED BY <1>1, <1>4, <2>1, SubmitAppends DEF Tracked
<1>5. CASE ReplyAccepted
  <2>1. /\ Latest \in DOMAIN req /\ status[Latest] \in {"live", "gone"}
        /\ active' = (active \ {req[Latest].old}) \cup {Latest}
        /\ UNCHANGED <<req, status, exiting>> /\ pc' \in {"record", "uncacheOld"}
    BY <1>5, <1>d DEF ReplyAccepted, Accepted
  <2>2. req[Latest].old # NoOrder => status[req[Latest].old] = "gone"
    BY <2>1 DEF ReplacedAreGone
  <2>3. NoOrder \notin DOMAIN req BY TypedLengths DEF Ids, NoOrder
  <2> QED BY <1>1, <2>1, <2>2, <2>3 DEF Tracked
<1>6. CASE ReplyFails
  <2>1. status[Latest] = "refused" /\ UNCHANGED <<req, status, active, exiting>> /\ pc' = "unmark"
    BY <1>1, <1>6 DEF ReplyFails
  <2> QED BY <1>1, <2>1 DEF Tracked
<1>7. CASE BatchCancel
  <2>1. /\ Evolves /\ \A o \in DOMAIN status : status'[o] # "live"
        /\ pc = "batchCancel" /\ pc' = "syncAll" /\ UNCHANGED exiting
    BY <1>7, AllClose DEF BatchCancel
  <2>2. DOMAIN req' = DOMAIN req BY <2>1 DEF Evolves
  <2> QED BY <1>1, <1>d, <2>1, <2>2 DEF Tracked, Evolves
<1>8. CASE Boot \/ LoadFromCache
  <2>1. UNCHANGED <<req, exiting>> /\ pc' \in {"load", "idle"} /\ req = <<>>
    BY <1>1, <1>8 DEF Boot, LoadFromCache, Tracked
  <2> QED BY <1>1, <1>d, <2>1 DEF Tracked
<1>9. CASE \/ Start \/ CancelOrderFails \/ Uncache \/ SkipHeldKey \/ Mark \/ SkipDuplicate
           \/ Unmark \/ UncacheOld \/ Record \/ EndCycle \/ SyncAll \/ ClearAll \/ KillSwitch
  <2>1. /\ UNCHANGED <<req, status, active, exiting>> /\ pc # "await"
        /\ pc' \notin {"failed", "down", "load"}
    BY <1>1, <1>9
       DEF Tracked, Start, StartCycle, CancelOrderFails, Uncache, SkipHeldKey, Mark,
           SkipDuplicate, AtIntent, Placing, Unmark, UncacheOld, Record, EndCycle, SyncAll,
           ClearAll,
           KillSwitch
  <2> QED BY <1>1, <2>1, TrackedKeeps, NothingHappens DEF Tracked
<1>10. CASE \E fingerprint \in marks : ExpireMark(fingerprint)
  BY <1>1, <1>10 DEF ExpireMark, Tracked, Latest
<1>11. CASE UNCHANGED vars
  BY <1>1, <1>11 DEF vars, Tracked, Latest
<1>12. CASE \/ RecordFails \/ RedisError \/ CancelAllRedisError \/ LoadFails \/ BatchCancelFails
            \/ Shutdown \/ Crash
  BY <1>1, <1>12
     DEF Tracked, RecordFails, RedisError, CancelAllRedisError, LoadFails,
         BatchCancelFails, Shutdown, Crash
<1> QED
  BY <1>2, <1>3, <1>4, <1>5, <1>6, <1>7, <1>8, <1>9, <1>10, <1>11, <1>12 DEF Next, Work

\* Between cycles every order on the book is known in memory and in Redis, also
\* when dedupe marks have expired.
THEOREM TheBookIsKnown == Spec => []KnowsItsBook
<1> DEFINE I == TypeOK /\ Shape /\ ReplacedAreGone /\ CInv /\ KInv
<1>1. Init => I
  BY TypeShapeInit, ReplacedInit, CopiesInit, TrackedInit
<1>2. I /\ [Next]_vars => I'
  BY TypeShapeStep, ReplacedStep, CopiesStep, TrackedStep
<1>3. I => KnowsItsBook
  <2> SUFFICES ASSUME I, pc = "idle", Calm PROVE Live \subseteq active \cap cached
    BY DEF KnowsItsBook, Calm
  <2>1. Tracked /\ Copies BY DEF KInv, CInv, Calm, Unseen
  <2>2. cached = active BY <2>1 DEF Copies, Settled
  <2>3. DOMAIN status = DOMAIN req BY TypedLengths
  <2> QED BY <2>1, <2>2, <2>3 DEF Tracked, Live
<1> QED BY <1>1, <1>2, <1>3, PTL DEF Spec

-----------------------------------------------------------------------------
(***************************************************************************)
(* What is pending covers what is on the book: the quantities of a part of *)
(* the orders add up to no more than those of all.                         *)
(***************************************************************************)
LEMMA PartsHaveLess ==
    ASSUME TypeOK, NEW S, S \subseteq DOMAIN req, NEW T, T \subseteq S
    PROVE  Quantity(T) <= Quantity(S)
<1> DEFINE f == [o \in DOMAIN req |-> req[o].intent.qty]
<1>1. IsFiniteSet(S)
  <2>1. DOMAIN req = 1 .. Len(req) /\ 1 \in Int /\ Len(req) \in Int BY TypedLengths
  <2>2. IsFiniteSet(DOMAIN req) BY <2>1, FS_Interval
  <2> QED BY <2>2, FS_Subset
<1>2. \A o \in S : f[o] \in Nat
  <2> TAKE o \in S
  <2>1. req[o] \in Task BY ElementOfSeq, TypedLengths DEF TypeOK
  <2>2. req[o].intent.qty \in Nat BY <2>1, QuantitiesAssumption DEF Task, Intent
  <2> QED BY <2>2
<1>3. SumFunctionOnSet(f, T) <= SumFunctionOnSet(f, S)
  <2> HIDE DEF f
  <2> QED BY <1>1, <1>2, SumGrows
<1> QED BY <1>3 DEF Quantity

\* The counters, which the order manager computes from the orders it tracks,
\* never promise a share again that a sell order on the book already offers.
THEOREM TheBookIsCovered == Spec => []PendingCoversTheBook
<1> DEFINE I == TypeOK /\ Shape /\ ReplacedAreGone /\ CInv /\ KInv
<1>1. Init => I
  BY TypeShapeInit, ReplacedInit, CopiesInit, TrackedInit
<1>2. I /\ [Next]_vars => I'
  BY TypeShapeStep, ReplacedStep, CopiesStep, TrackedStep
<1>3. I => PendingCoversTheBook
  <2> SUFFICES ASSUME I, pc = "idle", Calm, NEW side \in Sides
               PROVE  pending[side] >= Quantity(SellsOf(Live, side))
    BY DEF PendingCoversTheBook, Calm
  <2>1. Tracked /\ Copies BY DEF KInv, CInv, Calm, Unseen
  <2>2. pending[side] = Quantity(SellsOf(active, side))
    BY <2>1 DEF Copies, Counted, PendingSells
  <2>3. Live \subseteq active BY <2>1, TypedLengths DEF Tracked, Live
  <2>4. SellsOf(Live, side) \subseteq SellsOf(active, side) BY <2>3 DEF SellsOf
  <2>5. SellsOf(active, side) \subseteq DOMAIN req BY DEF SellsOf, TypeOK
  <2>6. Quantity(SellsOf(Live, side)) <= Quantity(SellsOf(active, side))
    BY <2>4, <2>5, PartsHaveLess
  <2> QED BY <2>2, <2>6
<1> QED BY <1>1, <1>2, <1>3, PTL DEF Spec

-----------------------------------------------------------------------------
(***************************************************************************)
(* One order per key.  Within a cycle a wanted key has no order yet, or    *)
(* was held when the cycle began, or is the one just placed; it gets one   *)
(* order, because no two intents of a cycle share a key.                   *)
(***************************************************************************)
\* The rungs of a ladder have different prices, and a side has one ladder:
\* IntentsHaveTheirOwnPrices, a theorem of Quoting_proofs.
OneIntentPerKey ==
    \A intents \in IntentLists : \A i, j \in DOMAIN intents :
        intents[i].key = intents[j].key => i = j

UniqueKeys ==
    /\ \A m, n \in active : KeyOf(m) = KeyOf(n) => m = n
    /\ \A i, j \in DOMAIN plan : plan[i].intent.key = plan[j].intent.key => i = j
    /\ \A o \in active, i \in DOMAIN plan :
           KeyOf(o) = plan[i].intent.key =>
               \/ KeyOf(o) \in heldKeys
               \/ pc \in {"record", "uncacheOld"} /\ i = 1
    /\ pc \in {"send", "await"} => Head(plan).intent.key \notin heldKeys

UInv == Calm => UniqueKeys

LEMMA UniqueInit == Init => UInv
BY DEF Init, UInv, UniqueKeys

\* A step that adds no order, keeps the plan and ends no submission.
LEMMA UniqueStays ==
    ASSUME TypeOK, UniqueKeys, active' \subseteq active,
           \A o \in active : KeyOf(o)' = KeyOf(o),
           UNCHANGED <<heldKeys, plan>>,
           pc' = pc \/ pc \notin {"record", "uncacheOld"},
           pc' \in {"send", "await"} => pc \in {"send", "await"}
    PROVE  UniqueKeys'
BY DEF UniqueKeys

\* A step that forgets the plan.
LEMMA UniqueForgets ==
    ASSUME UniqueKeys, active' \subseteq active,
           \A o \in active : KeyOf(o)' = KeyOf(o),
           plan' = <<>>, pc' \notin {"send", "await"}
    PROVE  UniqueKeys'
<1>1. DOMAIN plan' = {} OBVIOUS
<1> QED BY <1>1 DEF UniqueKeys

\* A step that is done with the first intent.
LEMMA UniqueGoesOn ==
    ASSUME TypeOK, UniqueKeys, plan # <<>>, plan' = Tail(plan),
           UNCHANGED <<req, active, heldKeys>>, pc' = "cycle"
    PROVE  UniqueKeys'
<1>1. /\ \A i \in DOMAIN plan' : /\ i + 1 \in DOMAIN plan
                                 /\ plan'[i] = plan[i + 1] /\ i \in Nat \ {0}
  <2>1. DOMAIN plan' = 1 .. Len(plan') BY FirstOfPlan, LenProperties
  <2>2. Len(plan') \in Nat BY FirstOfPlan, LenProperties
  <2> QED BY <2>1, <2>2, FirstOfPlan
<1>2. \A o \in active : KeyOf(o)' = KeyOf(o) BY DEF KeyOf
<1>3. \A i, j \in DOMAIN plan' : plan'[i].intent.key = plan'[j].intent.key => i = j
  <2> SUFFICES ASSUME NEW i \in DOMAIN plan', NEW j \in DOMAIN plan',
                      plan'[i].intent.key = plan'[j].intent.key
               PROVE  i = j
    OBVIOUS
  <2>1. i + 1 = j + 1 BY <1>1 DEF UniqueKeys
  <2> QED BY <1>1, <2>1
<1>4. \A o \in active, i \in DOMAIN plan' :
          KeyOf(o) = plan'[i].intent.key => KeyOf(o) \in heldKeys
  <2> SUFFICES ASSUME NEW o \in active, NEW i \in DOMAIN plan',
                      KeyOf(o) = plan'[i].intent.key
               PROVE  KeyOf(o) \in heldKeys
    OBVIOUS
  <2>1. i + 1 # 1 /\ i + 1 \in DOMAIN plan /\ KeyOf(o) = plan[i + 1].intent.key
    BY <1>1
  <2> QED BY <2>1 DEF UniqueKeys
<1> QED BY <1>2, <1>3, <1>4 DEF UniqueKeys

LEMMA UniqueStart ==
    ASSUME OneIntentPerKey, TypeOK, UniqueKeys, Start
    PROVE  UniqueKeys'
<1>1. PICK intents \in IntentLists : \E olds \in Olds(intents) :
            StartCycle(intents, olds)
  BY DEF Start
<1>2. PICK olds \in Olds(intents) : StartCycle(intents, olds)
  BY <1>1
<1>3. /\ plan' = Tasks(intents, olds) /\ heldKeys' = {KeyOf(o) : o \in active}
      /\ UNCHANGED <<req, active>> /\ pc' = "cycle"
  BY <1>2 DEF StartCycle, ActiveKeys, exchange
<1>4. DOMAIN plan' = DOMAIN intents
      /\ \A i \in DOMAIN plan' : plan'[i].intent = intents[i]
  BY <1>3 DEF Tasks
<1>5. \A o \in active : KeyOf(o)' = KeyOf(o) /\ KeyOf(o) \in heldKeys'
  BY <1>3 DEF KeyOf
<1>6. \A i, j \in DOMAIN plan' : plan'[i].intent.key = plan'[j].intent.key => i = j
  BY <1>4 DEF OneIntentPerKey
<1> QED BY <1>3, <1>5, <1>6 DEF UniqueKeys

LEMMA UniqueAccepted ==
    ASSUME TypeOK, Shape, UniqueKeys, ReplyAccepted
    PROVE  UniqueKeys'
<1>1. /\ pc = "await" /\ pc' \in {"record", "uncacheOld"}
      /\ active' = (active \ {req[Latest].old}) \cup {Latest}
      /\ UNCHANGED <<req, heldKeys, plan>>
  BY DEF ReplyAccepted, exchange, locals
<1>2. plan # <<>> /\ req[Latest] = Head(plan)
  BY <1>1 DEF Shape, Submitted
<1>3. 1 \in DOMAIN plan /\ Head(plan) = plan[1]
  BY <1>2, FirstOfPlan
<1>4. \A o : KeyOf(o)' = KeyOf(o) BY <1>1 DEF KeyOf
<1>5. KeyOf(Latest) = plan[1].intent.key BY <1>2, <1>3 DEF KeyOf
<1>6. plan[1].intent.key \notin heldKeys BY <1>1, <1>3 DEF UniqueKeys
<1>7. \A o \in active : KeyOf(o) # plan[1].intent.key
  BY <1>1, <1>3, <1>6 DEF UniqueKeys
<1>8. \A m, n \in active' : KeyOf(m)' = KeyOf(n)' => m = n
  BY <1>1, <1>4, <1>5, <1>7 DEF UniqueKeys
<1>9. \A o \in active', i \in DOMAIN plan' :
          KeyOf(o)' = plan'[i].intent.key => KeyOf(o)' \in heldKeys' \/ i = 1
  <2> SUFFICES ASSUME NEW o \in active', NEW i \in DOMAIN plan, i # 1,
                      KeyOf(o) = plan[i].intent.key
               PROVE  KeyOf(o) \in heldKeys
    BY <1>1, <1>4
  <2>1. o # Latest BY <1>3, <1>5 DEF UniqueKeys
  <2>2. o \in active BY <1>1, <2>1
  <2> QED BY <1>1, <2>2 DEF UniqueKeys
<1> QED BY <1>1, <1>8, <1>9 DEF UniqueKeys

LEMMA UniqueStep ==
    ASSUME OneIntentPerKey, TypeOK, Shape, KInv, UInv, [Next]_vars
    PROVE  UInv'
<1> USE DEF NoFault, Fault, exchange, memory, locals, redis, ForgetLocals, EndProcess
<1> SUFFICES ASSUME Calm' PROVE UniqueKeys'
  BY DEF UInv
<1>0. seen \subseteq seen'
  BY DEF Next, vars, Exchange, ExchangeAccept, ExchangeRefuse, ExchangeFill, Work, Start,
     StartCycle, CancelOrder, CancelOrderFails, Uncache, SkipHeldKey, Mark,
     SkipDuplicate, Submit, ReplyAccepted, ReplyFails, Unmark, UncacheOld, Record,
     RecordFails, RedisError, EndCycle, BatchCancel, BatchCancelFails, SyncAll,
     ClearAll, CancelAllRedisError, KillSwitch, Shutdown, Crash, Boot,
     LoadFromCache, LoadFails, ExpireMark
<1>1. UniqueKeys /\ Tracked /\ {"api", "redis", "crash", "exit"} \cap seen' = {}
  BY <1>0 DEF UInv, KInv, Calm, Unseen
<1>2. req' = req => \A o \in active : KeyOf(o)' = KeyOf(o)
  BY DEF KeyOf
<1>3. CASE Start
  BY <1>1, <1>3, UniqueStart
<1>4. CASE SkipHeldKey \/ SkipDuplicate \/ Unmark \/ Record
  <2>1. plan # <<>>
    BY <1>4 DEF SkipHeldKey, SkipDuplicate, Placing, AtIntent, Unmark, Record, Shape, Submitted
  <2>2. plan' = Tail(plan) /\ UNCHANGED <<req, active, heldKeys>> /\ pc' = "cycle"
    BY <1>4 DEF SkipHeldKey, SkipDuplicate, Placing, AtIntent, Unmark, Record
  <2> QED BY <1>1, <2>1, <2>2, UniqueGoesOn
<1>5. CASE Mark
  <2>1. /\ Head(plan).intent.key \notin heldKeys /\ pc = "cycle" /\ pc' = "send"
        /\ UNCHANGED <<req, active, heldKeys, plan>>
    BY <1>5 DEF Mark, Placing, AtIntent, KeyIsHeld, Fingerprint
  <2> QED BY <1>1, <1>2, <2>1 DEF UniqueKeys
<1>6. CASE Submit
  <2>1. \A o \in active : KeyOf(o)' = KeyOf(o)
    BY <1>6, SubmitAppends DEF TypeOK, KeyOf
  <2>2. UNCHANGED <<active, heldKeys, plan>> /\ pc = "send" /\ pc' = "await"
    BY <1>6 DEF Submit
  <2> QED BY <1>1, <2>1, <2>2, UniqueStays
<1>7. CASE ReplyAccepted
  BY <1>1, <1>7, UniqueAccepted
<1>8. CASE UncacheOld
  <2>1. UNCHANGED <<req, active, heldKeys, plan>> /\ pc' = "record" /\ pc = "uncacheOld"
    BY <1>8 DEF UncacheOld
  <2> QED BY <1>1, <1>2, <2>1 DEF UniqueKeys
<1>9. CASE EndCycle
  <2>1. UNCHANGED <<req, active>> /\ plan' = <<>> /\ pc' = "idle"
    BY <1>9 DEF EndCycle
  <2> QED BY <1>1, <1>2, <2>1, UniqueForgets
<1>10. CASE \/ Exchange \/ CancelOrder \/ CancelOrderFails \/ Uncache \/ ReplyFails
            \/ BatchCancel \/ SyncAll \/ ClearAll \/ KillSwitch \/ Boot
            \/ \E fingerprint \in marks : ExpireMark(fingerprint)
  <2>1. /\ active' \subseteq active /\ UNCHANGED <<req, heldKeys, plan>>
        /\ \/ pc' = pc
           \/ pc \notin {"record", "uncacheOld"} /\ pc' \notin {"send", "await"}
    BY <1>1, <1>10
       DEF Tracked, Exchange, ExchangeAccept, ExchangeRefuse, ExchangeFill, CancelOrder,
           CancelOrderFails, Uncache, ReplyFails, BatchCancel, SyncAll, ClearAll, KillSwitch,
           Boot, ExpireMark
  <2> QED BY <1>1, <1>2, <2>1, UniqueStays
<1>11. CASE LoadFromCache
  <2>1. req = <<>> /\ pc' = "idle" /\ active' = cached /\ UNCHANGED <<plan, heldKeys>>
    BY <1>1, <1>11 DEF LoadFromCache, Tracked
  <2>2. active' = {} BY <2>1 DEF TypeOK
  <2> QED BY <1>1, <2>1, <2>2 DEF UniqueKeys
<1>12. CASE UNCHANGED vars
  BY <1>1, <1>2, <1>12, UniqueStays DEF vars
<1>13. CASE \/ RecordFails \/ RedisError \/ CancelAllRedisError \/ LoadFails
            \/ BatchCancelFails \/ Shutdown \/ Crash
  BY <1>1, <1>13
     DEF Tracked, RecordFails, RedisError, CancelAllRedisError, LoadFails,
         BatchCancelFails, Shutdown, Crash
<1> QED
  BY <1>3, <1>4, <1>5, <1>6, <1>7, <1>8, <1>9, <1>10, <1>11, <1>12, <1>13 DEF Next, Work

\* If the intents of a cycle have distinct keys, no two orders in memory ever
\* share one, also when dedupe marks have expired: the diff of active_keys
\* sees every order.
THEOREM KeysHaveOneOrder ==
    ASSUME OneIntentPerKey
    PROVE  Spec => []OneOrderPerKey
<1> DEFINE I == TypeOK /\ Shape /\ ReplacedAreGone /\ CInv /\ KInv /\ UInv
<1>1. Init => I
  BY TypeShapeInit, ReplacedInit, CopiesInit, TrackedInit, UniqueInit
<1>2. I /\ [Next]_vars => I'
  BY TypeShapeStep, ReplacedStep, CopiesStep, TrackedStep, UniqueStep
<1>3. I => OneOrderPerKey
  BY DEF UInv, UniqueKeys, Calm, OneOrderPerKey
<1> QED BY <1>1, <1>2, <1>3, PTL DEF Spec
=============================================================================
