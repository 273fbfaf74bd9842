--------------------------- MODULE ExecutorRound ---------------------------
(***************************************************************************)
(* rclc_executor_spin over a fixed handle table (src/rclc/src/rclc/        *)
(* executor.c): every call of rclc_executor_spin_some waits on the wait    *)
(* set, marks readiness (_rclc_check_for_new_data), evaluates the trigger, *)
(* and then takes and executes the handles in table order, either         *)
(* interleaved (_rclc_default_scheduling) or in two passes                *)
(* (_rclc_let_scheduling).  The middleware is an environment that, at any  *)
(* moment, delivers messages, requests, responses, timer expiries and      *)
(* guard-condition triggers, and whose wait may report an entry ready that *)
(* then has nothing to take.                                               *)
(*                                                                         *)
(* A message is abstracted to who published it (0: outside the executor,   *)
(* i: the callback of handle i) and whether it was published after the     *)
(* wait of the current round.                                              *)
(***************************************************************************)
EXTENDS Naturals, Sequences, FiniteSets

CONSTANTS
  Ents,           \* rcl entities (model values)
  EntType,        \* [Ents -> {"Sub","SubCtx","Timer","Client","ClientReqId",
                  \*           "Service","ServiceReqId","ServiceCtx","Gc"}]
  NoPub,
  Configs,        \* the executors to check, as records (see below)
  Depth,          \* KEEP_LAST history depth of subscription/service/client queues
  Budget,         \* number of external middleware events
  MayShutdown,    \* may the rcl context become invalid?
  MayCancel       \* may a timer of the table be canceled (rcl_timer_cancel)?

SubTypes     == {"Sub", "SubCtx"}
ServiceTypes == {"Service", "ServiceReqId", "ServiceCtx"}
ClientTypes  == {"Client", "ClientReqId"}

\* An executor as the add and set functions left it before spinning:
\*   handles    the table: a sequence of [ent, inv, pub]; pub is the entity
\*              the callback publishes (or responds) to, or NoPub;
\*   semantics  executor->data_comm_semantics, "RCLCPP_EXECUTOR" or "LET";
\*   trigger    "any", "all", "always" or "one", and trigObj its object;
\*   spurious   handle kinds whose wait entry may be set with nothing to take.
ASSUME /\ Depth \in Nat \ {0}
       /\ \A c \in Configs :
            /\ Len(c.handles) > 0
            /\ \A i \in 1 .. Len(c.handles) :
                 LET h == c.handles[i] IN
                 /\ h.ent \in Ents
                 /\ h.inv \in {"OnNewData", "Always"}
                 /\ h.pub \in Ents \cup {NoPub}
                 \* only subscriptions can be added with ALWAYS
                 /\ h.inv = "Always" => EntType[h.ent] \in SubTypes
            /\ c.semantics \in {"RCLCPP_EXECUTOR", "LET"}
            /\ c.trigger \in {"any", "all", "always", "one"}
            /\ c.spurious \subseteq {"Sub", "Service", "Client"}

VARIABLES
  queue,      \* middleware: [Ents -> Seq(Msg)]; a timer or guard condition
              \* holds one element while it is ready / triggered
  ctxValid,   \* rcl_context_is_valid(executor->context)
  budget,     \* external events left
  wsReady,    \* wait-set entry of handle i non-NULL after rcl_wait
  dataAvail,  \* handles[i].data_available
  buf,        \* handles[i].data: last message taken, or NoData
  pending,    \* buf[i] was taken and not yet passed to the callback
  took,       \* history: handle i took an element since the last rcl_wait
  seen,       \* what the callback of handle i received in this round:
              \* a message, NullArg, CallArg (no data argument) or NoData
  pc,         \* "wait", "step" (default), "take" / "exec" (LET), "stopped"
  cur,        \* handle the current pass is at
  waitRc,     \* result of the last rcl_wait
  ret,        \* result of the last rclc_executor_spin_some
  conf,       \* the executor's configuration, fixed while it spins
  canceled    \* timers canceled with rcl_timer_cancel

vars == <<queue, ctxValid, budget, wsReady, dataAvail, buf, pending, took, seen,
          pc, cur, waitRc, ret, conf, canceled>>

Handles       == conf.handles
Semantics     == conf.semantics
Trigger       == conf.trigger
TriggerObj    == conf.trigObj
SpuriousKinds == conf.spurious

N == Len(Handles)
Idx == 1 .. N
Kind(i) == EntType[Handles[i].ent]

Msg == [src : 0 .. N, fresh : BOOLEAN]

DepthOf(e) == IF EntType[e] \in {"Timer", "Gc"} THEN 1 ELSE Depth

\* The middleware queue after m arrives: KEEP_LAST drops the oldest.
Deliver(q, e, m) ==
  IF Len(q[e]) < DepthOf(e) THEN [q EXCEPT ![e] = Append(@, m)]
  ELSE [q EXCEPT ![e] = Append(Tail(@), m)]

Stale(m) == [m EXCEPT !.fresh = FALSE]

\* Buffers and callback arguments hold a message or one of these markers:
\* nothing (yet), the NULL data pointer, and a call without a data argument.
NoData  == [mark |-> "NONE"]
NullArg == [mark |-> "NULL"]
CallArg == [mark |-> "CALL"]
IsMsg(x) == "src" \in DOMAIN x

-----------------------------------------------------------------------------
(* Trigger conditions of the rclc_executor_trigger_ family, evaluated on the   *)
(* readiness flags the readiness pass has just written.                    *)

\* Fault variant: the scan of trigger_any stops after the first handle.
TriggerAnyFirst(da) == da[1]

\* The scans of trigger_any, trigger_all and trigger_one over a table without
\* action handles (get_ptr is never NULL here); module Triggers checks the
\* scans themselves, action handles included.
TriggerAny(da) == \E i \in Idx : da[i]
TriggerAll(da) == \A i \in Idx : da[i]
TriggerOne(da, obj) == \E i \in Idx : da[i] /\ Handles[i].ent = obj

TriggerFires(da) ==
  CASE Trigger = "any"    -> TriggerAny(da)
    [] Trigger = "all"    -> TriggerAll(da)
    [] Trigger = "always" -> TRUE
    [] Trigger = "one"    -> TriggerOne(da, TriggerObj)

-----------------------------------------------------------------------------
(* One iteration of rclc_executor_spin up to the trigger: the context      *)
(* check (an invalid context makes spin_some, and so spin, return an       *)
(* error), rcl_wait (guard conditions are reset by the wait), the          *)
(* readiness pass and the trigger.  rcl_wait's result is discarded.        *)

WaitReadyCandidates == {i \in Idx : Len(queue[Handles[i].ent]) = 0
                                    /\ \E k \in SpuriousKinds :
                                         Kind(i) \in CASE k = "Sub" -> SubTypes
                                                       [] k = "Service" -> ServiceTypes
                                                       [] k = "Client" -> ClientTypes}

SpinSomeWait ==
  /\ pc = "wait"
  /\ IF ~ctxValid
     THEN /\ pc' = "stopped"
          /\ ret' = "ERROR"
          /\ UNCHANGED <<queue, wsReady, dataAvail, buf, pending, took, seen, cur, waitRc>>
     ELSE \E spurious \in SUBSET WaitReadyCandidates :
          LET ready == [i \in Idx |-> Len(queue[Handles[i].ent]) > 0 \/ i \in spurious]
          IN /\ wsReady' = ready
             /\ dataAvail' = ready
             /\ waitRc' = IF \E i \in Idx : ready[i] THEN "OK" ELSE "TIMEOUT"
             /\ queue' = [e \in Ents |->
                            IF EntType[e] = "Gc" THEN << >>
                            ELSE [k \in DOMAIN queue[e] |-> Stale(queue[e][k])]]
             /\ buf' = [i \in Idx |-> IF IsMsg(buf[i]) THEN Stale(buf[i]) ELSE buf[i]]
             /\ seen' = [i \in Idx |-> NoData]
             /\ took' = [i \in Idx |-> FALSE]
             /\ cur' = 1
             /\ IF TriggerFires(ready)
                THEN /\ pc' = IF Semantics = "LET" THEN "take" ELSE "step"
                     /\ UNCHANGED ret
                ELSE /\ pc' = "wait"
                     /\ ret' = "OK"
             /\ UNCHANGED pending
  /\ UNCHANGED <<ctxValid, budget>>

-----------------------------------------------------------------------------
(* Take and execute work on the part of the state a handle step changes.   *)

Local == [queue |-> queue, buf |-> buf, pending |-> pending, took |-> took,
          dataAvail |-> dataAvail, seen |-> seen]

\* _rclc_take_new_data for handle i: a subscription, service or client
\* takes one element when its wait-set entry is set; nothing to take is
\* TAKE_FAILED, which clears data_available for subscriptions and services
\* only (the client branch leaves it set).  Timers and guard conditions
\* take nothing.
TakeRc(i) ==
  IF /\ wsReady[i]
     /\ Kind(i) \in SubTypes \cup ServiceTypes \cup ClientTypes
     /\ Len(queue[Handles[i].ent]) = 0
  THEN CASE Kind(i) \in SubTypes     -> "SUBSCRIPTION_TAKE_FAILED"
         [] Kind(i) \in ServiceTypes -> "SERVICE_TAKE_FAILED"
         [] Kind(i) \in ClientTypes  -> "CLIENT_TAKE_FAILED"
  ELSE "OK"

\* Fault variant: the take ignores the wait-set entry and takes whatever
\* has arrived.
TakeNewDataAnyReady(i, s) ==
  LET e == Handles[i].ent IN
  IF Kind(i) \notin SubTypes \cup ServiceTypes \cup ClientTypes \/ Len(s.queue[e]) = 0
  THEN s
  ELSE [s EXCEPT !.buf[i] = Head(s.queue[e]), !.pending[i] = TRUE,
                 !.took[i] = TRUE, !.queue[e] = Tail(@)]

\* Fault variant: TAKE_FAILED does not clear data_available.
TakeNewDataKeepAvail(i, s) ==
  LET e == Handles[i].ent IN
  IF ~wsReady[i] \/ Kind(i) \notin SubTypes \cup ServiceTypes \cup ClientTypes
     \/ Len(s.queue[e]) = 0
  THEN s
  ELSE [s EXCEPT !.buf[i] = Head(s.queue[e]), !.pending[i] = TRUE,
                 !.took[i] = TRUE, !.queue[e] = Tail(@)]

TakeNewData(i, s) ==
  LET e == Handles[i].ent IN
  IF ~wsReady[i] \/ Kind(i) \notin SubTypes \cup ServiceTypes \cup ClientTypes
  THEN s
  ELSE IF Len(s.queue[e]) > 0
  THEN [s EXCEPT !.buf[i] = Head(s.queue[e]),
                 !.pending[i] = TRUE,
                 !.took[i] = TRUE,
                 !.queue[e] = Tail(@)]
  ELSE IF Kind(i) \in ClientTypes THEN s
  ELSE [s EXCEPT !.dataAvail[i] = FALSE]

\* rcl_timer_call on a timer canceled since the wait reported it ready
\* calls nothing and returns TIMER_CANCELED.
TimerCanceled(i) == Kind(i) = "Timer" /\ Handles[i].ent \in canceled

\* _rclc_execute for handle i: ON_NEW_DATA handles run when data is
\* available, ALWAYS handles every time.  A subscription gets its buffer
\* or NULL; a timer is called through rcl_timer_call, which resets it; a
\* service callback is followed by rcl_send_response.  What the callback
\* publishes (a service: its response) goes to handle i's pub entity.
Execute(i, s) ==
  LET e      == Handles[i].ent
      invoke == \/ Handles[i].inv = "OnNewData" /\ s.dataAvail[i]
                \/ Handles[i].inv = "Always"
      q1     == IF Kind(i) = "Timer" THEN [s.queue EXCEPT ![e] = << >>] ELSE s.queue
      out    == [src |-> i, fresh |-> TRUE]
  IN IF ~invoke \/ TimerCanceled(i) THEN s
     ELSE [s EXCEPT
             !.seen[i] = IF Kind(i) \in {"Timer", "Gc"} THEN CallArg
                         ELSE IF s.dataAvail[i] THEN s.buf[i] ELSE NullArg,
             !.pending[i] = FALSE,
             !.queue = IF Handles[i].pub = NoPub THEN q1
                       ELSE Deliver(q1, Handles[i].pub, out)]

\* The result of _rclc_execute: rcl_timer_call's TIMER_CANCELED is mapped
\* to OK, and every other modelled path returns OK.
\* Fault variant: TIMER_CANCELED is passed on as an error.
ExecuteRcUnmapped(i) == IF TimerCanceled(i) /\ dataAvail[i] THEN "TIMER_CANCELED" ELSE "OK"

ExecuteRc(i) == "OK"

SetLocal(s) ==
  /\ queue' = s.queue
  /\ buf' = s.buf
  /\ pending' = s.pending
  /\ took' = s.took
  /\ dataAvail' = s.dataAvail
  /\ seen' = s.seen

\* A result code that does not end the round makes the pass continue; the
\* end of the last pass returns spin_some's result to rclc_executor_spin,
\* which returns (and so stops spinning) on anything but OK or TIMEOUT.
\* Fault variant: the handle loop runs one index too far.
ContinueOffByOne(nextPc) ==
  IF cur <= N THEN /\ cur' = cur + 1 /\ UNCHANGED <<pc, ret>>
  ELSE /\ cur' = 1
       /\ pc' = nextPc
       /\ ret' = IF nextPc = "wait" THEN "OK" ELSE ret

Continue(nextPc) ==
  IF cur < N THEN /\ cur' = cur + 1 /\ UNCHANGED <<pc, ret>>
  ELSE /\ cur' = 1
       /\ pc' = nextPc
       /\ ret' = IF nextPc = "wait" THEN "OK" ELSE ret

Stop(rc) ==
  /\ pc' = "stopped"
  /\ ret' = rc
  /\ UNCHANGED cur

-----------------------------------------------------------------------------
(* _rclc_default_scheduling after the trigger: for each handle, take then  *)
(* execute; a take result other than OK, SUBSCRIPTION_TAKE_FAILED and      *)
(* SERVICE_TAKE_FAILED ends the round with that result.                    *)

\* Fault variant: SERVICE_TAKE_FAILED is not tolerated.
DefaultToleratedNoService == {"OK", "SUBSCRIPTION_TAKE_FAILED"}

DefaultTolerated == {"OK", "SUBSCRIPTION_TAKE_FAILED", "SERVICE_TAKE_FAILED"}

DefaultStep ==
  /\ pc = "step"
  /\ LET t == TakeNewData(cur, Local) IN
     IF TakeRc(cur) \notin DefaultTolerated
     THEN SetLocal(t) /\ Stop(TakeRc(cur))
     ELSE /\ SetLocal(Execute(cur, t))
          /\ IF ExecuteRc(cur) = "OK" THEN Continue("wait") ELSE Stop(ExecuteRc(cur))
  /\ UNCHANGED <<ctxValid, budget, wsReady, waitRc>>

(* _rclc_let_scheduling after the trigger: first a take pass over all      *)
(* handles, which tolerates only OK and SUBSCRIPTION_TAKE_FAILED, then an  *)
(* execute pass.                                                           *)

LetTolerated == {"OK", "SUBSCRIPTION_TAKE_FAILED"}

\* Fault variant: the take pass also executes each handle.
LetTakeFused ==
  /\ pc = "take"
  /\ SetLocal(Execute(cur, TakeNewData(cur, Local)))
  /\ IF TakeRc(cur) \notin LetTolerated
     THEN Stop(TakeRc(cur))
     ELSE Continue("exec")
  /\ UNCHANGED <<ctxValid, budget, wsReady, waitRc>>

LetTake ==
  /\ pc = "take"
  /\ SetLocal(TakeNewData(cur, Local))
  /\ IF TakeRc(cur) \notin LetTolerated
     THEN Stop(TakeRc(cur))
     ELSE Continue("exec")
  /\ UNCHANGED <<ctxValid, budget, wsReady, waitRc>>

LetExecute ==
  /\ pc = "exec"
  /\ SetLocal(Execute(cur, Local))
  /\ IF ExecuteRc(cur) = "OK" THEN Continue("wait") ELSE Stop(ExecuteRc(cur))
  /\ UNCHANGED <<ctxValid, budget, wsReady, waitRc>>

-----------------------------------------------------------------------------
(* The middleware and the rest of the process, at any moment.              *)

\* A message, request or response arrives, a timer expires, or a guard
\* condition is triggered from outside the executor.
ExternalEvent(e) ==
  /\ budget > 0
  /\ e \notin canceled
  /\ budget' = budget - 1
  /\ queue' = Deliver(queue, e, [src |-> 0, fresh |-> TRUE])
  /\ UNCHANGED <<ctxValid, wsReady, dataAvail, buf, pending, took, seen, pc, cur, waitRc, ret, canceled>>

\* rcl_timer_cancel on a timer of the table, from a callback or from
\* another part of the application: the timer is no longer ready and
\* never expires again.
CancelTimer(e) ==
  /\ MayCancel
  /\ EntType[e] = "Timer" /\ e \notin canceled
  /\ canceled' = canceled \cup {e}
  /\ queue' = [queue EXCEPT ![e] = << >>]
  /\ UNCHANGED <<ctxValid, budget, wsReady, dataAvail, buf, pending, took, seen, pc, cur, waitRc, ret>>

\* rcl_shutdown invalidates the context.
Shutdown ==
  /\ MayShutdown /\ ctxValid
  /\ ctxValid' = FALSE
  /\ UNCHANGED <<queue, budget, wsReady, dataAvail, buf, pending, took, seen, pc, cur, waitRc, ret, canceled>>

-----------------------------------------------------------------------------

Init ==
  /\ conf \in Configs
  /\ queue = [e \in Ents |-> << >>]
  /\ ctxValid = TRUE
  /\ budget = Budget
  /\ wsReady = [i \in Idx |-> FALSE]
  /\ dataAvail = [i \in Idx |-> FALSE]
  /\ buf = [i \in Idx |-> NoData]
  /\ pending = [i \in Idx |-> FALSE]
  /\ took = [i \in Idx |-> FALSE]
  /\ seen = [i \in Idx |-> NoData]
  /\ pc = "wait"
  /\ cur = 1
  /\ waitRc = "NONE"
  /\ ret = "NONE"
  /\ canceled = {}

Executor == (SpinSomeWait \/ DefaultStep \/ LetTake \/ LetExecute) /\ UNCHANGED <<conf, canceled>>

Environment ==
  /\ \/ \E e \in Ents : ExternalEvent(e) \/ CancelTimer(e)
     \/ Shutdown
  /\ UNCHANGED conf

Next == Executor \/ Environment

\* rclc_executor_spin loops on spin_some for as long as it returns OK or
\* TIMEOUT, so the executor never stops taking steps on its own.
Spec == Init /\ [][Next]_vars /\ WF_vars(Executor)

-----------------------------------------------------------------------------
(* Properties *)

TypeOK ==
  /\ conf \in Configs
  /\ queue \in [Ents -> Seq(Msg)]
  /\ \A e \in Ents : Len(queue[e]) <= DepthOf(e)
  /\ ctxValid \in BOOLEAN
  /\ budget \in 0 .. Budget
  /\ wsReady \in [Idx -> BOOLEAN]
  /\ dataAvail \in [Idx -> BOOLEAN]
  /\ \A i \in Idx : buf[i] = NoData \/ buf[i] \in Msg
  /\ pending \in [Idx -> BOOLEAN]
  /\ took \in [Idx -> BOOLEAN]
  /\ \A i \in Idx : seen[i] \in {NoData, NullArg, CallArg} \/ seen[i] \in Msg
  /\ pc \in {"wait", "step", "take", "exec", "stopped"}
  /\ cur \in Idx
  /\ waitRc \in {"NONE", "OK", "TIMEOUT"}
  /\ ret \in {"NONE", "OK", "ERROR", "SUBSCRIPTION_TAKE_FAILED",
              "SERVICE_TAKE_FAILED", "CLIENT_TAKE_FAILED", "TIMER_CANCELED"}
  /\ canceled \subseteq {e \in Ents : EntType[e] = "Timer"}

\* Nothing taken is dropped: whenever spin_some has returned, every message,
\* request or response it took from the middleware into a handle's buffer
\* has been passed to that handle's callback (the buffer is overwritten by
\* the next take).
NoLostTake == pc \in {"wait", "stopped"} => \A i \in Idx : ~pending[i]

\* A callback that is given data is given the element taken for it in the
\* same round, never a buffer left over from an earlier round: every
\* take-failed path that leaves the handle's buffer untouched must also
\* clear data_available.
NoStaleDelivery == \A i \in Idx : IsMsg(seen[i]) => took[i]

\* LET (spec 4.8, P5): within one round no callback observes data that a
\* callback of the same round published, because all takes precede all
\* executions.
LetSnapshot ==
  Semantics = "LET" =>
    \A i \in Idx : IsMsg(seen[i]) => ~(seen[i].fresh /\ seen[i].src # 0)

\* Everything that arrives for an entity of the table is eventually taken
\* (or the context is shut down), with trigger "any" and with "always".
InputEventuallyTaken ==
  \A e \in Ents :
    ((\E i \in Idx : Handles[i].ent = e) /\ Len(queue[e]) > 0)
      ~> (Len(queue[e]) = 0 \/ ~ctxValid)

\* Spec 4.8 and 7: a take that finds nothing is a false readiness signal;
\* it does not abort the round, so rclc_executor_spin keeps spinning as long
\* as the context is valid.
SpinStopsOnlyOnShutdown == pc = "stopped" => ~ctxValid


=============================================================================
