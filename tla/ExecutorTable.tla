--------------------------- MODULE ExecutorTable ---------------------------
(***************************************************************************)
(* The handle table of an rclc executor (src/rclc/src/rclc/executor.c):    *)
(* registration (the rclc_executor_add_ family), removal (the rclc_executor_remove_ family),   *)
(* the per-kind counters executor->info, and the lifecycle of the wait set *)
(* that every registration invalidates and rclc_executor_prepare rebuilds  *)
(* from the counters.  spin_some's registration of every handle in the     *)
(* wait set is the step where a mismatch between table and counters       *)
(* becomes visible.                                                        *)
(*                                                                         *)
(* A handle is abstracted to its type and the rcl entity it points to;     *)
(* callbacks, buffers and contexts do not influence the table.             *)
(***************************************************************************)
EXTENDS Naturals, Sequences, SequencesExt, Functions

CONSTANTS
  Ents,            \* rcl entities the application owns (model values)
  EntType,         \* [Ents -> HandleTypes]: the C type of each entity
  MaxHandles,      \* number_of_handles given to rclc_executor_init
  ActionEntities,  \* [{"ActionClient","ActionServer"} -> [Groups -> Nat]]:
                   \* what rcl_action_*_wait_set_get_num_entities reports
  MwMayFail        \* may rcl_wait_set_fini / rcl_wait_set_init fail?

HandleTypes == {"Sub", "SubCtx", "Timer", "Client", "ClientReqId",
                "Service", "ServiceReqId", "ServiceCtx", "Gc",
                "ActionClient", "ActionServer"}

\* The fields of rclc_executor_handle_counters_t; the first five size the
\* rcl wait set (rcl_wait_set_init has no action-endpoint capacity).
WaitSetGroups == {"subscriptions", "guard_conditions", "timers", "clients", "services"}
Groups == WaitSetGroups \cup {"action_clients", "action_servers"}

ASSUME /\ MaxHandles \in Nat \ {0}
       /\ EntType \in [Ents -> HandleTypes]
       /\ MwMayFail \in BOOLEAN

VARIABLES
  handles,     \* executor->handles[0 .. index-1] as a sequence of [type, ent]
  maxHandles,  \* executor->max_handles (0 after rclc_executor_fini)
  info,        \* executor->info: [Groups -> Nat]
  wsValid,     \* rcl_wait_set_is_valid(&executor->wait_set)
  wsCap,       \* per-group capacity the wait set was initialised with
  spinRet      \* result of the last spin_some registration step

vars == <<handles, maxHandles, info, wsValid, wsCap, spinRet>>

NoCounts == [g \in Groups |-> 0]

\* The counter a handle of type t increments; action endpoints additionally
\* bring the sub-entities rcl_action reports (executor.c:1188-1200).
GroupOf(t) ==
  CASE t \in {"Sub", "SubCtx"}                        -> "subscriptions"
    [] t = "Timer"                                    -> "timers"
    [] t \in {"Client", "ClientReqId"}                -> "clients"
    [] t \in {"Service", "ServiceReqId", "ServiceCtx"} -> "services"
    [] t = "Gc"                                       -> "guard_conditions"
    [] t = "ActionClient"                             -> "action_clients"
    [] t = "ActionServer"                             -> "action_servers"

Contribution(t) ==
  [g \in Groups |->
     (IF g = GroupOf(t) THEN 1 ELSE 0)
     + (IF t \in DOMAIN ActionEntities THEN ActionEntities[t][g] ELSE 0)]

\* Wait-set entries of group g that spin_some adds for the current table.
Demand(g) == SumFunction([k \in DOMAIN handles |-> Contribution(handles[k].type)[g]])

-----------------------------------------------------------------------------
(* Executor lifecycle *)

\* rclc_executor_init: the table is allocated and every slot initialised,
\* the counters are zeroed and the wait set is zero-initialised (a valid
\* wait set of an earlier init is dropped without rcl_wait_set_fini).
ExecutorInit ==
  /\ handles' = << >>
  /\ maxHandles' = MaxHandles
  /\ info' = NoCounts
  /\ wsValid' = FALSE
  /\ wsCap' = NoCounts
  /\ spinRet' = "NONE"

\* rclc_executor_fini: only acts on a valid executor; frees the table,
\* zeroes the counters and finalises a valid wait set.
ExecutorFini ==
  /\ maxHandles # 0
  /\ handles' = << >>
  /\ maxHandles' = 0
  /\ info' = NoCounts
  /\ wsValid' = FALSE
  /\ UNCHANGED <<wsCap, spinRet>>

-----------------------------------------------------------------------------
(* Registration.  Every rclc_executor_add_ function has the same shape: bounds     *)
(* check, fill executor->handles[index], index++, rcl_wait_set_fini of a    *)
(* valid wait set (returning its error at once), then the counter update.  *)
(* rcl_wait_set_fini leaves the wait set invalid even when it fails.       *)

\* Fault variant: the bounds check admits one handle too many.
RegisterOffByOne(e, delta) ==
  /\ Len(handles) <= maxHandles
  /\ handles' = Append(handles, [type |-> EntType[e], ent |-> e])
  /\ wsValid' = FALSE
  /\ info' = [g \in Groups |-> info[g] + delta[g]]
  /\ UNCHANGED <<maxHandles, wsCap, spinRet>>

\* Fault variant: the registration keeps the old wait set.
RegisterNoReset(e, delta) ==
  /\ Len(handles) < maxHandles
  /\ handles' = Append(handles, [type |-> EntType[e], ent |-> e])
  /\ info' = [g \in Groups |-> info[g] + delta[g]]
  /\ UNCHANGED <<maxHandles, wsValid, wsCap, spinRet>>

Register(e, delta) ==
  /\ EntType[e] \in HandleTypes
  /\ Len(handles) < maxHandles
  /\ handles' = Append(handles, [type |-> EntType[e], ent |-> e])
  /\ wsValid' = FALSE
  /\ \/ /\ info' = [g \in Groups |-> info[g] + delta[g]]
     \/ /\ MwMayFail /\ wsValid
        /\ UNCHANGED info                \* early return: counter not updated
  /\ UNCHANGED <<maxHandles, wsCap, spinRet>>

\* Each rclc_executor_add_* function records its own handle type and
\* counts the entity in its group.
AddSubscription(e) ==
  /\ EntType[e] = "Sub"
  /\ Register(e, Contribution("Sub"))

AddSubscriptionWithContext(e) ==
  /\ EntType[e] = "SubCtx"
  /\ Register(e, Contribution("SubCtx"))

AddTimer(e) ==
  /\ EntType[e] = "Timer"
  /\ Register(e, Contribution("Timer"))

AddClient(e) ==
  /\ EntType[e] = "Client"
  /\ Register(e, Contribution("Client"))

AddClientWithRequestId(e) ==
  /\ EntType[e] = "ClientReqId"
  /\ Register(e, Contribution("ClientReqId"))

AddService(e) ==
  /\ EntType[e] = "Service"
  /\ Register(e, Contribution("Service"))

AddServiceWithContext(e) ==
  /\ EntType[e] = "ServiceCtx"
  /\ Register(e, Contribution("ServiceCtx"))

AddServiceWithRequestId(e) ==
  /\ EntType[e] = "ServiceReqId"
  /\ Register(e, Contribution("ServiceReqId"))

AddGuardCondition(e) ==
  /\ EntType[e] = "Gc"
  /\ Register(e, Contribution("Gc"))

\* The action endpoints add their rcl_action sub-entities to the counters
\* after the wait-set reset, together with number_of_action_*++.
\* Fault variant: only number_of_action_clients is counted, not the
\* subscriptions and clients of the action client.
AddActionClientNoEntities(e) ==
  /\ EntType[e] = "ActionClient"
  /\ Register(e, [g \in Groups |-> IF g = "action_clients" THEN 1 ELSE 0])

AddActionClient(e) ==
  /\ EntType[e] = "ActionClient"
  /\ Register(e, Contribution("ActionClient"))

AddActionServer(e) ==
  /\ EntType[e] = "ActionServer"
  /\ Register(e, Contribution("ActionServer"))

-----------------------------------------------------------------------------
(* Removal *)

\* rclc_executor_handle_get_ptr: the entity pointer, NULL for action kinds.
GetPtr(h) == IF h.type \in {"ActionClient", "ActionServer"} THEN "NULL" ELSE h.ent

\* _rclc_executor_find_handle: the loop from handles[0] up to index,
\* returning the first handle whose pointer is e; 0 stands for NULL.
RECURSIVE FindFrom(_, _)
FindFrom(e, k) ==
  IF k > Len(handles) THEN 0
  ELSE IF GetPtr(handles[k]) = e THEN k
  ELSE FindFrom(e, k + 1)

FindHandle(e) == FindFrom(e, 1)

\* The loop of _rclc_executor_remove_handle after index--: every slot from
\* the removed one up to the new index gets a copy of its successor.
RECURSIVE ShiftTail(_, _, _)
ShiftTail(h, dest, last) ==
  IF dest >= last THEN h
  ELSE ShiftTail([h EXCEPT ![dest] = h[dest + 1]], dest + 1, last)

\* Fault variant: the last handle is moved into the removed slot instead
\* of shifting the tail.
RemoveHandleSwapLast(e, g) ==
  LET pos == FindHandle(e) IN
  /\ pos # 0
  /\ handles' = SubSeq([handles EXCEPT ![pos] = handles[Len(handles)]],
                       1, Len(handles) - 1)
  /\ wsValid' = FALSE
  /\ info' = [info EXCEPT ![g] = @ - 1]
  /\ UNCHANGED <<maxHandles, wsCap, spinRet>>

\* _rclc_executor_remove_handle followed by the caller's counter decrement:
\* the tail is shifted left over the removed slot, a valid wait set is
\* finalised (its error returned before the caller decrements) and the
\* counter of the remove function's kind is decremented.
RemoveHandle(e, g) ==
  LET pos == FindHandle(e) IN
  /\ pos # 0
  \* the shift, then rclc_executor_handle_init empties the old last slot
  /\ handles' = SubSeq(ShiftTail(handles, pos, Len(handles)), 1, Len(handles) - 1)
  /\ wsValid' = FALSE
  /\ \/ info' = [info EXCEPT ![g] = @ - 1]
     \/ /\ MwMayFail /\ wsValid
        /\ UNCHANGED info
  /\ UNCHANGED <<maxHandles, wsCap, spinRet>>

RemoveSubscription(e) ==
  /\ EntType[e] \in {"Sub", "SubCtx"}
  /\ RemoveHandle(e, "subscriptions")

RemoveTimer(e) ==
  /\ EntType[e] = "Timer"
  /\ RemoveHandle(e, "timers")

RemoveClient(e) ==
  /\ EntType[e] \in {"Client", "ClientReqId"}
  /\ RemoveHandle(e, "clients")

RemoveService(e) ==
  /\ EntType[e] \in {"Service", "ServiceReqId", "ServiceCtx"}
  /\ RemoveHandle(e, "services")

RemoveGuardCondition(e) ==
  /\ EntType[e] = "Gc"
  /\ RemoveHandle(e, "guard_conditions")

-----------------------------------------------------------------------------
(* Wait set *)

\* rclc_executor_prepare: an invalid wait set is re-initialised with the
\* capacities in executor->info; rcl_wait_set_init may fail and leave it
\* invalid.  A valid wait set is left alone.
PrepareStep ==
  IF wsValid
  THEN UNCHANGED <<wsValid, wsCap>>
  ELSE \/ /\ wsValid' = TRUE
          /\ wsCap' = info
       \/ /\ MwMayFail
          /\ UNCHANGED <<wsValid, wsCap>>

Prepare ==
  /\ PrepareStep
  /\ UNCHANGED <<handles, maxHandles, info, spinRet>>

\* The first half of rclc_executor_spin_some: prepare (its result is
\* ignored), rcl_wait_set_clear (fails on an invalid wait set), then
\* rcl_wait_set_add_ for every handle in table order; an add beyond the
\* capacity of its kind fails with RCL_RET_WAIT_SET_FULL.
SpinSomeRegister ==
  /\ PrepareStep
  /\ spinRet' = IF ~wsValid' THEN "WAIT_SET_INVALID"
                ELSE IF \E g \in WaitSetGroups : Demand(g) > wsCap'[g]
                     THEN "WAIT_SET_FULL"
                     ELSE "OK"
  /\ UNCHANGED <<handles, maxHandles, info>>

-----------------------------------------------------------------------------

\* rclc_executor_get_zero_initialized_executor: no table (max_handles 0).
Init ==
  /\ handles = << >>
  /\ maxHandles = 0
  /\ info = NoCounts
  /\ wsValid = FALSE
  /\ wsCap = NoCounts
  /\ spinRet = "NONE"

Next ==
  \/ ExecutorInit
  \/ ExecutorFini
  \/ \E e \in Ents :
       \/ AddSubscription(e) \/ AddSubscriptionWithContext(e) \/ AddTimer(e)
       \/ AddClient(e) \/ AddClientWithRequestId(e)
       \/ AddService(e) \/ AddServiceWithContext(e) \/ AddServiceWithRequestId(e)
       \/ AddGuardCondition(e) \/ AddActionClient(e) \/ AddActionServer(e)
       \/ RemoveSubscription(e) \/ RemoveTimer(e) \/ RemoveClient(e)
       \/ RemoveService(e) \/ RemoveGuardCondition(e)
  \/ Prepare
  \/ SpinSomeRegister

Spec == Init /\ [][Next]_vars

-----------------------------------------------------------------------------
(* Properties *)

TypeOK ==
  /\ handles \in Seq([type : HandleTypes, ent : Ents])
  /\ Len(handles) <= MaxHandles
  /\ maxHandles \in {0, MaxHandles}
  /\ info \in [Groups -> Int]
  /\ wsValid \in BOOLEAN
  /\ wsCap \in [Groups -> Int]
  /\ spinRet \in {"NONE", "OK", "WAIT_SET_INVALID", "WAIT_SET_FULL"}

\* Spec invariant I2 / P1: after any sequence of rclc_executor_add_* and
\* rclc_executor_remove_* calls, each counter in executor->info equals the
\* number of wait-set entries of that kind the registered handles need.
CountersMatchTable == \A g \in Groups : info[g] = Demand(g)

\* Spec P2 seen from spin_some: rebuilding the wait set from the counters
\* always gives room for every registered handle, so the registration
\* step of spin_some never fails with RCL_RET_WAIT_SET_FULL.
WaitSetFitsTable == spinRet # "WAIT_SET_FULL"

\* The abstract handle registry, with the registered entities read off the
\* table and the capacity off max_handles.
Registry == INSTANCE HandleRegistry
              WITH Entities <- Ents, Capacity <- MaxHandles,
                   registered <- [k \in DOMAIN handles |-> handles[k].ent],
                   capacity <- maxHandles

\* Spec P3 and the ordered table: every init, fini, add and remove keeps the
\* table a fixed-capacity sequence in registration order.  A removal, done
\* by the pointer scan of _rclc_executor_find_handle and the slot-by-slot
\* copy loop of _rclc_executor_remove_handle, deletes exactly the first
\* entry of the entity and keeps every other entry in its order, as the
\* registry's Delete states it; prepare and spin_some's registration leave
\* the table unchanged.
ImplementsHandleRegistry == Registry!Spec

=============================================================================
