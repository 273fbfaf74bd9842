------------------------------ MODULE Triggers ------------------------------
(***************************************************************************)
(* The trigger conditions of the rclc executor (src/rclc/src/rclc/         *)
(* executor.c): rclc_executor_trigger_any, _all and _one scan the handle   *)
(* array slot by slot, stop at the first uninitialised slot, and ask       *)
(* _rclc_check_handle_data_available of each handle.  The scans are        *)
(* compared with what the header (include/rclc/executor.h) documents,      *)
(* over every table the registration functions can build and every         *)
(* readiness the wait can report.                                          *)
(*                                                                         *)
(* A handle is abstracted to its entity and one readiness flag: its        *)
(* data_available, or for an action endpoint the disjunction of its        *)
(* feedback/status/response (client) or request/expiry/ended (server)      *)
(* flags.                                                                  *)
(***************************************************************************)
EXTENDS Naturals, Sequences, FiniteSets

CONSTANTS
  Ents,       \* rcl entities (model values)
  EntType,    \* [Ents -> {"Sub", "Timer", "Service", "Client", "Gc",
              \*           "ActionClient", "ActionServer"}]
  Size,       \* max_handles: the length of the handle array
  TriggerObjs \* the objects given to rclc_executor_set_trigger

ASSUME Size \in Nat \ {0} /\ TriggerObjs \subseteq Ents

VARIABLES
  regs,   \* executor->handles[0 .. index-1] as a sequence of [ent, ready]
  obj     \* executor->trigger_object

vars == <<regs, obj>>

\* The handle array as the trigger functions see it: slots 1 .. Size, the
\* first Len(regs) initialised (registration fills slots in order and
\* removal shifts the tail, so the initialised slots are a prefix).
Initialized(i) == i <= Len(regs)

\* _rclc_check_handle_data_available
DataAvailable(i) == regs[i].ready

\* rclc_executor_handle_get_ptr: NULL for the action kinds.
GetPtr(i) ==
  IF EntType[regs[i].ent] \in {"ActionClient", "ActionServer"} THEN "NULL"
  ELSE regs[i].ent

-----------------------------------------------------------------------------
(* The scans of the code *)

\* The loop of rclc_executor_trigger_any from slot i on.
RECURSIVE AnyScan(_)
AnyScan(i) ==
  IF i > Size \/ ~Initialized(i) THEN FALSE
  ELSE DataAvailable(i) \/ AnyScan(i + 1)

\* Fault variant: the scan starts at the second slot.
TriggerAnyFrom2 == AnyScan(2)

TriggerAny == AnyScan(1)

\* Fault variant: the scan treats an uninitialised slot as not ready
\* instead of stopping at it.
RECURSIVE AllScanNoBreak(_)
AllScanNoBreak(i) ==
  IF i > Size THEN TRUE
  ELSE Initialized(i) /\ DataAvailable(i) /\ AllScanNoBreak(i + 1)

\* The loop of rclc_executor_trigger_all from slot i on.
RECURSIVE AllScan(_)
AllScan(i) ==
  IF i > Size \/ ~Initialized(i) THEN TRUE
  ELSE DataAvailable(i) /\ AllScan(i + 1)

TriggerAll == AllScan(1)

\* The loop of rclc_executor_trigger_one from slot i on: the first ready
\* handle whose pointer is NULL ends the scan with false.
RECURSIVE OneScan(_, _)
OneScan(i, o) ==
  IF i > Size \/ ~Initialized(i) THEN FALSE
  ELSE IF DataAvailable(i) /\ GetPtr(i) = "NULL" THEN FALSE
  ELSE IF DataAvailable(i) /\ GetPtr(i) = o THEN TRUE
  ELSE OneScan(i + 1, o)

TriggerOne == OneScan(1, obj)

-----------------------------------------------------------------------------
(* What the header documents *)

Registered == 1 .. Len(regs)

\* "true - if at least one handles is ready"
AnyDocumented == \E i \in Registered : regs[i].ready

\* "true - if all handles are ready"
AllDocumented == \A i \in Registered : regs[i].ready

\* "true if rcl-handle obj is ready"
OneDocumented == \E i \in Registered : regs[i].ready /\ regs[i].ent = obj

-----------------------------------------------------------------------------
(* The operations that change what the triggers see *)

\* An rclc_executor_add_ function: the bounds check, then the next slot
\* is filled with data_available = false.
Register(e) ==
  /\ Len(regs) < Size
  /\ \A i \in Registered : regs[i].ent # e
  /\ regs' = Append(regs, [ent |-> e, ready |-> FALSE])
  /\ UNCHANGED obj

\* The readiness pass of spin_some (_rclc_check_for_new_data for every
\* registered handle) after rcl_wait reported any subset as ready.
CheckForNewData ==
  /\ \E r \in [Registered -> BOOLEAN] :
       regs' = [i \in Registered |-> [regs[i] EXCEPT !.ready = r[i]]]
  /\ UNCHANGED obj

\* rclc_executor_set_trigger with trigger_one and object o.
SetTrigger(o) ==
  /\ obj' = o
  /\ UNCHANGED regs

Init ==
  /\ regs = << >>
  /\ obj \in TriggerObjs

Next ==
  \/ \E e \in Ents : Register(e)
  \/ CheckForNewData
  \/ \E o \in TriggerObjs : SetTrigger(o)

Spec == Init /\ [][Next]_vars

-----------------------------------------------------------------------------
(* Properties *)

\* rclc_executor_trigger_any fires exactly when some registered handle is
\* ready, whatever the table's length relative to max_handles.
TriggerAnyAsDocumented == TriggerAny = AnyDocumented

\* rclc_executor_trigger_all fires exactly when every registered handle is
\* ready; the unused slots after the table do not count.
TriggerAllAsDocumented == TriggerAll = AllDocumented

\* rclc_executor_trigger_one fires exactly when the handle of the trigger
\* object is ready, whatever the other handles are.
TriggerOneAsDocumented == TriggerOne = OneDocumented

=============================================================================
