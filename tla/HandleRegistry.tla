-------------------------- MODULE HandleRegistry --------------------------
(***************************************************************************)
(* What the handle table of an rclc executor promises its users (spec.md   *)
(* "Handle table" and P3): a fixed-capacity, ordered sequence of           *)
(* registered entities.  Opening sets the capacity and empties it, an      *)
(* insertion appends while there is room, a deletion removes the first     *)
(* entry of an entity and keeps the order of all the others, closing       *)
(* empties it and drops the capacity.  The order of this sequence is the   *)
(* order in which a round takes and executes the handles.                  *)
(*                                                                         *)
(* ExecutorTable implements this specification under the mapping given in *)
(* that module.                                                            *)
(***************************************************************************)
EXTENDS Naturals, Sequences, SequencesExt

CONSTANTS
  Entities,   \* what can be registered
  Capacity    \* the capacity an open registry has

VARIABLES
  registered, \* the registered entities, in registration order
  capacity    \* 0 while closed

vars == <<registered, capacity>>

Open ==
  /\ registered' = << >>
  /\ capacity' = Capacity

Close ==
  /\ capacity # 0
  /\ registered' = << >>
  /\ capacity' = 0

Insert(e) ==
  /\ Len(registered) < capacity
  /\ registered' = Append(registered, e)
  /\ UNCHANGED capacity

\* The first entry of e goes; everything before it and everything after it
\* keeps its relative order.
Delete(e) ==
  LET pos == SelectInSeq(registered, LAMBDA x : x = e) IN
  /\ pos # 0
  /\ registered' = SubSeq(registered, 1, pos - 1)
                     \o SubSeq(registered, pos + 1, Len(registered))
  /\ UNCHANGED capacity

Init ==
  /\ registered = << >>
  /\ capacity = 0

Next ==
  \/ Open
  \/ Close
  \/ \E e \in Entities : Insert(e) \/ Delete(e)

Spec == Init /\ [][Next]_vars

=============================================================================
