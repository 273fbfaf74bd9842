# TLA+ models of the rclc executor

This directory models the rclc executor (`src/rclc/src/rclc/executor.c` and
`executor_handle.c`) in TLA+ and checks it with TLC. The executor is a
single-threaded callback scheduler for ROS 2. `PROJECT.json` lists the
components, the runs, the fault variants ("mutants") each passing property is
checked against, the source lines each definition models, the findings and the
hazards.

## The system

An `rclc_executor_t` has five parts:

- **Handle table.**
  - `handles[0 .. index-1]`: one slot per registered subscription, timer,
    client, service, guard condition, action client or action server.
  - `max_handles`: the capacity fixed by `rclc_executor_init`.
- **Counters.** `info` (`rclc_executor_handle_counters_t`) holds one count
  per wait-set group. Action endpoints also contribute the subscriptions,
  clients, services and timers that `rcl_action_*_wait_set_get_num_entities`
  reports.
- **rcl wait set.**
  - Every add and remove finalises it.
  - `rclc_executor_prepare` re-initialises it, with the capacities in `info`.
  - `spin_some` registers every handle in it and calls `rcl_wait`.
- **Scheduling state.**
  - Per handle: `data_available`, the data buffer, and the wait-set index.
  - The trigger function and object.
  - The data-communication semantics: `RCLCPP_EXECUTOR` (the default) or `LET`.
- **Spin loops.**
  - `rclc_executor_spin` repeats `spin_some` until it returns something other
    than `OK` or `TIMEOUT`.
  - `spin_period` repeats `spin_one_period`.

How the parts interact:

1. The application registers handles.
2. `spin_some` rebuilds the wait set and waits on the middleware.
3. `spin_some` marks readiness (`_rclc_check_for_new_data`) and evaluates the
   trigger.
4. It then takes and executes the handles in table order:
   - **Default scheduling:** take then execute, per handle.
   - **LET:** a take pass over all handles, then an execute pass.

Callbacks publish into the middleware, so what one callback publishes can reach
another callback in the same round.

An action client and an action server are each one handle, but each stands
for several rcl entities (three services, a feedback topic and a status
topic) and for a pool of goal handles sized when it is added. A client and
a server usually run on two executors and talk only through those
entities: the client's goal, result and cancel requests are the server's
service queues, and the server's responses and feedback are the client's.

### Hard behaviours in the code

- **Partial failure.** An add or remove:
  1. updates the table;
  2. finalises the wait set, and may return early on its error;
  3. only then updates the counter.
- **False-positive wake-ups.** rcl documents that a take may fail after a
  successful wait. The two schedulers tolerate different failure codes:
  - default scheduling tolerates `SUBSCRIPTION_TAKE_FAILED` and `SERVICE_TAKE_FAILED`;
  - the LET take pass tolerates only `SUBSCRIPTION_TAKE_FAILED`;
  - neither tolerates `CLIENT_TAKE_FAILED`.
- **Results that are dropped.**
  - `rcl_wait`'s result is discarded.
  - `prepare`'s result is ignored.
- **Arrivals between steps.** Data arrives between the wait and each take.
  Callbacks publish to entities that are taken later in the same round.
- **KEEP_LAST queues.** These queues overwrite data the executor has not yet
  taken.

## Modules

| Module | Models | State | Actions |
|---|---|---|---|
| `ExecutorTable` | init, fini, every add and remove function, find and remove of a handle, prepare, and the wait-set registration step of spin_some | `handles` (table as a sequence of `[type, ent]`), `maxHandles`, `info`, `wsValid`, `wsCap` (capacities the wait set was built with), `spinRet` | `ExecutorInit`, `ExecutorFini`, `AddSubscription` … `AddActionServer`, `RemoveSubscription` … `RemoveGuardCondition`, `Prepare`, `SpinSomeRegister` |
| `ExecutorRound` | `rclc_executor_spin` over a fixed table: the context check, the wait, the readiness pass, the trigger, `_rclc_take_new_data`, `_rclc_execute`, and both schedulers | middleware `queue` per entity, `ctxValid`, per-handle `wsReady`, `dataAvail`, `buf`, `pending`, `took` (history: taken since the last wait), `seen` (what the callback was given), and the loop position `pc` and `cur`, plus `waitRc` and `ret`; `canceled` timers | `SpinSomeWait`, `DefaultStep`, `LetTake`, `LetExecute`; environment: `ExternalEvent`, `CancelTimer`, `Shutdown` |
| `Triggers` | the scans of `rclc_executor_trigger_any`, `_all` and `_one` (RECURSIVE operators over slots 1..max_handles, stopping at the first uninitialised slot), `_rclc_check_handle_data_available`, `rclc_executor_handle_get_ptr`, and the header's description of each trigger as a reference | `regs` (registered handles with a readiness flag), `obj` (trigger object) | `Register`, `CheckForNewData`, `SetTrigger` |
| `SpinPeriod` | `rclc_executor_spin_one_period` called in the loop of `rclc_executor_spin_period`, with time as integer ticks | `now` (system clock), `invocationTime`, `pc`; history `k`, `excess`; environment `overruns` | `SpinOnePeriod` (one whole call: capture, spin_some, sleep, advance) |
| `HandleRegistry` | what the handle table promises (spec.md P3): a fixed-capacity ordered sequence, insert at the end, delete the first entry keeping the order | `registered`, `capacity` | `Open`, `Close`, `Insert`, `Delete` |
| `ActionServer` | one action server handle across rounds: the readiness flags set by the wait, the take of goal, result and cancel requests, the three sweeps of `_rclc_execute`, and the application finishing goals and publishing feedback | the request queues `goalQ`, `resultQ`, `cancelQ`; the response queues and feedback topic; per goal `status`; the flags `goalAvail`, `resultAvail`, `cancelAvail`, `goalEnded`; `pc`; `finished`, `fbSent` | `Wait`, `Take`, `Execute`; application: `UserFinish`, `UserFeedback` |
| `ActionServerPeer` | `ActionServer` with bounded clients as environment | `sent`, `resultSent`, `cancelSent` | `ClientSendGoal`, `ClientSendResult`, `ClientSendCancel` |
| `ActionClient` | one action client handle across rounds: the five readiness flags, the four takes of `_rclc_take_new_data`, the four sweeps of `_rclc_execute`, and the application sending goals and cancels | the same queues seen from the client, `statusQ`; the flags `feedbackAvail`, `statusAvail`, `goalRespAvail`, `cancelRespAvail`, `resultRespAvail`; per goal a goal-handle record `gh`; `cpc`; `goalsSent`, `cancelsSent`; callback counts `goalCb`, `feedbackCb`, `cancelCb`, `resultCb` | `ClientWait`, `ClientTake`, `ClientExecute`; application: `UserSendGoal`, `UserSendCancel` |
| `ActionClientPeer` | `ActionClient` with a server as environment, which may publish goal status | `srvAccepted`, `fbSent` | `PeerAnswerGoal`, `PeerAnswerResult`, `PeerAnswerCancel`, `PeerFeedback` |
| `GoalLifecycle` | what an action server promises about its goals (spec.md 4.9, with the cancel roll-back of 4.6): the goal state machine, several goals moving in one step, and a taken goal eventually decided, executed, finished and released | `status` | `Next` (any set of legal per-goal transitions); fairness on `Decide`, `Execute`, `Finish`, `Release` |
| `ActionSystem` | an rclc action client and an rclc action server on two executors, sharing the queues (`INSTANCE ActionServer` and `INSTANCE ActionClient`; each step is one side's step and leaves the other side unchanged) | the union of both | `ServerStep`, `ClientStep` |
| `MC_ExecutorTable` | eleven entities, one per handle type, with action endpoints reporting sub-entities | | |
| `MC_ExecutorRound` | two tables of four handles | | |
| `MC_Triggers` | a subscription, a timer, a guard condition and an action client; three slots | | |
| `MC_SpinPeriod` | spin_some durations and oversleeps | | |
| `MC_ActionServer`, `MC_ActionClient`, `MC_ActionSystem` | two goals | | |

### ExecutorTable

- **Handle kinds.** A handle is abstracted to its C type and its rcl entity.
- **Add functions.** Each `rclc_executor_add_*` function is an action of
  its own (`AddSubscription`, `AddSubscriptionWithContext`, `AddTimer`,
  `AddClient`, `AddClientWithRequestId`, `AddService`,
  `AddServiceWithContext`, `AddServiceWithRequestId`, `AddGuardCondition`,
  `AddActionClient`, `AddActionServer`). They differ in the handle type
  they record and the group they count, and share `Register`, in the
  code's order:
  1. the bounds check;
  2. the table write and `index++`;
  3. `rcl_wait_set_fini` of a valid wait set, which may return its error at
     once when `MwMayFail`;
  4. the counter update.
- **Remove functions.**
  - `FindHandle` (through the recursive `FindFrom`) is the loop of
    `_rclc_executor_find_handle`: it scans from the first slot and returns
    the first whose `rclc_executor_handle_get_ptr` is the entity, 0 for
    NULL. That pointer is NULL for action endpoints.
  - `RemoveHandle` applies `ShiftTail`, the copy loop of
    `_rclc_executor_remove_handle` (each slot from the removed one gets its
    successor), then drops the old last slot that `rclc_executor_handle_init`
    empties.
- **Wait set.**
  - `PrepareStep` re-initialises an invalid wait set from `info`.
  - `SpinSomeRegister` reports `WAIT_SET_FULL` when the handles need more
    entries of a group than the wait set was built with.
- **Initial state.** `Init` is the zero-initialised executor (max_handles 0).

- **Refinement.** `ExecutorTable` ends with `Registry == INSTANCE
  HandleRegistry WITH registered <- [k \in DOMAIN handles |-> handles[k].ent],
  capacity <- maxHandles`, and the `table` run checks `Registry!Spec` as a
  property: every step of the executor's table, including refused adds and
  failed finalisations, is a step of the registry or leaves its view unchanged.
  For removal this checks the two loops above against the registry's
  `Delete`, which is stated without loops: they remove exactly the first
  entry of the entity and keep every other entry in order.

### ExecutorRound

- **Messages.** A message is abstracted to a record of two fields:
  - `src`: who published it. 0 is outside the executor; `i` is the callback
    of handle `i`.
  - `fresh`: whether it was published after the current round's wait.
- **Configuration.** The variable `conf` is one record of the constant set
  `Configs`, fixed at `Init`. It holds what the add and set functions left
  in `rclc_executor_t` before spinning: the table, `data_comm_semantics`, the
  trigger and its object, and the handle kinds the middleware may wake
  spuriously. One run checks several executors at once.
- **The table.** `Handles == conf.handles` is a sequence of
  `[ent, inv, pub]`:
  - `inv` is `ON_NEW_DATA` or `ALWAYS`;
  - `pub` is the entity the callback publishes or responds to.
- **The wait (`SpinSomeWait`).**
  - It marks a handle ready when its queue is non-empty.
  - It may also mark ready a handle of a kind in `SpuriousKinds` whose queue
    is empty. This is a false-positive wake-up.
  - It resets guard conditions.
  - It evaluates the trigger. If the trigger does not fire, it ends the round
    with `OK`.
- **Take and execute.**
  - `TakeNewData` and `Execute` are functions on the local state.
  - `DefaultStep` composes them within one step, as `_rclc_default_scheduling`
    does.
  - LET does its take pass and then its execute pass.
  - A take result the scheduler does not tolerate stops `rclc_executor_spin`
    (`pc = "stopped"`). So does a result of `_rclc_execute` other than OK
    (`ExecuteRc`). All of the execute paths modelled here return OK.
- **Canceled timers.**
  - `CancelTimer` is `rcl_timer_cancel`, called at any moment by a callback
    or by other application code. Until then a timer expires only through
    `ExternalEvent`.
  - A canceled timer is never ready again. If it is canceled after the wait
    reported it ready, its execute calls `rcl_timer_call`. That call runs no
    callback and returns TIMER_CANCELED, which `_rclc_execute` maps to OK
    (executor.c:1847).
  - The fault variant `ExecuteRcUnmapped` passes TIMER_CANCELED on instead.
    It ends `rclc_executor_spin` and violates `SpinStopsOnlyOnShutdown`.

### SpinPeriod

- **Time.** Time is a count of ticks, with `MsTicks` ticks per millisecond.
  The division `sleep_time / 1000000` becomes `SleepTicks`, which truncates
  to whole milliseconds as the code does.
- **One call is one step.** `SpinOnePeriod` is the whole call:
  1. capture `invocation_time` from the clock while it is 0;
  2. `spin_some`, lasting a duration from `Durations` and returning OK,
     TIMEOUT or (when `MayFail`) an error, which makes both functions return;
  3. read the clock again, sleep when `sleep_time > 0`, oversleeping by a
     value from `Oversleep`;
  4. advance `invocation_time` by exactly `period`.
- **History.** `k` and `excess` are history variables the properties
  use. `overruns` bounds how many calls take longer than a period.

### ActionServer

- **The executor's part.**
  - `Wait` is the action-server case of `_rclc_check_for_new_data`: a flag is
    set for each rcl service with a pending request.
  - `Take` is the action-server case of `_rclc_take_new_data`, in the code's
    order:
    1. a goal request, only while a goal handle is free;
    2. a result request, which sets its goal to EXECUTING;
    3. a cancel request, which moves the goal to CANCELING when the goal
       state machine allows it, and rejects it otherwise.
  - `Execute` is the action-server case of `_rclc_execute`, run only when
    some flag is set:
    1. the cleanup sweep releases every terminal goal;
    2. the goal sweep calls `goal_callback` on every new goal;
    3. the cancel sweep calls `cancel_callback` on every CANCELING goal.
  - The callbacks' verdicts are any function from goals to booleans.
- **Code outside `src/`.** rcl's goal state transitions, the goal-handle
  pool and `rclc_action_send_result` are modelled from spec.md (marked
  `spec_modelled` in `PROJECT.json`).
- **Application.** `UserFinish` is the application finishing a goal
  (succeed, abort or cancel) between rounds, as a callback of the same
  executor does; it sets `goal_ended` and sends the result response.
  `UserFeedback` publishes feedback for an executing goal.
- **Environment** (`ActionServerPeer`). A client sends a goal, then a result
  request once it sees the goal accepted, and a cancel request after that,
  each bounded.

### ActionClient

- **The executor's part.**
  - `ClientWait` is the action-client case of `_rclc_check_for_new_data`:
    the five flags are overwritten with the readiness of the client's
    entities, status included.
  - `ClientTake` is the action-client case of `_rclc_take_new_data`, in the
    code's order: a goal response, feedback (only when a
    `feedback_callback` was given), a cancel response, a result response.
    Each marks the goal handle it belongs to, if that handle is still in
    use. The status message is never taken and no flag is cleared.
  - `ClientExecute` is the action-client case of `_rclc_execute`, four
    sweeps each guarded by its flag: goal responses (`goal_callback`, then
    the result request for an accepted goal or release for a rejected
    one), feedback, cancel responses, result responses (`result_callback`,
    then release).
- **Code outside `src/`.** The goal-handle pool and the
  `rclc_action_send_*_request` helpers follow spec.md (`spec_modelled`);
  sending never fails here.
- **Application.** `UserSendGoal` takes a free handle and sends a goal;
  `UserSendCancel` cancels a goal the client saw accepted.
- **Environment** (`ActionClientPeer`). A server answers each request in
  the order of its service, publishes feedback for accepted goals and,
  when `PublishesStatus`, marks the status topic after every goal state
  change.

### ActionSystem

`S == INSTANCE ActionServer` and `C == INSTANCE ActionClient` share the
request and response queues by name. `ServerStep` is a step of the server
executor or its application with the client's variables unchanged, and
`ClientStep` the converse. The server side publishes no goal status here,
so `statusQ` stays empty; the client has a feedback callback.

**Refinement.** `Lifecycle == INSTANCE GoalLifecycle` maps the server's
`status` to the abstract goal state machine unchanged, and the
`action_system` run checks `ImplementsGoalLifecycle == Lifecycle!Spec`.
Every server step, whether a take, one of the sweeps or the application,
must move each goal along a transition of spec.md 4.9 (or 4.6's
roll-back). The abstract fairness must also follow from the fairness of
the two executors: each taken goal is decided, executed, finished and
released. A goal sweep that accepted a goal straight into EXECUTING
breaks it (`GoalSweepExecuting`). A late result request that revives a
terminal goal breaks it too, which the `action_system_late_result` run
shows with the narrower `TerminalIsFinal`.

## Runs

| Run | cfg | Expect | What it shows |
|---|---|---|---|
| `table` | `MC_ExecutorTable.cfg` | pass (181,478 states) | Any sequence of init, fini, adds and removes of all kinds, prepare and registration keeps `info` equal to what the table needs (`CountersMatchTable`). The rebuilt wait set never overflows (`WaitSetFitsTable`). The find and shift loops of removal, and every add, are steps of `HandleRegistry` (`ImplementsHandleRegistry`). |
| `table_fini_fails` | `MC_ExecutorTable_finifail.cfg` | violation | With a failing `rcl_wait_set_fini`, an add leaves a handle uncounted (code_bug). |
| `round` | `MC_ExecutorRound.cfg` | pass (209,190 states, about 2 min) | Two executors. One uses default scheduling, trigger any, and spurious subscription and service wake-ups. The other uses LET, trigger always, an ALWAYS subscription first in the table, and spurious subscription wake-ups. Both can be shut down, and their timer can be canceled at any moment. Checks `NoLostTake`, `NoStaleDelivery`, `SpinStopsOnlyOnShutdown`, `LetSnapshot` (no LET callback sees data another callback published in the same round) and the liveness `InputEventuallyTaken`. |
| `let_service_take_failed` | `MC_ExecutorRound_let_service_take_failed.cfg` | violation | Under LET a spurious service wake-up aborts the take pass after a subscription took its message. The message is never executed. |
| `client_take_failed` | `MC_ExecutorRound_client_take_failed.cfg` | violation | A spurious client wake-up ends `rclc_executor_spin` with a valid context. |
| `triggers` | `MC_Triggers.cfg` | pass (747 states) | Over every table of up to three handles and every readiness, `trigger_any` and `trigger_all` agree with the header. |
| `trigger_one_action_handle` | `MC_Triggers_one.cfg` | violation | A ready action client earlier in the table makes `trigger_one` return false for a ready timer. The header says it returns true. |
| `spin_period` | `MC_SpinPeriod.cfg` | pass (266 states) | Over six periods, with durations below, near and above the period, two overruns, oversleep and spin_some errors: a call is never later than the accumulated overruns plus one oversleep (`LatenessBoundedByOverruns`). |
| `action_server_cancel_twice` | `MC_ActionServer_cancel_twice.cfg` | violation | A cancel of one goal makes the cancel sweep answer again, and possibly roll back to EXECUTING, a goal whose cancel was accepted in an earlier round (code_bug at executor.c:2082). |
| `action_system` | `MC_ActionSystem.cfg` | pass (32,327 states, about 2 min) | Client and server on two executors, two goals, a server pool of one handle. Every goal the client sends is eventually resolved for it: `goal_callback` ran and its handle was released (`EveryGoalResolved`). No goal gets `goal_callback` or `result_callback` twice, or `cancel_callback` without a cancel request (`CallbacksOnce`). The server's goal statuses implement `GoalLifecycle`, the goal state machine of the action design, including its liveness (`ImplementsGoalLifecycle`). The client's executor eventually blocks in `rcl_wait` (`EventuallyIdle`). |
| `action_system_late_result` | `MC_ActionSystem_late_result.cfg` | violation | With two server handles, the second result request waits in the service, because the take handles one per round. Its goal's cancel is rejected and the goal finishes. The late result request then turns the SUCCEEDED goal back into EXECUTING, and its handle is never released (executor.c:1619). |
| `action_client_status` | `MC_ActionClient_status.cfg` | violation | A server that publishes goal status makes the client's executor busy-loop for ever: `status_available` counts as data and the status message is never taken (code_bug at executor.c:1733). |

Every property of a passing run has a fault variant in its module, named in
`PROJECT.json` "mutants", that TLC finds violating it. Examples:

- an off-by-one bounds check;
- a registration that keeps the old wait set;
- a take that ignores the wait-set entry or keeps `data_available`;
- a LET take pass that also executes;
- a trigger_any scan that stops after the first handle.

### Bounds

- **Table runs.**
  - `MaxHandles = 3`. This is enough for a table to fill, for adds to be
    refused, and for removal from the middle to shift a tail.
  - The eleven entities cover every handle type, so every add function
    fires.
  - The action endpoints report 2–3 sub-entities, so their contribution
    differs from a plain handle.
- **Trigger runs.** Three slots and four entities give tables that are
  empty, partial and full, in every order and readiness. An action client can
  precede the trigger object.
- **Round runs.**
  - Four handles.
  - `Depth = 2`, so KEEP_LAST overwrite happens.
  - `Budget = 3` external events. With it, data arrives before a wait, between
    a wait and a take, and while earlier data is still queued.
  - A timer publishes to a subscription that comes earlier in the table
    (default run) or later in it (LET run). The LET case is the one where the
    snapshot property could fail.
  - `MayCancel = TRUE` in the pass run. The single timer can then be
    canceled before it expires, while it is ready, and between the wait and
    its execute.
- **SpinPeriod.**
  - `Period = 8` ticks and `MsTicks = 4`. The truncation of the sleep then
    matters: a remaining time of 1–3 ticks sleeps 0.
  - The durations 1, 6 and 11 are short, near and over the period.
  - `MaxOverruns = 2` and `MaxRounds = 6` give catch-up after two overruns,
    in a row or apart.
- **Action runs.**
  - Two goals. In `action_system` the server has one goal handle, so the
    second goal request waits in the service until the cleanup sweep frees
    the first; the client has two, so both goals can be outstanding. The
    rclc client asks for the result once, right after the goal was
    accepted, and cancels at most once per goal.
  - One feedback message per goal, so the feedback take and sweep run.
  - `action_server_cancel_twice` and `action_system_late_result` use two
    server handles, so that two goals are in flight on the server together.

### Fairness

`Spec` of ExecutorRound has weak fairness on the executor's steps.
`rclc_executor_spin` is `while (true)` around `spin_some`, and every round runs
to completion without blocking. The middleware and shutdown get no fairness.

`Spec` of ActionSystem has:

- weak fairness on each executor (server `Wait`, `Take`, `Execute`; client
  `ClientWait`, `ClientTake`, `ClientExecute`): both spin for ever;
- strong fairness on `UserFinish`. It is enabled only while `pc = "wait"`, and
  the server executor passes through that position in every round. The
  application that owns a goal does finish it, but only in some of those
  moments, so weak fairness would not be enough.

The client application's goals and cancels and the server's feedback get no
fairness. `PeerSpec` of ActionClientPeer has weak fairness on the client
executor only; the server it stands for answers when it likes.

Runs in which spin may return (shutdown, error) say `CHECK_DEADLOCK FALSE`,
because a returned spin takes no more steps.

## Not modelled yet, and plan

Done so far:

- `Triggers`;
- `SpinPeriod`;
- the `HandleRegistry` refinement of `ExecutorTable`;
- the `GoalLifecycle` refinement of the server side of `ActionSystem`;
- `ActionServer`, `ActionClient` and their composition `ActionSystem`.

Still to do:

1. **Action status and feedback without a callback.** With
   `FeedbackCallback = FALSE`, `ActionClientPeer` violates `EventuallyIdle`
   in the same way as the status run. No run is kept for it.
2. **Composition of ExecutorTable and ExecutorRound.** Adds and removes
   between rounds and from callbacks during a round (executor.c:868).
3. **Execute-time failures** of `rcl_timer_call` and `rcl_send_response`.
   Canceled timers are modelled. Also a failing `rclc_action_send_result_request`, after which
   the client releases a goal the server executes.
4. **Goal expiry.** `goal_expired_available` is set by the wait and never
   handled. When the expiry timer becomes ready depends on rcl_action and
   the rclc_action helpers, which are not in this repository. It is listed as
   a liveness hazard.
5. **Error returns** of the `rcl_action_take_*` functions.

Not modelled: an application thread finishing goals concurrently with the
executor. The executor is single-threaded and not thread-safe; the
application finishes goals from callbacks of the same executor, which
`ActionServer` models between rounds, so there is no interleaving inside
the cleanup loop to check.

Two documentation mismatches are left unchecked. Each is a single line that a
unit test shows directly, so neither has a run:

- `spin_some` discards `rcl_wait`'s result, so it never returns
  `RCL_RET_TIMEOUT` as its header says.
- `spin_one_period` truncates its sleep to whole milliseconds (`SleepTicks`
  models this).

Logging (`handle_print`, `PRINT_RCLC_ERROR`) is left out: it changes no state.
