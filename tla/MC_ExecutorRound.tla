------------------------- MODULE MC_ExecutorRound -------------------------
(* Instances of ExecutorRound: a timer whose callback publishes to a      *)
(* subscription, that subscription, a second (ALWAYS) subscription, a     *)
(* service whose response goes to a client, and that client.              *)
EXTENDS ExecutorRound, TLC

CONSTANTS t1, s1, s2, v1, c1, none

MC_Ents == {t1, s1, s2, v1, c1}

MC_EntType == t1 :> "Timer" @@ s1 :> "Sub" @@ s2 :> "SubCtx"
              @@ v1 :> "Service" @@ c1 :> "Client"

\* Table order of the default-scheduling run: the subscription precedes
\* the timer that feeds it, so it sees the timer's output one round late.
MC_HandlesDefault ==
  << [ent |-> s1, inv |-> "OnNewData", pub |-> none],
     [ent |-> t1, inv |-> "OnNewData", pub |-> s1],
     [ent |-> v1, inv |-> "OnNewData", pub |-> c1],
     [ent |-> c1, inv |-> "OnNewData", pub |-> none] >>

\* Table order of the LET runs: a subscription first, then the timer that
\* publishes to a later subscription, then a service.
MC_HandlesLet ==
  << [ent |-> s2, inv |-> "Always", pub |-> none],
     [ent |-> t1, inv |-> "OnNewData", pub |-> s1],
     [ent |-> s1, inv |-> "OnNewData", pub |-> none],
     [ent |-> v1, inv |-> "OnNewData", pub |-> none] >>

\* Default scheduling with trigger any; subscriptions and services may be
\* woken with nothing to take.
MC_Default == [handles |-> MC_HandlesDefault, semantics |-> "RCLCPP_EXECUTOR",
               trigger |-> "any", trigObj |-> s1, spurious |-> {"Sub", "Service"}]

\* LET with trigger always; subscriptions may be woken with nothing to take.
MC_Let == [handles |-> MC_HandlesLet, semantics |-> "LET",
           trigger |-> "always", trigObj |-> s1, spurious |-> {"Sub"}]

\* The configurations of the two violation runs.
MC_LetSpuriousService == [MC_Let EXCEPT !.trigger = "any", !.spurious = {"Service"}]
MC_DefaultSpuriousClient == [MC_Default EXCEPT !.spurious = {"Client"}]

MC_Configs == {MC_Default, MC_Let}
MC_ConfigsLetSpuriousService == {MC_LetSpuriousService}
MC_ConfigsDefaultSpuriousClient == {MC_DefaultSpuriousClient}

=============================================================================
