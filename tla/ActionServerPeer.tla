-------------------------- MODULE ActionServerPeer --------------------------
(***************************************************************************)
(* An action server (module ActionServer) with clients as its environment: *)
(* a client sends a goal request, a result request once it has an          *)
(* accepting goal response, and cancel requests.  The clients here never   *)
(* remove a response, so the response queues are the history of what the  *)
(* server sent.  Module ActionSystem replaces these clients by the rclc    *)
(* action client of a second executor.                                     *)
(***************************************************************************)
EXTENDS ActionServer

CONSTANTS
  ResultRequests,    \* result requests a client sends per goal
  CancelRequests     \* cancel requests a client sends per goal

VARIABLES
  sent,                     \* goals whose goal request was sent
  resultSent, cancelSent    \* result/cancel requests sent per goal

peer == <<sent, resultSent, cancelSent>>
allVars == <<vars, peer>>

\* Occurrences of x in the sequence s.
Occurrences(s, x) == Quantify(DOMAIN s, LAMBDA k : s[k] = x)

Accepted(u) == [goal |-> u, accepted |-> TRUE] \in ToSet(goalRespQ)

Bump(f, u) == [f EXCEPT ![u] = @ + 1]

ClientSendGoal(u) ==
  /\ u \notin sent
  /\ sent' = sent \cup {u}
  /\ goalQ' = Append(goalQ, u)
  /\ UNCHANGED <<resultQ, cancelQ, responses, server, resultSent, cancelSent>>

\* After an accepting goal response the client requests the result.
ClientSendResult(u) ==
  /\ Accepted(u)
  /\ resultSent[u] < ResultRequests
  /\ resultSent' = Bump(resultSent, u)
  /\ resultQ' = Append(resultQ, u)
  /\ UNCHANGED <<goalQ, cancelQ, responses, server, sent, cancelSent>>

\* The client asks to cancel an accepted goal after requesting its result.
ClientSendCancel(u) ==
  /\ Accepted(u)
  /\ cancelSent[u] < CancelRequests
  /\ resultSent[u] > 0
  /\ cancelSent' = Bump(cancelSent, u)
  /\ cancelQ' = Append(cancelQ, u)
  /\ UNCHANGED <<goalQ, resultQ, responses, server, sent, resultSent>>

PeerInit ==
  /\ Init
  /\ sent = {}
  /\ resultSent = [u \in Goals |-> 0] /\ cancelSent = [u \in Goals |-> 0]

PeerNext ==
  \/ (Executor \/ Application) /\ UNCHANGED peer
  \/ \E u \in Goals : ClientSendGoal(u) \/ ClientSendResult(u) \/ ClientSendCancel(u)

PeerSpec == PeerInit /\ [][PeerNext]_allVars

-----------------------------------------------------------------------------
(* Properties *)

\* Every cancel request gets at most one cancel response: the responses
\* sent for a goal never outnumber its cancel requests the server took.
CancelAnsweredOnce ==
  \A u \in Goals :
    Quantify(DOMAIN cancelRespQ, LAMBDA k : cancelRespQ[k].goal = u)
      <= cancelSent[u] - Occurrences(cancelQ, u)

=============================================================================
