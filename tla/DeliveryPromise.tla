---------------------------- MODULE DeliveryPromise ----------------------------
(***************************************************************************)
(* What the ingestion of attendance events promises: an event handed over  *)
(* to it is delivered to the raw store, sooner or later, unless it is      *)
(* lost; what is delivered stays delivered.                                *)
(***************************************************************************)
CONSTANT Rows

VARIABLES
  handedOver,  \* the events handed over
  delivered,
  lost         \* the events that have been lost, once or more

promiseVars == <<handedOver, delivered, lost>>

PromiseInit == handedOver \subseteq Rows /\ delivered \subseteq handedOver /\ lost = {}

HandOver(S) ==
  /\ handedOver' = handedOver \cup S
  /\ UNCHANGED <<delivered, lost>>

Deliver(r) ==
  /\ r \in handedOver \ delivered
  /\ delivered' = delivered \cup {r}
  /\ UNCHANGED <<handedOver, lost>>

Lose(S) ==
  /\ S \subseteq handedOver
  /\ lost' = lost \cup S
  /\ UNCHANGED <<handedOver, delivered>>

PromiseNext ==
  \/ \E S \in SUBSET Rows : HandOver(S) \/ Lose(S)
  \/ \E r \in Rows : Deliver(r)

\* An event that is not lost is delivered.
PromiseFairness == \A r \in Rows : WF_promiseVars(r \notin lost /\ Deliver(r))

PromiseSpec == PromiseInit /\ [][PromiseNext]_promiseVars /\ PromiseFairness
=============================================================================
