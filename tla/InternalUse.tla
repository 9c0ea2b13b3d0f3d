---------------------------- MODULE InternalUse ----------------------------
(***************************************************************************)
(* What the terminals and the Docker actions of the internal API share:    *)
(* they are served by the same API and the same Runner, either of which    *)
(* may stop.                                                               *)
(***************************************************************************)
EXTENDS Naturals

CONSTANTS
  MaxUses,    \* bound: terminal connections and requests for actions
  ActionUses, \* bound: connections that a request for an action counts for
  MaxStops    \* bound: stops of the API and of the Runner

ASSUME UseAssumption == MaxUses \in Nat /\ ActionUses \in Nat /\ MaxStops \in Nat

VARIABLES uses, stops  \* uses and stops so far
=============================================================================
