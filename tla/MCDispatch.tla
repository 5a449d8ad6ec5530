----------------------------- MODULE MCDispatch -----------------------------
(* Small instances of Dispatch: one update that makes a worker spin, one that *)
(* kills a worker, and harmless ones.                                         *)
EXTENDS Dispatch, FiniteSets

CONSTANTS short, fatal, u1, u2, u3

\* A worker always stays up in the instances that check liveness.
ASSUME SomeWorkerSurvives == Cardinality(Short \cup Fatal) < nlogger
=============================================================================
