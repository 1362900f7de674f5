----------------------------- MODULE MCCluster ------------------------------
(***************************************************************************)
(* Instances of Cluster for TLC.                                           *)
(***************************************************************************)
EXTENDS Cluster, TLC

CONSTANTS n1, n2, t1, t2, t3, s1

TwoNodes == {n1, n2}
Trio     == {t1, t2, t3}

\* Two requests of node n1 race each other and one of node n2.
OfTrio == t1 :> n1 @@ t2 :> n1 @@ t3 :> n2

OneShard == {s1}
=============================================================================
