--------------------------------- MODULE MCHost ---------------------------------
(* Instances of Host for TLC: an archive of this release, an older one and one that  *)
(* the licence does not admit; an agent that brings version 2, and deploy_safe with  *)
(* a version 3 that does not run.                                                    *)
EXTENDS Host, TLC

CONSTANTS a1, a2, a3, g1, g2, c1, c2, c3

SchemaOf == [a \in Archives |-> IF a = a1 THEN "head" ELSE "old"]
\* All have pictures, or the school and an archive have none.
Albums == {{}, {"live", a1}}
Installs == (g1 :> 2) @@ (g2 :> 3)

FairHost ==
  /\ HostSpec
  /\ WF_vars(part = "startup" /\ Boot)
  /\ part = "server" => Server!Fairness

\* The server comes back: it serves again after every interruption of a restore or of an
\* upgrade that the seed did not disturb (Startup), and the service runs again after every
\* update, whoever else restarts it (Deployment).
ServerComesBack == RestartsUnseeded /\ Server!ServiceComesBack
=================================================================================
