------------------------------ MODULE MCDeploy ------------------------------
(* DeployQueue with a commit that migrates the database and a newer one   *)
(* that takes the migration back.                                         *)
EXTENDS DeployQueue

MCSchemaOf == [s \in Shas \cup {NoSha} |-> IF s = 1 THEN 2 ELSE 1]
=============================================================================
