-------------------------------- MODULE Remote --------------------------------
(* The commands that ask OCM for a cluster and the backplane API, or oc, for   *)
(* something on it: login up to its kubeconfig, remediation, managedjob and    *)
(* testjob.  A behaviour runs the commands of one of the four modules; the     *)
(* clusters are the same for all.                                              *)
EXTENDS ManagedJob, LoginTarget, Remediation, TestJob

VARIABLE subject                    \* the module that runs

remoteVars == <<subject, vars, loginVars, remediationVars, testJobVars>>

NoJob ==
    /\ opts = [wait |-> FALSE, logs |-> FALSE, raw |-> FALSE]
    /\ pc = "ended" /\ known = FALSE /\ job = "none" /\ told = "none"
    /\ timer = "live" /\ outcome = "none"

NoLogin == source = "clusterID" /\ wanted = [manager |-> FALSE, service |-> FALSE]

RemoteInit ==
    /\ subject \in {"managedjob", "login", "remediation", "testjob"}
    /\ IF subject = "managedjob" THEN Init ELSE NoJob
    /\ LoginInit /\ (subject = "login" \/ NoLogin)
    /\ RemediationInit
    /\ TestJobInit

RemoteNext ==
    /\ UNCHANGED subject
    /\ \/ subject = "managedjob" /\ Next
          /\ UNCHANGED <<loginVars, remediationVars, testJobVars>>
       \/ subject = "login" /\ LoginNext
          /\ UNCHANGED <<vars, remediationVars, testJobVars>>
       \/ subject = "remediation" /\ RemediationNext
          /\ UNCHANGED <<vars, loginVars, testJobVars>>
       \/ subject = "testjob" /\ TestJobNext
          /\ UNCHANGED <<vars, loginVars, remediationVars>>

RemoteSpec == RemoteInit /\ [][RemoteNext]_remoteVars /\ Fairness

\* The types of all four.
RemoteTypeOK == TypeOK /\ LoginTypeOK /\ RemediationTypeOK /\ TestJobTypeOK
=============================================================================
