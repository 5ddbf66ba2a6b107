------------------------------- MODULE MCServices -------------------------------
(* Four services that share nothing, each on a small instance: a behaviour is    *)
(* about one of them, its subject, and leaves the others in their initial state. *)
EXTENDS WeComCommands, Credentials, RuleDispatch, MonitorHealth, TLC

CONSTANTS x, y, u, q1, q2, pw1, pw2      \* apps, a member, messages, passwords

VARIABLE subject

servicesVars == <<wecomVars, credVars, dispatchVars, healthVars, subject>>

\* A check that may be delivered again while it runs, and, when its receipt
\* is old, an ordinary command.
MCEnvelope ==
  q1 :> [app |-> x, sender |-> u, created |-> 1, command |-> "check"]
  @@ q2 :> [app |-> x, sender |-> u, created |-> 4, command |-> "enable"]

\* The services that are not the subject start from one state.  Which of the
\* passwords is the first one makes no difference.
ServicesInit ==
  /\ subject \in {"commands", "password", "dispatch", "health"}
  /\ WeComInit
  /\ subject # "commands" => channel = [open |-> TRUE, app |-> x, allowed |-> {u}]
  /\ CredInit /\ hashed[0] = pw1
  /\ DispatchInit
  /\ HealthInit
  /\ subject # "health" => sourceUp /\ health.after = 0 /\ health.to = {}

ServicesNext ==
  /\ UNCHANGED subject
  /\ \/ subject = "commands" /\ WeComNext /\ UNCHANGED <<credVars, dispatchVars, healthVars>>
     \/ subject = "password" /\ CredNext /\ UNCHANGED <<wecomVars, dispatchVars, healthVars>>
     \/ subject = "dispatch" /\ DispatchNext /\ UNCHANGED <<wecomVars, credVars, healthVars>>
     \/ subject = "health" /\ HealthNext /\ UNCHANGED <<wecomVars, credVars, dispatchVars>>

\* Of the services that are not the subject, the first three wait for a request;
\* only a monitor is checked without being asked.
ServicesFairness ==
  /\ WeComFairness /\ CredFairness /\ DispatchFairness
  /\ WF_servicesVars(subject = "health" /\ CheckHealth /\ UNCHANGED <<wecomVars, credVars, dispatchVars, subject>>)

ServicesSpec == ServicesInit /\ [][ServicesNext]_servicesVars /\ ServicesFairness
=============================================================================
