--------------------------- MODULE OperatorProcess ---------------------------
(***************************************************************************)
(* The operator's process: from the command line to a running manager, and *)
(* what it leaves at the API server on the way.  Two mutating webhooks are *)
(* registered with failure policy Fail: as long as they are, every pod and *)
(* every StatefulSet of a monitored namespace is admitted by this process  *)
(* or refused, also while it is down or still starting.  A process that    *)
(* starts deletes the registration it finds before it makes its own.       *)
(***************************************************************************)
EXTENDS Integers

CONSTANTS
  WebhookServer,   \* the flags name a host or a service for the webhooks
  ProbeConfig,     \* KubeConfig() of the active/passive controller finds one
  MaxCertificates  \* bound: how many certificates are ever generated

ASSUME ProcessAssumption ==
  /\ WebhookServer \in BOOLEAN /\ ProbeConfig \in BOOLEAN
  /\ MaxCertificates \in Nat \ {0}

VARIABLES
  phase,   \* how far this process has come
  serving, \* its webhook server listens
  cert,    \* the certificate in its CertDir, 0 none
  secret,  \* the certificate stored in the cluster, 0 none
  issued,  \* how many certificates have been generated
  hook     \* the CA that the webhook configuration trusts, 0: none registered

processVars == <<phase, serving, cert, secret, issued, hook>>

Phases == {"down", "crds", "manager", "certificate", "hooks", "register",
           "controllers", "ready", "running"}
Certificates == 0..MaxCertificates

Running == phase = "running"

\* Failure policy Ignore instead of Fail: a mutant of Admits.
AdmitsAnyway == TRUE

\* FailurePolicy Fail: without a configuration nothing is called; with one, the
\* call must reach a server whose certificate it trusts.
Admits == hook = 0 \/ (serving /\ cert = hook)

\* An admitted object has passed the mutators if they are registered and reached.
Mutates == hook # 0 /\ serving /\ cert = hook

-----------------------------------------------------------------------------
(* rootCmd.RunE *)

Enter(from, to) == phase = from /\ phase' = to

\* Flags and kubeconfig; without a way to reach the webhooks the command ends
\* before it touches the cluster.
Start ==
  /\ WebhookServer
  /\ Enter("down", "crds")
  /\ UNCHANGED <<serving, cert, secret, issued, hook>>

ApplyCRDs ==
  /\ Enter("crds", "manager")
  /\ UNCHANGED <<serving, cert, secret, issued, hook>>

\* manager.New, AddToScheme, and the handlers registered with the server.
NewManager ==
  /\ Enter("manager", "certificate")
  /\ UNCHANGED <<serving, cert, secret, issued, hook>>

\* The certificate of the secret, or a new one that is stored there.
SetupCertificate ==
  /\ Enter("certificate", "hooks")
  /\ IF secret # 0
       THEN cert' = secret /\ UNCHANGED <<secret, issued>>
       ELSE /\ issued < MaxCertificates
            /\ issued' = issued + 1
            /\ cert' = issued + 1 /\ secret' = issued + 1
  /\ UNCHANGED <<serving, hook>>

\* Mutant of DeleteWebhookConfig: an existing configuration is left alone.
LeaveWebhookConfig ==
  /\ Enter("hooks", IF hook = 0 THEN "register" ELSE "controllers")
  /\ UNCHANGED <<serving, cert, secret, issued, hook>>

\* CreateMutationWebhookServerConfig first deletes the configuration of an
\* earlier process: nothing stands between the clients and the server.
DeleteWebhookConfig ==
  /\ Enter("hooks", "register")
  /\ hook' = 0
  /\ UNCHANGED <<serving, cert, secret, issued>>

\* Mutant of CreateWebhookConfig: it is left to a later start.
SkipWebhookConfig ==
  /\ Enter("register", "controllers")
  /\ UNCHANGED <<serving, cert, secret, issued, hook>>

\* The new configuration trusts this process's certificate; nothing serves it yet.
CreateWebhookConfig ==
  /\ Enter("register", "controllers")
  /\ hook' = cert
  /\ UNCHANGED <<serving, cert, secret, issued>>

\* AddToManager: four controllers.  The last one ignores that KubeConfig() may
\* find nothing and then dies on the missing configuration.
AddControllers ==
  /\ phase = "controllers"
  /\ phase' = IF ProbeConfig THEN "ready" ELSE "down"
  /\ cert' = IF ProbeConfig THEN cert ELSE 0
  /\ UNCHANGED <<serving, secret, issued, hook>>

\* mgr.Start starts the webhook server and the controllers side by side.
StartManager ==
  /\ Enter("ready", "running")
  /\ UNCHANGED <<serving, cert, secret, issued, hook>>

Serve ==
  /\ Running /\ ~serving
  /\ serving' = TRUE
  /\ UNCHANGED <<phase, cert, secret, issued, hook>>

Startup == Start \/ ApplyCRDs \/ NewManager \/ SetupCertificate
           \/ DeleteWebhookConfig \/ CreateWebhookConfig \/ AddControllers

-----------------------------------------------------------------------------
(* Failures *)

\* Any step may fail and the process may be killed; the container is restarted.
Exit ==
  /\ phase # "down"
  /\ phase' = "down" /\ serving' = FALSE /\ cert' = 0
  /\ UNCHANGED <<secret, issued, hook>>

\* Someone deletes the secret of the certificate.
SecretDeleted ==
  /\ secret # 0 /\ issued < MaxCertificates
  /\ secret' = 0
  /\ UNCHANGED <<phase, serving, cert, issued, hook>>

ProcessInit ==
  /\ phase = "down" /\ serving = FALSE
  /\ cert = 0 /\ secret = 0 /\ issued = 0 /\ hook = 0
=============================================================================
