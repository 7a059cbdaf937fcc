------------------------------ MODULE TEEStartup -------------------------------
(***************************************************************************)
(* The start of the enclave: main loads the configuration file, fetches    *)
(* the Axal and the Privy secret, each with a secret manager of its own    *)
(* that fetches its own credentials, creates the Privy client and serves.  *)
(* Any error ends the process; nothing is tried twice and nothing starts   *)
(* it again.                                                               *)
(*                                                                         *)
(* The metadata service, whose credentials rotate and expire, and AWS      *)
(* Secrets Manager are external, and so are the vsock tunnels to both.     *)
(***************************************************************************)
EXTENDS Naturals

CONSTANTS
    Files,          \* the configuration files main may find
    AxalSecrets,    \* what the Axal secret may contain
    PrivySecrets,   \* what the Privy secret may contain
    MaxRotations    \* bound: how often the metadata service rotates

Environments == {"prod", "dev", "staging", "local"}
FromMetadata == {"prod", "dev", "staging"}

\* A file: its environment, whether it has the three ports that are checked,
\* the port that is not, the Axal key and AWS credentials.
File == [env : Environments \union {"", "other"}, ports : BOOLEAN, ec2 : BOOLEAN,
         axal : BOOLEAN, aws : BOOLEAN]

ASSUME StartupAssumption ==
    /\ Files \subseteq File
    /\ AxalSecrets \subseteq {"full", "partial", "empty", "malformed", "absent"}
    /\ PrivySecrets \subseteq {"full", "noKeyId", "partial", "empty", "malformed", "absent"}
    /\ MaxRotations \in Nat

VARIABLES
    file, axal, privy,  \* the file and the contents of the secrets
    issued, expired,    \* the metadata service's credentials: the newest, and
                        \* the newest of those AWS refuses by now
    pc,                 \* where main is
    want,               \* the secret it is fetching: "axal" or "privy"
    creds,              \* the credentials of the present secret manager
    open,               \* how many responses of the metadata service are open
    cfg,                \* TEEConfig: where its Axal and Privy parts come from
    client              \* PrivyCli: its environment, "none" before it is set

world == <<file, axal, privy, issued, expired>>
vars == <<world, pc, want, creds, open, cfg, client>>

NoCredentials == [kind |-> "none", age |-> 0]
NoSecret == [from |-> "none", body |-> "none"]

Init ==
    /\ file \in Files /\ axal \in AxalSecrets /\ privy \in PrivySecrets
    /\ issued = 1 /\ expired = 0
    /\ pc = "load" /\ want = "none"
    /\ creds = NoCredentials /\ open = 0
    /\ cfg = [axal |-> NoSecret, privy |-> NoSecret]
    /\ client = "none"

\* log.Fatalf and log.Panicf: the process ends, which says nothing of what it
\* had open.
Die == pc' = "dead" /\ UNCHANGED open

(***************************************************************************)
(* NewSecretManager: a new set of credentials for the secret `what`.       *)
(***************************************************************************)
NewAWSConfigFromYAML ==
    IF file.aws
    THEN /\ pc' = "secret" /\ creds' = [kind |-> "file", age |-> 0]
         /\ UNCHANGED open
    ELSE Die /\ UNCHANGED creds

\* Mutant of NewSecretManager: the credentials of the manager before are good
\* enough for the next.
NewSecretManagerShared(what) ==
    /\ want' = what
    /\ IF file.env \in FromMetadata
       THEN /\ pc' = IF creds.kind = "role" THEN "secret" ELSE "token"
            /\ UNCHANGED <<creds, open>>
       ELSE NewAWSConfigFromYAML

NewSecretManager(what) ==
    /\ want' = what
    /\ IF file.env \in FromMetadata
       THEN pc' = "token" /\ UNCHANGED <<creds, open>>
       ELSE NewAWSConfigFromYAML

\* LoadTEEConfig up to the first secret manager.
LoadTEEConfig ==
    /\ pc = "load"
    /\ IF ~ file.ports \/ file.env = ""
       THEN Die /\ UNCHANGED <<want, creds, cfg>>
       ELSE /\ cfg' = [cfg EXCEPT !.axal = [from |-> "file",
                                            body |-> IF file.axal THEN "full" ELSE "partial"]]
            /\ NewSecretManager(IF file.env = "local" THEN "privy" ELSE "axal")
    /\ UNCHANGED <<world, client>>

\* Mutant of Deferred: the three deferred calls close the response that came last.
DeferredLast == open' = open

\* getEC2Credentials returns: every response it has had is closed.
Deferred == open' = 0

\* Its three calls. Each response stays open until the function returns.
Call(place) == pc = place /\ file.ec2 /\ open' = open + 1

GetToken == /\ Call("token") /\ pc' = "role"
            /\ UNCHANGED <<world, want, creds, cfg, client>>

GetRole == /\ Call("role") /\ pc' = "creds"
           /\ UNCHANGED <<world, want, creds, cfg, client>>

GetCredentials ==
    /\ pc = "creds" /\ file.ec2
    /\ creds' = [kind |-> "role", age |-> issued]
    /\ pc' = "secret" /\ Deferred
    /\ UNCHANGED <<world, want, cfg, client>>

\* No connection, another status than 200, or a body that cannot be read: the
\* function returns the error, and so do its callers up to main.
MetadataFails ==
    /\ pc \in {"token", "role", "creds"}
    /\ pc' = "dead" /\ Deferred
    /\ UNCHANGED <<world, want, creds, cfg, client>>

(***************************************************************************)
(* GetSecret, and what LoadCfgFromSM and InitPrivyConfig make of it.       *)
(***************************************************************************)
\* Mutant of SecretEnv: the name of the secret is put together as in
\* LoadCfgFromSM, whatever the environment.
SecretEnvFile(what) == file.env

\* The environment in the name of the secret: LoadCfgFromSM takes the one of
\* the file, InitPrivyConfig one it knows or none.
SecretEnv(what) ==
    IF what = "axal" \/ file.env \in {"prod", "staging", "dev"} THEN file.env
    ELSE IF file.env = "local" THEN "dev" ELSE "none"

\* AWS refuses credentials that have expired.
Refused == creds.kind = "role" /\ creds.age <= expired

\* Mutant of Accepted: the fields of the Privy secret are not looked at.
AcceptedUnchecked(what) ==
    IF what = "axal" THEN axal \in {"full", "partial"}
                     ELSE privy \in {"full", "noKeyId", "partial"}

\* What is taken: the Axal secret if it is JSON, the Privy secret if its four
\* required fields are there. The id of the key is not one of them.
Accepted(what) ==
    IF what = "axal" THEN axal \in {"full", "partial"}
                     ELSE privy \in {"full", "noKeyId"}

GetAxalSecret ==
    /\ pc = "secret" /\ want = "axal" /\ ~ Refused /\ Accepted("axal")
    /\ cfg' = [cfg EXCEPT !.axal = [from |-> SecretEnv("axal"), body |-> axal]]
    /\ NewSecretManager("privy")
    /\ UNCHANGED <<world, client>>

GetPrivySecret ==
    /\ pc = "secret" /\ want = "privy" /\ ~ Refused /\ Accepted("privy")
    /\ SecretEnv("privy") # "none"
    /\ cfg' = [cfg EXCEPT !.privy = [from |-> SecretEnv("privy"), body |-> privy]]
    /\ pc' = "client"
    /\ UNCHANGED <<world, want, creds, open, client>>

\* No connection, a refusal, or a secret that is not taken.
SecretFails ==
    /\ pc = "secret"
    /\ Die
    /\ UNCHANGED <<world, want, creds, cfg, client>>

(***************************************************************************)
(* InitNewPrivyClient and InitRouter.                                      *)
(***************************************************************************)
GetEnv == IF file.env \in Environments THEN file.env ELSE "local"

InitNewPrivyClient ==
    /\ pc = "client"
    /\ client' = GetEnv
    /\ pc' = "listen"
    /\ UNCHANGED <<world, want, creds, open, cfg>>

InitRouter ==
    /\ pc = "listen"
    /\ \/ pc' = "serving" /\ UNCHANGED open
       \/ Die
    /\ UNCHANGED <<world, want, creds, cfg, client>>

\* http.Serve returns when the listener fails.
ServeEnds ==
    /\ pc = "serving"
    /\ Die
    /\ UNCHANGED <<world, want, creds, cfg, client>>

(***************************************************************************)
(* The metadata service.                                                   *)
(***************************************************************************)
Rotate ==
    /\ issued <= MaxRotations
    /\ issued' = issued + 1
    /\ UNCHANGED <<file, axal, privy, expired, pc, want, creds, open, cfg, client>>

Expire ==
    /\ expired < issued - 1
    /\ expired' = issued - 1
    /\ UNCHANGED <<file, axal, privy, issued, pc, want, creds, open, cfg, client>>

Metadata == GetToken \/ GetRole \/ GetCredentials \/ MetadataFails
Main == LoadTEEConfig \/ GetAxalSecret \/ GetPrivySecret \/ SecretFails
            \/ InitNewPrivyClient \/ InitRouter

Terminating == pc \in {"dead", "serving"} /\ UNCHANGED vars

Next == Main \/ Metadata \/ ServeEnds \/ Rotate \/ Expire \/ Terminating

\* No fairness: a call to the metadata service has no deadline (HttpReturns), so
\* that the start may wait for it for ever.
Spec == Init /\ [][Next]_vars

(***************************************************************************)
(* Properties.                                                             *)
(***************************************************************************)
Credentials == [kind : {"none", "file", "role"}, age : 0 .. MaxRotations + 1]

TEEConfig ==
    [axal : [from : {"none", "file", "other"} \union Environments,
             body : AxalSecrets \union {"none", "full", "partial"}],
     privy : [from : {"none"} \union Environments, body : PrivySecrets \union {"none"}]]

\* Type correctness of what main and its secret managers hold.
TypeOK ==
    /\ file \in Files /\ axal \in AxalSecrets /\ privy \in PrivySecrets
    /\ issued \in 1 .. MaxRotations + 1 /\ expired \in 0 .. issued - 1
    /\ pc \in {"load", "token", "role", "creds", "secret", "client", "listen",
               "serving", "dead"}
    /\ want \in {"none", "axal", "privy"}
    /\ creds \in Credentials
    /\ open \in 0 .. 6
    /\ cfg \in TEEConfig
    /\ client \in Environments \union {"none"}

\* An enclave that serves has a client for the environment its file names
\* (the fallback of GetEnv to "local" never shows), both secrets from that
\* environment ("local" takes the Axal key of its file and the Privy secret of
\* "dev"), and every field of the Privy secret that is checked (config.go:58,
\* 84, 147).
ServedConfig ==
    pc = "serving" =>
        /\ client = file.env
        /\ cfg.privy.from = IF file.env = "local" THEN "dev" ELSE file.env
        /\ cfg.axal.from = IF file.env = "local" THEN "file" ELSE file.env
        /\ cfg.privy.body \in {"full", "noKeyId"}
        /\ cfg.axal.body \in {"full", "partial"}

\* No response of the metadata service outlives the call of getEC2Credentials that
\* got it, which may be left at ten places (secret_manager.go:98-160).
NoConnectionLeft == pc \notin {"token", "role", "creds"} => open = 0

\* A secret manager goes to AWS with credentials of its own, the newest there are
\* when it does, however often they rotated and expired since the secret before was
\* fetched (secret_manager.go:60-75, config.go:49, 116). Those may expire before the
\* request comes; then the start fails.
FreshCredentials ==
    [][pc' = "secret" /\ (pc # "secret" \/ want' # want)
          => creds'.kind = "file" \/ (creds'.age = issued' /\ ~ Refused')]_vars
================================================================================
