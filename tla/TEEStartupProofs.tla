--------------------------- MODULE TEEStartupProofs ----------------------------
(***************************************************************************)
(* Proofs about TEEStartup, for every set of files and secrets and any     *)
(* number of rotations.                                                    *)
(***************************************************************************)
EXTENDS TEEStartup, TLAPS

\* The configuration has the part that main has gone past.
HasAxal ==
    want = "privy" \/ pc \in {"client", "listen", "serving"} =>
        /\ cfg.axal.from = IF file.env = "local" THEN "file" ELSE file.env
        /\ cfg.axal.body \in {"full", "partial"}

HasPrivy ==
    pc \in {"client", "listen", "serving"} =>
        /\ file.env \in Environments
        /\ cfg.privy.from = IF file.env = "local" THEN "dev" ELSE file.env
        /\ cfg.privy.body \in {"full", "noKeyId"}

HasClient == pc \in {"listen", "serving"} => client = file.env

\* How many connections getEC2Credentials has open, by the call it has come to.
OpenCount ==
    open = CASE pc = "role" -> 1 [] pc = "creds" -> 2 [] OTHER -> 0

\* While a secret is fetched, it is known which; "local" fetches only one.
Wanted ==
    /\ pc \in {"token", "role", "creds", "secret"} => want \in {"axal", "privy"}
    /\ want = "axal" => file.env # "local"

CfgRecord == cfg = [axal |-> cfg.axal, privy |-> cfg.privy]

StartInv == CfgRecord /\ HasAxal /\ HasPrivy /\ HasClient /\ OpenCount /\ Wanted

\* The start keeps to the sequence of LoadTEEConfig, InitNewPrivyClient and
\* InitRouter: what comes later finds what comes earlier (main.go:17-40).
THEOREM StartInvariant == Spec => []StartInv
<1>1. Init => StartInv
  BY DEF Init, StartInv, HasAxal, HasPrivy, HasClient, OpenCount, Wanted, CfgRecord
<1>2. StartInv /\ [Next]_vars => StartInv'
  <2> SUFFICES ASSUME StartInv, [Next]_vars PROVE StartInv'
    OBVIOUS
  <2> USE DEF StartInv, HasAxal, HasPrivy, HasClient, OpenCount, Wanted, CfgRecord, world
  <2>1. CASE LoadTEEConfig
    <3>1. CASE ~ file.ports \/ file.env = ""
      BY <2>1, <3>1 DEF LoadTEEConfig, Die
    <3>2. CASE file.ports /\ file.env # ""
      <4> DEFINE what == IF file.env = "local" THEN "privy" ELSE "axal"
                 body == IF file.axal THEN "full" ELSE "partial"
      <4>1. /\ cfg' = [axal |-> [from |-> "file", body |-> body], privy |-> cfg.privy]
            /\ NewSecretManager(what)
            /\ UNCHANGED <<world, client>>
        BY <2>1, <3>2 DEF LoadTEEConfig
      <4>2. /\ cfg'.axal = [from |-> "file", body |-> body]
            /\ cfg' = [axal |-> cfg'.axal, privy |-> cfg'.privy]
            /\ body \in {"full", "partial"}
        BY <4>1
      <4>3. want' = what /\ pc' \in {"token", "secret", "dead"}
        BY <4>1 DEF NewSecretManager, NewAWSConfigFromYAML, Die
      <4>4. open' = 0
        BY <4>1, <2>1 DEF LoadTEEConfig, NewSecretManager, NewAWSConfigFromYAML, Die
      <4> HIDE DEF body
      <4> QED
        BY <4>1, <4>2, <4>3, <4>4
    <3> QED
      BY <3>1, <3>2
  <2>2. CASE GetAxalSecret
    BY <2>2 DEF GetAxalSecret, NewSecretManager, NewAWSConfigFromYAML, Die, FromMetadata,
                SecretEnv, Accepted
  <2>3. CASE GetPrivySecret
    BY <2>3 DEF GetPrivySecret, SecretEnv, Accepted, Environments
  <2>4. CASE SecretFails
    BY <2>4 DEF SecretFails, Die
  <2>5. CASE InitNewPrivyClient
    BY <2>5 DEF InitNewPrivyClient, GetEnv
  <2>6. CASE InitRouter
    BY <2>6 DEF InitRouter, Die
  <2>7. CASE Metadata
    <3>1. CASE GetToken
      BY <3>1 DEF GetToken, Call
    <3>2. CASE GetRole
      BY <3>2 DEF GetRole, Call
    <3>3. CASE GetCredentials
      BY <3>3 DEF GetCredentials, Deferred
    <3>4. CASE MetadataFails
      BY <3>4 DEF MetadataFails, Deferred
    <3> QED
      BY <2>7, <3>1, <3>2, <3>3, <3>4 DEF Metadata
  <2>8. CASE ServeEnds
    BY <2>8 DEF ServeEnds, Die
  <2>9. CASE Rotate \/ Expire
    BY <2>9 DEF Rotate, Expire
  <2>10. CASE UNCHANGED vars
    BY <2>10 DEF vars
  <2> QED
    BY <2>1, <2>2, <2>3, <2>4, <2>5, <2>6, <2>7, <2>8, <2>9, <2>10
       DEF Next, Main, Terminating
<1> QED
  BY <1>1, <1>2, PTL DEF Spec

\* An enclave that serves has the configuration of the environment its file
\* names, complete as far as InitPrivyConfig checks it.
THEOREM ServesItsConfig == Spec => []ServedConfig
<1>1. StartInv => ServedConfig
  BY DEF StartInv, HasAxal, HasPrivy, HasClient, ServedConfig
<1> QED
  BY <1>1, StartInvariant, PTL

\* getEC2Credentials leaves no connection open, however it returns.
THEOREM ClosesConnections == Spec => []NoConnectionLeft
<1>1. StartInv => NoConnectionLeft
  BY DEF StartInv, OpenCount, NoConnectionLeft
<1> QED
  BY <1>1, StartInvariant, PTL

\* LoadTEEConfig goes on only with a file that names an environment.
Named == pc \notin {"load", "dead"} => file.env # ""

\* No later step changes the file.
LEMMA AlwaysNamed == Spec => []Named
<1>1. Init => Named
  BY DEF Init, Named
<1>2. Named /\ [Next]_vars => Named'
  <2> SUFFICES ASSUME Named, [Next]_vars PROVE Named'
    OBVIOUS
  <2> USE DEF Named, world, Die
  <2>1. CASE LoadTEEConfig
    BY <2>1 DEF LoadTEEConfig
  <2>2. CASE GetAxalSecret \/ GetPrivySecret
    BY <2>2 DEF GetAxalSecret, GetPrivySecret
  <2>3. CASE SecretFails \/ InitNewPrivyClient \/ InitRouter \/ ServeEnds
    BY <2>3 DEF SecretFails, InitNewPrivyClient, InitRouter, ServeEnds
  <2>4. CASE Metadata
    BY <2>4 DEF Metadata, GetToken, GetRole, Call, GetCredentials, MetadataFails
  <2>5. CASE Rotate \/ Expire \/ UNCHANGED vars
    BY <2>5 DEF Rotate, Expire, vars
  <2> QED
    BY <2>1, <2>2, <2>3, <2>4, <2>5 DEF Next, Main, Terminating
<1> QED
  BY <1>1, <1>2, PTL DEF Spec

\* Type correctness of every reachable state; what the configuration is taken
\* from is the file or an environment, never a file without one.
THEOREM StartTyped == Spec => []TypeOK
<1>1. Init => TypeOK
  BY StartupAssumption DEF Init, TypeOK, NoCredentials, NoSecret, Credentials, TEEConfig
<1>2. TypeOK /\ StartInv /\ Named /\ [Next]_vars => TypeOK'
  <2> SUFFICES ASSUME TypeOK, StartInv, Named, [Next]_vars PROVE TypeOK'
    OBVIOUS
  <2> USE DEF world
  <2>1. file \in File /\ MaxRotations \in Nat /\ open \in 0 .. 2
    BY StartupAssumption DEF TypeOK, StartInv, OpenCount
  <2>2. ASSUME NEW what \in {"axal", "privy"}, NewSecretManager(what)
        PROVE  /\ want' = what /\ pc' \in {"token", "secret", "dead"} /\ open' \in 0 .. 6
               /\ creds' \in Credentials
    BY <2>1, <2>2 DEF Credentials, NewSecretManager, NewAWSConfigFromYAML, Die, TypeOK
  <2>3. ASSUME NEW part \in {"axal", "privy"}, NEW from, NEW body,
               cfg' = [cfg EXCEPT ![part] = [from |-> from, body |-> body]],
               part = "axal" => /\ from \in {"none", "file", "other"} \union Environments
                                /\ body \in AxalSecrets \union {"none", "full", "partial"},
               part = "privy" => /\ from \in {"none"} \union Environments
                                 /\ body \in PrivySecrets \union {"none"}
        PROVE  cfg' \in TEEConfig
    BY <2>3 DEF TypeOK, TEEConfig
  <2>4. CASE LoadTEEConfig
    <3>1. CASE ~ file.ports \/ file.env = ""
      <4>1. pc' = "dead" /\ open' = open /\ UNCHANGED <<world, want, creds, cfg, client>>
        BY <2>4, <3>1 DEF LoadTEEConfig, Die
      <4> QED
        BY <4>1 DEF TypeOK
    <3>2. CASE file.ports /\ file.env # ""
      <4> DEFINE body == IF file.axal THEN "full" ELSE "partial"
      <4>1. /\ cfg' = [cfg EXCEPT !["axal"] = [from |-> "file", body |-> body]]
            /\ NewSecretManager(IF file.env = "local" THEN "privy" ELSE "axal")
            /\ UNCHANGED <<world, client>>
        BY <2>4, <3>2 DEF LoadTEEConfig
      <4>2. body \in {"full", "partial"}
        OBVIOUS
      <4> HIDE DEF body
      <4> QED
        BY <2>2, <2>3, <3>2, <4>1, <4>2 DEF TypeOK
    <3> QED
      BY <3>1, <3>2
  <2>5. CASE GetAxalSecret
    <3>1. /\ cfg' = [cfg EXCEPT !["axal"] = [from |-> file.env, body |-> axal]]
          /\ NewSecretManager("privy")
          /\ UNCHANGED <<world, client>>
      BY <2>5 DEF GetAxalSecret, SecretEnv
    <3>2. file.env # ""
      BY <2>5 DEF GetAxalSecret, Named
    <3>3. file.env \in {"other"} \union Environments
      BY <2>1, <3>2 DEF File
    <3> QED
      BY <2>2, <2>3, <3>1, <3>3 DEF TypeOK
  <2>6. CASE GetPrivySecret
    <3>1. /\ cfg' = [cfg EXCEPT !["privy"] = [from |-> SecretEnv("privy"), body |-> privy]]
          /\ pc' = "client" /\ UNCHANGED <<world, want, creds, open, client>>
      BY <2>6 DEF GetPrivySecret
    <3>2. SecretEnv("privy") \in {"none"} \union Environments
      BY DEF SecretEnv, Environments
    <3> QED
      BY <2>3, <3>1, <3>2 DEF TypeOK
  <2>7. CASE SecretFails \/ InitRouter \/ ServeEnds
    BY <2>7 DEF SecretFails, InitRouter, ServeEnds, Die, TypeOK
  <2>8. CASE InitNewPrivyClient
    BY <2>8 DEF InitNewPrivyClient, GetEnv, Environments, TypeOK
  <2>9. CASE Metadata
    <3>1. CASE GetToken \/ GetRole
      BY <2>1, <3>1 DEF GetToken, GetRole, Call, TypeOK
    <3>2. CASE GetCredentials
      BY <2>1, <3>2 DEF GetCredentials, Deferred, TypeOK, Credentials
    <3>3. CASE MetadataFails
      BY <3>3 DEF MetadataFails, Deferred, TypeOK
    <3> QED
      BY <2>9, <3>1, <3>2, <3>3 DEF Metadata
  <2>10. CASE Rotate \/ Expire
    BY <2>1, <2>10 DEF Rotate, Expire, TypeOK
  <2>11. CASE UNCHANGED vars
    BY <2>11 DEF vars, TypeOK
  <2> QED
    BY <2>4, <2>5, <2>6, <2>7, <2>8, <2>9, <2>10, <2>11 DEF Next, Main, Terminating
<1> QED
  BY <1>1, <1>2, StartInvariant, AlwaysNamed, PTL DEF Spec

\* A secret manager begins with the newest credentials of the service or with those
\* of the file; none takes over what another had fetched.
THEOREM AlwaysFreshCredentials == Spec => FreshCredentials
<1>1. ASSUME TypeOK, [Next]_vars, pc' = "secret", pc # "secret" \/ want' # want
      PROVE  creds'.kind = "file" \/ (creds'.age = issued' /\ ~ Refused')
  <2> USE DEF world
  <2>1. ASSUME NEW what, NewSecretManager(what) PROVE creds' = [kind |-> "file", age |-> 0]
    BY <1>1, <2>1 DEF NewSecretManager, NewAWSConfigFromYAML, Die
  <2>2. CASE LoadTEEConfig \/ GetAxalSecret
    <3>1. \E what \in {"axal", "privy"} : NewSecretManager(what)
      <4>1. CASE LoadTEEConfig
        <5>1. NewSecretManager(IF file.env = "local" THEN "privy" ELSE "axal")
          BY <1>1, <4>1 DEF LoadTEEConfig, Die
        <5> QED
          BY <5>1
      <4>2. CASE GetAxalSecret
        BY <4>2 DEF GetAxalSecret
      <4> QED
        BY <2>2, <4>1, <4>2
    <3> QED
      BY <2>1, <3>1
  <2>3. CASE GetCredentials
    <3>1. creds' = [kind |-> "role", age |-> issued] /\ issued' = issued /\ expired' = expired
      BY <2>3 DEF GetCredentials
    <3>2. issued \in Nat /\ expired \in Nat /\ expired < issued
      BY <1>1, StartupAssumption DEF TypeOK
    <3> QED
      BY <3>1, <3>2 DEF Refused
  <2>4. CASE GetPrivySecret \/ SecretFails \/ InitNewPrivyClient \/ InitRouter \/ ServeEnds
    BY <1>1, <2>4 DEF GetPrivySecret, SecretFails, InitNewPrivyClient, InitRouter, ServeEnds, Die
  <2>5. CASE GetToken \/ GetRole \/ MetadataFails
    BY <1>1, <2>5 DEF GetToken, GetRole, MetadataFails
  <2>6. CASE Rotate \/ Expire \/ UNCHANGED vars
    BY <1>1, <2>6 DEF Rotate, Expire, vars
  <2> QED
    BY <1>1, <2>2, <2>3, <2>4, <2>5, <2>6 DEF Next, Main, Metadata, Terminating
<1>2. TypeOK /\ [Next]_vars
         => [pc' = "secret" /\ (pc # "secret" \/ want' # want)
                => creds'.kind = "file" \/ (creds'.age = issued' /\ ~ Refused')]_vars
  BY <1>1
<1> QED
  BY <1>2, StartTyped, PTL DEF Spec, FreshCredentials
================================================================================
