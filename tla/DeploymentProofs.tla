---------------------------- MODULE DeploymentProofs ----------------------------
(***************************************************************************)
(* Proofs about Deployment, for any deployers and any failures.            *)
(***************************************************************************)
EXTENDS Deployment, TLAPS

\* No deployment began with a later source than there is.
Past == source \in Nat /\ \A d \in Deployers : since[d] \in Nat /\ since[d] <= source

\* What may be deployed: something of the beginning or later that no build
\* failed before, or what an image that was left behind a failed build became.
Explained(version, d) ==
    \/ broken[d] = {} /\ version >= since[d]
    \/ broken[d] = {"docker"} /\ left[d]

\* What a deployment may find at each of its steps. A file is missing, which makes
\* the next build, or run-enclave, fail, or it is explained.
Made(d) ==
    /\ pc[d] \in {"cleanup", "docker", "building"} => broken[d] = {}
    /\ pc[d] \in {"docker", "building", "eif"} => eif = 0
    /\ pc[d] = "building" =>
          context[d] \in Nat /\ context[d] >= since[d] /\ (image # 0 => left[d])
    /\ pc[d] = "eif" => image = 0 \/ Explained(image, d)
    /\ pc[d] \in {"terminate", "run"} => eif = 0 \/ Explained(eif, d)
    /\ pc[d] \in {"verify", "success"} => Explained(mine[d].version, d)

\* While a deployment that shares the machine with no other is under way, no other
\* is.
Apart ==
    \A d, e \in Deployers : alone[d] /\ UnderWay(d) /\ d # e => ~ UnderWay(e)

Arrays ==
    /\ pc = [d \in Deployers |-> pc[d]] /\ since = [d \in Deployers |-> since[d]]
    /\ context = [d \in Deployers |-> context[d]] /\ left = [d \in Deployers |-> left[d]]
    /\ broken = [d \in Deployers |-> broken[d]] /\ mine = [d \in Deployers |-> mine[d]]
    /\ known = [d \in Deployers |-> known[d]] /\ alone \in [Deployers -> BOOLEAN]

DeploymentInv ==
    Arrays /\ Past /\ Apart /\ \A d \in Deployers : alone[d] => Made(d)

\* A step of deployment d that is under way: of another's state it changes the
\* files at most.
OnlyOf(d) ==
    /\ UnderWay(d)
    /\ UNCHANGED <<source, since, alone>>
    /\ \A e \in Deployers \ {d} :
          /\ pc'[e] = pc[e] /\ left'[e] = left[e]
          /\ broken'[e] = broken[e] /\ mine'[e] = mine[e]

\* Such a step disturbs no deployment that has the machine to itself: d is that
\* one, or that one is over and its files no longer matter.
LEMMA OnlyOfKeeps ==
    ASSUME DeploymentInv, NEW d \in Deployers, OnlyOf(d), Arrays', alone[d] => Made(d)'
    PROVE  DeploymentInv'
<1>1. Past'
  BY DEF DeploymentInv, Past, OnlyOf
<1>2. Apart'
  <2> SUFFICES ASSUME NEW a \in Deployers, NEW e \in Deployers, a # e,
                      alone'[a], UnderWay(a)', UnderWay(e)'
               PROVE  FALSE
    BY DEF Apart
  <2>1. alone[a] /\ UnderWay(a) /\ UnderWay(e)
    BY DEF OnlyOf, UnderWay
  <2> QED
    BY <2>1 DEF DeploymentInv, Apart
<1>3. ASSUME NEW e \in Deployers, alone'[e] PROVE Made(e)'
  <2>1. CASE e = d
    BY <1>3, <2>1 DEF OnlyOf
  <2>2. CASE e # d
    <3>1. ~ UnderWay(e) /\ Made(e)
      BY <1>3, <2>2 DEF OnlyOf, DeploymentInv, Apart
    <3>2. pc[e] \in {"idle", "success", "failed"}
      BY <3>1 DEF UnderWay
    <3> QED
      BY <2>2, <3>1, <3>2 DEF OnlyOf, Made, Explained
  <2> QED
    BY <2>1, <2>2
<1> QED
  BY <1>1, <1>2, <1>3 DEF DeploymentInv

\* Deployments side by side and interrupted by stop.sh at any command, with any
\* command failing: one that shares the machine with no other finds at each step
\* what it has made itself, or an image that could not be removed.
THEOREM AlwaysDeploymentInv == Spec => []DeploymentInv
<1>1. Init => DeploymentInv
  BY DEF Init, DeploymentInv, Arrays, Past, Apart, UnderWay, Made, Explained, NoEnclave
<1>2. DeploymentInv /\ [Next]_vars => DeploymentInv'
  <2> SUFFICES ASSUME DeploymentInv, [Next]_vars PROVE DeploymentInv'
    OBVIOUS
  <2>0. Arrays /\ Past
    BY DEF DeploymentInv
  <2>1. CASE UNCHANGED vars
    BY <2>1 DEF vars, deployment, build, DeploymentInv, Arrays, Past, Apart, UnderWay, Made, Explained
  <2>2. ASSUME NEW d \in Deployers, Check(d) PROVE DeploymentInv'
    <3>1. /\ ~ UnderWay(d)
          /\ alone' = [e \in Deployers |->
                          IF e = d THEN \A f \in Deployers : ~ UnderWay(f)
                          ELSE alone[e] /\ ~ UnderWay(e)]
          /\ pc'[d] \in {"failed", "cleanup"} /\ broken'[d] = {}
          /\ since' = [since EXCEPT ![d] = source] /\ source' = source
          /\ \A e \in Deployers \ {d} :
                pc'[e] = pc[e] /\ left'[e] = left[e] /\ broken'[e] = broken[e] /\ mine'[e] = mine[e]
      BY <2>0, <2>2 DEF Check, Goto, Arrays
    <3>2. Arrays'
      BY <2>0, <2>2 DEF Check, Goto, Arrays
    <3>3. Past'
      BY <2>0, <3>1 DEF Arrays, Past
    <3>4. Apart'
      BY <3>1 DEF Apart, UnderWay
    <3>5. ASSUME NEW e \in Deployers, alone'[e] PROVE Made(e)'
      <4>1. CASE e = d
        BY <3>1, <4>1 DEF Made
      <4>2. CASE e # d
        <5>1. Made(e) /\ ~ UnderWay(e) /\ since'[e] = since[e]
          BY <2>0, <3>1, <3>5, <4>2 DEF DeploymentInv, Arrays
        <5> QED
          BY <3>1, <4>2, <5>1 DEF Made, Explained, UnderWay
      <4> QED
        BY <4>1, <4>2
    <3> QED
      BY <3>2, <3>3, <3>4, <3>5 DEF DeploymentInv
  <2>3. ASSUME NEW d \in Deployers, Cleanup(d) PROVE DeploymentInv'
    <3>1. OnlyOf(d) /\ Arrays'
      BY <2>0, <2>3 DEF Cleanup, Goto, OnlyOf, UnderWay, Arrays, build
    <3>2. alone[d] => Made(d)'
      BY <2>0, <2>3 DEF Cleanup, RemoveFiles, Goto, DeploymentInv, Arrays, Made, build
    <3> QED
      BY <3>1, <3>2, OnlyOfKeeps
  <2>4. ASSUME NEW d \in Deployers, DockerBuild(d) PROVE DeploymentInv'
    <3>1. OnlyOf(d) /\ Arrays'
      BY <2>0, <2>4 DEF DockerBuild, Goto, OnlyOf, UnderWay, Arrays
    <3>2. alone[d] => Made(d)'
      BY <2>0, <2>4 DEF DockerBuild, Goto, DeploymentInv, Arrays, Past, Made
    <3> QED
      BY <3>1, <3>2, OnlyOfKeeps
  <2>5. ASSUME NEW d \in Deployers, DockerBuildEnds(d) PROVE DeploymentInv'
    <3>1. OnlyOf(d) /\ Arrays'
      BY <2>0, <2>5 DEF DockerBuildEnds, Break, Goto, OnlyOf, UnderWay, Arrays
    <3>2. \/ image' = context[d] /\ UNCHANGED broken
          \/ broken'[d] = broken[d] \union {"docker"} /\ UNCHANGED image
      BY <2>0, <2>5 DEF DockerBuildEnds, Break, Arrays
    <3>3. alone[d] => Made(d)'
      BY <2>0, <2>5, <3>2 DEF DockerBuildEnds, Goto, DeploymentInv, Arrays, Made, Explained
    <3> QED
      BY <3>1, <3>3, OnlyOfKeeps
  <2>6. ASSUME NEW d \in Deployers, BuildEnclave(d) PROVE DeploymentInv'
    <3>1. OnlyOf(d) /\ Arrays'
      BY <2>0, <2>6 DEF BuildEnclave, EifFails, Break, Goto, OnlyOf, UnderWay, Arrays
    <3>2. \/ image # 0 /\ eif' = image /\ UNCHANGED broken
          \/ UNCHANGED eif
      BY <2>6 DEF BuildEnclave, EifFails
    <3>3. alone[d] => Made(d)'
      BY <2>0, <2>6, <3>2 DEF BuildEnclave, Goto, DeploymentInv, Arrays, Made, Explained
    <3> QED
      BY <3>1, <3>3, OnlyOfKeeps
  <2>7. ASSUME NEW d \in Deployers, Terminate(d) PROVE DeploymentInv'
    <3>1. OnlyOf(d) /\ Arrays'
      BY <2>0, <2>7 DEF Terminate, Goto, OnlyOf, UnderWay, Arrays, build
    <3>2. alone[d] => Made(d)'
      BY <2>0, <2>7 DEF Terminate, Goto, DeploymentInv, Arrays, Made, Explained, build
    <3> QED
      BY <3>1, <3>2, OnlyOfKeeps
  <2>8. ASSUME NEW d \in Deployers, RunEnclave(d) PROVE DeploymentInv'
    <3>1. OnlyOf(d) /\ Arrays'
      BY <2>0, <2>8 DEF RunEnclave, Goto, OnlyOf, UnderWay, Arrays, build
    <3>2. \/ eif # 0 /\ mine'[d].version = eif /\ pc'[d] = "verify"
          \/ pc'[d] = "failed"
      <4>1. CASE /\ eif # 0 /\ enclave' = [id |-> started + 1, version |-> eif]
                 /\ mine' = [mine EXCEPT ![d] = enclave'] /\ Goto(d, "verify")
        <5>1. mine'[d] = enclave' /\ pc'[d] = "verify"
          BY <2>0, <4>1 DEF Goto, Arrays
        <5> QED
          BY <4>1, <5>1
      <4>2. CASE Goto(d, "failed")
        BY <2>0, <4>2 DEF Goto, Arrays
      <4> QED
        BY <2>8, <4>1, <4>2 DEF RunEnclave
    <3>3. alone[d] => Made(d)'
      BY <2>0, <2>8, <3>2 DEF RunEnclave, DeploymentInv, Made, Explained, build
    <3> QED
      BY <3>1, <3>3, OnlyOfKeeps
  <2>9. ASSUME NEW d \in Deployers, Verify(d) PROVE DeploymentInv'
    <3>1. OnlyOf(d) /\ Arrays'
      BY <2>0, <2>9 DEF Verify, Goto, OnlyOf, UnderWay, Arrays, build
    <3>2. alone[d] => Made(d)'
      BY <2>0, <2>9 DEF Verify, Goto, DeploymentInv, Arrays, Made, Explained, build
    <3> QED
      BY <3>1, <3>2, OnlyOfKeeps
  <2>10. CASE StopOrphans
    <3>1. PICK K \in SUBSET {d \in Deployers : pc[d] \in {"eif", "terminate", "run"}} :
             /\ pc' = [d \in Deployers |-> IF d \in K THEN Killed(pc[d]) ELSE pc[d]]
             /\ broken' = [d \in Deployers |->
                             IF d \in K /\ pc[d] = "eif" THEN broken[d] \union {"eif"} ELSE broken[d]]
             /\ UNCHANGED <<source, image, eif, since, context, left, mine, known, alone>>
      BY <2>10 DEF StopOrphans
    <3>2. Arrays' /\ Past'
      BY <2>0, <3>1 DEF Arrays, Past
    <3>3. \A d \in Deployers : UnderWay(d)' => UnderWay(d)
      BY <3>1 DEF UnderWay, Killed
    <3>4. Apart'
      BY <3>1, <3>3 DEF DeploymentInv, Apart
    <3>5. ASSUME NEW d \in Deployers, alone'[d] PROVE Made(d)'
      <4>1. Made(d)
        BY <3>1, <3>5 DEF DeploymentInv
      <4>2. CASE d \in K
        BY <3>1, <4>1, <4>2 DEF Made, Explained, Killed
      <4>3. CASE d \notin K
        BY <3>1, <4>1, <4>3 DEF Made, Explained
      <4> QED
        BY <4>2, <4>3
    <3> QED
      BY <3>2, <3>4, <3>5 DEF DeploymentInv
  <2>11. CASE StopLook \/ StopTerminate \/ Pull \/ EnclaveExits
    <3>1. UNCHANGED <<image, eif, deployment>> /\ (source' = source \/ source' = source + 1)
      BY <2>11 DEF StopLook, StopTerminate, Pull, EnclaveExits
    <3>2. Past'
      BY <2>0, <3>1 DEF deployment, build, Past
    <3>3. Arrays' /\ Apart' /\ \A d \in Deployers : alone'[d] => Made(d)'
      BY <3>1 DEF deployment, build, DeploymentInv, Arrays, Apart, UnderWay, Made, Explained
    <3> QED
      BY <3>2, <3>3 DEF DeploymentInv
  <2> QED
    BY <2>1, <2>2, <2>3, <2>4, <2>5, <2>6, <2>7, <2>8, <2>9, <2>10, <2>11 DEF Next, Deploy, Stop
<1> QED
  BY <1>1, <1>2, PTL DEF Spec

\* A success of a deployment by itself stands for an enclave of its source, unless
\* an image stayed and the docker build failed (run_prod.sh:134,
\* docker_build_prod.sh:3).
THEOREM AlwaysFreshUnlessLeft == Spec => []FreshUnlessLeft
<1>1. DeploymentInv => FreshUnlessLeft
  BY DEF DeploymentInv, Made, Explained, FreshUnlessLeft
<1> QED
  BY <1>1, AlwaysDeploymentInv, PTL

\* Of the failures the scripts do not notice (run_prod.sh:68,
\* docker_build_prod.sh:65) only one ends in a success of a deployment by itself.
THEOREM AlwaysBrokenNeverSucceeds == Spec => []BrokenNeverSucceeds
<1>1. DeploymentInv => BrokenNeverSucceeds
  BY DEF DeploymentInv, Made, Explained, BrokenNeverSucceeds
<1> QED
  BY <1>1, AlwaysDeploymentInv, PTL

(***************************************************************************)
(* Type correctness, for any number of deployers and any failures.         *)
(***************************************************************************)
\* Nothing is built from a source that does not exist, and the enclaves that
\* were started are counted, however the scripts interleave.
THEOREM DeploymentTyped == Spec => []TypeOK
<1>0. 0 \in Version /\ 1 \in Version /\ NoEnclave \in Enclave
  BY DeploymentAssumption DEF Version, Enclave, NoEnclave
<1>1. Init => TypeOK
  BY <1>0, DeploymentAssumption DEF Init, TypeOK
<1>2. TypeOK /\ [Next]_vars => TypeOK'
  <2> SUFFICES ASSUME TypeOK, [Next]_vars PROVE TypeOK'
    OBVIOUS
  <2> USE DEF TypeOK, Goto
  <2>1. CASE UNCHANGED vars
    BY <2>1 DEF vars, deployment, build
  <2>2. ASSUME NEW d \in Deployers, Deploy(d) PROVE TypeOK'
    <3>1. CASE Check(d)
      BY <3>1 DEF Check
    <3>2. CASE Cleanup(d)
      BY <1>0, <3>2 DEF Cleanup, RemoveFiles, RemoveImage, build
    <3>3. CASE DockerBuild(d)
      BY <1>0, <3>3 DEF DockerBuild, RemoveImage
    <3>4. CASE DockerBuildEnds(d)
      <4>1. \/ image' = context[d] /\ UNCHANGED broken
            \/ UNCHANGED image /\ broken' = [broken EXCEPT ![d] = @ \union {"docker"}]
        BY <3>4 DEF DockerBuildEnds, Break
      <4>2. image' \in Version /\ broken' \in [Deployers -> SUBSET {"docker", "eif"}]
        BY <4>1
      <4> QED
        BY <3>4, <4>2 DEF DockerBuildEnds
    <3>5. CASE BuildEnclave(d)
      <4>1. eif' \in {eif, image} /\ broken' \in {broken, [broken EXCEPT ![d] = @ \union {"eif"}]}
        BY <3>5 DEF BuildEnclave, EifFails, Break
      <4> QED
        BY <3>5, <4>1 DEF BuildEnclave
    <3>6. CASE Terminate(d)
      BY <1>0, <3>6 DEF Terminate, build
    <3>7. CASE RunEnclave(d)
      <4>1. CASE started < MaxStarts /\ enclave' = [id |-> started + 1, version |-> eif]
                    /\ started' = started + 1 /\ mine' = [mine EXCEPT ![d] = enclave']
                    /\ \E readable \in BOOLEAN : known' = [known EXCEPT ![d] = readable]
                    /\ Goto(d, "verify")
        <5>1. started + 1 \in 0 .. MaxStarts
          BY <4>1, DeploymentAssumption
        <5>2. enclave' \in Enclave
          BY <4>1, <5>1 DEF Enclave
        <5> QED
          BY <3>7, <4>1, <5>1, <5>2 DEF RunEnclave, build
      <4>2. CASE UNCHANGED <<started, enclave, mine, known>> /\ Goto(d, "failed")
        BY <3>7, <4>2 DEF RunEnclave, build
      <4> QED
        BY <3>7, <4>1, <4>2 DEF RunEnclave
    <3>8. CASE Verify(d)
      BY <3>8 DEF Verify, build
    <3> QED
      BY <2>2, <3>1, <3>2, <3>3, <3>4, <3>5, <3>6, <3>7, <3>8 DEF Deploy
  <2>3. CASE StopLook
    BY <2>3 DEF StopLook, deployment, build
  <2>4. CASE StopTerminate
    BY <1>0, <2>4 DEF StopTerminate, deployment, build
  <2>5. CASE StopOrphans
    BY <2>5 DEF StopOrphans, Killed
  <2>6. CASE Pull
    <3>1. source' \in Version
      BY <2>6, DeploymentAssumption DEF Pull, Version
    <3> QED
      BY <2>6, <3>1 DEF Pull, deployment, build
  <2>7. CASE EnclaveExits
    BY <1>0, <2>7 DEF EnclaveExits, deployment, build
  <2> QED
    BY <2>1, <2>2, <2>3, <2>4, <2>5, <2>6, <2>7 DEF Next, Stop
<1> QED
  BY <1>1, <1>2, PTL DEF Spec
================================================================================
