------------------------------- MODULE Deployment -------------------------------
(***************************************************************************)
(* The scripts that build, start and stop the enclave: run_prod.sh, which  *)
(* calls docker_build_prod.sh, and stop.sh. Operators run them side by     *)
(* side on one machine, sharing the image's tag, the EIF file and the one  *)
(* CID an enclave may have. The scripts take no lock, look at no exit      *)
(* status behind `| tee`, and read what nitro-cli cannot tell as "none".   *)
(*                                                                         *)
(* docker, nitro-cli, the source tree and the enclave's own end are        *)
(* external. A version of the source is a number; 0 is no version.         *)
(***************************************************************************)
EXTENDS Naturals

CONSTANTS
    Deployers,      \* operators who run run_prod.sh
    Failures,       \* the commands that may fail
    MaxVersion,     \* bound: versions of the source
    MaxStarts       \* bound: enclaves started

\* "output": run-enclave starts the enclave, but no id can be read from what it
\* printed.
Commands == {"describe", "rmi", "docker", "eif", "terminate", "run", "output"}

ASSUME DeploymentAssumption ==
    Failures \subseteq Commands /\ MaxVersion \in Nat \ {0} /\ MaxStarts \in Nat

VARIABLES
    source,     \* the version in the working directory
    image,      \* the version in verified-signer:latest
    eif,        \* the version in signer.eif
    enclave,    \* the enclave that runs
    started,    \* how many were started
    pc,         \* where each deployment is; "success" and "failed": what it said
    since,      \* the version when it began
    context,    \* the version its docker build reads
    left,       \* whether its docker build began with an image still there
    broken,     \* its builds that failed
    mine,       \* the enclave it started
    known,      \* whether it knows that enclave's id
    alone,      \* whether no other deployment was under way while it was
    stop        \* where stop.sh is

build == <<since, context, left, broken>>
deployment == <<pc, build, mine, known, alone>>
vars == <<source, image, eif, enclave, started, deployment, stop>>

NoEnclave == [id |-> 0, version |-> 0]

Init ==
    /\ source = 1 /\ image \in {0, 1} /\ eif \in {0, 1}
    /\ enclave = NoEnclave /\ started = 0
    /\ pc = [d \in Deployers |-> "idle"]
    /\ since = [d \in Deployers |-> 0]
    /\ context = [d \in Deployers |-> 0]
    /\ left = [d \in Deployers |-> FALSE]
    /\ broken = [d \in Deployers |-> {}]
    /\ mine = [d \in Deployers |-> NoEnclave]
    /\ known = [d \in Deployers |-> FALSE]
    /\ alone = [d \in Deployers |-> TRUE]
    /\ stop = "idle"

Goto(d, place) == pc' = [pc EXCEPT ![d] = place]
MayFail(c) == c \in Failures

\* What `describe-enclaves 2>/dev/null | grep -q` may find: an error looks like
\* an empty list.
Listed(there) == {there} \union (IF MayFail("describe") THEN {FALSE} ELSE {})

(***************************************************************************)
(* run_prod.sh.                                                            *)
(***************************************************************************)
UnderWay(d) == pc[d] \notin {"idle", "success", "failed"}

Check(d) ==
    /\ ~ UnderWay(d)
    /\ \E running \in Listed(enclave # NoEnclave) :
            Goto(d, IF running THEN "failed" ELSE "cleanup")
    /\ alone' = [e \in Deployers |->
                    IF e = d THEN \A f \in Deployers : ~ UnderWay(f)
                    ELSE alone[e] /\ ~ UnderWay(e)]
    /\ since' = [since EXCEPT ![d] = source]
    /\ left' = [left EXCEPT ![d] = FALSE]
    /\ broken' = [broken EXCEPT ![d] = {}]
    /\ UNCHANGED <<source, image, eif, enclave, started, context, mine, known, stop>>

\* docker rmi, whose failure is taken for "no existing image".
RemoveImage == image' = 0 \/ (MayFail("rmi") /\ UNCHANGED image)

\* Mutant of RemoveFiles: the EIF file is left to be written over.
RemoveImageOnly == RemoveImage /\ UNCHANGED eif

RemoveFiles == RemoveImage /\ eif' = 0

Cleanup(d) ==
    /\ pc[d] = "cleanup"
    /\ RemoveFiles
    /\ Goto(d, "docker")
    /\ UNCHANGED <<source, enclave, started, build, mine, known, alone, stop>>

\* docker_build_prod.sh: the image is removed once more, and docker reads the
\* working directory.
DockerBuild(d) ==
    /\ pc[d] = "docker"
    /\ RemoveImage
    /\ left' = [left EXCEPT ![d] = image' # 0]
    /\ context' = [context EXCEPT ![d] = source]
    /\ Goto(d, "building")
    /\ UNCHANGED <<source, eif, enclave, started, since, broken, mine, known, alone, stop>>

Break(d, which) == broken' = [broken EXCEPT ![d] = @ \union {which}]

\* `if docker build ... | tee` has the status of tee: the script says "completed
\* successfully" either way.
DockerBuildEnds(d) ==
    /\ pc[d] = "building"
    /\ \/ image' = context[d] /\ UNCHANGED broken
       \/ /\ MayFail("docker")
          /\ Break(d, "docker") /\ UNCHANGED image
    /\ Goto(d, "eif")
    /\ UNCHANGED <<source, eif, enclave, started, since, context, left, mine, known, alone, stop>>

\* build-enclave writes nothing; here too only tee is asked.
EifFails(d) == Break(d, "eif") /\ UNCHANGED eif

BuildEnclave(d) ==
    /\ pc[d] = "eif"
    /\ \/ image # 0 /\ eif' = image /\ UNCHANGED broken
       \/ (image = 0 \/ MayFail("eif")) /\ EifFails(d)
    /\ Goto(d, "terminate")
    /\ UNCHANGED <<source, image, enclave, started, since, context, left, mine, known, alone, stop>>

\* terminate-enclave --all || true
Terminate(d) ==
    /\ pc[d] = "terminate"
    /\ enclave' = NoEnclave \/ (MayFail("terminate") /\ UNCHANGED enclave)
    /\ Goto(d, "run")
    /\ UNCHANGED <<source, image, eif, started, build, mine, known, alone, stop>>

\* The output says that an enclave was started, with an id that can be read or
\* without one, or there is none: no EIF file, a CID that is taken, or no room.
RunEnclave(d) ==
    /\ pc[d] = "run"
    /\ \/ /\ eif # 0 /\ enclave = NoEnclave /\ started < MaxStarts
          /\ started' = started + 1
          /\ enclave' = [id |-> started + 1, version |-> eif]
          /\ mine' = [mine EXCEPT ![d] = enclave']
          /\ \E readable \in {TRUE} \union (IF MayFail("output") THEN {FALSE} ELSE {}) :
                known' = [known EXCEPT ![d] = readable]
          /\ Goto(d, "verify")
       \/ /\ eif = 0 \/ enclave # NoEnclave \/ MayFail("run")
          /\ Goto(d, "failed")
          /\ UNCHANGED <<started, enclave, mine, known>>
    /\ UNCHANGED <<source, image, eif, build, alone, stop>>

\* Three seconds later the id is looked for among those that run. The empty
\* pattern of an id that is not known is in every text, an empty one included.
Verify(d) ==
    /\ pc[d] = "verify"
    /\ \E running \in IF known[d] THEN Listed(enclave = mine[d]) ELSE {TRUE} :
            Goto(d, IF running THEN "success" ELSE "failed")
    /\ UNCHANGED <<source, image, eif, enclave, started, build, mine, known, alone, stop>>

Deploy(d) == Check(d) \/ Cleanup(d) \/ DockerBuild(d) \/ DockerBuildEnds(d) \/ BuildEnclave(d)
                \/ Terminate(d) \/ RunEnclave(d) \/ Verify(d)

(***************************************************************************)
(* stop.sh.                                                                *)
(***************************************************************************)
StopLook ==
    /\ stop = "idle"
    /\ \E running \in Listed(enclave # NoEnclave) :
            stop' = IF running THEN "terminate" ELSE "orphans"
    /\ UNCHANGED <<source, image, eif, enclave, started, deployment>>

StopTerminate ==
    /\ stop = "terminate"
    /\ enclave' = NoEnclave \/ (MayFail("terminate") /\ UNCHANGED enclave)
    /\ stop' = "orphans"
    /\ UNCHANGED <<source, image, eif, started, deployment>>

\* Mutant of Killed: a run-enclave without an output is taken to be done.
KilledAhead(place) == CASE place = "eif" -> "terminate" [] place = "terminate" -> "run"
                        [] place = "run" -> "success"

\* Mutant of Killed: the script ends with its command.
KilledScript(place) == "killed"

\* Where a deployment goes on whose nitro-cli was killed: the failure of a build
\* or of terminate-enclave is not noticed, that of run-enclave is.
Killed(place) == CASE place = "eif" -> "terminate" [] place = "terminate" -> "run"
                   [] place = "run" -> "failed"

\* pgrep -f nitro-cli finds the commands of deployments under way as well. What
\* follows in stop.sh only reports.
StopOrphans ==
    /\ stop = "orphans"
    /\ \E K \in SUBSET {d \in Deployers : pc[d] \in {"eif", "terminate", "run"}} :
        /\ pc' = [d \in Deployers |-> IF d \in K THEN Killed(pc[d]) ELSE pc[d]]
        /\ broken' = [d \in Deployers |->
                        IF d \in K /\ pc[d] = "eif" THEN broken[d] \union {"eif"} ELSE broken[d]]
    /\ stop' = "idle"
    /\ UNCHANGED <<source, image, eif, enclave, started, since, context, left, mine, known, alone>>

Stop == StopLook \/ StopTerminate \/ StopOrphans

(***************************************************************************)
(* The source changes, and the enclave's process ends.                     *)
(***************************************************************************)
Pull ==
    /\ source < MaxVersion /\ source' = source + 1
    /\ UNCHANGED <<image, eif, enclave, started, deployment, stop>>

EnclaveExits ==
    /\ enclave # NoEnclave /\ enclave' = NoEnclave
    /\ UNCHANGED <<source, image, eif, started, deployment, stop>>

Next == (\E d \in Deployers : Deploy(d)) \/ Stop \/ Pull \/ EnclaveExits

Spec == Init /\ [][Next]_vars

(***************************************************************************)
(* Properties.                                                             *)
(***************************************************************************)
Version == 0 .. MaxVersion
Enclave == [id : 0 .. MaxStarts, version : Version]

TypeOK ==
    /\ source \in Version /\ image \in Version /\ eif \in Version
    /\ enclave \in Enclave /\ started \in 0 .. MaxStarts
    /\ pc \in [Deployers -> {"idle", "cleanup", "docker", "building", "eif", "terminate", "run",
                             "verify", "success", "failed"}]
    /\ since \in [Deployers -> Version] /\ context \in [Deployers -> Version]
    /\ left \in [Deployers -> BOOLEAN] /\ broken \in [Deployers -> SUBSET {"docker", "eif"}]
    /\ mine \in [Deployers -> Enclave]
    /\ known \in [Deployers -> BOOLEAN] /\ alone \in [Deployers -> BOOLEAN]
    /\ stop \in {"idle", "terminate", "orphans"}

\* "Always rebuilds from scratch" (docker_build_prod.sh:3): when a deployment that
\* shared the machine with no other says it completed successfully
\* (run_prod.sh:134), its enclave is from the source of its beginning or a later
\* one, whatever stop.sh kills. There is one exception, an image that neither
\* script could remove (both go on when docker rmi fails) before a docker build
\* that failed; an EIF file it found is never one.
FreshUnlessLeft ==
    \A d \in Deployers :
        pc[d] = "success" /\ alone[d] =>
            mine[d].version >= since[d] \/ (left[d] /\ "docker" \in broken[d])

\* That the scripts overlook a build that fails is made good by what they removed
\* before: a deployment by itself does not succeed after one, unless the image
\* could not be removed and the docker build is the one that failed.
BrokenNeverSucceeds ==
    \A d \in Deployers :
        pc[d] = "success" /\ alone[d] /\ broken[d] # {} =>
            broken[d] = {"docker"} /\ left[d]

\* What docker_build_prod.sh:3 and run_prod.sh:57 ("Fresh Docker build") say
\* without a condition.
AlwaysFresh ==
    \A d \in Deployers : pc[d] = "success" /\ alone[d] => mine[d].version >= since[d]
================================================================================
