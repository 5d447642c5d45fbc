----------------------------- MODULE SkillRelease -----------------------------
(***************************************************************************)
(* One skill from its uploads to its release: the upload of versions and   *)
(* their packages, the submission for review, the administrators'          *)
(* decisions, the network access of a version, the skill's visibility, its *)
(* endpoints and its deletion, beside the environments the versions wait   *)
(* for.                                                                    *)
(*                                                                         *)
(* No handler locks what it reads: it decides on what its session has read *)
(* and its commit writes only the columns that differ from that reading.   *)
(***************************************************************************)
CONSTANTS
    Versions,      \* the uploads that are ever begun, each a row of its own
    Sandboxed,     \* those whose package needs a sandbox (execution_mode)
    Requests,      \* the requests that may be under way at a time
    Environments,  \* the digests that versions are bound to
    Numbers,       \* bound: the version numbers a package may name
    None

ASSUME NoneAssumption == None \notin Versions \cup Environments \cup Numbers

VARIABLES
    skill,     \* the skills row: its visibility, or gone
    version,   \* skill_versions; published: published_at is set
    upload,    \* upload_version of each version, and the number it has picked
    store,     \* the package objects in the storage, keyed by version
    env,       \* prepared_environments
    endpoint,  \* the versions with an endpoint
    request,   \* what each request has read
    deletion,  \* delete_skill and the packages it has listed
    told,      \* history: the network access the last audit event tells of, or raced
    prepared   \* history: the environment was ready after a submission

vars == <<skill, version, upload, store, env, endpoint, request, deletion, told, prepared>>

Status == {"READY", "SUBMITTED", "REJECTED", "PUBLISHED"}
Pending == {"SUBMITTED"}
EnvStatus == {"absent", "queued", "ready", "failed", "revoked"}
Judging == {"submit", "approve", "reject", "network"}
Op == Judging \cup {"public", "deploy"}

NoRow == [status |-> "none", number |-> None,
          network |-> FALSE, published |-> FALSE, env |-> None]
Idle == [op |-> "none", version |-> None, network |-> FALSE, step |-> "read", fresh |-> TRUE]

TypeOK ==
    /\ skill \in {"private", "public", "gone"}
    /\ version \in [Versions -> {NoRow} \cup
            [status : Status, number : Numbers, network : BOOLEAN,
             published : BOOLEAN, env : Environments \cup {None}]]
    /\ upload \in [Versions -> [phase : {"none", "picked", "stored", "over"},
                                number : Numbers \cup {None}]]
    /\ store \in SUBSET Versions
    /\ env \in [Environments -> EnvStatus]
    /\ endpoint \in SUBSET Versions
    /\ request \in [Requests -> {Idle} \cup
            [op : Op, version : Versions, network : BOOLEAN,
             step : {"read", "checked"}, fresh : BOOLEAN]]
    /\ deletion \in [phase : {"idle", "listed", "committed"}, paths : SUBSET Versions]
    /\ told \in [Versions -> {"on", "off", "raced"}]
    /\ prepared \in [Versions -> BOOLEAN]

\* create_skill stores the visibility the author asks for, PUBLIC too.
Init ==
    /\ skill \in {"private", "public"}
    /\ version = [v \in Versions |-> NoRow]
    /\ upload = [v \in Versions |-> [phase |-> "none", number |-> None]]
    /\ store = {}
    /\ env = [e \in Environments |-> "absent"]
    /\ endpoint = {}
    /\ request = [r \in Requests |-> Idle]
    /\ deletion = [phase |-> "idle", paths |-> {}]
    /\ told = [v \in Versions |-> "off"]
    /\ prepared = [v \in Versions |-> FALSE]

-----------------------------------------------------------------------------
(* Helpers.  A definition whose comment begins with "Fault" is how the one   *)
(* after it could be wrong; no action uses it.                             *)

Rows == {v \in Versions : version[v] # NoRow}
Bound(v) == version[v].env # None

\* Was submitted at least once: READY is where an upload begins.
WasSubmitted(v) == v \in Rows /\ version[v].status # "READY"

\* Fault: every number is taken for free.
NumberFreeAnyway(n) == TRUE

\* Neither the query of upload_version nor uq_skill_version finds it.
NumberFree(n) == \A v \in Rows : version[v].number # n

\* Fault: a version without a ready environment passes.
EnvironmentPasses(v) == TRUE

\* require_ready_version: a version without a binding passes.
EnvironmentReady(v) == Bound(v) => env[version[v].env] = "ready"

\* Fault: an author may submit a version again once it is published.
SubmittableAgain == {"READY", "REJECTED", "PUBLISHED"}

\* The statuses submit_version takes.
Submittable == {"READY", "REJECTED"}

\* What the other requests on v have read is no longer what its row says.
Outdated(r, v) ==
    [q \in Requests |->
        IF q = r THEN Idle
        ELSE IF request[q].version = v /\ request[q].op \in Judging THEN [request[q] EXCEPT !.fresh = FALSE]
        ELSE request[q]]

\* A column is written when it differs from what the session has read.
Written(seen, value, now) == IF value = seen THEN now ELSE value

-----------------------------------------------------------------------------
(* upload_version.                                                         *)

\* The number named in the package, or the one after the highest patch.
PickNumber(v, n) ==
    /\ upload[v].phase = "none"
    /\ skill # "gone"
    /\ NumberFree(n)
    /\ upload' = [upload EXCEPT ![v] = [phase |-> "picked", number |-> n]]
    /\ UNCHANGED <<skill, version, store, env, endpoint, request, deletion, told, prepared>>

\* The row is flushed, which waits for a flushed row of that number to be
\* committed or rolled back; then the package is stored.
StorePackage(v) ==
    /\ upload[v].phase = "picked"
    /\ skill # "gone"
    /\ NumberFree(upload[v].number)
    /\ \A w \in Versions \ {v} : ~(/\ upload[w].phase = "stored"
                                   /\ upload[w].number = upload[v].number)
    /\ store' = store \cup {v}
    /\ upload' = [upload EXCEPT ![v].phase = "stored"]
    /\ UNCHANGED <<skill, version, env, endpoint, request, deletion, told, prepared>>

\* bind_version_environment and the commit: the environment of a sandboxed
\* version is enqueued unless it is known, and one that failed may be requeued.
CommitUpload(v, e) ==
    /\ upload[v].phase = "stored"
    /\ e = None <=> v \notin Sandboxed
    /\ version' = [version EXCEPT ![v] =
            [status |-> "READY", number |-> upload[v].number,
             network |-> FALSE, published |-> FALSE, env |-> e]]
    /\ upload' = [upload EXCEPT ![v] = [phase |-> "over", number |-> None]]
    /\ \/ e # None /\ env[e] \in {"absent", "failed"} /\ env' = [env EXCEPT ![e] = "queued"]
       \/ e # None /\ env[e] = "absent" /\ env' = [env EXCEPT ![e] = "failed"]
       \/ (e # None => env[e] # "absent") /\ UNCHANGED env
    /\ UNCHANGED <<skill, store, endpoint, request, deletion, told, prepared>>

\* The flush fails, or the process ends; an object that was stored stays.
EndUpload(v) ==
    /\ upload[v].phase \in {"picked", "stored"}
    /\ upload' = [upload EXCEPT ![v] = [phase |-> "over", number |-> None]]
    /\ UNCHANGED <<skill, version, store, env, endpoint, request, deletion, told, prepared>>

-----------------------------------------------------------------------------
(* The requests on a version: a reading, for some a check of the           *)
(* environment read after it, and a commit.                                *)

\* The status each handler asks for.
Asked(op) == CASE op = "submit" -> Submittable
               [] op \in {"approve", "reject"} -> Pending
               [] op \in {"public", "deploy"} -> {"PUBLISHED"}
               [] op = "network" -> Status

Read(r, op, v) ==
    /\ request[r] = Idle
    /\ v \in Rows
    /\ version[v].status \in Asked(op)
    /\ request' = [request EXCEPT ![r] =
            [op |-> op, version |-> v, step |-> "read", fresh |-> TRUE,
             network |-> op \in {"approve", "network"} /\ version[v].network]]
    /\ UNCHANGED <<skill, version, upload, store, env, endpoint, deletion, told, prepared>>

\* The environment is read after the version.
CheckEnvironment(r) ==
    LET v == request[r].version IN
    /\ request[r].op \in {"submit", "approve"}
    /\ request[r].step = "read"
    /\ v \in Rows
    /\ EnvironmentReady(v)
    /\ request' = [request EXCEPT ![r].step = "checked"]
    /\ UNCHANGED <<skill, version, upload, store, env, endpoint, deletion, told, prepared>>

Submit(r) ==
    LET v == request[r].version IN
    /\ request[r].op = "submit" /\ request[r].step = "checked"
    /\ v \in Rows
    /\ version' = [version EXCEPT ![v].status = "SUBMITTED"]
    /\ prepared' = [prepared EXCEPT ![v] = @ \/ (Bound(v) /\ env[version[v].env] = "ready")]
    /\ request' = Outdated(r, v)
    /\ UNCHANGED <<skill, upload, store, env, endpoint, deletion, told>>

Access(enabled) == IF enabled THEN "on" ELSE "off"

\* The audit event of a decision names the network access it decides on; there
\* is no deciding on it for a version without a sandbox.
Tell(r, v, enabled) ==
    told' = [told EXCEPT ![v] =
                IF request[r].fresh \/ v \notin Sandboxed THEN Access(enabled) ELSE "raced"]

\* payload is the network access the administrator grants, None to leave it.
Approve(r, payload) ==
    LET v == request[r].version
        seen == request[r].network
        value == IF v \notin Sandboxed THEN FALSE
                 ELSE IF payload = None THEN seen ELSE payload
    IN
    /\ request[r].op = "approve" /\ request[r].step = "checked"
    /\ v \in Rows
    /\ version' = [version EXCEPT ![v].status = "PUBLISHED", ![v].published = TRUE,
                                  ![v].network = Written(seen, value, @)]
    /\ Tell(r, v, value)
    /\ request' = Outdated(r, v)
    /\ UNCHANGED <<skill, upload, store, env, endpoint, deletion, prepared>>

Reject(r) ==
    LET v == request[r].version IN
    /\ request[r].op = "reject"
    /\ v \in Rows
    /\ version' = [version EXCEPT ![v].status = "REJECTED"]
    /\ request' = Outdated(r, v)
    /\ UNCHANGED <<skill, upload, store, env, endpoint, deletion, told, prepared>>

\* update_version_network_access.
SetNetwork(r, enabled) ==
    LET v == request[r].version IN
    /\ request[r].op = "network"
    /\ v \in Rows
    /\ enabled => v \in Sandboxed
    /\ version' = [version EXCEPT ![v].network = Written(request[r].network, enabled, @)]
    /\ Tell(r, v, enabled)
    /\ request' = Outdated(r, v)
    /\ UNCHANGED <<skill, upload, store, env, endpoint, deletion, prepared>>

\* update_skill_visibility to PUBLIC, having read a published version.
MakePublic(r) ==
    /\ request[r].op = "public"
    /\ skill # "gone"
    /\ skill' = "public"
    /\ request' = [request EXCEPT ![r] = Idle]
    /\ UNCHANGED <<version, upload, store, env, endpoint, deletion, told, prepared>>

\* update_skill_visibility to any other: nothing is asked of the versions.
Withdraw ==
    /\ skill = "public"
    /\ skill' = "private"
    /\ UNCHANGED <<version, upload, store, env, endpoint, request, deletion, told, prepared>>

\* create_endpoint.
Deploy(r) ==
    LET v == request[r].version IN
    /\ request[r].op = "deploy"
    /\ v \in Rows
    /\ endpoint' = endpoint \cup {v}
    /\ request' = [request EXCEPT ![r] = Idle]
    /\ UNCHANGED <<skill, version, upload, store, env, deletion, told, prepared>>

\* The row is gone, the environment is not ready, or the process ends.
Drop(r) ==
    /\ request[r] # Idle
    /\ request' = [request EXCEPT ![r] = Idle]
    /\ UNCHANGED <<skill, version, upload, store, env, endpoint, deletion, told, prepared>>

-----------------------------------------------------------------------------
(* delete_skill.                                                           *)

\* The package paths are read first.
ListPackages ==
    /\ deletion.phase = "idle"
    /\ skill # "gone"
    /\ deletion' = [phase |-> "listed", paths |-> Rows]
    /\ UNCHANGED <<skill, version, upload, store, env, endpoint, request, told, prepared>>

\* Every row in one transaction.  A flushed upload holds the skill's row: the
\* deletion waits for it and then meets its foreign key.
DeleteRows ==
    /\ deletion.phase = "listed"
    /\ \A v \in Versions : upload[v].phase # "stored"
    /\ skill' = "gone"
    /\ version' = [v \in Versions |-> NoRow]
    /\ endpoint' = {}
    /\ deletion' = [deletion EXCEPT !.phase = "committed"]
    /\ told' = [v \in Versions |-> "off"]
    /\ prepared' = [v \in Versions |-> FALSE]
    /\ UNCHANGED <<upload, store, env, request>>

\* Fault: the objects are removed while the rows are still there.
DeletePackageEarly(v) ==
    /\ deletion.phase \in {"listed", "committed"}
    /\ v \in deletion.paths \cap store
    /\ store' = store \ {v}
    /\ UNCHANGED <<skill, version, upload, env, endpoint, request, deletion, told, prepared>>

\* After the commit, each object on its own; one that fails is passed over.
DeletePackage(v) ==
    /\ deletion.phase = "committed"
    /\ v \in deletion.paths \cap store
    /\ store' = store \ {v}
    /\ UNCHANGED <<skill, version, upload, env, endpoint, request, deletion, told, prepared>>

DeletionFails ==
    /\ deletion.phase = "listed"
    /\ deletion' = [phase |-> "idle", paths |-> {}]
    /\ UNCHANGED <<skill, version, upload, store, env, endpoint, request, told, prepared>>

-----------------------------------------------------------------------------
(* The environments, as EnvironmentPreparation has them: queued, built,     *)
(* requeued by an author's retry or when they expire, revoked.              *)

EnvironmentMoves(e, from, to) ==
    /\ env[e] \in from
    /\ env' = [env EXCEPT ![e] = to]
    /\ prepared' = [v \in Versions |->
            \/ prepared[v]
            \/ (to = "ready" /\ WasSubmitted(v) /\ version[v].env = e)]
    /\ UNCHANGED <<skill, version, upload, store, endpoint, request, deletion, told>>

Built(e) == \E to \in {"ready", "failed"} : EnvironmentMoves(e, {"queued"}, to)
Retry(e) == EnvironmentMoves(e, {"ready", "failed"}, "queued")
Revoke(e) == EnvironmentMoves(e, EnvStatus \ {"absent", "revoked"}, "revoked")

-----------------------------------------------------------------------------

Upload(v) ==
    \/ \E n \in Numbers : PickNumber(v, n)
    \/ StorePackage(v)
    \/ \E e \in Environments \cup {None} : CommitUpload(v, e)
    \/ EndUpload(v)

Decide(r) ==
    \/ \E op \in Op, v \in Versions : Read(r, op, v)
    \/ CheckEnvironment(r)
    \/ Submit(r)
    \/ \E payload \in BOOLEAN \cup {None} : Approve(r, payload)
    \/ Reject(r)
    \/ \E enabled \in BOOLEAN : SetNetwork(r, enabled)
    \/ MakePublic(r)
    \/ Deploy(r)
    \/ Drop(r)

Delete ==
    \/ ListPackages
    \/ DeleteRows
    \/ DeletionFails
    \/ \E v \in Versions : DeletePackage(v)

Next ==
    \/ \E v \in Versions : Upload(v)
    \/ \E r \in Requests : Decide(r)
    \/ Withdraw
    \/ Delete
    \/ \E e \in Environments : Built(e) \/ Retry(e) \/ Revoke(e)

Spec == Init /\ [][Next]_vars

-----------------------------------------------------------------------------
(* Properties.                                                             *)

\* Two versions of the skill never carry one number, though uploads pick their
\* number long before their row is written.
NumbersDiffer ==
    \A v, w \in Rows : v # w => version[v].number # version[w].number

\* The package of a version on record can be read: the upload stores it before
\* its commit, the deletion removes it after its own.
PackagesKept == Rows \subseteq store

\* What others may run (can_run_version), or the community is shown.
Runnable == {v \in Rows : version[v].status = "PUBLISHED"}

\* What others may run, are shown or have an endpoint of was published by an
\* administrator, whatever was decided meanwhile.
OpenedWasPublished ==
    \A v \in Runnable \cup endpoint : v \in Rows /\ version[v].published

\* A version is published only if its environment has been ready since it was
\* submitted: a failure after the author's check is met by the administrator's.
PublishedWasPrepared ==
    \A v \in Rows : version[v].published /\ Bound(v) => prepared[v]

\* Network access is for sandbox versions, and is what the last audit event
\* says, unless decisions on the version overlapped.
NetworkAsTold ==
    \A v \in Rows :
        /\ version[v].network => v \in Sandboxed
        /\ told[v] \in {Access(version[v].network), "raced"}

\* An upload under way has a number that no row has, alone once it is flushed.
UploadsReserve ==
    /\ \A v \in Rows : upload[v].phase = "over"
    /\ \A v \in Versions : upload[v].phase \in {"picked", "stored"} => upload[v].number \in Numbers
    /\ \A v \in Versions : upload[v].phase = "stored" =>
          /\ v \in store /\ skill # "gone" /\ NumberFree(upload[v].number)
          /\ \A w \in Versions \ {v} :
                upload[w].phase = "stored" => upload[w].number # upload[v].number

\* Nothing is left of a deleted skill, and nobody is told of a row that is not.
GoneIsEmpty ==
    /\ skill = "gone" <=> deletion.phase = "committed"
    /\ skill = "gone" => Rows = {}
    /\ \A v \in Versions \ Rows : told[v] = "off"

\* An environment that is ready after the submission has been seen ready.
StatusTells ==
    \A v \in Rows :
        version[v].status # "READY" /\ Bound(v) /\ env[version[v].env] = "ready" => prepared[v]

\* What a request has read still holds as far as no other one has overtaken it.
ReadingsHold ==
    \A r \in Requests : request[r] # Idle =>
        LET v == request[r].version
            op == request[r].op
        IN  /\ skill # "gone" => v \in Rows
            /\ v \in Rows =>
                /\ op \in {"public", "deploy"} => version[v].published
                /\ op \in Judging /\ request[r].fresh => version[v].status \in Asked(op)
                /\ op \in {"approve", "network"} /\ request[r].fresh =>
                      request[r].network = version[v].network
                /\ op \in {"approve", "reject"} => version[v].status # "READY"
                /\ op = "approve" /\ request[r].step = "checked" /\ Bound(v) => prepared[v]

\* The release of the skill is consistent.
ReleaseInv ==
    /\ TypeOK
    /\ UploadsReserve /\ GoneIsEmpty /\ StatusTells /\ ReadingsHold
    /\ NumbersDiffer
    /\ PackagesKept
    /\ OpenedWasPublished
    /\ PublishedWasPrepared
    /\ NetworkAsTold

\* The moves of the review.
Ordered(from, to) ==
    \/ from \in {"READY", "REJECTED"} /\ to = "SUBMITTED"
    \/ from = "SUBMITTED" /\ to \in {"REJECTED", "PUBLISHED"}

Moved(v) ==
    /\ version[v] # NoRow /\ version'[v] # NoRow
    /\ version'[v].status # version[v].status

Overtaken(v) == \E r \in Requests :
    request[r].version = v /\ ~request[r].fresh /\ request'[r] = Idle

Opened == skill # "public" /\ skill' = "public"

\* A version moves as the review says, and leaves PUBLISHED never, unless the
\* request that moves it had read the version before its last change.  A skill
\* that is not PUBLIC, as it may be from its creation, becomes so only when it
\* still has a version that was published.
ReviewInOrder ==
    [][/\ \A v \in Versions :
              Moved(v) => Ordered(version[v].status, version'[v].status) \/ Overtaken(v)
       /\ Opened => \E v \in Rows : version[v].published]_vars
=============================================================================
