------------------------ MODULE EnvironmentPreparation ------------------------
(***************************************************************************)
(* Prepared environments: the rows of prepared_environments, the           *)
(* environment controllers that build and probe an image for each of them  *)
(* under a lease, the callers that ask for, retry and revoke an            *)
(* environment, and the Sandbox Workers that start sandboxes from it.      *)
(*                                                                         *)
(* A claim draws a fresh uuid4 as its attempt, so an attempt is            *)
(* represented by the number of the claim that drew it, 0 standing for     *)
(* NULL.  The image and the containers of a build carry the attempt in     *)
(* their labels, hence are distinct for distinct attempts.                 *)
(***************************************************************************)
EXTENDS Naturals, FiniteSets

CONSTANTS
    Environments,        \* digests of specifications with at least one wheel
    PythonSpecs,         \* those that name Python requirements or imports
    Controllers,         \* environment_worker processes
    Users,               \* Sandbox Workers about to start a sandbox
    MaxClaims,           \* bound of the model: claims of each environment
    MaxTransientRetries  \* MAX_TRANSIENT_RETRIES

ASSUME EnvironmentAssumption ==
    /\ PythonSpecs \subseteq Environments
    /\ MaxClaims \in Nat
    /\ MaxTransientRetries \in Nat

VARIABLES
    env,         \* prepared_environments
    issued,      \* how many claims of each environment there have been
    ctl,         \* each controller in main / process_one
    containers,  \* builds of which a container is left on the Docker host
    images,      \* builds whose image is on the Docker host
    use          \* the prepared row each Worker has read

vars == <<env, issued, ctl, containers, images, use>>

Claims == 0 .. MaxClaims
Build == [env : Environments, attempt : Claims]

\* Why the row is failed, as far as its error_message and
\* inventory.build_failure_retryable tell: "expired" and "transient" messages
\* are those transient_build_failure recognises.
Error == {"none", "transient", "permanent", "expired", "missing"}
Retryable == {"unset", "yes", "no"}
Status == {"none", "queued", "building", "probing", "ready", "failed", "revoked"}

\* live: lease_until is ahead.  cooled: updated_at is the cooldown behind.
Row == [status : Status, attempt : Claims, live : BOOLEAN, image : Claims,
        retryable : Retryable, error : Error, cooled : BOOLEAN]

Phase == {"down", "idle", "sweeping", "claimed", "building", "probing", "backoff"}
Controller == [phase : Phase, env : Environments, attempt : Claims,
               retries : 0 .. MaxTransientRetries, active : SUBSET Build]

TypeOK ==
    /\ env \in [Environments -> Row]
    /\ issued \in [Environments -> Claims]
    /\ ctl \in [Controllers -> Controller]
    /\ containers \in SUBSET Build
    /\ images \in SUBSET Build
    /\ use \in [Users -> [reading : BOOLEAN, env : Environments, image : Claims]]

Absent == [status |-> "none", attempt |-> 0, live |-> FALSE, image |-> 0,
           retryable |-> "unset", error |-> "none", cooled |-> FALSE]

Init ==
    /\ env = [d \in Environments |-> Absent]
    /\ issued = [d \in Environments |-> 0]
    /\ ctl \in [Controllers -> [phase : {"down"}, env : Environments, attempt : {0},
                                retries : {0}, active : {{}}]]
    /\ containers = {}
    /\ images = {}
    /\ use \in [Users -> [reading : {FALSE}, env : Environments, image : {0}]]

-----------------------------------------------------------------------------
(* Row helpers.  A definition whose comment begins with "Fault" is how the   *)
(* one after it could be wrong; no action uses it.                         *)

Building == {"building", "probing"}

\* Every UPDATE sets updated_at.
Failed(e, error, retryable) ==
    [e EXCEPT !.status = "failed", !.error = error, !.retryable = retryable,
              !.cooled = FALSE]

\* requeue_failed_environment: a temporary failure, by its recorded flag or,
\* without one, by its message.
Requeueable(e) ==
    /\ e.status = "failed"
    /\ \/ e.retryable = "yes"
       \/ e.retryable = "unset" /\ e.error \in {"transient", "expired"}

\* Fault: the attempt is not compared.
HoldsAnyAttempt(c) ==
    LET e == env[ctl[c].env] IN e.status \in Building /\ e.live

\* Fault: the lease's attempt is compared, the status is not.
HoldsAnyStatus(c) ==
    LET e == env[ctl[c].env] IN e.attempt = ctl[c].attempt /\ e.live

\* The condition of finish_attempt and renew_lease.
Holds(c) ==
    LET e == env[ctl[c].env] IN
    e.status \in Building /\ e.attempt = ctl[c].attempt /\ e.live

BuildOf(c) == [env |-> ctl[c].env, attempt |-> ctl[c].attempt]

Phased(c, p) == [ctl EXCEPT ![c].phase = p]

-----------------------------------------------------------------------------
(* The callers: uploads, submissions, capability requests, authors, admins.  *)

\* enqueue_environment for a new digest; two callers meet in its primary key.
Enqueue(d) ==
    /\ env[d].status = "none"
    /\ env' = [env EXCEPT ![d] =
            [Absent EXCEPT !.status = "queued"]]
    /\ UNCHANGED <<issued, ctl, containers, images, use>>

\* requeue_failed_environment for an existing one.  The UPDATE is conditional
\* on updated_at, so what it read is what it changes.
Requeue(d) ==
    /\ Requeueable(env[d])
    /\ env[d].cooled
    /\ env' = [env EXCEPT ![d] = [Absent EXCEPT !.status = "queued"]]
    /\ UNCHANGED <<issued, ctl, containers, images, use>>

\* retry_environment, after a requeue that did nothing: the specification is
\* compared with one rebuilt from the capabilities and the base image only.
\* The inventory, the image and the lease columns keep their values.
Retry(d) ==
    /\ env[d].status = "failed"
    /\ ~(Requeueable(env[d]) /\ env[d].cooled)
    /\ d \notin PythonSpecs
    /\ env' = [env EXCEPT ![d] = [@ EXCEPT
            !.status = "queued", !.error = "none", !.attempt = 0, !.cooled = FALSE]]
    /\ UNCHANGED <<issued, ctl, containers, images, use>>

\* revoke_environment reads without a lock.  An attempt that was NULL when read
\* is not written.
Revoke(d) ==
    /\ env[d].status \notin {"none", "revoked"}
    /\ \E attempt \in {0, env[d].attempt} :
          env' = [env EXCEPT ![d] = [@ EXCEPT
            !.status = "revoked", !.attempt = attempt, !.error = "none", !.cooled = FALSE]]
    /\ UNCHANGED <<issued, ctl, containers, images, use>>

-----------------------------------------------------------------------------
(* The controllers.                                                        *)

Start(c) ==
    /\ ctl[c].phase = "down"
    /\ ctl' = Phased(c, "idle")
    /\ UNCHANGED <<env, issued, containers, images, use>>

\* The process ends; the containers and the image of its build are left.
Crash(c) ==
    /\ ctl[c].phase # "down"
    /\ ctl' = [ctl EXCEPT ![c].phase = "down", ![c].active = {}]
    /\ UNCHANGED <<env, issued, containers, images, use>>

\* Fault: every attempt some row still names is spared.
NamedBuilds == {b \in Build : env[b.env].attempt = b.attempt}

\* What cleanup_expired_builds takes for the builds still going on.
ActiveBuilds ==
    {b \in Build : /\ env[b.env].status \in Building
                   /\ env[b.env].attempt = b.attempt
                   /\ env[b.env].live}

SweepRead(c) ==
    /\ ctl[c].phase = "idle"
    /\ ctl' = [ctl EXCEPT ![c].phase = "sweeping", ![c].active = ActiveBuilds]
    /\ UNCHANGED <<env, issued, containers, images, use>>

\* The containers are listed after the transaction has ended.
SweepRemove(c) ==
    /\ ctl[c].phase = "sweeping"
    /\ containers' = containers \cap ctl[c].active
    /\ ctl' = [ctl EXCEPT ![c].phase = "idle", ![c].active = {}]
    /\ UNCHANGED <<env, issued, images, use>>

\* Fault: a build that had come to its probe is forgotten.
ExpiredBuilding(d) == env[d].status = "building" /\ ~env[d].live

\* The first UPDATE of claim_environment: expired builds have failed.
Expired(d) == env[d].status \in Building /\ ~env[d].live

AfterExpiry == [d \in Environments |->
    IF Expired(d)
    THEN [Failed(env[d], "expired", env[d].retryable) EXCEPT !.attempt = 0]
    ELSE env[d]]

\* claim_environment finds nothing queued; the expiry is committed all the same.
ClaimNothing(c) ==
    /\ ctl[c].phase = "idle"
    /\ \A d \in Environments : env[d].status # "queued"
    /\ \E d \in Environments : Expired(d)
    /\ env' = AfterExpiry
    /\ UNCHANGED <<issued, ctl, containers, images, use>>

\* claim_environment: a queued row is leased to a fresh attempt.
Claim(c, d) ==
    /\ ctl[c].phase = "idle"
    /\ env[d].status = "queued"
    /\ issued[d] < MaxClaims
    /\ issued' = [issued EXCEPT ![d] = @ + 1]
    /\ env' = [AfterExpiry EXCEPT ![d] = [@ EXCEPT
            !.status = "building", !.attempt = issued[d] + 1, !.live = TRUE,
            !.cooled = FALSE]]
    /\ ctl' = [ctl EXCEPT ![c] = [@ EXCEPT
            !.phase = "claimed", !.env = d, !.attempt = issued[d] + 1, !.retries = 0]]
    /\ UNCHANGED <<containers, images, use>>

\* build_environment creates its containers.
CreateContainer(c) ==
    /\ ctl[c].phase = "claimed"
    /\ containers' = containers \cup {BuildOf(c)}
    /\ ctl' = Phased(c, "building")
    /\ UNCHANGED <<env, issued, images, use>>

\* The image is built and on_probing says so.  A lost lease raises inside
\* build_environment, which removes the image and its containers.
Probe(c) ==
    /\ ctl[c].phase = "building"
    /\ BuildOf(c) \in containers
    /\ IF Holds(c)
       THEN /\ env' = [env EXCEPT ![ctl[c].env] = [@ EXCEPT
                    !.status = "probing", !.cooled = FALSE]]
            /\ images' = images \cup {BuildOf(c)}
            /\ ctl' = Phased(c, "probing")
            /\ UNCHANGED containers
       ELSE /\ images' = images \ {BuildOf(c)}
            /\ containers' = containers \ {BuildOf(c)}
            /\ ctl' = Phased(c, "idle")
            /\ UNCHANGED env
    /\ UNCHANGED <<issued, use>>

\* The probe has passed: the containers are removed, then the image is
\* published, unless the lease was lost; then the image is left on the host.
Publish(c) ==
    /\ ctl[c].phase = "probing"
    /\ BuildOf(c) \in containers
    /\ containers' = containers \ {BuildOf(c)}
    /\ ctl' = Phased(c, "idle")
    /\ IF Holds(c)
       THEN env' = [env EXCEPT ![ctl[c].env] = [@ EXCEPT
                !.status = "ready", !.image = ctl[c].attempt, !.retryable = "unset",
                !.error = "none", !.cooled = FALSE]]
       ELSE UNCHANGED env
    /\ UNCHANGED <<issued, images, use>>

\* Fault: the image of whichever build the row names is removed.
DiscardedOfRow(c) == {BuildOf(c), [env |-> ctl[c].env, attempt |-> env[ctl[c].env].image]}

\* What the exception handler of build_environment removes.
Discarded(c) == {BuildOf(c)}

\* Fault: temporary failures are retried without end.
RetriesForever(c) == TRUE

RetriesLeft(c) == ctl[c].retries < MaxTransientRetries

\* The build or the probe raises; a container that is gone is a temporary
\* failure.  A temporary failure is tried again within the attempt, any other
\* is recorded unless the lease was lost.
BuildFails(c, error) ==
    LET d == ctl[c].env IN
    /\ ctl[c].phase \in {"claimed", "building", "probing"}
    /\ error \in {"transient", "permanent"}
    /\ images' = images \ Discarded(c)
    /\ containers' = containers \ {BuildOf(c)}
    /\ IF error = "transient" /\ RetriesLeft(c)
       THEN /\ ctl' = [ctl EXCEPT ![c].phase = "backoff",
                                  ![c].retries = @ + 1]
            /\ UNCHANGED env
       ELSE /\ ctl' = Phased(c, "idle")
            /\ IF Holds(c)
               THEN env' = [env EXCEPT ![d] =
                        [Failed(@, error, IF error = "transient" THEN "yes" ELSE "no")
                            EXCEPT !.image = 0]]
               ELSE UNCHANGED env
    /\ UNCHANGED <<issued, use>>

\* renew_lease after the delay; without the lease the build is given up.
RetryBuild(c) ==
    /\ ctl[c].phase = "backoff"
    /\ IF Holds(c)
       THEN /\ env' = [env EXCEPT ![ctl[c].env] = [@ EXCEPT
                    !.status = "building", !.live = TRUE, !.cooled = FALSE]]
            /\ ctl' = Phased(c, "claimed")
       ELSE /\ ctl' = Phased(c, "idle")
            /\ UNCHANGED env
    /\ UNCHANGED <<issued, containers, images, use>>

-----------------------------------------------------------------------------
(* The Sandbox Workers, the Docker host and time.                          *)

\* execute_sandbox_job reads the row ...
UseRead(u, d) ==
    /\ ~use[u].reading
    /\ env[d].status = "ready"
    /\ use' = [use EXCEPT ![u] = [reading |-> TRUE, env |-> d, image |-> env[d].image]]
    /\ UNCHANGED <<env, issued, ctl, containers, images>>

UsedBuild(u) == [env |-> use[u].env, attempt |-> use[u].image]

\* ... and asks Docker for the image.
UseFound(u) ==
    /\ use[u].reading
    /\ UsedBuild(u) \in images
    /\ use' = [use EXCEPT ![u].reading = FALSE]
    /\ UNCHANGED <<env, issued, ctl, containers, images>>

\* An image that is gone fails the environment, whatever its row says by now.
UseMissing(u) ==
    /\ use[u].reading
    /\ UsedBuild(u) \notin images
    /\ use' = [use EXCEPT ![u].reading = FALSE]
    /\ env' = [env EXCEPT ![use[u].env] = Failed(@, "missing", @.retryable)]
    /\ UNCHANGED <<issued, ctl, containers, images>>

\* Something else removes an image from the host.
ImageLost(b) ==
    /\ b \in images
    /\ images' = images \ {b}
    /\ UNCHANGED <<env, issued, ctl, containers, use>>

LeaseExpires(d) ==
    /\ env[d].live
    /\ env' = [env EXCEPT ![d].live = FALSE]
    /\ UNCHANGED <<issued, ctl, containers, images, use>>

Cools(d) ==
    /\ env[d].status = "failed"
    /\ ~env[d].cooled
    /\ env' = [env EXCEPT ![d].cooled = TRUE]
    /\ UNCHANGED <<issued, ctl, containers, images, use>>

-----------------------------------------------------------------------------
Poll(c) == ClaimNothing(c) \/ \E d \in Environments : Claim(c, d)
Proceed(c) ==
    \/ CreateContainer(c) \/ Probe(c) \/ Publish(c) \/ RetryBuild(c)
    \/ \E error \in {"transient", "permanent"} : BuildFails(c, error)
Sweep(c) == SweepRead(c) \/ SweepRemove(c)

ControllerStep(c) == Start(c) \/ Crash(c) \/ Sweep(c) \/ Poll(c) \/ Proceed(c)
CallerStep(d) == Enqueue(d) \/ Requeue(d) \/ Retry(d) \/ Revoke(d)
UserStep(u) == (\E d \in Environments : UseRead(u, d)) \/ UseFound(u) \/ UseMissing(u)

Next ==
    \/ \E c \in Controllers : ControllerStep(c)
    \/ \E d \in Environments : CallerStep(d) \/ LeaseExpires(d) \/ Cools(d)
    \/ \E u \in Users : UserStep(u)
    \/ \E b \in Build : ImageLost(b)

Spec == Init /\ [][Next]_vars

\* A controller that runs takes its next step, every build ends within its
\* budget, the main loop comes by the claim and the cleanup again and again,
\* its supervisor starts it again, and an unrenewed lease runs out.
Fairness ==
    /\ \A c \in Controllers :
         /\ WF_vars(Start(c)) /\ WF_vars(Proceed(c)) /\ WF_vars(SweepRemove(c))
         /\ SF_vars(Poll(c)) /\ SF_vars(SweepRead(c))
    /\ \A d \in Environments : WF_vars(LeaseExpires(d))

FairSpec == Spec /\ Fairness

-----------------------------------------------------------------------------
(* Safety.                                                                 *)

\* A ready environment names the image of the attempt claimed last: a build
\* that was overtaken never publishes.
ReadyIsLatest == \A d \in Environments :
    env[d].status = "ready" => env[d].image = issued[d] /\ issued[d] > 0

\* A controller changes the row of an environment that is neither queued nor
\* expired only as the attempt claimed last, while its lease lasts: it never
\* disturbs one that is ready, failed or revoked, nor another one's build.
BuildersAreFenced ==
    [][\A c \in Controllers : ControllerStep(c) =>
          \A d \in Environments : env'[d] # env[d] =>
              \/ env[d].status = "queued" \/ Expired(d)
              \/ /\ env[d].status \in Building /\ env[d].live
                 /\ BuildOf(c) = [env |-> d, attempt |-> issued[d]]]_vars

\* No controller, whether its build fails, is given up or is overtaken,
\* removes the image of an environment that is ready.
ReadyImageKept ==
    [][\A c \in Controllers : ControllerStep(c) =>
          \A d \in Environments : env[d].status = "ready" =>
              ([env |-> d, attempt |-> env[d].image] \in images
                => [env |-> d, attempt |-> env[d].image] \in images')]_vars

-----------------------------------------------------------------------------
(* Liveness, once controllers stop crashing.                               *)

Settled == {"ready", "failed", "revoked"}

CrashesEnd == <>[][\A c \in Controllers : ~Crash(c)]_vars

\* A preparation that is asked for ends, whichever controller had claimed it
\* (a job that waits for it is then claimed, or refused).
PreparationEnds == CrashesEnd => \A d \in Environments :
    (env[d].status = "queued" /\ issued[d] < MaxClaims) \/ env[d].status \in Building
        ~> env[d].status \in Settled

\* The containers a crashed controller left behind are reclaimed.
OrphansReclaimed == CrashesEnd => \A b \in Build : b \in containers ~> b \notin containers

-----------------------------------------------------------------------------
(* What makes the safety properties inductive.                             *)

Active(c) == ctl[c].phase \in {"claimed", "building", "probing", "backoff"}

\* A row being built belongs to the attempt claimed last.
BuildingIsLatest == \A d \in Environments :
    env[d].status \in Building => env[d].attempt = issued[d] /\ issued[d] > 0

\* A controller at work has an attempt that was claimed, and to itself.
AttemptsClaimed == \A c \in Controllers : Active(c) =>
    ctl[c].attempt > 0 /\ ctl[c].attempt <= issued[ctl[c].env]

AttemptsDiffer == \A b, c \in Controllers :
    b # c /\ Active(b) /\ Active(c) /\ ctl[b].env = ctl[c].env
    => ctl[b].attempt # ctl[c].attempt

\* Nobody works on the attempt that made an environment ready.
ReadyIsFinished == \A c \in Controllers :
    Active(c) /\ env[ctl[c].env].status = "ready" => ctl[c].attempt # issued[ctl[c].env]

EnvironmentInv ==
    /\ TypeOK
    /\ BuildingIsLatest /\ AttemptsClaimed /\ AttemptsDiffer
    /\ ReadyIsLatest /\ ReadyIsFinished

-----------------------------------------------------------------------------
(* What the repository says and the code does not keep.                    *)

\* routers/admin.py: a revoked environment is disabled for new tasks.
RevokedStays ==
    [][\A d \in Environments : env[d].status = "revoked" => env'[d].status = "revoked"]_vars
=============================================================================
