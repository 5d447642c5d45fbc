--------------------------- MODULE EnvironmentProofs ---------------------------
(***************************************************************************)
(* Theorems about EnvironmentPreparation, for any sets of environments,    *)
(* controllers and Workers and any number of claims.                       *)
(***************************************************************************)
EXTENDS EnvironmentPreparation, TLAPS

(* Types of the rows and of the controllers' records.                      *)

LEMMA RowTypes ==
    /\ 0 \in Claims
    /\ Absent \in Row
    /\ [Absent EXCEPT !.status = "queued"] \in Row
    /\ \A e \in Row, error \in Error, retryable \in Retryable :
          /\ Failed(e, error, retryable) \in Row
          /\ [Failed(e, error, retryable) EXCEPT !.attempt = 0] \in Row
          /\ [Failed(e, error, retryable) EXCEPT !.image = 0] \in Row
<1>1. 0 \in Claims
  BY EnvironmentAssumption DEF Claims
<1>2. Absent \in Row /\ [Absent EXCEPT !.status = "queued"] \in Row
  BY <1>1 DEF Absent, Row, Status, Retryable, Error
<1>3. ASSUME NEW e \in Row, NEW error \in Error, NEW retryable \in Retryable
      PROVE  Failed(e, error, retryable) \in Row
  BY <1>3 DEF Failed, Row, Status
<1> QED
  BY <1>1, <1>2, <1>3 DEF Row

\* The updates of a single row.
LEMMA RowUpdates ==
    ASSUME NEW e \in Row, NEW attempt \in Claims
    PROVE  /\ [e EXCEPT !.status = "building", !.attempt = attempt, !.live = TRUE,
                        !.cooled = FALSE] \in Row
           /\ [e EXCEPT !.status = "building", !.live = TRUE, !.cooled = FALSE] \in Row
           /\ [e EXCEPT !.status = "probing", !.cooled = FALSE] \in Row
           /\ [e EXCEPT !.status = "ready", !.image = attempt, !.retryable = "unset",
                        !.error = "none", !.cooled = FALSE] \in Row
           /\ [e EXCEPT !.status = "queued", !.error = "none", !.attempt = 0,
                        !.cooled = FALSE] \in Row
           /\ [e EXCEPT !.status = "revoked", !.attempt = attempt, !.error = "none",
                        !.cooled = FALSE] \in Row
<1>1. /\ "building" \in Status /\ "probing" \in Status /\ "ready" \in Status
      /\ "queued" \in Status /\ "revoked" \in Status
      /\ "unset" \in Retryable /\ "none" \in Error /\ 0 \in Claims
  BY RowTypes DEF Status, Retryable, Error
<1> QED
  BY <1>1 DEF Row

LEMMA TypeInit == Init => TypeOK
<1> SUFFICES ASSUME Init PROVE TypeOK
  OBVIOUS
<1>1. Absent \in Row /\ 0 \in Claims /\ 0 \in 0 .. MaxTransientRetries
  BY RowTypes, EnvironmentAssumption
<1>2. env \in [Environments -> Row] /\ issued \in [Environments -> Claims]
  BY <1>1 DEF Init
<1>3. [phase : {"down"}, env : Environments, attempt : {0}, retries : {0}, active : {{}}]
        \subseteq Controller
  BY <1>1 DEF Controller, Phase
<1>4. ctl \in [Controllers -> Controller]
  BY <1>3 DEF Init
<1>5. [reading : {FALSE}, env : Environments, image : {0}]
        \subseteq [reading : BOOLEAN, env : Environments, image : Claims]
  BY <1>1
<1>6. use \in [Users -> [reading : BOOLEAN, env : Environments, image : Claims]]
  BY <1>5 DEF Init
<1> QED
  BY <1>2, <1>4, <1>6 DEF Init, TypeOK

\* What the claim makes of the other rows.
LEMMA AfterExpiryType == TypeOK => AfterExpiry \in [Environments -> Row]
<1> SUFFICES ASSUME TypeOK, NEW d \in Environments
             PROVE  (IF Expired(d)
                     THEN [Failed(env[d], "expired", env[d].retryable) EXCEPT !.attempt = 0]
                     ELSE env[d]) \in Row
  BY DEF AfterExpiry
<1>1. env[d] \in Row /\ env[d].retryable \in Retryable /\ "expired" \in Error
  BY DEF TypeOK, Row, Error
<1> QED
  BY <1>1, RowTypes

\* A step changes one row, none, or, by a claim, the expired ones.
LEMMA TypeStep == TypeOK /\ [Next]_vars => TypeOK'
<1> SUFFICES ASSUME TypeOK, [Next]_vars PROVE TypeOK'
  OBVIOUS
<1> USE DEF TypeOK
<1>a. /\ \A d \in Environments : env[d] \in Row
      /\ \A c \in Controllers : ctl[c] \in Controller
  OBVIOUS
<1>b. 0 \in Claims /\ \A c \in Controllers :
        env[ctl[c].env] \in Row /\ ctl[c].env \in Environments /\ ctl[c].attempt \in Claims
  BY RowTypes DEF Controller
<1>1. ASSUME NEW c \in Controllers, Start(c) PROVE TypeOK'
  BY <1>1 DEF Start, Phased, Controller, Phase
<1>2. ASSUME NEW c \in Controllers, Crash(c) PROVE TypeOK'
  BY <1>2, ZenonT(40) DEF Crash, Controller, Phase
<1>3. ASSUME NEW c \in Controllers, SweepRead(c) PROVE TypeOK'
  <2>1. ActiveBuilds \in SUBSET Build
    BY DEF ActiveBuilds
  <2> HIDE DEF TypeOK
  <2>2. ctl' \in [Controllers -> Controller]
    BY <1>3, <2>1, <1>a DEF SweepRead, Controller, Phase, TypeOK
  <2> QED
    BY <1>3, <2>2 DEF SweepRead, TypeOK
<1>4. ASSUME NEW c \in Controllers, SweepRemove(c) PROVE TypeOK'
  <2>1. ctl' \in [Controllers -> Controller]
    BY <1>4, ZenonT(40) DEF SweepRemove, Controller, Phase
  <2>2. containers' \in SUBSET Build
    BY <1>4 DEF SweepRemove
  <2> QED
    BY <1>4, <2>1, <2>2 DEF SweepRemove
<1>5. ASSUME NEW c \in Controllers, ClaimNothing(c) PROVE TypeOK'
  BY <1>5, AfterExpiryType DEF ClaimNothing
<1>6. ASSUME NEW c \in Controllers, NEW d \in Environments, Claim(c, d) PROVE TypeOK'
  <2>1. issued[d] + 1 \in Claims
    <3>1. issued[d] \in 0 .. MaxClaims /\ issued[d] < MaxClaims
      BY <1>6 DEF Claim, Claims
    <3> QED
      BY <3>1, EnvironmentAssumption DEF Claims
  <2>2. [AfterExpiry EXCEPT ![d] = [AfterExpiry[d] EXCEPT
            !.status = "building", !.attempt = issued[d] + 1, !.live = TRUE,
            !.cooled = FALSE]] \in [Environments -> Row]
    <3>1. AfterExpiry \in [Environments -> Row] /\ AfterExpiry[d] \in Row
      BY AfterExpiryType
    <3> HIDE DEF TypeOK
    <3>2. \A f \in [Environments -> Row], e \in Row : [f EXCEPT ![d] = e] \in [Environments -> Row]
      OBVIOUS
    <3> QED
      BY <3>1, <3>2, <2>1, RowUpdates
  <2>3. 0 \in 0 .. MaxTransientRetries
    BY EnvironmentAssumption
  <2>4. ctl' \in [Controllers -> Controller]
    BY <1>6, <2>1, <2>3, ZenonT(40) DEF Claim, Controller, Phase
  <2>5. env' \in [Environments -> Row]
    BY <1>6, <2>2 DEF Claim
  <2>6. issued' \in [Environments -> Claims]
    BY <1>6, <2>1 DEF Claim
  <2> QED
    BY <1>6, <2>4, <2>5, <2>6 DEF Claim
<1>7. ASSUME NEW c \in Controllers, CreateContainer(c) PROVE TypeOK'
  BY <1>7 DEF CreateContainer, Phased, Controller, Phase, BuildOf, Build
<1>8. ASSUME NEW c \in Controllers, Probe(c) PROVE TypeOK'
  <2>1. ctl' \in [Controllers -> Controller]
    BY <1>8 DEF Probe, Phased, Controller, Phase
  <2>2. env' \in [Environments -> Row]
    <3>1. [env[ctl[c].env] EXCEPT !.status = "probing", !.cooled = FALSE] \in Row
      BY <1>a, <1>b, RowUpdates
    <3> QED
      BY <1>8, <3>1 DEF Probe
  <2>3. BuildOf(c) \in Build
    BY DEF BuildOf, Build, Controller
  <2> QED
    BY <1>8, <2>1, <2>2, <2>3 DEF Probe
<1>9. ASSUME NEW c \in Controllers, Publish(c) PROVE TypeOK'
  <2>1. ctl' \in [Controllers -> Controller]
    BY <1>9 DEF Publish, Phased, Controller, Phase
  <2>2. env' \in [Environments -> Row]
    <3>1. [env[ctl[c].env] EXCEPT !.status = "ready", !.image = ctl[c].attempt,
             !.retryable = "unset", !.error = "none", !.cooled = FALSE] \in Row
      BY <1>a, <1>b, RowUpdates
    <3> QED
      BY <1>9, <3>1 DEF Publish
  <2> QED
    BY <1>9, <2>1, <2>2 DEF Publish
<1>10. ASSUME NEW c \in Controllers, NEW error \in {"transient", "permanent"},
              BuildFails(c, error)
       PROVE  TypeOK'
  <2>1. ctl' \in [Controllers -> Controller]
    <3>1. RetriesLeft(c) => ctl[c].retries + 1 \in 0 .. MaxTransientRetries
      BY EnvironmentAssumption DEF RetriesLeft, Controller
    <3>2. CASE error = "transient" /\ RetriesLeft(c)
      BY <1>10, <3>1, <3>2 DEF BuildFails, Controller, Phase
    <3>3. CASE ~(error = "transient" /\ RetriesLeft(c))
      BY <1>10, <3>3 DEF BuildFails, Phased, Controller, Phase
    <3> QED
      BY <3>2, <3>3
  <2>2. env' \in [Environments -> Row]
    <3> DEFINE d == ctl[c].env
               retryable == IF error = "transient" THEN "yes" ELSE "no"
    <3>1. error \in Error /\ retryable \in Retryable /\ d \in Environments
      BY DEF Error, Retryable, Controller
    <3>2. env' = env \/ env' = [env EXCEPT ![d] =
                [Failed(env[d], error, retryable) EXCEPT !.image = 0]]
      BY <1>10 DEF BuildFails
    <3> HIDE DEF d, retryable
    <3>3. [Failed(env[d], error, retryable) EXCEPT !.image = 0] \in Row
      BY <1>a, <3>1, RowTypes
    <3> QED
      BY <3>2, <3>3
  <2>3. /\ UNCHANGED <<issued, use>>
        /\ images' \in SUBSET Build /\ containers' \in SUBSET Build
    BY <1>10 DEF BuildFails
  <2> QED
    BY <2>1, <2>2, <2>3
<1>11. ASSUME NEW c \in Controllers, RetryBuild(c) PROVE TypeOK'
  <2>1. ctl' \in [Controllers -> Controller]
    BY <1>11 DEF RetryBuild, Phased, Controller, Phase
  <2>2. env' \in [Environments -> Row]
    <3>1. [env[ctl[c].env] EXCEPT !.status = "building", !.live = TRUE, !.cooled = FALSE] \in Row
      BY <1>a, <1>b, RowUpdates
    <3> QED
      BY <1>11, <3>1 DEF RetryBuild
  <2> QED
    BY <1>11, <2>1, <2>2 DEF RetryBuild
<1>12. ASSUME NEW d \in Environments, Enqueue(d) PROVE TypeOK'
  BY <1>12, RowTypes DEF Enqueue
<1>13. ASSUME NEW d \in Environments, Requeue(d) PROVE TypeOK'
  BY <1>13, RowTypes DEF Requeue
<1>14. ASSUME NEW d \in Environments, Retry(d) PROVE TypeOK'
  <2>1. [env[d] EXCEPT !.status = "queued", !.error = "none", !.attempt = 0,
            !.cooled = FALSE] \in Row
    BY <1>a, <1>b, RowUpdates
  <2> QED
    BY <1>14, <2>1 DEF Retry
<1>15. ASSUME NEW d \in Environments, Revoke(d) PROVE TypeOK'
  <2>1. PICK attempt \in {0, env[d].attempt} : env' = [env EXCEPT ![d] = [env[d] EXCEPT
            !.status = "revoked", !.attempt = attempt, !.error = "none", !.cooled = FALSE]]
    BY <1>15 DEF Revoke
  <2>2. attempt \in Claims
    BY <1>a, RowTypes DEF Row
  <2> HIDE DEF TypeOK
  <2>a. [env[d] EXCEPT !.status = "revoked", !.attempt = attempt, !.error = "none",
            !.cooled = FALSE] \in Row
    BY <1>a, <2>2, RowUpdates
  <2>3. env' \in [Environments -> Row]
    BY <2>1, <2>a DEF TypeOK
  <2> QED
    BY <1>15, <2>3 DEF Revoke, TypeOK
<1>16. ASSUME NEW d \in Environments, LeaseExpires(d) PROVE TypeOK'
  BY <1>16 DEF LeaseExpires, Row
<1>17. ASSUME NEW d \in Environments, Cools(d) PROVE TypeOK'
  BY <1>17 DEF Cools, Row
<1>18. ASSUME NEW u \in Users, NEW d \in Environments, UseRead(u, d) PROVE TypeOK'
  BY <1>18 DEF UseRead, Row
<1>19. ASSUME NEW u \in Users, UseFound(u) PROVE TypeOK'
  BY <1>19 DEF UseFound
<1>20. ASSUME NEW u \in Users, UseMissing(u) PROVE TypeOK'
  <2> DEFINE d == use[u].env
  <2>1. d \in Environments /\ env[d].retryable \in Retryable /\ "missing" \in Error
    BY DEF Row, Error
  <2>2. env' = [env EXCEPT ![d] = Failed(env[d], "missing", env[d].retryable)]
    BY <1>20 DEF UseMissing
  <2>3. Failed(env[d], "missing", env[d].retryable) \in Row
    BY <1>a, <2>1, RowTypes
  <2>4. env' \in [Environments -> Row]
    BY <2>2, <2>3
  <2> QED
    BY <1>20, <2>4 DEF UseMissing
<1>21. ASSUME NEW b \in Build, ImageLost(b) PROVE TypeOK'
  BY <1>21 DEF ImageLost
<1>22. CASE UNCHANGED vars
  BY <1>22 DEF vars
<1> QED
  BY <1>1, <1>2, <1>3, <1>4, <1>5, <1>6, <1>7, <1>8, <1>9, <1>10, <1>11, <1>12, <1>13, <1>14,
     <1>15, <1>16, <1>17, <1>18, <1>19, <1>20, <1>21, <1>22
  DEF Next, ControllerStep, CallerStep, UserStep, Sweep, Poll, Proceed

-----------------------------------------------------------------------------
(* The inductive invariant.                                                *)

\* Most steps neither start a build nor finish one.
RowTame(d) ==
    /\ env'[d].status \in Building => env[d].status \in Building /\ env'[d].attempt = env[d].attempt
    /\ env'[d].status = "ready" => env[d].status = "ready" /\ env'[d].image = env[d].image

ControllerTame(c) ==
    Active(c)' => Active(c) /\ ctl'[c].env = ctl[c].env /\ ctl'[c].attempt = ctl[c].attempt

Tame ==
    /\ issued' = issued
    /\ \A d \in Environments : RowTame(d)
    /\ \A c \in Controllers : ControllerTame(c)

LEMMA TameStep == EnvironmentInv /\ TypeOK' /\ Tame => EnvironmentInv'
<1> SUFFICES ASSUME EnvironmentInv, TypeOK', Tame PROVE EnvironmentInv'
  OBVIOUS
<1>0. \A c \in Controllers : ctl[c].env \in Environments /\ ctl'[c].env \in Environments
  BY DEF EnvironmentInv, TypeOK, Controller
<1>1. BuildingIsLatest'
  BY DEF EnvironmentInv, BuildingIsLatest, Tame, RowTame
<1>2. AttemptsClaimed'
  BY DEF EnvironmentInv, AttemptsClaimed, Tame, ControllerTame
<1>3. AttemptsDiffer'
  BY DEF EnvironmentInv, AttemptsDiffer, Tame, ControllerTame
<1>4. ReadyIsLatest'
  BY DEF EnvironmentInv, ReadyIsLatest, Tame, RowTame
<1>5. ReadyIsFinished'
  BY <1>0 DEF EnvironmentInv, ReadyIsFinished, Tame, RowTame, ControllerTame
<1> QED
  BY <1>1, <1>2, <1>3, <1>4, <1>5 DEF EnvironmentInv

\* A step that leaves the rows' statuses, attempts and images and the
\* controllers' builds alone is tame; each lemma shows one part of it.
LEMMA RowsUnchanged == UNCHANGED env => \A d \in Environments : RowTame(d)
BY DEF RowTame

LEMMA ControllersUnchanged == UNCHANGED ctl => \A c \in Controllers : ControllerTame(c)
BY DEF ControllerTame, Active

\* One row is replaced by one that is no more building or ready than before.
LEMMA OneRow ==
    ASSUME TypeOK, NEW d \in Environments, NEW e, env' = [env EXCEPT ![d] = e],
           e.status \in Building => env[d].status \in Building /\ e.attempt = env[d].attempt,
           e.status = "ready" => env[d].status = "ready" /\ e.image = env[d].image
    PROVE  \A f \in Environments : RowTame(f)
BY DEF RowTame, TypeOK

\* A controller changes phase, to no work it had not already.
LEMMA OnePhase ==
    ASSUME TypeOK, NEW c \in Controllers, NEW p, ctl' = Phased(c, p),
           p \in {"claimed", "building", "probing", "backoff"} => Active(c)
    PROVE  \A b \in Controllers : ControllerTame(b)
BY DEF ControllerTame, Active, Phased, TypeOK, Controller

\* Expired rows are neither building nor ready afterwards, the others as before.
LEMMA ExpiryTame ==
    ASSUME TypeOK, NEW d \in Environments
    PROVE  /\ AfterExpiry[d].status \in Building =>
                 env[d].status \in Building /\ AfterExpiry[d].attempt = env[d].attempt
           /\ AfterExpiry[d].status = "ready" =>
                 env[d].status = "ready" /\ AfterExpiry[d].image = env[d].image
<1>1. env[d] \in Row
  BY DEF TypeOK
<1>2. CASE Expired(d)
  <2>1. AfterExpiry[d] = [Failed(env[d], "expired", env[d].retryable) EXCEPT !.attempt = 0]
    BY <1>2 DEF AfterExpiry
  <2>2. AfterExpiry[d].status = "failed"
    BY <1>1, <2>1 DEF Failed, Row
  <2> QED
    BY <2>2 DEF Building
<1>3. CASE ~Expired(d)
  BY <1>3 DEF AfterExpiry
<1> QED
  BY <1>2, <1>3

\* The fields of a failed row.
LEMMA FailedFields ==
    ASSUME NEW e \in Row, NEW error, NEW retryable
    PROVE  /\ Failed(e, error, retryable).status = "failed"
           /\ [Failed(e, error, retryable) EXCEPT !.image = 0].status = "failed"
BY DEF Failed, Row

\* A lease holder's row, and its place in Environments.
LEMMA Held ==
    ASSUME EnvironmentInv, NEW c \in Controllers, Holds(c)
    PROVE  /\ ctl[c].env \in Environments
           /\ env[ctl[c].env].status \in Building
           /\ env[ctl[c].env].attempt = ctl[c].attempt
           /\ ctl[c].attempt = issued[ctl[c].env]
           /\ issued[ctl[c].env] > 0
BY DEF EnvironmentInv, TypeOK, Controller, Holds, BuildingIsLatest

\* A queued environment is claimed: the one step that draws an attempt.
LEMMA ClaimStep ==
    ASSUME EnvironmentInv, TypeOK', NEW c \in Controllers, NEW d \in Environments, Claim(c, d)
    PROVE  EnvironmentInv'
<1> DEFINE n == issued[d] + 1
<1>0. /\ TypeOK
      /\ \A e \in Environments : issued[e] \in Nat /\ issued'[e] \in Nat
      /\ \A b \in Controllers : /\ ctl[b].env \in Environments /\ ctl'[b].env \in Environments
                                /\ ctl[b].attempt \in Nat /\ ctl'[b].attempt \in Nat
  BY EnvironmentAssumption DEF EnvironmentInv, TypeOK, Controller, Claims
<1>1. /\ issued'[d] = n
      /\ \A e \in Environments \ {d} : issued'[e] = issued[e]
  BY <1>0 DEF Claim, TypeOK
<1>2. /\ env'[d].status = "building" /\ env'[d].attempt = n
      /\ \A e \in Environments \ {d} : env'[e] = AfterExpiry[e]
  <2>1. AfterExpiry \in [Environments -> Row] /\ AfterExpiry[d] \in Row
    BY <1>0, AfterExpiryType
  <2>2. env' = [AfterExpiry EXCEPT ![d] = [AfterExpiry[d] EXCEPT
            !.status = "building", !.attempt = n, !.live = TRUE, !.cooled = FALSE]]
    BY <2>1 DEF Claim
  <2> HIDE DEF n
  <2> QED
    BY <2>1, <2>2 DEF Row
<1>3. \A e \in Environments \ {d} : RowTame(e)
  BY <1>0, <1>2, ExpiryTame DEF RowTame
<1>4. /\ ctl'[c].phase = "claimed" /\ ctl'[c].env = d /\ ctl'[c].attempt = n
      /\ \A b \in Controllers \ {c} : ctl'[b] = ctl[b]
  <2>1. ctl[c] \in Controller /\ ctl \in [Controllers -> Controller]
    BY <1>0 DEF TypeOK
  <2>2. ctl' = [ctl EXCEPT ![c] = [ctl[c] EXCEPT
            !.phase = "claimed", !.env = d, !.attempt = n, !.retries = 0]]
    BY DEF Claim
  <2> HIDE DEF n
  <2> QED
    BY <2>1, <2>2 DEF Controller
<1>5. /\ n > 0 /\ n > issued[d]
      /\ \A b \in Controllers : Active(b) /\ ctl[b].env = d => ctl[b].attempt < n
  BY <1>0 DEF EnvironmentInv, AttemptsClaimed
<1> HIDE DEF n
<1>6. BuildingIsLatest'
  BY <1>1, <1>2, <1>3, <1>5 DEF EnvironmentInv, BuildingIsLatest, RowTame
<1>7. \A b \in Controllers \ {c} : (Active(b)' <=> Active(b)) /\ ctl'[b] = ctl[b]
  BY <1>4 DEF Active
<1>8. AttemptsClaimed'
  <2> SUFFICES ASSUME NEW b \in Controllers, Active(b)'
               PROVE  ctl'[b].attempt > 0 /\ ctl'[b].attempt <= issued'[ctl'[b].env]
    BY DEF AttemptsClaimed
  <2>1. CASE b = c
    BY <2>1, <1>0, <1>1, <1>4, <1>5
  <2>2. CASE b # c
    <3>1. ctl'[b].attempt > 0 /\ ctl'[b].attempt <= issued[ctl'[b].env]
      BY <2>2, <1>7 DEF EnvironmentInv, AttemptsClaimed
    <3>2. issued[ctl'[b].env] <= issued'[ctl'[b].env]
      BY <1>0, <1>1, <1>5
    <3> QED
      BY <3>1, <3>2, <1>0
  <2> QED
    BY <2>1, <2>2
<1>9. AttemptsDiffer'
  <2> SUFFICES ASSUME NEW a \in Controllers, NEW b \in Controllers, a # b,
                      Active(a)', Active(b)', ctl'[a].env = ctl'[b].env
               PROVE  ctl'[a].attempt # ctl'[b].attempt
    BY DEF AttemptsDiffer
  <2>1. CASE a = c
    BY <2>1, <1>0, <1>4, <1>5, <1>7
  <2>2. CASE b = c
    BY <2>2, <1>0, <1>4, <1>5, <1>7
  <2>3. CASE a # c /\ b # c
    BY <2>3, <1>7 DEF EnvironmentInv, AttemptsDiffer
  <2> QED
    BY <2>1, <2>2, <2>3
<1>10. ReadyIsLatest'
  BY <1>1, <1>2, <1>3 DEF EnvironmentInv, ReadyIsLatest, RowTame
<1>11. ReadyIsFinished'
  <2> SUFFICES ASSUME NEW b \in Controllers, Active(b)', env'[ctl'[b].env].status = "ready"
               PROVE  ctl'[b].attempt # issued'[ctl'[b].env]
    BY DEF ReadyIsFinished
  <2>1. ctl'[b].env # d
    BY <1>2
  <2>2. b # c
    BY <2>1, <1>4
  <2> QED
    BY <2>1, <2>2, <1>0, <1>1, <1>3, <1>7 DEF EnvironmentInv, ReadyIsFinished, RowTame
<1> QED
  BY <1>6, <1>8, <1>9, <1>10, <1>11 DEF EnvironmentInv

\* A build that still holds its lease makes its environment ready: the one step
\* that does.  No other controller works on the attempt it publishes.
LEMMA PublishStep ==
    ASSUME EnvironmentInv, TypeOK', NEW c \in Controllers, Publish(c), Holds(c)
    PROVE  EnvironmentInv'
<1> DEFINE d == ctl[c].env
<1>0. /\ TypeOK /\ d \in Environments /\ env[d] \in Row
      /\ \A b \in Controllers : ctl[b].env \in Environments /\ ctl[b] \in Controller
  BY DEF EnvironmentInv, TypeOK, Controller
<1>1. ctl[c].attempt = issued[d] /\ issued[d] > 0 /\ issued' = issued
  BY Held DEF Publish
<1>2. /\ env'[d].status = "ready" /\ env'[d].image = issued[d]
      /\ \A e \in Environments \ {d} : env'[e] = env[e]
  <2>1. env' = [env EXCEPT ![d] = [env[d] EXCEPT
                !.status = "ready", !.image = ctl[c].attempt, !.retryable = "unset",
                !.error = "none", !.cooled = FALSE]]
    BY DEF Publish
  <2> HIDE DEF d
  <2> QED
    BY <2>1, <1>0, <1>1 DEF TypeOK, Row
<1>3. /\ \A b \in Controllers : ctl'[b].env = ctl[b].env /\ ctl'[b].attempt = ctl[b].attempt
      /\ \A b \in Controllers : Active(b)' => Active(b)
      /\ Active(c) /\ ~Active(c)'
  BY <1>0 DEF Publish, Phased, TypeOK, Controller, Active
<1>4. BuildingIsLatest'
  BY <1>0, <1>1, <1>2 DEF EnvironmentInv, BuildingIsLatest, Building
<1>5. AttemptsClaimed'
  BY <1>1, <1>3 DEF EnvironmentInv, AttemptsClaimed
<1>6. AttemptsDiffer'
  BY <1>3 DEF EnvironmentInv, AttemptsDiffer
<1>7. ReadyIsLatest'
  BY <1>0, <1>1, <1>2 DEF EnvironmentInv, ReadyIsLatest
<1>8. ReadyIsFinished'
  <2> SUFFICES ASSUME NEW b \in Controllers, Active(b)', env'[ctl'[b].env].status = "ready"
               PROVE  ctl'[b].attempt # issued'[ctl'[b].env]
    BY DEF ReadyIsFinished
  <2>1. Active(b) /\ b # c /\ ctl'[b].env = ctl[b].env /\ ctl'[b].attempt = ctl[b].attempt
    BY <1>3
  <2>2. CASE ctl[b].env = d
    <3>1. ctl[b].attempt # ctl[c].attempt
      BY <2>1, <2>2, <1>3 DEF EnvironmentInv, AttemptsDiffer
    <3> QED
      BY <3>1, <2>1, <2>2, <1>1
  <2>3. CASE ctl[b].env # d
    BY <2>1, <2>3, <1>0, <1>1, <1>2 DEF EnvironmentInv, ReadyIsFinished
  <2> QED
    BY <2>2, <2>3
<1> QED
  BY <1>4, <1>5, <1>6, <1>7, <1>8 DEF EnvironmentInv

\* Every other step of a controller is tame.
LEMMA ControllerTameStep ==
    ASSUME EnvironmentInv, TypeOK', NEW c \in Controllers,
           \/ Start(c) \/ Crash(c) \/ SweepRead(c) \/ SweepRemove(c) \/ ClaimNothing(c)
           \/ CreateContainer(c) \/ Probe(c) \/ (Publish(c) /\ ~Holds(c)) \/ RetryBuild(c)
           \/ \E error \in {"transient", "permanent"} : BuildFails(c, error)
    PROVE  Tame
<1> USE DEF Tame
<1>0. /\ TypeOK /\ ctl \in [Controllers -> Controller]
      /\ env \in [Environments -> Row] /\ ctl[c] \in Controller
      /\ ctl[c].env \in Environments /\ env[ctl[c].env] \in Row
  BY DEF EnvironmentInv, TypeOK, Controller
<1>1. CASE Start(c)
  BY <1>1, <1>0, RowsUnchanged, OnePhase DEF Start
<1>2. CASE Crash(c)
  <2>1. \A b \in Controllers : ControllerTame(b)
    BY <1>2, <1>0 DEF Crash, ControllerTame, Active, Controller
  <2> QED
    BY <1>2, <2>1, RowsUnchanged DEF Crash
<1>3. CASE SweepRead(c) \/ SweepRemove(c)
  <2>1. \A b \in Controllers : ControllerTame(b)
    BY <1>3, <1>0 DEF SweepRead, SweepRemove, ControllerTame, Active, Controller
  <2> QED
    BY <1>3, <2>1, RowsUnchanged DEF SweepRead, SweepRemove
<1>4. CASE ClaimNothing(c)
  BY <1>4, <1>0, ExpiryTame, ControllersUnchanged DEF ClaimNothing, RowTame
<1>5. CASE CreateContainer(c)
  <2>1. Active(c) /\ ctl' = Phased(c, "building")
    BY <1>5 DEF CreateContainer, Active
  <2>2. \A b \in Controllers : ControllerTame(b)
    BY <2>1, <1>0, OnePhase
  <2> QED
    BY <1>5, <2>2, RowsUnchanged DEF CreateContainer
<1>6. CASE Probe(c)
  <2>1. /\ Active(c) /\ issued' = issued
        /\ ctl' = Phased(c, "probing") \/ ctl' = Phased(c, "idle")
    BY <1>6 DEF Probe, Active
  <2>2. \A b \in Controllers : ControllerTame(b)
    BY <2>1, <1>0, OnePhase
  <2>3. CASE Holds(c)
    <3> DEFINE e == [env[ctl[c].env] EXCEPT !.status = "probing", !.cooled = FALSE]
    <3>1. env' = [env EXCEPT ![ctl[c].env] = e] /\ env[ctl[c].env].status \in Building
      BY <1>6, <2>3, Held DEF Probe
    <3>2. e.status = "probing" /\ e.attempt = env[ctl[c].env].attempt
      BY <1>0 DEF Row
    <3> HIDE DEF e
    <3> QED
      BY <3>1, <3>2, <2>1, <2>2, <1>0, OneRow
  <2>4. CASE ~Holds(c)
    BY <1>6, <2>4, <2>1, <2>2, RowsUnchanged DEF Probe
  <2> QED
    BY <2>3, <2>4
<1>7. CASE Publish(c) /\ ~Holds(c)
  <2>1. UNCHANGED <<env, issued>> /\ ctl' = Phased(c, "idle")
    BY <1>7 DEF Publish
  <2> QED
    BY <2>1, <1>0, RowsUnchanged, OnePhase
<1>8. CASE RetryBuild(c)
  <2>1. /\ Active(c) /\ issued' = issued
        /\ ctl' = Phased(c, "claimed") \/ ctl' = Phased(c, "idle")
    BY <1>8 DEF RetryBuild, Active
  <2>2. \A b \in Controllers : ControllerTame(b)
    BY <2>1, <1>0, OnePhase
  <2>3. CASE Holds(c)
    <3> DEFINE e == [env[ctl[c].env] EXCEPT !.status = "building", !.live = TRUE, !.cooled = FALSE]
    <3>1. env' = [env EXCEPT ![ctl[c].env] = e] /\ env[ctl[c].env].status \in Building
      BY <1>8, <2>3, Held DEF RetryBuild
    <3>2. e.status = "building" /\ e.attempt = env[ctl[c].env].attempt
      BY <1>0 DEF Row
    <3> HIDE DEF e
    <3> QED
      BY <3>1, <3>2, <2>1, <2>2, <1>0, OneRow
  <2>4. CASE ~Holds(c)
    BY <1>8, <2>4, <2>1, <2>2, RowsUnchanged DEF RetryBuild
  <2> QED
    BY <2>3, <2>4
<1>9. ASSUME NEW error \in {"transient", "permanent"}, BuildFails(c, error) PROVE Tame
  <2>1. Active(c) /\ issued' = issued
    BY <1>9 DEF BuildFails, Active
  <2>2. \A b \in Controllers : ControllerTame(b)
    <3>1. CASE ctl' = Phased(c, "idle")
      BY <3>1, <1>0, OnePhase
    <3>2. CASE ctl' = [ctl EXCEPT ![c].phase = "backoff", ![c].retries = ctl[c].retries + 1]
      BY <3>2, <2>1, <1>0 DEF ControllerTame, Active, Controller
    <3> QED
      BY <1>9, <3>1, <3>2 DEF BuildFails
  <2>3. \A d \in Environments : RowTame(d)
    <3> DEFINE e == [Failed(env[ctl[c].env], error,
                            IF error = "transient" THEN "yes" ELSE "no") EXCEPT !.image = 0]
    <3>1. env' = env \/ env' = [env EXCEPT ![ctl[c].env] = e]
      BY <1>9 DEF BuildFails
    <3>2. e.status = "failed"
      BY <1>0, FailedFields
    <3> HIDE DEF e
    <3>3. CASE env' = env
      BY <3>3, RowsUnchanged
    <3>4. CASE env' = [env EXCEPT ![ctl[c].env] = e]
      BY <3>4, <3>2, <1>0, OneRow DEF Building
    <3> QED
      BY <3>1, <3>3, <3>4
  <2> QED
    BY <2>1, <2>2, <2>3
<1> QED
  BY <1>1, <1>2, <1>3, <1>4, <1>5, <1>6, <1>7, <1>8, <1>9

\* So is every step of the others.
LEMMA OthersTameStep ==
    ASSUME EnvironmentInv,
           \/ \E d \in Environments : CallerStep(d) \/ LeaseExpires(d) \/ Cools(d)
           \/ \E u \in Users : UserStep(u)
           \/ \E b \in Build : ImageLost(b)
    PROVE  Tame
<1> USE DEF Tame
<1>0. TypeOK /\ (\A d \in Environments : env[d] \in Row)
  BY DEF EnvironmentInv, TypeOK
<1>1. ASSUME NEW d \in Environments, NEW e, UNCHANGED <<issued, ctl>>,
             env' = [env EXCEPT ![d] = e],
             e.status \in Building =>
                env[d].status \in Building /\ e.attempt = env[d].attempt,
             e.status = "ready" => env[d].status = "ready" /\ e.image = env[d].image
      PROVE  Tame
  BY <1>0, <1>1, OneRow, ControllersUnchanged
<1>2. ASSUME NEW d \in Environments, Enqueue(d) \/ Requeue(d) PROVE Tame
  <2> DEFINE e == [Absent EXCEPT !.status = "queued"]
  <2>1. env' = [env EXCEPT ![d] = e] /\ UNCHANGED <<issued, ctl>>
    BY <1>2 DEF Enqueue, Requeue
  <2>2. e.status = "queued"
    BY DEF Absent
  <2> HIDE DEF e
  <2> QED
    BY <2>1, <2>2, <1>1 DEF Building
<1>3. ASSUME NEW d \in Environments, Retry(d) PROVE Tame
  <2> DEFINE e == [env[d] EXCEPT !.status = "queued", !.error = "none", !.attempt = 0,
                                 !.cooled = FALSE]
  <2>1. env' = [env EXCEPT ![d] = e] /\ UNCHANGED <<issued, ctl>>
    BY <1>3 DEF Retry
  <2>2. e.status = "queued"
    BY <1>0 DEF Row
  <2> HIDE DEF e
  <2> QED
    BY <2>1, <2>2, <1>1 DEF Building
<1>4. ASSUME NEW d \in Environments, Revoke(d) PROVE Tame
  <2>1. PICK attempt \in {0, env[d].attempt} : env' = [env EXCEPT ![d] = [env[d] EXCEPT
            !.status = "revoked", !.attempt = attempt, !.error = "none", !.cooled = FALSE]]
    BY <1>4 DEF Revoke
  <2> DEFINE e == [env[d] EXCEPT !.status = "revoked", !.attempt = attempt,
                                 !.error = "none", !.cooled = FALSE]
  <2>2. e.status = "revoked"
    BY <1>0 DEF Row
  <2>3. env' = [env EXCEPT ![d] = e] /\ UNCHANGED <<issued, ctl>>
    BY <1>4, <2>1 DEF Revoke
  <2> HIDE DEF e
  <2> QED
    BY <2>2, <2>3, <1>1 DEF Building
<1>5. ASSUME NEW d \in Environments, LeaseExpires(d) \/ Cools(d) PROVE Tame
  <2>1. CASE LeaseExpires(d)
    <3> DEFINE e == [env[d] EXCEPT !.live = FALSE]
    <3>1. env' = [env EXCEPT ![d] = e] /\ UNCHANGED <<issued, ctl>>
      BY <2>1 DEF LeaseExpires
    <3>2. e.status = env[d].status /\ e.attempt = env[d].attempt /\ e.image = env[d].image
      BY <1>0 DEF Row
    <3> HIDE DEF e
    <3> QED
      BY <3>1, <3>2, <1>1
  <2>2. CASE Cools(d)
    <3> DEFINE e == [env[d] EXCEPT !.cooled = TRUE]
    <3>1. env' = [env EXCEPT ![d] = e] /\ UNCHANGED <<issued, ctl>>
      BY <2>2 DEF Cools
    <3>2. e.status = env[d].status /\ e.attempt = env[d].attempt /\ e.image = env[d].image
      BY <1>0 DEF Row
    <3> HIDE DEF e
    <3> QED
      BY <3>1, <3>2, <1>1
  <2> QED
    BY <1>5, <2>1, <2>2
<1>6. ASSUME NEW u \in Users, (\E d \in Environments : UseRead(u, d)) \/ UseFound(u)
      PROVE  Tame
  <2>1. UNCHANGED <<env, issued, ctl>>
    BY <1>6 DEF UseRead, UseFound
  <2> QED
    BY <2>1, RowsUnchanged, ControllersUnchanged
<1>7. ASSUME NEW u \in Users, UseMissing(u) PROVE Tame
  <2> DEFINE d == use[u].env
             e == Failed(env[d], "missing", env[d].retryable)
  <2>1. env' = [env EXCEPT ![d] = e] /\ UNCHANGED <<issued, ctl>> /\ d \in Environments
    BY <1>7, <1>0 DEF UseMissing, TypeOK
  <2>2. e.status = "failed"
    BY <2>1, <1>0, FailedFields
  <2> HIDE DEF d, e
  <2> QED
    BY <2>1, <2>2, <1>1 DEF Building
<1>8. ASSUME NEW b \in Build, ImageLost(b) PROVE Tame
  <2>1. UNCHANGED <<env, issued, ctl>>
    BY <1>8 DEF ImageLost
  <2> QED
    BY <2>1, RowsUnchanged, ControllersUnchanged
<1> QED
  BY <1>2, <1>3, <1>4, <1>5, <1>6, <1>7, <1>8 DEF CallerStep, UserStep

LEMMA InvInit == Init => EnvironmentInv
<1> SUFFICES ASSUME Init PROVE EnvironmentInv
  OBVIOUS
<1>1. TypeOK
  BY TypeInit
<1>2. \A d \in Environments : env[d].status = "none"
  BY DEF Init, Absent
<1>3. \A c \in Controllers : ~Active(c) /\ ctl[c].env \in Environments
  BY DEF Init, Active
<1> QED
  BY <1>1, <1>2, <1>3 DEF EnvironmentInv, BuildingIsLatest, Building, AttemptsClaimed,
     AttemptsDiffer, ReadyIsLatest, ReadyIsFinished

LEMMA InvStep == EnvironmentInv /\ [Next]_vars => EnvironmentInv'
<1> SUFFICES ASSUME EnvironmentInv, [Next]_vars PROVE EnvironmentInv'
  OBVIOUS
<1>1. TypeOK'
  BY TypeStep DEF EnvironmentInv
<1>2. ASSUME NEW c \in Controllers, ControllerStep(c) PROVE EnvironmentInv'
  <2>1. CASE \E d \in Environments : Claim(c, d)
    BY <2>1, <1>1, ClaimStep
  <2>2. CASE Publish(c) /\ Holds(c)
    BY <2>2, <1>1, PublishStep
  <2>3. CASE ~(\E d \in Environments : Claim(c, d)) /\ ~(Publish(c) /\ Holds(c))
    <3>1. \/ Start(c) \/ Crash(c) \/ SweepRead(c) \/ SweepRemove(c) \/ ClaimNothing(c)
          \/ CreateContainer(c) \/ Probe(c) \/ (Publish(c) /\ ~Holds(c)) \/ RetryBuild(c)
          \/ \E error \in {"transient", "permanent"} : BuildFails(c, error)
      BY <2>3, <1>2 DEF ControllerStep, Sweep, Poll, Proceed
    <3>2. Tame
      BY <3>1, <1>1, ControllerTameStep
    <3> QED
      BY <3>2, <1>1, TameStep
  <2> QED
    BY <2>1, <2>2, <2>3
<1>3. ASSUME \/ \E d \in Environments : CallerStep(d) \/ LeaseExpires(d) \/ Cools(d)
             \/ \E u \in Users : UserStep(u)
             \/ \E b \in Build : ImageLost(b)
      PROVE  EnvironmentInv'
  BY <1>1, <1>3, OthersTameStep, TameStep
<1>4. CASE UNCHANGED vars
  <2>1. Tame
    BY <1>4, RowsUnchanged, ControllersUnchanged DEF vars, Tame
  <2> QED
    BY <2>1, <1>1, TameStep
<1> QED
  BY <1>2, <1>3, <1>4 DEF Next

-----------------------------------------------------------------------------
(* The theorems.                                                           *)

\* Whatever controllers, callers and Workers do, a row being built belongs to
\* the attempt claimed last, attempts at work differ, and what is ready is
\* finished.
THEOREM EnvironmentInvariant == Spec => []EnvironmentInv
<1>1. Init => EnvironmentInv
  BY InvInit
<1>2. EnvironmentInv /\ [Next]_vars => EnvironmentInv'
  BY InvStep
<1> QED
  BY <1>1, <1>2, PTL DEF Spec

\* Every row and every controller's record keep their types.
THEOREM EnvironmentTypeCorrect == Spec => []TypeOK
<1>1. EnvironmentInv => TypeOK
  BY DEF EnvironmentInv
<1> QED
  BY <1>1, EnvironmentInvariant, PTL

\* What finish_attempt's condition secures: a ready environment names the image
\* of the attempt claimed last.
THEOREM OvertakenNeverPublishes == Spec => []ReadyIsLatest
<1>1. EnvironmentInv => ReadyIsLatest
  BY DEF EnvironmentInv
<1> QED
  BY <1>1, EnvironmentInvariant, PTL

\* The action of BuildersAreFenced.
Fenced ==
    \A c \in Controllers : ControllerStep(c) =>
          \A d \in Environments : env'[d] # env[d] =>
              \/ env[d].status = "queued" \/ Expired(d)
              \/ /\ env[d].status \in Building /\ env[d].live
                 /\ BuildOf(c) = [env |-> d, attempt |-> issued[d]]

LEMMA FencedStep == EnvironmentInv /\ [Next]_vars => Fenced
<1> SUFFICES ASSUME EnvironmentInv, NEW c \in Controllers, ControllerStep(c),
                    NEW d \in Environments, env'[d] # env[d]
             PROVE  \/ env[d].status = "queued" \/ Expired(d)
                    \/ /\ env[d].status \in Building /\ env[d].live
                       /\ BuildOf(c) = [env |-> d, attempt |-> issued[d]]
  BY DEF Fenced
<1>0. env \in [Environments -> Row] /\ TypeOK
  BY DEF EnvironmentInv, TypeOK
<1>1. CASE ClaimNothing(c)
  BY <1>1 DEF ClaimNothing, AfterExpiry
<1>2. ASSUME NEW e \in Environments, Claim(c, e)
      PROVE  env[d].status = "queued" \/ Expired(d)
  <2>1. CASE d = e
    BY <2>1, <1>2 DEF Claim
  <2>2. CASE d # e
    <3>1. AfterExpiry \in [Environments -> Row]
      BY <1>0, AfterExpiryType
    <3>2. env'[d] = AfterExpiry[d]
      BY <3>1, <2>2, <1>2 DEF Claim
    <3> QED
      BY <3>2 DEF AfterExpiry
  <2> QED
    BY <2>1, <2>2
<1>3. ASSUME Holds(c), d = ctl[c].env
      PROVE  /\ env[d].status \in Building /\ env[d].live
             /\ BuildOf(c) = [env |-> d, attempt |-> issued[d]]
  BY <1>3, Held DEF Holds, BuildOf
<1>4. CASE \/ Probe(c) \/ Publish(c) \/ RetryBuild(c)
           \/ \E error \in {"transient", "permanent"} : BuildFails(c, error)
  <2>1. Holds(c)
    BY <1>4 DEF Probe, Publish, RetryBuild, BuildFails
  <2>2. \E e : env' = [env EXCEPT ![ctl[c].env] = e]
    BY <2>1, <1>4 DEF Probe, Publish, RetryBuild, BuildFails
  <2>3. d = ctl[c].env
    BY <2>2, <1>0
  <2> QED
    BY <2>1, <2>3, <1>3
<1>5. CASE Start(c) \/ Crash(c) \/ SweepRead(c) \/ SweepRemove(c) \/ CreateContainer(c)
  BY <1>5 DEF Start, Crash, SweepRead, SweepRemove, CreateContainer
<1> QED
  BY <1>1, <1>2, <1>4, <1>5 DEF ControllerStep, Sweep, Poll, Proceed

\* The lease and the attempt fence every UPDATE of a controller: it changes a
\* queued or expired row, or its own build's.
THEOREM ControllersAreFenced == Spec => BuildersAreFenced
<1>1. EnvironmentInv /\ [Next]_vars => [Fenced]_vars
  BY FencedStep
<1>2. BuildersAreFenced <=> [][Fenced]_vars
  BY DEF BuildersAreFenced, Fenced
<1>3. Spec => [][Fenced]_vars
  BY <1>1, EnvironmentInvariant, PTL DEF Spec
<1> QED
  BY <1>2, <1>3

\* The action of ReadyImageKept.
ImageKept ==
    \A c \in Controllers : ControllerStep(c) =>
          \A d \in Environments : env[d].status = "ready" =>
              ([env |-> d, attempt |-> env[d].image] \in images
                => [env |-> d, attempt |-> env[d].image] \in images')

LEMMA ImageKeptStep == EnvironmentInv /\ [Next]_vars => ImageKept
<1> SUFFICES ASSUME EnvironmentInv, NEW c \in Controllers, ControllerStep(c),
                    NEW d \in Environments, env[d].status = "ready",
                    [env |-> d, attempt |-> env[d].image] \in images
             PROVE  [env |-> d, attempt |-> env[d].image] \in images'
  BY DEF ImageKept
<1>1. env[d].image = issued[d]
  BY DEF EnvironmentInv, ReadyIsLatest
<1>2. Active(c) => BuildOf(c) # [env |-> d, attempt |-> env[d].image]
  <2>1. ASSUME Active(c), ctl[c].env = d, ctl[c].attempt = issued[d] PROVE FALSE
    BY <2>1 DEF EnvironmentInv, ReadyIsFinished
  <2> QED
    BY <2>1, <1>1 DEF BuildOf
<1>3. \/ images \subseteq images'
      \/ Active(c) /\ images' = images \ {BuildOf(c)}
  <2>1. CASE \/ Start(c) \/ Crash(c) \/ SweepRead(c) \/ SweepRemove(c) \/ CreateContainer(c)
             \/ ClaimNothing(c) \/ (\E e \in Environments : Claim(c, e))
             \/ Publish(c) \/ RetryBuild(c)
    BY <2>1 DEF Start, Crash, SweepRead, SweepRemove, CreateContainer, ClaimNothing, Claim,
       Publish, RetryBuild
  <2>2. CASE Probe(c)
    BY <2>2 DEF Probe, Active
  <2>3. CASE \E error \in {"transient", "permanent"} : BuildFails(c, error)
    BY <2>3 DEF BuildFails, Discarded, Active
  <2> QED
    BY <2>1, <2>2, <2>3 DEF ControllerStep, Sweep, Poll, Proceed
<1> QED
  BY <1>2, <1>3

\* No build, whether it fails, is given up or is overtaken, takes the image of
\* an environment that is ready.
THEOREM ReadyImagesSurvive == Spec => ReadyImageKept
<1>1. EnvironmentInv /\ [Next]_vars => [ImageKept]_vars
  BY ImageKeptStep
<1>2. ReadyImageKept <=> [][ImageKept]_vars
  BY DEF ReadyImageKept, ImageKept
<1>3. Spec => [][ImageKept]_vars
  BY <1>1, EnvironmentInvariant, PTL DEF Spec
<1> QED
  BY <1>2, <1>3
=============================================================================
