-------------------------- MODULE SkillReleaseProofs --------------------------
(***************************************************************************)
(* Theorems about SkillRelease, for any number of versions, requests and   *)
(* environments: the inductive invariant of the release of a skill, and    *)
(* that its versions move as the review says.                              *)
(***************************************************************************)
EXTENDS SkillRelease, TLAPS

Row == [status : Status, number : Numbers, network : BOOLEAN,
        published : BOOLEAN, env : Environments \cup {None}]
Reading == [op : Op, version : Versions, network : BOOLEAN,
            step : {"read", "checked"}, fresh : BOOLEAN]
Uploading == [phase : {"none", "picked", "stored", "over"}, number : Numbers \cup {None}]

LEMMA RowIsRow == ASSUME TypeOK, NEW v \in Rows PROVE version[v] \in Row
BY DEF TypeOK, Rows, Row

LEMMA ReadingIsReading ==
    ASSUME TypeOK, NEW r \in Requests, request[r] # Idle PROVE request[r] \in Reading
BY DEF TypeOK, Reading

LEMMA RowIsNotNoRow == ASSUME NEW x \in Row PROVE x # NoRow
BY DEF Row, NoRow, Status

LEMMA ReadingIsNotIdle == ASSUME NEW x \in Reading PROVE x # Idle
BY DEF Reading, Idle, Op, Judging

-----------------------------------------------------------------------------
(* What the steps change, row by row and request by request.               *)

\* Requests that are overtaken lose only their freshness.
LEMMA OutdatedStep ==
    ASSUME TypeOK, NEW r \in Requests, NEW v \in Versions, request' = Outdated(r, v)
    PROVE  /\ request'[r] = Idle
           /\ \A q \in Requests \ {r} :
                 /\ request[q] = Idle => request'[q] = Idle
                 /\ request[q] # Idle =>
                       /\ request'[q] \in Reading
                       /\ request'[q].op = request[q].op
                       /\ request'[q].version = request[q].version
                       /\ request'[q].network = request[q].network
                       /\ request'[q].step = request[q].step
                       /\ request'[q].fresh => request[q].fresh
                       /\ request'[q].fresh =>
                             request[q].version # v \/ request[q].op \notin Judging
<1>1. request'[r] = Idle
  BY DEF Outdated
<1>2. ASSUME NEW q \in Requests \ {r} 
      PROVE  /\ request[q] = Idle => request'[q] = Idle
             /\ request[q] # Idle =>
                       /\ request'[q] \in Reading
                       /\ request'[q].op = request[q].op
                       /\ request'[q].version = request[q].version
                       /\ request'[q].network = request[q].network
                       /\ request'[q].step = request[q].step
                       /\ request'[q].fresh => request[q].fresh
                       /\ request'[q].fresh =>
                             request[q].version # v \/ request[q].op \notin Judging
  <2>1. CASE request[q] = Idle
    <3>1. request[q].op \notin Judging
      BY <2>1 DEF Idle, Judging
    <3> QED
      BY <2>1, <3>1 DEF Outdated
  <2>2. CASE request[q] # Idle
    <3>1. request[q] \in Reading
      BY <2>2, ReadingIsReading
    <3>2. CASE request[q].version = v /\ request[q].op \in Judging
      <4>1. request'[q] = [request[q] EXCEPT !.fresh = FALSE]
        BY <3>2 DEF Outdated
      <4> QED
        BY <2>2, <3>1, <4>1 DEF Reading
    <3>3. CASE ~(request[q].version = v /\ request[q].op \in Judging)
      <4>1. request'[q] = request[q]
        BY <3>3 DEF Outdated
      <4> QED
        BY <2>2, <3>1, <3>3, <4>1
    <3> QED
      BY <3>2, <3>3
  <2> QED
    BY <2>1, <2>2
<1> QED
  BY <1>1, <1>2
\* A step that changes one row, but neither its number nor its environment.
RowMoves(v) ==
    /\ version' \in [Versions -> {NoRow} \cup Row]
    /\ version'[v] \in Row
    /\ version'[v].number = version[v].number
    /\ version'[v].env = version[v].env
    /\ version[v].published => version'[v].published
    /\ version'[v].status = "PUBLISHED" =>
          version[v].status = "PUBLISHED" \/ version'[v].published
    /\ \A w \in Versions \ {v} : version'[w] = version[w]

LEMMA SubmitMoves ==
    ASSUME TypeOK, NEW r \in Requests, Submit(r)
    PROVE  LET v == request[r].version IN
           /\ v \in Rows /\ RowMoves(v)
           /\ version'[v].status = "SUBMITTED" /\ version'[v].network = version[v].network
           /\ version'[v].published = version[v].published
<1> DEFINE v == request[r].version
<1>1. v \in Rows /\ v \in Versions /\ version[v] \in Row
  BY RowIsRow DEF Submit, Rows
<1>2. version' = [version EXCEPT ![v].status = "SUBMITTED"]
  BY DEF Submit
<1> HIDE DEF v
<1>3. version'[v] = [version[v] EXCEPT !.status = "SUBMITTED"]
  BY <1>1, <1>2 DEF TypeOK
<1>4. version'[v] \in Row
  BY <1>1, <1>3 DEF Row, Status
<1>5. \A w \in Versions \ {v} : version'[w] = version[w]
  BY <1>1, <1>2 DEF TypeOK
<1>6. version' \in [Versions -> {NoRow} \cup Row]
  BY <1>1, <1>2, <1>4, <1>5 DEF TypeOK, Row
<1>7. RowMoves(v)
  BY <1>1, <1>3, <1>4, <1>5, <1>6 DEF RowMoves, Row
<1>8. /\ version'[v].status = "SUBMITTED" /\ version'[v].network = version[v].network
      /\ version'[v].published = version[v].published
  BY <1>1, <1>3 DEF Row
<1> QED
  BY <1>1, <1>7, <1>8 DEF v

LEMMA RejectMoves ==
    ASSUME TypeOK, NEW r \in Requests, Reject(r)
    PROVE  LET v == request[r].version IN
           /\ v \in Rows /\ RowMoves(v)
           /\ version'[v].status = "REJECTED" /\ version'[v].network = version[v].network
           /\ version'[v].published = version[v].published
<1> DEFINE v == request[r].version
<1>1. v \in Rows /\ v \in Versions /\ version[v] \in Row
  BY RowIsRow DEF Reject, Rows
<1>2. version' = [version EXCEPT ![v].status = "REJECTED"]
  BY DEF Reject
<1> HIDE DEF v
<1>3. version'[v] = [version[v] EXCEPT !.status = "REJECTED"]
  BY <1>1, <1>2 DEF TypeOK
<1>4. version'[v] \in Row
  BY <1>1, <1>3 DEF Row, Status
<1>5. \A w \in Versions \ {v} : version'[w] = version[w]
  BY <1>1, <1>2 DEF TypeOK
<1>6. version' \in [Versions -> {NoRow} \cup Row]
  BY <1>1, <1>2, <1>4, <1>5 DEF TypeOK, Row
<1>7. RowMoves(v)
  BY <1>1, <1>3, <1>4, <1>5, <1>6 DEF RowMoves, Row
<1>8. /\ version'[v].status = "REJECTED" /\ version'[v].network = version[v].network
      /\ version'[v].published = version[v].published
  BY <1>1, <1>3 DEF Row
<1> QED
  BY <1>1, <1>7, <1>8 DEF v

\* What an approval grants.
Granted(r, payload) ==
    IF request[r].version \notin Sandboxed THEN FALSE
    ELSE IF payload = None THEN request[r].network ELSE payload

LEMMA ApproveMoves ==
    ASSUME TypeOK, NEW r \in Requests, NEW payload \in BOOLEAN \cup {None}, Approve(r, payload)
    PROVE  LET v == request[r].version IN
           /\ v \in Rows /\ RowMoves(v)
           /\ version'[v].status = "PUBLISHED" /\ version'[v].published
           /\ Granted(r, payload) \in BOOLEAN
           /\ version'[v].network =
                Written(request[r].network, Granted(r, payload), version[v].network)
           /\ told' = [told EXCEPT ![v] = IF request[r].fresh \/ v \notin Sandboxed
                                          THEN Access(Granted(r, payload)) ELSE "raced"]
<1> DEFINE v == request[r].version
           value == Granted(r, payload)
<1>1. v \in Rows /\ v \in Versions /\ version[v] \in Row
  BY RowIsRow DEF Approve, Rows
<1>2. /\ version' = [version EXCEPT ![v].status = "PUBLISHED", ![v].published = TRUE,
                                    ![v].network = Written(request[r].network, value, @)]
      /\ told' = [told EXCEPT ![v] = IF request[r].fresh \/ v \notin Sandboxed
                                     THEN Access(value) ELSE "raced"]
  BY DEF Approve, Tell, Granted
<1>3. request[r].network \in BOOLEAN
  <2>1. request[r] # Idle
    BY DEF Approve, Idle
  <2> QED
    BY <2>1, ReadingIsReading DEF Reading
<1>4. value \in BOOLEAN
  BY <1>3 DEF Granted
<1> HIDE DEF v, value
<1>5. version'[v] = [version[v] EXCEPT !.status = "PUBLISHED", !.published = TRUE,
                         !.network = Written(request[r].network, value, @)]
  BY <1>1, <1>2, Zenon DEF TypeOK
<1>6. /\ version'[v].status = "PUBLISHED" /\ version'[v].published
      /\ version'[v].network = Written(request[r].network, value, version[v].network)
      /\ version'[v].number = version[v].number /\ version'[v].env = version[v].env
  BY <1>1, <1>5 DEF Row
<1>7. Written(request[r].network, value, version[v].network) \in BOOLEAN
  BY <1>1, <1>3, <1>4 DEF Written, Row
<1>8. version'[v] \in Row
  BY <1>1, <1>5, <1>7 DEF Row, Status
<1>9. \A w \in Versions \ {v} : version'[w] = version[w]
  BY <1>1, <1>2 DEF TypeOK
<1>10. version' \in [Versions -> {NoRow} \cup Row]
  <2>1. DOMAIN version' = Versions /\ version' = [w \in Versions |-> version'[w]]
    BY <1>2, Zenon DEF TypeOK
  <2> QED
    BY <2>1, <1>8, <1>9 DEF TypeOK, Row
<1>11. RowMoves(v)
  BY <1>6, <1>8, <1>9, <1>10 DEF RowMoves
<1> QED
  BY <1>1, <1>2, <1>4, <1>6, <1>11 DEF v, value

LEMMA SetNetworkMoves ==
    ASSUME TypeOK, NEW r \in Requests, NEW enabled \in BOOLEAN, SetNetwork(r, enabled)
    PROVE  LET v == request[r].version IN
           /\ v \in Rows /\ RowMoves(v)
           /\ version'[v].status = version[v].status
           /\ version'[v].published = version[v].published
           /\ version'[v].network = Written(request[r].network, enabled, version[v].network)
           /\ told' = [told EXCEPT ![v] = IF request[r].fresh \/ v \notin Sandboxed
                                          THEN Access(enabled) ELSE "raced"]
<1> DEFINE v == request[r].version
<1>1. v \in Rows /\ v \in Versions /\ version[v] \in Row
  BY RowIsRow DEF SetNetwork, Rows
<1>2. /\ version' = [version EXCEPT ![v].network = Written(request[r].network, enabled, @)]
      /\ told' = [told EXCEPT ![v] = IF request[r].fresh \/ v \notin Sandboxed
                                     THEN Access(enabled) ELSE "raced"]
  BY DEF SetNetwork, Tell
<1> HIDE DEF v
<1>3. version'[v] = [version[v] EXCEPT !.network = Written(request[r].network, enabled, @)]
  BY <1>1, <1>2 DEF TypeOK
<1>4. Written(request[r].network, enabled, version[v].network) \in BOOLEAN
  BY <1>1 DEF Written, Row
<1>5. version'[v] \in Row
  BY <1>1, <1>3, <1>4 DEF Row
<1>6. \A w \in Versions \ {v} : version'[w] = version[w]
  BY <1>1, <1>2 DEF TypeOK
<1>7. version' \in [Versions -> {NoRow} \cup Row]
  BY <1>1, <1>2, <1>5, <1>6 DEF TypeOK, Row
<1>8. RowMoves(v)
  BY <1>1, <1>3, <1>5, <1>6, <1>7 DEF RowMoves, Row
<1>9. /\ version'[v].status = version[v].status /\ version'[v].published = version[v].published
      /\ version'[v].network = Written(request[r].network, enabled, version[v].network)
  BY <1>1, <1>3 DEF Row
<1> QED
  BY <1>1, <1>2, <1>8, <1>9 DEF v

\* What such a step keeps.
LEMMA RowMovesKeep ==
    ASSUME ReleaseInv, NEW v \in Rows, RowMoves(v),
           UNCHANGED <<skill, upload, store, env, endpoint, deletion>>
    PROVE  /\ Rows' = Rows
           /\ UploadsReserve' /\ NumbersDiffer' /\ PackagesKept' /\ OpenedWasPublished'
           /\ (skill = "gone" <=> deletion.phase = "committed")'
           /\ (skill = "gone" => Rows = {})'
<1>1. v \in Versions /\ \A w \in Versions : w \in Rows => version[w] \in Row
  BY RowIsRow DEF Rows, ReleaseInv
<1>2. Rows' = Rows
  BY <1>1, RowIsNotNoRow DEF Rows, RowMoves
<1>3. \A w \in Rows : version'[w].number = version[w].number
                      /\ (version[w].published => version'[w].published)
                      /\ (version'[w].status = "PUBLISHED" =>
                            version[w].status = "PUBLISHED" \/ version'[w].published)
  BY <1>1 DEF RowMoves, Rows
<1>4. UploadsReserve'
  BY <1>2, <1>3 DEF ReleaseInv, UploadsReserve, NumberFree
<1>5. NumbersDiffer' /\ PackagesKept'
  BY <1>2, <1>3 DEF ReleaseInv, NumbersDiffer, PackagesKept
<1>6. OpenedWasPublished'
  BY <1>2, <1>3 DEF ReleaseInv, OpenedWasPublished, Runnable
<1> QED
  BY <1>2, <1>4, <1>5, <1>6 DEF ReleaseInv, GoneIsEmpty

LEMMA OutdatedTyped ==
    ASSUME TypeOK, NEW r \in Requests, NEW v \in Versions, request' = Outdated(r, v)
    PROVE  request' \in [Requests -> {Idle} \cup Reading]
<1>1. \A q \in Requests : request'[q] \in {Idle} \cup Reading
  BY OutdatedStep
<1>2. DOMAIN request' = Requests /\ request' = [q \in Requests |-> request'[q]]
  BY DEF Outdated
<1> HIDE DEF Idle
<1> QED
  BY <1>1, <1>2

\* A decision on a row keeps the invariant if the row and what is remembered of
\* it agree afterwards.
LEMMA DecisionKeeps ==
    ASSUME ReleaseInv, NEW r \in Requests, request[r] # Idle,
           NEW v \in Rows, v = request[r].version, RowMoves(v),
           request' = Outdated(r, v),
           UNCHANGED <<skill, upload, store, env, endpoint, deletion>>,
           \/ version'[v].status = version[v].status
           \/ version'[v].status \in {"SUBMITTED", "REJECTED", "PUBLISHED"},
           version'[v].status = "PUBLISHED" => version'[v].published,
           prepared' \in [Versions -> BOOLEAN],
           \A w \in Versions : prepared[w] => prepared'[w],
           version'[v].status # "READY" /\ Bound(v) /\ env[version[v].env] = "ready" => prepared'[v],
           version'[v].published /\ Bound(v) => prepared'[v],
           told' \in [Versions -> {"on", "off", "raced"}],
           \A w \in Versions \ {v} : told'[w] = told[w],
           version'[v].network => v \in Sandboxed,
           told'[v] \in {Access(version'[v].network), "raced"}
    PROVE  ReleaseInv'
<1>1. /\ TypeOK /\ v \in Versions /\ version[v] \in Row
      /\ \A w \in Versions \ {v} : version'[w] = version[w]
      /\ version'[v].env = version[v].env
      /\ version[v].published => version'[v].published
  BY RowIsRow DEF ReleaseInv, Rows, RowMoves
<1>2. /\ Rows' = Rows
      /\ UploadsReserve' /\ NumbersDiffer' /\ PackagesKept' /\ OpenedWasPublished'
      /\ (skill = "gone" <=> deletion.phase = "committed")'
      /\ (skill = "gone" => Rows = {})'
  BY RowMovesKeep
<1>3. TypeOK'
  <2>1. request' \in [Requests -> {Idle} \cup Reading]
    BY <1>1, OutdatedTyped
  <2>2. version' \in [Versions -> {NoRow} \cup Row]
    BY DEF RowMoves
  <2> HIDE DEF Idle, NoRow
  <2> QED
    BY <1>1, <2>1, <2>2 DEF TypeOK, Reading, Row
<1>4. GoneIsEmpty'
  BY <1>1, <1>2 DEF GoneIsEmpty, ReleaseInv
<1>5. StatusTells'
  <2>1. ASSUME NEW w \in Rows
        PROVE  version'[w].status # "READY" /\ version'[w].env # None
                     /\ env'[version'[w].env] = "ready" => prepared'[w]
    <3>1. CASE w = v
      BY <1>1, <3>1 DEF Bound
    <3>2. CASE w # v
      <4>1. w \in Versions /\ version'[w] = version[w]
        BY <1>1, <3>2 DEF Rows
      <4> QED
        BY <3>2, <4>1 DEF ReleaseInv, StatusTells, Bound
    <3> QED
      BY <3>1, <3>2
  <2> QED
    BY <1>2, <2>1 DEF StatusTells, Bound
<1>6. PublishedWasPrepared'
  <2>1. ASSUME NEW w \in Rows
        PROVE  version'[w].published /\ version'[w].env # None => prepared'[w]
    <3>1. CASE w = v
      BY <1>1, <3>1 DEF Bound
    <3>2. CASE w # v
      <4>1. w \in Versions /\ version'[w] = version[w]
        BY <1>1, <3>2 DEF Rows
      <4> QED
        BY <3>2, <4>1 DEF ReleaseInv, PublishedWasPrepared, Bound
    <3> QED
      BY <3>1, <3>2
  <2> QED
    BY <1>2, <2>1 DEF PublishedWasPrepared, Bound
<1>7. NetworkAsTold'
  <2>1. ASSUME NEW w \in Rows
        PROVE  /\ version'[w].network => w \in Sandboxed
               /\ told'[w] \in {Access(version'[w].network), "raced"}
    <3>1. CASE w = v
      BY <1>1, <3>1 DEF Bound
    <3>2. CASE w # v
      <4>1. w \in Versions /\ version'[w] = version[w]
        BY <1>1, <3>2 DEF Rows
      <4> QED
        BY <3>2, <4>1 DEF ReleaseInv, NetworkAsTold
    <3> QED
      BY <3>1, <3>2
  <2> QED
    BY <1>2, <2>1 DEF NetworkAsTold
<1>8. ReadingsHold'
  <2> SUFFICES ASSUME NEW q \in Requests, request'[q] # Idle
               PROVE  LET w == request'[q].version
                          op == request'[q].op
                      IN  /\ skill # "gone" => w \in Rows
                          /\ w \in Rows =>
                              /\ op \in {"public", "deploy"} => version'[w].published
                              /\ op \in Judging /\ request'[q].fresh => version'[w].status \in Asked(op)
                              /\ op \in {"approve", "network"} /\ request'[q].fresh =>
                                    request'[q].network = version'[w].network
                              /\ op \in {"approve", "reject"} => version'[w].status # "READY"
                              /\ op = "approve" /\ request'[q].step = "checked" /\ version'[w].env # None
                                    => prepared'[w]
    BY <1>2 DEF ReadingsHold, Bound
  <2>1. /\ q # r /\ request[q] # Idle
        /\ request'[q].op = request[q].op
        /\ request'[q].version = request[q].version
        /\ request'[q].network = request[q].network
        /\ request'[q].step = request[q].step
        /\ request'[q].fresh => request[q].fresh
        /\ request'[q].fresh => request[q].version # v \/ request[q].op \notin Judging
    BY <1>1, OutdatedStep
  <2> DEFINE w == request[q].version
             op == request[q].op
  <2>2. /\ skill # "gone" => w \in Rows
        /\ w \in Rows =>
            /\ op \in {"public", "deploy"} => version[w].published
            /\ op \in Judging /\ request[q].fresh => version[w].status \in Asked(op)
            /\ op \in {"approve", "network"} /\ request[q].fresh =>
                  request[q].network = version[w].network
            /\ op \in {"approve", "reject"} => version[w].status # "READY"
            /\ op = "approve" /\ request[q].step = "checked" /\ version[w].env # None => prepared[w]
    BY <2>1 DEF ReleaseInv, ReadingsHold, Bound
  <2>3. w \in Versions
    BY <2>1, <1>1, ReadingIsReading DEF Reading
  <2>4. op \in {"approve", "network"} => op \in Judging
    BY DEF Judging
  <2> HIDE DEF w, op
  <2>5. CASE w = v
    BY <2>1, <2>2, <2>3, <2>4, <2>5, <1>1 DEF w, op
  <2>6. CASE w # v
    BY <2>1, <2>2, <2>3, <2>6, <1>1 DEF w, op
  <2> QED
    BY <2>5, <2>6
<1> QED
  BY <1>2, <1>3, <1>4, <1>5, <1>6, <1>7, <1>8 DEF ReleaseInv

-----------------------------------------------------------------------------
(* The decisions.                                                          *)

LEMMA SubmitKeeps ==
    ASSUME ReleaseInv, NEW r \in Requests, Submit(r) PROVE ReleaseInv'
<1> DEFINE v == request[r].version
<1>1. /\ TypeOK /\ v \in Versions /\ version[v] \in Row /\ v \in Rows
      /\ request[r] # Idle
      /\ request' = Outdated(r, v)
      /\ UNCHANGED <<skill, upload, store, env, endpoint, deletion, told>>
      /\ prepared' = [prepared EXCEPT ![v] = @ \/ (Bound(v) /\ env[version[v].env] = "ready")]
  BY RowIsRow DEF Submit, ReleaseInv, Rows, Idle
<1>2. /\ RowMoves(v)
      /\ version'[v].status = "SUBMITTED" /\ version'[v].network = version[v].network
      /\ version'[v].published = version[v].published
  BY <1>1, SubmitMoves
<1> HIDE DEF v
<1>3. prepared[v] \in BOOLEAN /\ prepared \in [Versions -> BOOLEAN]
  BY <1>1 DEF TypeOK
<1>4. /\ prepared' \in [Versions -> BOOLEAN]
      /\ \A w \in Versions : prepared[w] => prepared'[w]
      /\ Bound(v) /\ env[version[v].env] = "ready" => prepared'[v]
  <2> DEFINE p == prepared[v] \/ (Bound(v) /\ env[version[v].env] = "ready")
  <2>1. prepared' = [prepared EXCEPT ![v] = p] /\ p \in BOOLEAN
    BY <1>1, <1>3
  <2>2. /\ prepared[v] => p
        /\ Bound(v) /\ env[version[v].env] = "ready" => p
    OBVIOUS
  <2> HIDE DEF p
  <2> QED
    BY <1>1, <1>3, <2>1, <2>2
<1>5. /\ version[v].published /\ Bound(v) => prepared[v]
      /\ version[v].network => v \in Sandboxed
      /\ told[v] \in {Access(version[v].network), "raced"}
      /\ told \in [Versions -> {"on", "off", "raced"}]
  BY <1>1 DEF ReleaseInv, PublishedWasPrepared, NetworkAsTold, TypeOK
<1> QED
  BY <1>1, <1>2, <1>4, <1>5, DecisionKeeps DEF v

LEMMA RejectKeeps ==
    ASSUME ReleaseInv, NEW r \in Requests, Reject(r) PROVE ReleaseInv'
<1> DEFINE v == request[r].version
<1>1. /\ TypeOK /\ v \in Versions /\ version[v] \in Row /\ v \in Rows
      /\ request[r] # Idle /\ request[r].op = "reject"
      /\ request' = Outdated(r, v)
      /\ UNCHANGED <<skill, upload, store, env, endpoint, deletion, told, prepared>>
  BY RowIsRow DEF Reject, ReleaseInv, Rows, Idle
<1>2. /\ RowMoves(v)
      /\ version'[v].status = "REJECTED" /\ version'[v].network = version[v].network
      /\ version'[v].published = version[v].published
  BY <1>1, RejectMoves
<1>3. version[v].status # "READY"
  BY <1>1 DEF ReleaseInv, ReadingsHold
<1> HIDE DEF v
<1>4. /\ version[v].published /\ Bound(v) => prepared[v]
      /\ Bound(v) /\ env[version[v].env] = "ready" => prepared[v]
      /\ version[v].network => v \in Sandboxed
      /\ told[v] \in {Access(version[v].network), "raced"}
      /\ told \in [Versions -> {"on", "off", "raced"}]
      /\ prepared \in [Versions -> BOOLEAN]
  BY <1>1, <1>3 DEF ReleaseInv, StatusTells, PublishedWasPrepared, NetworkAsTold, TypeOK
<1> QED
  BY <1>1, <1>2, <1>4, DecisionKeeps DEF v

\* The audit event tells of the access that is written.
LEMMA TellsTheAccess ==
    ASSUME TypeOK, NEW v \in Versions, NEW fresh \in BOOLEAN, NEW seen, NEW value \in BOOLEAN,
           NEW now \in BOOLEAN, fresh => seen = now,
           now => v \in Sandboxed, value => v \in Sandboxed,
           told' = [told EXCEPT ![v] = IF fresh \/ v \notin Sandboxed THEN Access(value) ELSE "raced"]
    PROVE  /\ Written(seen, value, now) => v \in Sandboxed
           /\ told'[v] \in {Access(Written(seen, value, now)), "raced"}
           /\ told' \in [Versions -> {"on", "off", "raced"}]
           /\ \A w \in Versions \ {v} : told'[w] = told[w]
<1>1. Written(seen, value, now) => v \in Sandboxed
  BY DEF Written
<1>2. told'[v] = IF fresh \/ v \notin Sandboxed THEN Access(value) ELSE "raced"
  BY DEF TypeOK
<1>3. told'[v] \in {Access(Written(seen, value, now)), "raced"}
  <2>1. CASE v \notin Sandboxed
    BY <1>2, <2>1 DEF Written, Access
  <2>2. CASE fresh
    BY <1>2, <2>2 DEF Written, Access
  <2>3. CASE v \in Sandboxed /\ ~fresh
    BY <1>2, <2>3
  <2> QED
    BY <2>1, <2>2, <2>3
<1>4. /\ told' \in [Versions -> {"on", "off", "raced"}]
      /\ \A w \in Versions \ {v} : told'[w] = told[w]
  BY DEF TypeOK, Access
<1> QED
  BY <1>1, <1>3, <1>4

LEMMA ApproveKeeps ==
    ASSUME ReleaseInv, NEW r \in Requests, NEW payload \in BOOLEAN \cup {None}, Approve(r, payload)
    PROVE  ReleaseInv'
<1> DEFINE v == request[r].version
           value == Granted(r, payload)
<1>1. /\ TypeOK /\ v \in Versions /\ version[v] \in Row /\ v \in Rows
      /\ request[r] # Idle /\ request[r].op = "approve" /\ request[r].step = "checked"
      /\ request' = Outdated(r, v)
      /\ UNCHANGED <<skill, upload, store, env, endpoint, deletion, prepared>>
  BY RowIsRow DEF Approve, ReleaseInv, Rows, Idle
<1>2. /\ RowMoves(v)
      /\ version'[v].status = "PUBLISHED" /\ version'[v].published
      /\ value \in BOOLEAN
      /\ version'[v].network = Written(request[r].network, value, version[v].network)
      /\ told' = [told EXCEPT ![v] = IF request[r].fresh \/ v \notin Sandboxed
                                     THEN Access(value) ELSE "raced"]
  BY <1>1, ApproveMoves
<1>3. /\ Bound(v) => prepared[v]
      /\ request[r].fresh => request[r].network = version[v].network
  BY <1>1 DEF ReleaseInv, ReadingsHold
<1>4. request[r].fresh \in BOOLEAN
  BY <1>1, ReadingIsReading DEF Reading
<1>5. value => v \in Sandboxed
  BY DEF Granted
<1> HIDE DEF v, value
<1>6. /\ version[v].network \in BOOLEAN /\ (version[v].network => v \in Sandboxed)
      /\ prepared \in [Versions -> BOOLEAN]
  BY <1>1 DEF ReleaseInv, NetworkAsTold, TypeOK, Row
<1>7. /\ version'[v].network => v \in Sandboxed
      /\ told'[v] \in {Access(version'[v].network), "raced"}
      /\ told' \in [Versions -> {"on", "off", "raced"}]
      /\ \A w \in Versions \ {v} : told'[w] = told[w]
  <2> DEFINE fresh == request[r].fresh
             seen == request[r].network
             now == version[v].network
  <2>1. /\ fresh \in BOOLEAN /\ now \in BOOLEAN /\ (fresh => seen = now)
        /\ (now => v \in Sandboxed) /\ (value => v \in Sandboxed)
        /\ told' = [told EXCEPT ![v] = IF fresh \/ v \notin Sandboxed THEN Access(value) ELSE "raced"]
        /\ version'[v].network = Written(seen, value, now)
    BY <1>1, <1>2, <1>3, <1>4, <1>5, <1>6
  <2> HIDE DEF fresh, seen, now
  <2>2. /\ Written(seen, value, now) => v \in Sandboxed
        /\ told'[v] \in {Access(Written(seen, value, now)), "raced"}
        /\ told' \in [Versions -> {"on", "off", "raced"}]
        /\ \A w \in Versions \ {v} : told'[w] = told[w]
    BY <1>1, <1>2, <2>1, TellsTheAccess, ZenonT(40)
  <2> QED
    BY <2>1, <2>2, Zenon
<1> QED
  BY <1>1, <1>2, <1>3, <1>6, <1>7, DecisionKeeps DEF v

LEMMA SetNetworkKeeps ==
    ASSUME ReleaseInv, NEW r \in Requests, NEW enabled \in BOOLEAN, SetNetwork(r, enabled)
    PROVE  ReleaseInv'
<1> DEFINE v == request[r].version
<1>1. /\ TypeOK /\ v \in Versions /\ version[v] \in Row /\ v \in Rows
      /\ request[r] # Idle /\ request[r].op = "network"
      /\ request' = Outdated(r, v)
      /\ enabled => v \in Sandboxed
      /\ UNCHANGED <<skill, upload, store, env, endpoint, deletion, prepared>>
  BY RowIsRow DEF SetNetwork, ReleaseInv, Rows, Idle
<1>2. /\ RowMoves(v)
      /\ version'[v].status = version[v].status
      /\ version'[v].published = version[v].published
      /\ version'[v].network = Written(request[r].network, enabled, version[v].network)
      /\ told' = [told EXCEPT ![v] = IF request[r].fresh \/ v \notin Sandboxed
                                     THEN Access(enabled) ELSE "raced"]
  BY <1>1, SetNetworkMoves
<1>3. request[r].fresh => request[r].network = version[v].network
  BY <1>1 DEF ReleaseInv, ReadingsHold
<1>4. request[r].fresh \in BOOLEAN
  BY <1>1, ReadingIsReading DEF Reading
<1> HIDE DEF v
<1>5. /\ version[v].network \in BOOLEAN /\ (version[v].network => v \in Sandboxed)
      /\ prepared \in [Versions -> BOOLEAN]
      /\ version[v].status = "PUBLISHED" => version[v].published
      /\ version[v].status # "READY" /\ Bound(v) /\ env[version[v].env] = "ready" => prepared[v]
      /\ version[v].published /\ Bound(v) => prepared[v]
  BY <1>1 DEF ReleaseInv, NetworkAsTold, OpenedWasPublished, Runnable, StatusTells, PublishedWasPrepared, TypeOK, Row
<1>6. /\ version'[v].network => v \in Sandboxed
      /\ told'[v] \in {Access(version'[v].network), "raced"}
      /\ told' \in [Versions -> {"on", "off", "raced"}]
      /\ \A w \in Versions \ {v} : told'[w] = told[w]
  <2> DEFINE fresh == request[r].fresh
             seen == request[r].network
             now == version[v].network
  <2>1. /\ fresh \in BOOLEAN /\ now \in BOOLEAN /\ (fresh => seen = now)
        /\ (now => v \in Sandboxed) /\ (enabled => v \in Sandboxed)
        /\ told' = [told EXCEPT ![v] = IF fresh \/ v \notin Sandboxed THEN Access(enabled) ELSE "raced"]
        /\ version'[v].network = Written(seen, enabled, now)
    BY <1>1, <1>2, <1>3, <1>4, <1>5
  <2> HIDE DEF fresh, seen, now
  <2>2. /\ Written(seen, enabled, now) => v \in Sandboxed
        /\ told'[v] \in {Access(Written(seen, enabled, now)), "raced"}
        /\ told' \in [Versions -> {"on", "off", "raced"}]
        /\ \A w \in Versions \ {v} : told'[w] = told[w]
    BY <1>1, <1>2, <2>1, TellsTheAccess, ZenonT(40)
  <2> QED
    BY <2>1, <2>2, Zenon
<1> QED
  BY <1>1, <1>2, <1>5, <1>6, DecisionKeeps DEF v

-----------------------------------------------------------------------------
(* The uploads.                                                            *)

\* One upload moves, its row is not there and nothing else changes but the store.
LEMMA UploadMoves ==
    ASSUME ReleaseInv, NEW v \in Versions, NEW u \in Uploading, upload' = [upload EXCEPT ![v] = u],
           v \notin Rows, u.phase \in {"picked", "stored"} => u.number \in Numbers,
           u.phase = "stored" =>
              /\ v \in store' /\ skill # "gone" /\ NumberFree(u.number)
              /\ \A w \in Versions \ {v} : upload[w].phase = "stored" => upload[w].number # u.number,
           store \subseteq store', store' \subseteq Versions,
           UNCHANGED <<skill, version, env, endpoint, request, deletion, told, prepared>>
    PROVE  ReleaseInv'
<1>1. /\ upload'[v] = u /\ \A w \in Versions \ {v} : upload'[w] = upload[w]
      /\ upload' \in [Versions -> Uploading]
  BY DEF ReleaseInv, TypeOK, Uploading
<1>2. Rows' = Rows /\ Rows \subseteq Versions
  BY DEF Rows
<1>3. TypeOK'
  BY <1>1 DEF ReleaseInv, TypeOK, Uploading
<1>4. UploadsReserve'
  <2>1. \A w \in Rows : upload'[w].phase = "over"
    BY <1>1, <1>2 DEF ReleaseInv, UploadsReserve
  <2>2. \A w \in Versions : upload'[w].phase \in {"picked", "stored"} => upload'[w].number \in Numbers
    BY <1>1 DEF ReleaseInv, UploadsReserve
  <2>3. ASSUME NEW w \in Versions, upload'[w].phase = "stored"
        PROVE  /\ w \in store' /\ skill # "gone" /\ NumberFree(upload'[w].number)
               /\ \A x \in Versions \ {w} :
                     upload'[x].phase = "stored" => upload'[x].number # upload'[w].number
    <3>1. CASE w = v
      BY <1>1, <2>3, <3>1
    <3>2. CASE w # v
      BY <1>1, <2>3, <3>2 DEF ReleaseInv, UploadsReserve
    <3> QED
      BY <3>1, <3>2
  <2> QED
    BY <1>2, <2>1, <2>2, <2>3 DEF UploadsReserve, NumberFree
<1>5. /\ GoneIsEmpty' /\ StatusTells' /\ NumbersDiffer' /\ PackagesKept' /\ OpenedWasPublished'
      /\ PublishedWasPrepared' /\ NetworkAsTold'
  BY <1>2 DEF ReleaseInv, GoneIsEmpty, StatusTells, NumbersDiffer, PackagesKept, OpenedWasPublished, Runnable,
              PublishedWasPrepared, NetworkAsTold, Bound
<1>6. ReadingsHold'
  BY <1>2 DEF ReleaseInv, ReadingsHold, Bound
<1> QED
  BY <1>3, <1>4, <1>5, <1>6 DEF ReleaseInv

LEMMA PickNumberKeeps ==
    ASSUME ReleaseInv, NEW v \in Versions, NEW n \in Numbers, PickNumber(v, n) PROVE ReleaseInv'
<1> DEFINE u == [phase |-> "picked", number |-> n]
<1>1. /\ upload' = [upload EXCEPT ![v] = u] /\ upload[v].phase = "none"
      /\ UNCHANGED <<skill, version, store, env, endpoint, request, deletion, told, prepared>>
  BY DEF PickNumber
<1>2. v \notin Rows /\ store \subseteq Versions
  BY <1>1 DEF ReleaseInv, UploadsReserve, TypeOK
<1>3. u \in Uploading /\ u.phase = "picked" /\ u.number \in Numbers
  BY DEF Uploading
<1> HIDE DEF u
<1> QED
  BY <1>1, <1>2, <1>3, UploadMoves

LEMMA StorePackageKeeps ==
    ASSUME ReleaseInv, NEW v \in Versions, StorePackage(v) PROVE ReleaseInv'
<1> DEFINE u == [upload[v] EXCEPT !.phase = "stored"]
<1>1. /\ upload' = [upload EXCEPT ![v].phase = "stored"] /\ upload[v].phase = "picked"
      /\ skill # "gone" /\ NumberFree(upload[v].number) /\ store' = store \cup {v}
      /\ \A w \in Versions \ {v} : ~(/\ upload[w].phase = "stored"
                                     /\ upload[w].number = upload[v].number)
      /\ UNCHANGED <<skill, version, env, endpoint, request, deletion, told, prepared>>
  BY DEF StorePackage
<1>2. /\ v \notin Rows /\ store \subseteq Versions /\ upload[v].number \in Numbers
      /\ upload[v] \in Uploading
  BY <1>1 DEF ReleaseInv, UploadsReserve, TypeOK, Uploading
<1>3. u \in Uploading /\ u.phase = "stored" /\ u.number = upload[v].number
  BY <1>2 DEF Uploading
<1>4. upload' = [upload EXCEPT ![v] = u]
  BY <1>1
<1> HIDE DEF u
<1> QED
  BY <1>1, <1>2, <1>3, <1>4, UploadMoves

LEMMA EndUploadKeeps ==
    ASSUME ReleaseInv, NEW v \in Versions, EndUpload(v) PROVE ReleaseInv'
<1> DEFINE u == [phase |-> "over", number |-> None]
<1>1. /\ upload' = [upload EXCEPT ![v] = u] /\ upload[v].phase \in {"picked", "stored"}
      /\ UNCHANGED <<skill, version, store, env, endpoint, request, deletion, told, prepared>>
  BY DEF EndUpload
<1>2. v \notin Rows /\ store \subseteq Versions
  BY <1>1 DEF ReleaseInv, UploadsReserve, TypeOK
<1>3. u \in Uploading /\ u.phase = "over"
  BY DEF Uploading
<1> HIDE DEF u
<1> QED
  BY <1>1, <1>2, <1>3, UploadMoves

LEMMA CommitUploadKeeps ==
    ASSUME ReleaseInv, NEW v \in Versions, NEW e \in Environments \cup {None}, CommitUpload(v, e)
    PROVE  ReleaseInv'
<1> DEFINE row == [status |-> "READY", number |-> upload[v].number,
                   network |-> FALSE, published |-> FALSE, env |-> e]
           u == [phase |-> "over", number |-> None]
<1>1. /\ upload[v].phase = "stored"
      /\ version' = [version EXCEPT ![v] = row]
      /\ upload' = [upload EXCEPT ![v] = u]
      /\ \/ e # None /\ env[e] \in {"absent", "failed"} /\ env' = [env EXCEPT ![e] = "queued"]
         \/ e # None /\ env[e] = "absent" /\ env' = [env EXCEPT ![e] = "failed"]
         \/ (e # None => env[e] # "absent") /\ UNCHANGED env
      /\ UNCHANGED <<skill, store, endpoint, request, deletion, told, prepared>>
  BY DEF CommitUpload
<1>2. /\ TypeOK /\ v \notin Rows /\ v \in store /\ skill # "gone"
      /\ upload[v].number \in Numbers
      /\ \A w \in Rows : version[w].number # upload[v].number
      /\ \A w \in Versions \ {v} :
            upload[w].phase = "stored" => upload[w].number # upload[v].number
      /\ told[v] = "off"
  BY <1>1 DEF ReleaseInv, UploadsReserve, NumberFree, GoneIsEmpty
<1>3. /\ row \in Row /\ row.status = "READY" /\ row.number = upload[v].number
      /\ ~row.network /\ ~row.published /\ row.env = e
  BY <1>2 DEF Row, Status
<1>4. u \in Uploading /\ u.phase = "over"
  BY DEF Uploading
<1>5. /\ version \in [Versions -> {NoRow} \cup Row]
      /\ upload \in [Versions -> Uploading]
  BY <1>2 DEF TypeOK, Row, Uploading
<1> HIDE DEF row, u, Row, NoRow, Uploading
<1>6. /\ version'[v] = row /\ \A w \in Versions \ {v} : version'[w] = version[w]
      /\ version' \in [Versions -> {NoRow} \cup Row]
      /\ upload'[v] = u /\ \A w \in Versions \ {v} : upload'[w] = upload[w]
      /\ upload' \in [Versions -> Uploading]
  BY <1>1, <1>3, <1>4, <1>5
<1>7. Rows' = Rows \cup {v} /\ Rows \subseteq Versions
  BY <1>3, <1>6, RowIsNotNoRow DEF Rows
<1>8. /\ env' \in [Environments -> EnvStatus]
      /\ \A d \in Environments : env'[d] = "ready" => env[d] = "ready"
  BY <1>1, <1>2 DEF TypeOK, EnvStatus
<1>9. TypeOK'
  BY <1>1, <1>2, <1>6, <1>8 DEF TypeOK, Row, Uploading
<1>10. UploadsReserve'
  <2>1. \A w \in Rows' : upload'[w].phase = "over"
    BY <1>4, <1>6, <1>7 DEF ReleaseInv, UploadsReserve
  <2>2. \A w \in Versions : upload'[w].phase \in {"picked", "stored"} => upload'[w].number \in Numbers
    BY <1>4, <1>6 DEF ReleaseInv, UploadsReserve
  <2>3. ASSUME NEW w \in Versions, upload'[w].phase = "stored"
        PROVE  /\ w \in store' /\ skill' # "gone"
               /\ \A x \in Rows' : version'[x].number # upload'[w].number
               /\ \A x \in Versions \ {w} :
                     upload'[x].phase = "stored" => upload'[x].number # upload'[w].number
    <3>1. w # v /\ upload'[w] = upload[w]
      BY <1>4, <1>6, <2>3
    <3>2. /\ w \in store
          /\ \A x \in Rows : version[x].number # upload[w].number
          /\ \A x \in Versions \ {w} :
                     upload[x].phase = "stored" => upload[x].number # upload[w].number
      BY <2>3, <3>1 DEF ReleaseInv, UploadsReserve, NumberFree
    <3>3. \A x \in Rows' : version'[x].number # upload'[w].number
      BY <1>2, <1>3, <1>6, <1>7, <2>3, <3>1, <3>2
    <3> QED
      BY <1>1, <1>2, <1>4, <1>6, <3>1, <3>2, <3>3
  <2> QED
    BY <2>1, <2>2, <2>3 DEF UploadsReserve, NumberFree
<1>11. /\ GoneIsEmpty' /\ PackagesKept'
  BY <1>1, <1>2, <1>7 DEF ReleaseInv, GoneIsEmpty, PackagesKept
<1>12. NumbersDiffer'
  BY <1>2, <1>3, <1>6, <1>7 DEF ReleaseInv, NumbersDiffer
<1>13. ASSUME NEW w \in Rows'
       PROVE  /\ version'[w].published /\ version'[w].env # None => prepared'[w]
              /\ version'[w].status = "PUBLISHED" => version'[w].published
              /\ version'[w].status # "READY" /\ version'[w].env # None
                     /\ env'[version'[w].env] = "ready" => prepared'[w]
              /\ version'[w].network => w \in Sandboxed
              /\ told'[w] \in {Access(version'[w].network), "raced"}
  <2>1. CASE w = v
    BY <1>1, <1>2, <1>3, <1>6, <2>1 DEF Access
  <2>2. CASE w # v
    <3>1. w \in Rows /\ version'[w] = version[w] /\ version[w] \in Row
      BY <1>2, <1>6, <1>7, <2>2, RowIsRow
    <3>2. /\ version[w].published /\ version[w].env # None => prepared[w]
          /\ version[w].status = "PUBLISHED" => version[w].published
          /\ version[w].status # "READY" /\ version[w].env # None
                 /\ env[version[w].env] = "ready" => prepared[w]
          /\ version[w].network => w \in Sandboxed
          /\ told[w] \in {Access(version[w].network), "raced"}
      BY <3>1 DEF ReleaseInv, OpenedWasPublished, Runnable, PublishedWasPrepared, StatusTells,
                  NetworkAsTold, Bound
    <3>3. version[w].env # None => version[w].env \in Environments
      BY <3>1 DEF Row
    <3> QED
      BY <1>1, <1>8, <3>1, <3>2, <3>3
  <2> QED
    BY <2>1, <2>2
<1>14. StatusTells' /\ PublishedWasPrepared' /\ NetworkAsTold'
  BY <1>13 DEF StatusTells, PublishedWasPrepared, NetworkAsTold, Bound
<1>15. OpenedWasPublished'
  BY <1>1, <1>2, <1>6, <1>7, <1>13 DEF ReleaseInv, OpenedWasPublished, Runnable
<1>16. ReadingsHold'
  <2>1. ASSUME NEW r \in Requests, request[r] # Idle
        PROVE  request[r].version \in Rows /\ request[r].version # v
    BY <1>2, <2>1 DEF ReleaseInv, ReadingsHold
  <2>2. ASSUME NEW r \in Requests, request[r] # Idle
        PROVE  version'[request[r].version] = version[request[r].version]
    BY <2>1, <2>2, <1>6, <1>7
  <2> QED
    BY <1>1, <1>7, <2>1, <2>2 DEF ReleaseInv, ReadingsHold, Bound
<1> QED
  BY <1>9, <1>10, <1>11, <1>12, <1>15, <1>14, <1>16 DEF ReleaseInv

-----------------------------------------------------------------------------
(* The readings, and what is opened with them.                             *)

\* What ReadingsHold says of one reading.
Holds(x) ==
    /\ skill # "gone" => x.version \in Rows
    /\ x.version \in Rows =>
        /\ x.op \in {"public", "deploy"} => version[x.version].published
        /\ x.op \in Judging /\ x.fresh => version[x.version].status \in Asked(x.op)
        /\ x.op \in {"approve", "network"} /\ x.fresh => x.network = version[x.version].network
        /\ x.op \in {"approve", "reject"} => version[x.version].status # "READY"
        /\ x.op = "approve" /\ x.step = "checked" /\ Bound(x.version) => prepared[x.version]

LEMMA HoldsIsReadingsHold ==
    /\ ReadingsHold <=> \A r \in Requests : request[r] # Idle => Holds(request[r])
    /\ ReadingsHold' <=> \A r \in Requests : request'[r] # Idle => (Holds(request[r]))'
BY Zenon DEF ReadingsHold, Holds

\* One request reads, checks or is over; nothing else changes but what it opens.
LEMMA RequestMoves ==
    ASSUME ReleaseInv, NEW r \in Requests, NEW x \in Reading \cup {Idle},
           request' = [request EXCEPT ![r] = x], x # Idle => Holds(x),
           skill' \in {"private", "public", "gone"}, endpoint' \in SUBSET Versions,
           skill' = "gone" <=> skill = "gone",
           \A v \in Runnable \cup endpoint' : v \in Rows /\ version[v].published,
           UNCHANGED <<version, upload, store, env, deletion, told, prepared>>
    PROVE  ReleaseInv'
<1>1. request \in [Requests -> {Idle} \cup Reading]
  BY DEF ReleaseInv, TypeOK, Reading
<1>2. /\ request'[r] = x /\ \A q \in Requests \ {r} : request'[q] = request[q]
      /\ request' \in [Requests -> {Idle} \cup Reading]
  <2> HIDE DEF Idle, Reading
  <2> QED
    BY <1>1
<1>3. Rows' = Rows /\ Rows \subseteq Versions
  BY DEF Rows
<1>4. TypeOK'
  BY <1>2 DEF ReleaseInv, TypeOK, Reading
<1>5. ReadingsHold'
  <2>1. ASSUME NEW q \in Requests, request'[q] # Idle
        PROVE  (Holds(request[q]))'
    <3>1. Holds(request'[q])
      <4>1. CASE q = r
        BY <1>2, <2>1, <4>1
      <4>2. CASE q # r
        <5>1. request'[q] = request[q] /\ Holds(request[q])
          BY <1>2, <2>1, <4>2, HoldsIsReadingsHold DEF ReleaseInv
        <5> QED
          BY <5>1
      <4> QED
        BY <4>1, <4>2
    <3> QED
      BY <1>3, <3>1 DEF Holds, Bound
  <2> QED
    BY <2>1, HoldsIsReadingsHold
<1>6. /\ UploadsReserve' /\ GoneIsEmpty' /\ StatusTells' /\ NumbersDiffer' /\ PackagesKept'
      /\ PublishedWasPrepared' /\ NetworkAsTold'
  BY <1>3 DEF ReleaseInv, UploadsReserve, NumberFree, GoneIsEmpty, StatusTells, NumbersDiffer,
              PackagesKept, PublishedWasPrepared, NetworkAsTold, Bound
<1>7. OpenedWasPublished'
  BY <1>3 DEF OpenedWasPublished, Runnable
<1> QED
  BY <1>4, <1>5, <1>6, <1>7 DEF ReleaseInv

LEMMA ReadKeeps ==
    ASSUME ReleaseInv, NEW r \in Requests, NEW op \in Op, NEW v \in Versions, Read(r, op, v)
    PROVE  ReleaseInv'
<1> DEFINE x == [op |-> op, version |-> v, step |-> "read", fresh |-> TRUE,
                 network |-> op \in {"approve", "network"} /\ version[v].network]
<1>1. /\ v \in Rows /\ version[v].status \in Asked(op)
      /\ request' = [request EXCEPT ![r] = x]
      /\ UNCHANGED <<skill, version, upload, store, env, endpoint, deletion, told, prepared>>
  BY DEF Read
<1>2. version[v] \in Row
  BY <1>1, RowIsRow DEF ReleaseInv
<1>3. /\ x.version = v /\ x.op = op /\ x.step = "read" /\ x.fresh
      /\ op \in {"approve", "network"} => x.network = version[v].network
      /\ x \in Reading
  <2>1. version[v].network \in BOOLEAN
    BY <1>2 DEF Row
  <2>2. (op \in {"approve", "network"} /\ version[v].network) \in BOOLEAN
    OBVIOUS
  <2>3. op \in {"approve", "network"} =>
            (op \in {"approve", "network"} /\ version[v].network) = version[v].network
    BY <2>1
  <2>4. x \in Reading
    BY <2>2 DEF Reading
  <2> QED
    BY <2>3, <2>4
<1> HIDE DEF x
<1>4. /\ op \in {"public", "deploy"} => version[v].published
      /\ op \in {"approve", "reject"} => version[v].status # "READY"
  BY <1>1 DEF ReleaseInv, OpenedWasPublished, Runnable, Asked, Pending
<1>5. Holds(x)
  BY <1>1, <1>3, <1>4 DEF Holds
<1>6. /\ skill \in {"private", "public", "gone"} /\ endpoint \in SUBSET Versions
      /\ \A w \in Runnable \cup endpoint : w \in Rows /\ version[w].published
  BY DEF ReleaseInv, TypeOK, OpenedWasPublished, Runnable
<1> QED
  BY <1>1, <1>3, <1>5, <1>6, RequestMoves

LEMMA CheckEnvironmentKeeps ==
    ASSUME ReleaseInv, NEW r \in Requests, CheckEnvironment(r) PROVE ReleaseInv'
<1> DEFINE x == [request[r] EXCEPT !.step = "checked"]
<1>1. /\ request[r].op \in {"submit", "approve"} /\ request[r].version \in Rows
      /\ EnvironmentReady(request[r].version)
      /\ request' = [request EXCEPT ![r].step = "checked"]
      /\ UNCHANGED <<skill, version, upload, store, env, endpoint, deletion, told, prepared>>
  BY DEF CheckEnvironment
<1>2. request[r] # Idle
  BY <1>1 DEF Idle
<1>3. request[r] \in Reading /\ Holds(request[r])
  BY <1>2, ReadingIsReading, HoldsIsReadingsHold DEF ReleaseInv
<1>4. /\ x \in Reading
      /\ x.op = request[r].op /\ x.version = request[r].version
      /\ x.fresh = request[r].fresh /\ x.network = request[r].network
  BY <1>3 DEF Reading
<1>5. request' = [request EXCEPT ![r] = x]
  BY <1>1
<1> HIDE DEF x
<1>6. x.op = "approve" /\ Bound(x.version) => prepared[x.version]
  BY <1>1, <1>3, <1>4 DEF ReleaseInv, StatusTells, Holds, EnvironmentReady
<1>7. Holds(x)
  BY <1>3, <1>4, <1>6 DEF Holds
<1>8. /\ skill \in {"private", "public", "gone"} /\ endpoint \in SUBSET Versions
      /\ \A w \in Runnable \cup endpoint : w \in Rows /\ version[w].published
  BY DEF ReleaseInv, TypeOK, OpenedWasPublished, Runnable
<1> QED
  BY <1>1, <1>4, <1>5, <1>7, <1>8, RequestMoves

LEMMA OpenKeeps ==
    ASSUME ReleaseInv, NEW r \in Requests, MakePublic(r) \/ Deploy(r) \/ Drop(r) PROVE ReleaseInv'
<1> DEFINE v == request[r].version
<1>1. /\ request' = [request EXCEPT ![r] = Idle]
      /\ UNCHANGED <<version, upload, store, env, deletion, told, prepared>>
  BY DEF MakePublic, Deploy, Drop
<1>2. /\ skill \in {"private", "public", "gone"} /\ endpoint \in SUBSET Versions
      /\ \A w \in Runnable \cup endpoint : w \in Rows /\ version[w].published
  BY DEF ReleaseInv, TypeOK, OpenedWasPublished, Runnable
<1>3. CASE MakePublic(r)
  <2>1. skill # "gone" /\ skill' = "public" /\ endpoint' = endpoint /\ request[r].op = "public"
    BY <1>3 DEF MakePublic
  <2> QED
    BY <1>1, <1>2, <2>1, RequestMoves
<1>4. CASE Deploy(r)
  <2>1. v \in Rows /\ endpoint' = endpoint \cup {v} /\ skill' = skill /\ request[r].op = "deploy"
    BY <1>4 DEF Deploy
  <2>2. version[v].published /\ v \in Versions
    BY <2>1 DEF ReleaseInv, ReadingsHold, Idle, Rows
  <2> QED
    BY <1>1, <1>2, <2>1, <2>2, RequestMoves
<1>5. CASE Drop(r)
  BY <1>1, <1>2, <1>5, RequestMoves DEF Drop
<1> QED
  BY <1>3, <1>4, <1>5

LEMMA WithdrawKeeps == ASSUME ReleaseInv, Withdraw PROVE ReleaseInv'
<1>1. /\ skill = "public" /\ skill' = "private"
      /\ UNCHANGED <<version, upload, store, env, endpoint, request, deletion, told, prepared>>
  BY DEF Withdraw
<1>2. Rows' = Rows
  BY <1>1 DEF Rows
<1>3. TypeOK'
  BY <1>1 DEF ReleaseInv, TypeOK
<1>4. UploadsReserve' /\ GoneIsEmpty' /\ OpenedWasPublished'
  BY <1>1, <1>2 DEF ReleaseInv, UploadsReserve, NumberFree, GoneIsEmpty, OpenedWasPublished, Runnable
<1>5. StatusTells' /\ NumbersDiffer' /\ PackagesKept' /\ PublishedWasPrepared' /\ NetworkAsTold'
  BY <1>1, <1>2 DEF ReleaseInv, StatusTells, NumbersDiffer, PackagesKept, PublishedWasPrepared,
                    NetworkAsTold, Bound
<1>6. ReadingsHold'
  BY <1>1, <1>2 DEF ReleaseInv, ReadingsHold, Bound
<1> QED
  BY <1>3, <1>4, <1>5, <1>6 DEF ReleaseInv

-----------------------------------------------------------------------------
(* The deletion and the environments.                                      *)

LEMMA ListPackagesKeeps == ASSUME ReleaseInv, ListPackages \/ DeletionFails PROVE ReleaseInv'
<1>1. /\ deletion.phase # "committed" /\ deletion'.phase # "committed"
      /\ deletion' \in [phase : {"idle", "listed", "committed"}, paths : SUBSET Versions]
      /\ UNCHANGED <<skill, version, upload, store, env, endpoint, request, told, prepared>>
  BY DEF ListPackages, DeletionFails, Rows
<1>2. Rows' = Rows
  BY <1>1 DEF Rows
<1>3. TypeOK'
  BY <1>1 DEF ReleaseInv, TypeOK
<1>4. UploadsReserve' /\ GoneIsEmpty' /\ OpenedWasPublished'
  BY <1>1, <1>2 DEF ReleaseInv, UploadsReserve, NumberFree, GoneIsEmpty, OpenedWasPublished, Runnable
<1>5. StatusTells' /\ NumbersDiffer' /\ PackagesKept' /\ PublishedWasPrepared' /\ NetworkAsTold'
  BY <1>1, <1>2 DEF ReleaseInv, StatusTells, NumbersDiffer, PackagesKept, PublishedWasPrepared,
                    NetworkAsTold, Bound
<1>6. ReadingsHold'
  BY <1>1, <1>2 DEF ReleaseInv, ReadingsHold, Bound
<1> QED
  BY <1>3, <1>4, <1>5, <1>6 DEF ReleaseInv

LEMMA DeleteRowsKeeps == ASSUME ReleaseInv, DeleteRows PROVE ReleaseInv'
<1>1. /\ \A v \in Versions : upload[v].phase # "stored"
      /\ skill' = "gone" /\ endpoint' = {}
      /\ version' = [v \in Versions |-> NoRow]
      /\ deletion' = [deletion EXCEPT !.phase = "committed"]
      /\ told' = [v \in Versions |-> "off"]
      /\ prepared' = [v \in Versions |-> FALSE]
      /\ UNCHANGED <<upload, store, env, request>>
  BY DEF DeleteRows
<1>2. Rows' = {}
  BY <1>1 DEF Rows
<1>3. /\ deletion' \in [phase : {"idle", "listed", "committed"}, paths : SUBSET Versions]
      /\ deletion'.phase = "committed"
  BY <1>1 DEF ReleaseInv, TypeOK
<1>4. TypeOK'
  <2>1. version' \in [Versions -> {NoRow}]
    BY <1>1, Zenon
  <2> HIDE DEF NoRow
  <2> QED
    BY <1>1, <1>3, <2>1 DEF ReleaseInv, TypeOK
<1>5. UploadsReserve'
  BY <1>1, <1>2 DEF ReleaseInv, UploadsReserve
<1>6. GoneIsEmpty'
  BY <1>1, <1>2, <1>3 DEF GoneIsEmpty
<1>7. /\ StatusTells' /\ NumbersDiffer' /\ PackagesKept' /\ PublishedWasPrepared' /\ NetworkAsTold'
      /\ OpenedWasPublished'
  BY <1>1, <1>2 DEF StatusTells, NumbersDiffer, PackagesKept, PublishedWasPrepared, NetworkAsTold,
                    OpenedWasPublished, Runnable
<1>8. ReadingsHold'
  BY <1>1, <1>2 DEF ReadingsHold
<1> QED
  BY <1>4, <1>5, <1>6, <1>7, <1>8 DEF ReleaseInv

LEMMA DeletePackageKeeps ==
    ASSUME ReleaseInv, NEW v \in Versions, DeletePackage(v) PROVE ReleaseInv'
<1>1. /\ deletion.phase = "committed" /\ store' \subseteq store
      /\ UNCHANGED <<skill, version, upload, env, endpoint, request, deletion, told, prepared>>
  BY DEF DeletePackage
<1>2. skill = "gone" /\ Rows = {} /\ Rows' = Rows
  BY <1>1 DEF ReleaseInv, GoneIsEmpty, Rows
<1>3. TypeOK'
  BY <1>1 DEF ReleaseInv, TypeOK
<1>4. UploadsReserve' /\ GoneIsEmpty' /\ OpenedWasPublished'
  BY <1>1, <1>2 DEF ReleaseInv, UploadsReserve, NumberFree, GoneIsEmpty, OpenedWasPublished, Runnable
<1>5. StatusTells' /\ NumbersDiffer' /\ PackagesKept' /\ PublishedWasPrepared' /\ NetworkAsTold'
  BY <1>2 DEF StatusTells, NumbersDiffer, PackagesKept, PublishedWasPrepared, NetworkAsTold
<1>6. ReadingsHold'
  BY <1>1, <1>2 DEF ReadingsHold
<1> QED
  BY <1>3, <1>4, <1>5, <1>6 DEF ReleaseInv

LEMMA EnvironmentMovesKeeps ==
    ASSUME ReleaseInv, NEW e \in Environments, NEW from, NEW to \in EnvStatus,
           EnvironmentMoves(e, from, to)
    PROVE  ReleaseInv'
<1>1. /\ env' = [env EXCEPT ![e] = to]
      /\ prepared' = [v \in Versions |->
            \/ prepared[v]
            \/ (to = "ready" /\ WasSubmitted(v) /\ version[v].env = e)]
      /\ UNCHANGED <<skill, version, upload, store, endpoint, request, deletion, told>>
  BY DEF EnvironmentMoves
<1>2. /\ Rows' = Rows /\ Rows \subseteq Versions
      /\ prepared \in [Versions -> BOOLEAN] /\ env \in [Environments -> EnvStatus]
  BY <1>1 DEF Rows, ReleaseInv, TypeOK
<1>3. prepared' \in [Versions -> BOOLEAN]
  <2>1. \A v \in Versions :
           (prepared[v] \/ (to = "ready" /\ WasSubmitted(v) /\ version[v].env = e)) \in BOOLEAN
    OBVIOUS
  <2> QED
    BY <1>1, <2>1
<1>4. \A v \in Versions : prepared[v] => prepared'[v]
  BY <1>1
<1>5. \A v \in Rows : to = "ready" /\ version[v].status # "READY" /\ version[v].env = e => prepared'[v]
  BY <1>1, <1>2 DEF WasSubmitted
<1>6. /\ env' \in [Environments -> EnvStatus]
      /\ \A d \in Environments : env'[d] = IF d = e THEN to ELSE env[d]
  BY <1>1, <1>2
<1>7. TypeOK'
  BY <1>1, <1>3, <1>6 DEF ReleaseInv, TypeOK
<1>8. ASSUME NEW v \in Rows
      PROVE  version[v].status # "READY" /\ version[v].env # None
                   /\ env'[version[v].env] = "ready" => prepared'[v]
  <2>1. version[v].status # "READY" /\ version[v].env # None
              /\ env[version[v].env] = "ready" => prepared[v]
    BY DEF ReleaseInv, StatusTells, Bound
  <2>2. version[v].env # None => version[v].env \in Environments
    BY RowIsRow DEF ReleaseInv, Row
  <2> QED
    BY <1>2, <1>4, <1>5, <1>6, <2>1, <2>2
<1>9. StatusTells'
  BY <1>1, <1>2, <1>8 DEF StatusTells, Bound
<1>10. PublishedWasPrepared'
  BY <1>1, <1>2, <1>4 DEF ReleaseInv, PublishedWasPrepared, Bound
<1>11. /\ UploadsReserve' /\ GoneIsEmpty' /\ OpenedWasPublished'
       /\ NumbersDiffer' /\ PackagesKept' /\ NetworkAsTold'
  BY <1>1, <1>2 DEF ReleaseInv, UploadsReserve, NumberFree, GoneIsEmpty, OpenedWasPublished, Runnable,
                    NumbersDiffer, PackagesKept, NetworkAsTold
<1>12. ReadingsHold'
  BY <1>1, <1>2, <1>4 DEF ReleaseInv, ReadingsHold, Bound, Rows
<1> QED
  BY <1>7, <1>9, <1>10, <1>11, <1>12 DEF ReleaseInv

-----------------------------------------------------------------------------
(* The theorems.                                                           *)

LEMMA InvInit == Init => ReleaseInv
<1> SUFFICES ASSUME Init PROVE ReleaseInv
  OBVIOUS
<1>1. Rows = {}
  BY DEF Init, Rows
<1>2. TypeOK
  <2>1. version \in [Versions -> {NoRow}] /\ request \in [Requests -> {Idle}]
    BY Zenon DEF Init
  <2> HIDE DEF NoRow, Idle
  <2> QED
    BY <2>1 DEF Init, TypeOK, EnvStatus
<1>3. UploadsReserve
  BY <1>1 DEF Init, UploadsReserve
<1>4. GoneIsEmpty
  BY <1>1 DEF Init, GoneIsEmpty
<1>5. ReadingsHold
  BY DEF Init, ReadingsHold
<1>6. /\ StatusTells /\ NumbersDiffer /\ PackagesKept /\ OpenedWasPublished
      /\ PublishedWasPrepared /\ NetworkAsTold
  BY <1>1 DEF Init, StatusTells, NumbersDiffer, PackagesKept, OpenedWasPublished, Runnable,
              PublishedWasPrepared, NetworkAsTold
<1> QED
  BY <1>2, <1>3, <1>4, <1>5, <1>6 DEF ReleaseInv

LEMMA InvStep == ReleaseInv /\ [Next]_vars => ReleaseInv'
<1> SUFFICES ASSUME ReleaseInv, [Next]_vars PROVE ReleaseInv'
  OBVIOUS
<1>1. ASSUME NEW v \in Versions, Upload(v) PROVE ReleaseInv'
  BY <1>1, PickNumberKeeps, StorePackageKeeps, CommitUploadKeeps, EndUploadKeeps DEF Upload
<1>2. ASSUME NEW r \in Requests, Decide(r) PROVE ReleaseInv'
  BY <1>2, ReadKeeps, CheckEnvironmentKeeps, SubmitKeeps, ApproveKeeps, RejectKeeps,
     SetNetworkKeeps, OpenKeeps DEF Decide
<1>3. CASE Withdraw
  BY <1>3, WithdrawKeeps
<1>4. CASE Delete
  BY <1>4, ListPackagesKeeps, DeleteRowsKeeps, DeletePackageKeeps DEF Delete
<1>5. ASSUME NEW e \in Environments, Built(e) \/ Retry(e) \/ Revoke(e) PROVE ReleaseInv'
  BY <1>5, EnvironmentMovesKeeps DEF Built, Retry, Revoke, EnvStatus
<1>6. CASE UNCHANGED vars
  <2>1. Rows' = Rows
    BY <1>6 DEF vars, Rows
  <2> QED
    BY <1>6, <2>1 DEF vars, ReleaseInv, TypeOK, UploadsReserve, NumberFree, GoneIsEmpty, StatusTells,
       ReadingsHold, NumbersDiffer, PackagesKept, OpenedWasPublished, Runnable, PublishedWasPrepared,
       NetworkAsTold, Bound
<1> QED
  BY <1>1, <1>2, <1>3, <1>4, <1>5, <1>6 DEF Next

\* The release of a skill is consistent whatever is uploaded, decided and
\* deleted meanwhile: the numbers differ, every version on record has its
\* package, what is open was published, what is published was prepared, and the
\* audit events tell the network access (routers/skills.py and
\* routers/admin.py).
THEOREM ReleaseInvariant == Spec => []ReleaseInv
BY InvInit, InvStep, PTL DEF Spec

\* A decision on a reading that nobody has overtaken moves the version as the
\* review says.
LEMMA OrderedStep ==
    ASSUME ReleaseInv, Next, NEW v \in Versions, version[v] # NoRow, version'[v] # NoRow,
           version'[v].status # version[v].status
    PROVE  \/ Ordered(version[v].status, version'[v].status)
           \/ \E r \in Requests : /\ request[r].version = v /\ ~request[r].fresh
                                  /\ request'[r] = Idle
<1>1. TypeOK /\ v \in Rows
  BY DEF ReleaseInv, Rows
<1>2. ASSUME NEW r \in Requests, Submit(r) \/ Reject(r) \/ \E payload \in BOOLEAN \cup {None} : Approve(r, payload)
      PROVE  \/ Ordered(version[v].status, version'[v].status)
             \/ request[r].version = v /\ ~request[r].fresh /\ request'[r] = Idle
  <2> DEFINE w == request[r].version
  <2>1. /\ request[r] # Idle /\ w \in Rows /\ w \in Versions /\ request' = Outdated(r, w)
        /\ request[r].op \in {"submit", "reject", "approve"}
    <3>1. /\ w \in Rows /\ request' = Outdated(r, w)
          /\ request[r].op \in {"submit", "reject", "approve"}
      BY <1>2, Zenon DEF Submit, Reject, Approve
    <3>2. request[r] # Idle
      BY <3>1 DEF Idle
    <3> QED
      BY <3>1, <3>2 DEF Rows
  <2>2. request'[r] = Idle
    BY <1>1, <2>1, OutdatedStep
  <2>3. RowMoves(w)
    BY <1>1, <1>2, SubmitMoves, RejectMoves, ApproveMoves
  <2>4. w = v
    BY <2>1, <2>3 DEF RowMoves
  <2>5. request[r].fresh \in BOOLEAN
    BY <1>1, <2>1, ReadingIsReading DEF Reading
  <2>6. request[r].fresh => version[v].status \in Asked(request[r].op)
    BY <2>1, <2>4 DEF ReleaseInv, ReadingsHold, Judging
  <2>7. CASE Submit(r)
    <3>1. version'[v].status = "SUBMITTED" /\ request[r].op = "submit"
      BY <1>1, <2>4, <2>7, SubmitMoves DEF Submit
    <3> QED
      BY <2>2, <2>4, <2>5, <2>6, <3>1 DEF Ordered, Asked, Submittable
  <2>8. CASE Reject(r)
    <3>1. version'[v].status = "REJECTED" /\ request[r].op = "reject"
      BY <1>1, <2>4, <2>8, RejectMoves DEF Reject
    <3> QED
      BY <2>2, <2>4, <2>5, <2>6, <3>1 DEF Ordered, Asked, Pending
  <2>9. ASSUME NEW payload \in BOOLEAN \cup {None}, Approve(r, payload)
        PROVE  \/ Ordered(version[v].status, version'[v].status)
               \/ request[r].version = v /\ ~request[r].fresh /\ request'[r] = Idle
    <3>1. version'[v].status = "PUBLISHED" /\ request[r].op = "approve"
      BY <1>1, <2>4, <2>9, ApproveMoves DEF Approve
    <3> QED
      BY <2>2, <2>4, <2>5, <2>6, <3>1 DEF Ordered, Asked, Pending
  <2> QED
    BY <1>2, <2>7, <2>8, <2>9
<1>3. ASSUME NEW r \in Requests, NEW enabled \in BOOLEAN, SetNetwork(r, enabled) PROVE FALSE
  <2>1. /\ RowMoves(request[r].version)
        /\ version'[request[r].version].status = version[request[r].version].status
    BY <1>1, <1>3, SetNetworkMoves
  <2> QED
    BY <2>1 DEF RowMoves
<1>4. ASSUME NEW w \in Versions, NEW e \in Environments \cup {None}, CommitUpload(w, e) PROVE FALSE
  <2>1. w \notin Rows
    BY <1>4 DEF CommitUpload, ReleaseInv, UploadsReserve
  <2>2. version'[v] = version[v]
    BY <1>1, <1>4, <2>1 DEF CommitUpload, TypeOK
  <2> QED
    BY <2>2
<1>5. ~DeleteRows
  BY DEF DeleteRows
<1>6. version' # version
  OBVIOUS
<1>7. CASE \E w \in Versions : Upload(w)
  BY <1>4, <1>6, <1>7 DEF Upload, PickNumber, StorePackage, EndUpload
<1>8. CASE \E r \in Requests : Decide(r)
  BY <1>2, <1>3, <1>6, <1>8 DEF Decide, Read, CheckEnvironment, MakePublic, Deploy, Drop
<1>9. CASE Delete
  BY <1>5, <1>6, <1>9 DEF Delete, ListPackages, DeletionFails, DeletePackage
<1>10. CASE Withdraw \/ \E e \in Environments : Built(e) \/ Retry(e) \/ Revoke(e)
  BY <1>6, <1>10 DEF Withdraw, Built, Retry, Revoke, EnvironmentMoves
<1> QED
  BY <1>7, <1>8, <1>9, <1>10 DEF Next

LEMMA OpenedStep ==
    ASSUME ReleaseInv, Next, Opened PROVE \E v \in Rows : version[v].published
<1>1. ASSUME NEW r \in Requests, MakePublic(r) PROVE \E v \in Rows : version[v].published
  <2>1. skill # "gone" /\ request[r].op = "public"
    BY <1>1 DEF MakePublic
  <2>2. request[r].version \in Rows /\ version[request[r].version].published
    BY <2>1 DEF ReleaseInv, ReadingsHold, Idle
  <2> QED
    BY <2>2
<1>2. skill' # skill /\ skill' = "public"
  BY DEF Opened
<1>3. CASE \E r \in Requests : Decide(r)
  BY <1>1, <1>2, <1>3 DEF Decide, Read, CheckEnvironment, Submit, Approve, Reject, SetNetwork, Deploy, Drop
<1>4. CASE \E v \in Versions : Upload(v)
  BY <1>2, <1>4 DEF Upload, PickNumber, StorePackage, CommitUpload, EndUpload
<1>5. CASE Delete \/ Withdraw
  BY <1>2, <1>5 DEF Delete, ListPackages, DeleteRows, DeletionFails, DeletePackage, Withdraw
<1>6. CASE \E e \in Environments : Built(e) \/ Retry(e) \/ Revoke(e)
  BY <1>2, <1>6 DEF Built, Retry, Revoke, EnvironmentMoves
<1> QED
  BY <1>3, <1>4, <1>5, <1>6 DEF Next

\* A version moves as the review says, and leaves PUBLISHED never, but for
\* decisions on a reading that was overtaken; and a skill is made PUBLIC only
\* with a published version (routers/skills.py and routers/admin.py).
THEOREM MovesInOrder == Spec => ReviewInOrder
<1> DEFINE Step == /\ \A v \in Versions :
                         Moved(v) => Ordered(version[v].status, version'[v].status) \/ Overtaken(v)
                   /\ Opened => \E v \in Rows : version[v].published
<1>1. ASSUME ReleaseInv, [Next]_vars
      PROVE  [Step]_vars
  <2>1. CASE UNCHANGED vars
    BY <2>1
  <2>2. CASE Next
    <3>1. ASSUME NEW v \in Versions, Moved(v)
          PROVE  Ordered(version[v].status, version'[v].status) \/ Overtaken(v)
      BY <1>1, <2>2, <3>1, OrderedStep, Zenon DEF Moved, Overtaken
    <3>2. Opened => \E v \in Rows : version[v].published
      BY <1>1, <2>2, OpenedStep
    <3> QED
      BY <3>1, <3>2
  <2> QED
    BY <1>1, <2>1, <2>2
<1> QED
  BY <1>1, ReleaseInvariant, PTL DEF Spec, ReviewInOrder
=============================================================================
