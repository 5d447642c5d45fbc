----------------------------- MODULE ModelCatalog -----------------------------
(***************************************************************************)
(* The model connections of the platform: the administrators' requests     *)
(* that create, change, delete them and choose the default of each         *)
(* capability, the seeding of an empty catalog from the deployment's       *)
(* configuration, and the gateway, which reads the catalog twice.          *)
(*                                                                         *)
(* A request normalises the defaults of the catalog its session has read   *)
(* and writes the columns that differ from that reading; it locks nothing. *)
(***************************************************************************)

CONSTANTS
    Models,        \* the names of model connections
    Capabilities,  \* what a model can do; the defaults of each are chosen alike
    Chat,          \* the capability a gateway's own model has
    Requests,      \* the administrators' requests under way at a time
    Seeds,         \* the models of the deployment's configuration
    SeedDefault,   \* and the one it names first
    None

ASSUME SeedAssumption == Chat \in Capabilities /\ SeedDefault \in Seeds /\ Seeds \subseteq Models
ASSUME NoneAssumption == None \notin Models

VARIABLES
    rows,     \* model_connection_configs by name; default: the is_default columns
    request,  \* what each request has read; lost: rows deleted since then
    raced,    \* history: capabilities whose defaults await a repair
    gateway   \* get_model_gateway: its connection's models and its connections

catalogVars == <<rows, request, raced, gateway>>

Row == [enabled : BOOLEAN, caps : (SUBSET Capabilities) \ {{}}, default : SUBSET Capabilities]
NoRow == [enabled |-> FALSE, caps |-> {}, default |-> {}]
Catalog == [Models -> Row \cup {NoRow}]
Empty == [n \in Models |-> NoRow]

Idle == [phase |-> "idle", read |-> Empty, lost |-> {}, fresh |-> TRUE]
NoGateway == [phase |-> "none", own |-> None, models |-> {}, connections |-> {}]

CatalogTypeOK ==
    /\ rows \in Catalog
    /\ request \in [Requests -> [phase : {"idle", "read"}, read : Catalog,
                                 lost : SUBSET Models, fresh : BOOLEAN]]
    /\ raced \in SUBSET Capabilities
    /\ gateway \in [phase : {"none", "one", "two"}, own : Models \cup {None},
                    models : SUBSET Models, connections : SUBSET Models]

CatalogInit ==
    /\ rows = Empty
    /\ request = [r \in Requests |-> Idle]
    /\ raced = {}
    /\ gateway = NoGateway

-----------------------------------------------------------------------------
(* Helpers.  A definition whose comment begins with "Fault" is how the one   *)
(* after it could be wrong; no action uses it.                             *)

Names(catalog) == {n \in Models : catalog[n] # NoRow}
Able(catalog, c) == {n \in Models : catalog[n].enabled /\ c \in catalog[n].caps}
Flagged(catalog, c) == {n \in Models : c \in catalog[n].default}

\* Fault: a model that is flagged stays chosen, enabled or not.
ChosenAsFlagged(catalog, c, preferred) ==
    IF preferred # None THEN {preferred}
    ELSE IF Flagged(catalog, c) # {} THEN Flagged(catalog, c)
    ELSE IF Able(catalog, c) # {} THEN Able(catalog, c)
    ELSE {None}

\* Fault: the flags of the catalog are passed over.
ChosenAnew(catalog, c, preferred) ==
    LET able == Able(catalog, c) IN
    IF preferred \in able THEN {preferred} ELSE IF able # {} THEN able ELSE {None}

\* The default of a capability: the preferred model, else one that is flagged,
\* else the oldest, here any, always of those that are able.
Chosen(catalog, c, preferred) ==
    LET able == Able(catalog, c)
        flagged == able \cap Flagged(catalog, c)
    IN  IF preferred \in able THEN {preferred}
        ELSE IF flagged # {} THEN flagged
        ELSE IF able # {} THEN able
        ELSE {None}

\* The catalog with choice[c] the only default of each c in caps.
WithDefaults(catalog, caps, choice) ==
    [n \in Models |->
        IF catalog[n] = NoRow THEN NoRow
        ELSE [catalog[n] EXCEPT !.default = (@ \ caps) \cup {c \in caps : choice[c] = n}]]

\* _normalize_all_defaults and its parts: what normalising caps makes of a
\* catalog in which the models preferred[c] are asked for.
Normalised(catalog, caps, preferred) ==
    {WithDefaults(catalog, caps, choice) :
        choice \in {f \in [caps -> Models \cup {None}] :
                       \A c \in caps : f[c] \in Chosen(catalog, c, preferred[c])}}

\* ensure_model_connection_rows on an empty catalog.
Seeded ==
    [n \in Models |->
        IF n \notin Seeds THEN NoRow
        ELSE [enabled |-> TRUE, caps |-> {Chat},
              default |-> IF n = SeedDefault THEN {Chat} ELSE {}]]

EnsureRows(catalog) == IF Names(catalog) = {} THEN Seeded ELSE catalog

-----------------------------------------------------------------------------
(* Transactions.                                                           *)

\* The flags of now, with those that differ between read and new written.
Merged(now, read, new) ==
    {c \in Capabilities : IF (c \in read) = (c \in new) THEN c \in now ELSE c \in new}

\* Row n after an update of the columns that differ.
Updated(now, read, new) ==
    [enabled |-> IF read.enabled = new.enabled THEN now.enabled ELSE new.enabled,
     caps |-> IF read.caps = new.caps THEN now.caps ELSE new.caps,
     default |-> Merged(now.default, read.default, new.default)]

\* The transaction of r turns the catalog it has read into new: it inserts,
\* deletes and updates rows, and fails on a name that is taken (the unique
\* constraint) and on a row that is gone.  repaired: what it has normalised.
\* A gateway that was being read or in use is not followed any further.
Commit(r, new, repaired) ==
    LET read == request[r].read
        inserted == Names(new) \ Names(read)
        deleted == Names(read) \ Names(new)
        updated == {n \in Names(read) \cap Names(new) : read[n] # new[n]}
        gone == deleted \cap Names(rows)
    IN
    /\ inserted \cap Names(rows) = {}
    /\ (deleted \cup updated) \cap request[r].lost = {}
    /\ rows' = [n \in Models |->
            CASE n \in deleted -> NoRow
              [] n \in inserted -> new[n]
              [] n \in updated -> Updated(rows[n], read[n], new[n])
              [] OTHER -> rows[n]]
    /\ request' = [q \in Requests |->
            IF q = r \/ request[q].phase = "idle" THEN Idle
            ELSE [request[q] EXCEPT !.fresh = FALSE, !.lost = @ \cup gone]]
    /\ raced' = IF request[r].fresh THEN raced \ repaired ELSE Capabilities
    /\ gateway' = NoGateway

Read(r) ==
    /\ request[r].phase = "idle"
    /\ request' = [request EXCEPT ![r] =
            [phase |-> "read", read |-> rows, lost |-> {}, fresh |-> TRUE]]
    /\ UNCHANGED <<rows, raced, gateway>>

\* What the payload's flags ask for.
Preferred(n, default) == [c \in Capabilities |-> IF c \in default THEN n ELSE None]

\* create_model_connection: a new row may be disabled and flagged all the same.
Create(r, n, row) ==
    LET read == request[r].read
        added == [read EXCEPT ![n] = row]
    IN
    /\ request[r].phase = "read"
    /\ read[n] = NoRow
    /\ row.default \subseteq row.caps
    /\ \E new \in Normalised(added, Capabilities, Preferred(n, row.default)) :
            Commit(r, new, Capabilities)

\* Fault: the defaults are left as they were.
UpdateAlone(r, n, row) ==
    LET read == request[r].read
        default == IF row.enabled THEN row.default ELSE {}
    IN
    /\ request[r].phase = "read"
    /\ read[n] # NoRow
    /\ row.default \subseteq row.caps
    /\ Commit(r, [read EXCEPT ![n] = [row EXCEPT !.default = default]], Capabilities)

\* update_model_connection: a disabled row loses its flags first.
Update(r, n, row) ==
    LET read == request[r].read
        default == IF row.enabled THEN row.default ELSE {}
        changed == [read EXCEPT ![n] = [row EXCEPT !.default = default]]
    IN
    /\ request[r].phase = "read"
    /\ read[n] # NoRow
    /\ row.default \subseteq row.caps
    /\ \E new \in Normalised(changed, Capabilities, Preferred(n, default)) :
            Commit(r, new, Capabilities)

\* set_default_model_connection and set_default_capability_model.
SetDefault(r, n, c) ==
    LET read == request[r].read IN
    /\ request[r].phase = "read"
    /\ n \in Able(read, c)
    /\ \E new \in Normalised(read, {c}, [d \in {c} |-> n]) : Commit(r, new, {c})

\* delete_model_connection: normalised only when the row was a default.
Remove(r, n) ==
    LET read == request[r].read
        left == [read EXCEPT ![n] = NoRow]
    IN
    /\ request[r].phase = "read"
    /\ read[n] # NoRow
    /\ IF read[n].default = {} THEN Commit(r, left, {})
       ELSE \E new \in Normalised(left, Capabilities, Preferred(n, {})) :
                Commit(r, new, Capabilities)

\* list_model_connections commits the rows it has seeded.
Seed(r) ==
    /\ request[r].phase = "read"
    /\ Names(request[r].read) = {}
    /\ Commit(r, Seeded, {})

\* Refused, failed on a constraint, or only a listing.
Drop(r) ==
    /\ request[r].phase = "read"
    /\ request' = [request EXCEPT ![r] = Idle]
    /\ UNCHANGED <<rows, raced, gateway>>

-----------------------------------------------------------------------------
(* get_model_gateway: two sessions, neither of which commits what it seeds. *)

\* active_model_connection; without an able chat model it is the deployment's.
ReadConnection(own) ==
    LET seen == EnsureRows(rows)
        able == Able(seen, Chat)
    IN
    /\ gateway.phase = "none"
    /\ own \in Chosen(seen, Chat, None)
    /\ gateway' = [phase |-> "one", own |-> own, connections |-> {},
                   models |-> IF able = {} THEN Seeds ELSE able]
    /\ UNCHANGED <<rows, request, raced>>

\* Fault: only the default is among the connections.
ReadDefaultConnection ==
    /\ gateway.phase = "one"
    /\ gateway' = [gateway EXCEPT !.phase = "two",
                                  !.connections = Flagged(EnsureRows(rows), Chat)]
    /\ UNCHANGED <<rows, request, raced>>

\* active_model_connections; without an enabled row every name of the
\* deployment's stands for its one connection.
ReadConnections ==
    LET seen == EnsureRows(rows)
        enabled == {n \in Models : seen[n].enabled}
    IN
    /\ gateway.phase = "one"
    /\ gateway' = [gateway EXCEPT !.phase = "two",
                       !.connections = IF enabled = {} THEN Seeds ELSE enabled]
    /\ UNCHANGED <<rows, request, raced>>

\* The request it was made for is over.
Discard ==
    /\ gateway.phase = "two"
    /\ gateway' = NoGateway
    /\ UNCHANGED <<rows, request, raced>>

-----------------------------------------------------------------------------

Administer(r) ==
    \/ Read(r)
    \/ \E n \in Models, row \in Row : Create(r, n, row) \/ Update(r, n, row)
    \/ \E n \in Models, c \in Capabilities : SetDefault(r, n, c)
    \/ \E n \in Models : Remove(r, n)
    \/ Seed(r)
    \/ Drop(r)

Serve ==
    \/ \E own \in Models \cup {None} : ReadConnection(own)
    \/ ReadConnections
    \/ Discard

CatalogNext == (\E r \in Requests : Administer(r)) \/ Serve

CatalogSpec == CatalogInit /\ [][CatalogNext]_catalogVars

-----------------------------------------------------------------------------
(* Properties.                                                             *)

\* A capability that some model has has one default, which has it and is
\* enabled; only a request that overlapped another can leave it otherwise, and
\* the next request that normalises it alone repairs it.
DefaultsAgree ==
    \A c \in Capabilities \ raced :
        IF Able(rows, c) = {} THEN Flagged(rows, c) = {}
        ELSE \E n \in Able(rows, c) : Flagged(rows, c) = {n}

\* for_model finds a connection for every model that a connection of the
\* catalog lists, unless an administrator's commit came between the two
\* readings: a model would then be asked of another model's address.
ModelsHaveConnections ==
    gateway.phase = "two" /\ gateway.own # None
        => gateway.models \subseteq gateway.connections

\* A request that nobody overlapped has read the catalog of now, and what any
\* request has read is still there unless it counts as lost.
ReadingsHold == \A r \in Requests : request[r].phase = "read" =>
    /\ request[r].fresh => request[r].read = rows /\ request[r].lost = {}
    /\ Names(request[r].read) \ request[r].lost \subseteq Names(rows)

\* Between its two readings a gateway knows the able models of the catalog of now.
GatewayIsCurrent ==
    gateway.phase = "one" /\ gateway.own # None
        => gateway.models = Able(EnsureRows(rows), Chat)

\* The catalog and what is read of it are consistent.
CatalogInv ==
    /\ CatalogTypeOK
    /\ DefaultsAgree
    /\ ModelsHaveConnections
    /\ ReadingsHold
    /\ GatewayIsCurrent

\* A model that comes or goes moves the default of a capability only to itself:
\* a default that is still able stays or gives way to the new model, requests
\* that overlapped aside.
DefaultsOutliveOthers ==
    [][Names(rows) # Names(rows') =>
       \A c \in Capabilities \ (raced \cup raced') : \A n \in Able(rows', c) :
            Flagged(rows, c) = {n} =>
                Flagged(rows', c) \subseteq {n} \cup (Names(rows') \ Names(rows))]_catalogVars
=============================================================================
