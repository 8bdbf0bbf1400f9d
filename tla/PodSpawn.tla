------------------------------ MODULE PodSpawn ------------------------------
(***************************************************************************)
(* api_pods_spawn of agentbbs-web: look the idempotency key up in the pod  *)
(* list, release the list, start the pod (through the gateway or with a    *)
(* local id), append a record.  Requests run concurrently, clients retry,  *)
(* and the gateway may have started a pod whose answer never arrives.      *)
(***************************************************************************)
EXTENDS Integers, Sequences, FiniteSets

CONSTANTS
    Requests,  \* requests that pass require_admin_action and validate
    KeyOf,     \* request -> its idempotency key, NoKey when it has none
    NoKey

Keys == {KeyOf[r] : r \in Requests}

VARIABLES
    live,      \* is the pods gateway configured?
    pods,      \* AppState.pods: [id, key], in order of arrival
    started,   \* how many pods the gateway has started
    stage,     \* request -> where it is in api_pods_spawn
    newId,     \* request -> the id it will record
    answer,    \* request -> the id answered, 0 for none, -1 for 502
    promised   \* history: request -> the id first recorded for its key when
               \* the request arrived, 0 when there was no record

spawnVars == <<live, pods, started, stage, newId, answer, promised>>

\* A pod id: the gateway's are 1, 2, ...; the local pod-{n:04} is n + 1.
Ids == 1 .. Cardinality(Requests)

SpawnTypeOK ==
    /\ live \in BOOLEAN
    /\ pods \in Seq([id : Ids, key : Keys])
    /\ started \in 0 .. Cardinality(Requests)
    /\ stage \in [Requests -> {"new", "arrived", "start", "record", "done"}]
    /\ newId \in [Requests -> Ids \cup {0}]
    /\ answer \in [Requests -> Ids \cup {0, -1}]
    /\ promised \in [Requests -> Ids \cup {0}]

SpawnInit ==
    /\ live \in BOOLEAN
    /\ pods = <<>>
    /\ started = 0
    /\ stage = [r \in Requests |-> "new"]
    /\ newId = [r \in Requests |-> 0]
    /\ answer = [r \in Requests |-> 0]
    /\ promised = [r \in Requests |-> 0]

\* The places in the list of the records with key k.
WithKey(k) == {i \in DOMAIN pods : k # NoKey /\ pods[i].key = k}

\* pods.iter().find(...), when there is such a record.
Found(k) == pods[CHOOSE i \in WithKey(k) : \A j \in WithKey(k) : i <= j]

\* The client sends the request.
Arrive(r) ==
    /\ stage[r] = "new"
    /\ stage' = [stage EXCEPT ![r] = "arrived"]
    /\ promised' = [promised EXCEPT ![r] =
                      IF WithKey(KeyOf[r]) = {} THEN 0 ELSE Found(KeyOf[r]).id]
    /\ UNCHANGED <<live, pods, started, newId, answer>>

\* The idempotency check, under the list's mutex.
CheckKey(r) ==
    LET recorded == WithKey(KeyOf[r]) # {} IN
    /\ stage[r] = "arrived"
    /\ stage' = [stage EXCEPT ![r] = IF recorded THEN "done" ELSE "start"]
    /\ answer' = [answer EXCEPT ![r] = IF recorded THEN Found(KeyOf[r]).id ELSE 0]
    /\ UNCHANGED <<live, pods, started, newId, promised>>

\* spawn_via_gateway succeeds.  The request does not carry the key.
GatewayStarts(r) ==
    /\ live /\ stage[r] = "start"
    /\ started' = started + 1
    /\ newId' = [newId EXCEPT ![r] = started + 1]
    /\ stage' = [stage EXCEPT ![r] = "record"]
    /\ UNCHANGED <<live, pods, answer, promised>>

\* spawn_via_gateway fails, before or after the gateway started the pod.
GatewayFails(r) ==
    /\ live /\ stage[r] = "start"
    /\ started' \in {started, started + 1}
    /\ answer' = [answer EXCEPT ![r] = -1]
    /\ stage' = [stage EXCEPT ![r] = "done"]
    /\ UNCHANGED <<live, pods, newId, promised>>

\* No gateway: an id from the length of the list.
LocalId(r) ==
    /\ ~live /\ stage[r] = "start"
    /\ newId' = [newId EXCEPT ![r] = Len(pods) + 1]
    /\ stage' = [stage EXCEPT ![r] = "record"]
    /\ UNCHANGED <<live, pods, started, answer, promised>>

Record(r) ==
    /\ stage[r] = "record"
    /\ pods' = Append(pods, [id |-> newId[r], key |-> KeyOf[r]])
    /\ answer' = [answer EXCEPT ![r] = newId[r]]
    /\ newId' = [newId EXCEPT ![r] = 0]
    /\ stage' = [stage EXCEPT ![r] = "done"]
    /\ UNCHANGED <<live, started, promised>>

SpawnNext ==
    \E r \in Requests :
        \/ Arrive(r) \/ CheckKey(r) \/ GatewayStarts(r) \/ GatewayFails(r)
        \/ LocalId(r) \/ Record(r)

SpawnSpec == SpawnInit /\ [][SpawnNext]_spawnVars

-----------------------------------------------------------------------------

\* A spawn is idempotent on its idempotency_key (lib.rs:1818): the requests of
\* one key that are answered with a pod are answered with the same pod.
SpawnIdempotent ==
    \A q, r \in Requests :
        (KeyOf[q] = KeyOf[r] /\ KeyOf[q] # NoKey /\ answer[q] > 0 /\ answer[r] > 0)
            => answer[q] = answer[r]

\* What is left of that when requests race (the list is released between the
\* look-up, lib.rs:1837, and the record, lib.rs:1870): a request that arrives
\* when its key is on record is answered with the pod recorded first.
LaterRequestsAgree ==
    \A r \in Requests : (promised[r] # 0 /\ stage[r] = "done") => answer[r] = promised[r]
=============================================================================
