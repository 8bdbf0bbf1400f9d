---------------------------- MODULE Replication ----------------------------
(***************************************************************************)
(* The data plane of the federation (agentbbs-federation): several nodes   *)
(* replicate one board.  Sealed envelopes are never consumed, so each one  *)
(* may be applied in any order, any number of times, or never: the network *)
(* delays, reorders, duplicates and loses.  Envelopes sealed by nodes      *)
(* outside the group are there from the start.                             *)
(*                                                                         *)
(* Each node has a Store (module Store): put_message is atomic and         *)
(* idempotent and list_messages returns the newest `limit` messages.       *)
(***************************************************************************)
EXTENDS Integers, Sequences, FiniteSets, Iteration

CONSTANTS
    Nodes,
    Home,          \* the node whose sysop administers the board
    Msgs,          \* messages whose author signature verifies
    Forged,        \* messages whose author signature does not verify
    Foreign,       \* envelopes sealed elsewhere
    Limit,         \* the `limit` of digests, reconciliations and snapshots
    MaxRev,        \* bound: revisions of the board's metadata
    MaxSnapshots   \* bound: snapshots sealed in the group

NoBoard == [rev |-> 0, desc |-> "none"]
Metas == {NoBoard} \cup [rev : 1 .. MaxRev, desc : {"raw", "redacted"}]

Envelopes ==
    [sealed : BOOLEAN, kind : {"message", "board", "snapshot"},
     board : Metas, msgs : Seq(Msgs \cup Forged)]

ASSUME ReplicationAssumption ==
    /\ Home \in Nodes
    /\ Msgs \cap Forged = {}
    /\ Foreign \subseteq Envelopes
    /\ \A e \in Foreign : e.kind = "message" => Len(e.msgs) = 1
    /\ Limit \in Nat
    /\ MaxRev \in Nat
    /\ MaxSnapshots \in Nat

VARIABLES
    log,       \* node -> the board's messages in its store, oldest first
    board,     \* node -> the board's metadata in its store
    net,       \* every envelope sealed so far
    snap,      \* node -> metadata make_snapshot has read, NoBoard if none
    todo,      \* node -> messages of a snapshot still to be stored
    digest,    \* node -> the ids in its last digest
    digested,  \* node -> has it sealed a digest?
    delta,     \* node -> what reconcile returned, still to be replicated
    lastRev,   \* the newest revision written at home
    posted     \* history: messages posted at a node of the group

vars == <<log, board, net, snap, todo, digest, digested, delta, lastRev,
          posted>>

stores == <<log, board>>
gossip == <<digest, digested, delta>>

Held(n) == {log[n][i] : i \in DOMAIN log[n]}

TypeOK ==
    /\ log \in [Nodes -> Seq(Msgs)]
    /\ board \in [Nodes -> Metas]
    /\ net \subseteq Envelopes
    /\ snap \in [Nodes -> Metas]
    /\ todo \in [Nodes -> Seq(Msgs)]
    /\ digest \in [Nodes -> SUBSET Msgs]
    /\ digested \in [Nodes -> BOOLEAN]
    /\ delta \in [Nodes -> Seq(Msgs)]
    /\ lastRev \in 0 .. MaxRev
    /\ posted \subseteq Msgs

Init ==
    /\ log = [n \in Nodes |-> <<>>]
    /\ board = [n \in Nodes |-> NoBoard]
    /\ net = Foreign
    /\ snap = [n \in Nodes |-> NoBoard]
    /\ todo = [n \in Nodes |-> <<>>]
    /\ digest = [n \in Nodes |-> {}]
    /\ digested = [n \in Nodes |-> FALSE]
    /\ delta = [n \in Nodes |-> <<>>]
    /\ lastRev = 0
    /\ posted = {}

-----------------------------------------------------------------------------
(* The store, and what verification accepts.                               *)

\* Store::put_message.
PutMessage(n, m) ==
    log' = IF m \in Held(n) THEN log ELSE [log EXCEPT ![n] = Append(@, m)]

\* Store::put_board: overwrite.
PutBoard(n, b) == board' = [board EXCEPT ![n] = b]

\* Store::list_messages(board, Limit): the newest, oldest first.
Window(n) ==
    SubSeq(log[n], IF Len(log[n]) > Limit THEN Len(log[n]) - Limit + 1 ELSE 1,
           Len(log[n]))

\* FederationEnvelope::open, then Message::verify of every message carried.
\* An envelope that fails either is reported and changes nothing.
Accepts(e) == e.sealed /\ \A i \in DOMAIN e.msgs : e.msgs[i] \in Msgs

\* The substrings that make a key sensitive, and those that occur in the key
\* sealed here ("descr-ip-tion").
Sensitive == {"email", "ip", "host", "token", "secret", "key", "phone"}
NeedlesIn == [description |-> {"ip"}]
IsSensitive(k) == NeedlesIn[k] \cap Sensitive # {}

\* strip_pii of an object of strings.
StripPii(obj) == [k \in DOMAIN obj |-> IF IsSensitive(k) THEN "redacted" ELSE obj[k]]

\* The copy of the metadata that is sealed for egress.
EgressBoard(b) == [b EXCEPT !.desc = StripPii([description |-> b.desc]).description]

-----------------------------------------------------------------------------
(* What users of a node do.                                                *)

\* A verified post is stored by the node's Bbs.
Post(n, m) ==
    /\ board[n] # NoBoard
    /\ m \notin Held(n)
    /\ PutMessage(n, m)
    /\ posted' = posted \cup {m}
    /\ UNCHANGED <<board, net, snap, todo, gossip, lastRev>>

\* create_board, and later set_locked, at the board's home.
EditBoard ==
    /\ lastRev < MaxRev
    /\ lastRev' = lastRev + 1
    /\ PutBoard(Home, [rev |-> lastRev + 1,
                       desc |-> IF board[Home] = NoBoard THEN "raw"
                                ELSE board[Home].desc])
    /\ UNCHANGED <<log, net, snap, todo, gossip, posted>>

-----------------------------------------------------------------------------
(* Egress.                                                                 *)

\* replicate_message.
ReplicateMessage(n, m) ==
    /\ m \in Held(n)
    /\ net' = net \cup {[sealed |-> TRUE, kind |-> "message",
                         board |-> NoBoard, msgs |-> <<m>>]}
    /\ UNCHANGED <<stores, snap, todo, gossip, lastRev, posted>>

\* announce_board.
AnnounceBoard(n) ==
    /\ board[n] # NoBoard
    /\ net' = net \cup {[sealed |-> TRUE, kind |-> "board",
                         board |-> EgressBoard(board[n]), msgs |-> <<>>]}
    /\ UNCHANGED <<stores, snap, todo, gossip, lastRev, posted>>

Snapshots == {e \in net \ Foreign : e.kind = "snapshot"}

\* make_snapshot, get_board: an error for an unknown board.
SnapshotBoard(n) ==
    /\ board[n] # NoBoard
    /\ snap[n] = NoBoard
    /\ Cardinality(Snapshots) < MaxSnapshots
    /\ snap' = [snap EXCEPT ![n] = board[n]]
    /\ UNCHANGED <<stores, net, todo, gossip, lastRev, posted>>

\* make_snapshot, list_messages and seal.
SnapshotSeal(n) ==
    /\ snap[n] # NoBoard
    /\ Cardinality(Snapshots) < MaxSnapshots
    /\ net' = net \cup {[sealed |-> TRUE, kind |-> "snapshot",
                         board |-> EgressBoard(snap[n]), msgs |-> Window(n)]}
    /\ snap' = [snap EXCEPT ![n] = NoBoard]
    /\ UNCHANGED <<stores, todo, gossip, lastRev, posted>>

-----------------------------------------------------------------------------
(* ingest.                                                                 *)

IngestMessage(n, e) ==
    /\ e \in net
    /\ e.kind = "message"
    /\ Accepts(e)
    /\ PutMessage(n, e.msgs[1])
    /\ UNCHANGED <<board, net, snap, todo, gossip, lastRev, posted>>

IngestBoard(n, e) ==
    /\ e \in net
    /\ e.kind = "board"
    /\ Accepts(e)
    /\ PutBoard(n, e.board)
    /\ UNCHANGED <<log, net, snap, todo, gossip, lastRev, posted>>

\* Fault: messages are verified on the way, as far as the first forged one.
IngestSnapshotStreaming(n, e) ==
    /\ e \in net
    /\ e.kind = "snapshot"
    /\ e.sealed
    /\ todo[n] = <<>>
    /\ PutBoard(n, e.board)
    /\ todo' = [todo EXCEPT ![n] = SelectSeq(e.msgs, LAMBDA m : m \in Msgs)]
    /\ UNCHANGED <<log, net, snap, gossip, lastRev, posted>>

\* Fault: a snapshot replaces what the node holds of the board.
IngestSnapshotReplacing(n, e) ==
    /\ e \in net
    /\ e.kind = "snapshot"
    /\ Accepts(e)
    /\ todo[n] = <<>>
    /\ PutBoard(n, e.board)
    /\ log' = [log EXCEPT ![n] = <<>>]
    /\ todo' = [todo EXCEPT ![n] = e.msgs]
    /\ UNCHANGED <<net, snap, gossip, lastRev, posted>>

\* Every message is verified before the first write.
IngestSnapshot(n, e) ==
    /\ e \in net
    /\ e.kind = "snapshot"
    /\ Accepts(e)
    /\ todo[n] = <<>>
    /\ PutBoard(n, e.board)
    /\ todo' = [todo EXCEPT ![n] = e.msgs]
    /\ UNCHANGED <<log, net, snap, gossip, lastRev, posted>>

\* One put_message of the loop.
SnapshotPut(n) ==
    /\ todo[n] # <<>>
    /\ PutMessage(n, Head(todo[n]))
    /\ todo' = [todo EXCEPT ![n] = Tail(@)]
    /\ UNCHANGED <<board, net, snap, gossip, lastRev, posted>>

\* A storage error, or a crash: the rest of the snapshot is not stored.
SnapshotFails(n) ==
    /\ todo[n] # <<>>
    /\ todo' = [todo EXCEPT ![n] = <<>>]
    /\ UNCHANGED <<stores, net, snap, gossip, lastRev, posted>>

-----------------------------------------------------------------------------
(* Anti-entropy.                                                           *)

\* make_digest; the last one a node sealed is the one its peers see.
MakeDigest(n) ==
    /\ digest' = [digest EXCEPT ![n] = {Window(n)[i] : i \in DOMAIN Window(n)}]
    /\ digested' = [digested EXCEPT ![n] = TRUE]
    /\ UNCHANGED <<stores, net, snap, todo, delta, lastRev, posted>>

\* Fault: what the peer holds is returned instead of what it lacks.
ReconcileHeld(n, p) ==
    /\ p # n
    /\ digested[p]
    /\ delta[n] = <<>>
    /\ \E q \in InOrder({i \in DOMAIN Window(n) : Window(n)[i] \in digest[p]}) :
         delta' = [delta EXCEPT ![n] = [i \in DOMAIN q |-> Window(n)[q[i]]]]
    /\ UNCHANGED <<stores, net, snap, todo, digest, digested, lastRev, posted>>

\* reconcile at n against p's digest.
Reconcile(n, p) ==
    /\ p # n
    /\ digested[p]
    /\ delta[n] = <<>>
    /\ \E q \in InOrder({i \in DOMAIN Window(n) : Window(n)[i] \notin digest[p]}) :
         delta' = [delta EXCEPT ![n] = [i \in DOMAIN q |-> Window(n)[q[i]]]]
    /\ UNCHANGED <<stores, net, snap, todo, digest, digested, lastRev, posted>>

\* The caller of reconcile replicates the next message of the delta.
ReplicateDelta(n) ==
    /\ delta[n] # <<>>
    /\ net' = net \cup {[sealed |-> TRUE, kind |-> "message",
                         board |-> NoBoard, msgs |-> <<Head(delta[n])>>]}
    /\ delta' = [delta EXCEPT ![n] = Tail(@)]
    /\ UNCHANGED <<stores, snap, todo, digest, digested, lastRev, posted>>

-----------------------------------------------------------------------------

Egress(n) ==
    \/ \E m \in Msgs : ReplicateMessage(n, m)
    \/ AnnounceBoard(n) \/ SnapshotBoard(n) \/ SnapshotSeal(n)

Ingest(n) ==
    \/ \E e \in net : IngestMessage(n, e) \/ IngestBoard(n, e) \/ IngestSnapshot(n, e)
    \/ SnapshotPut(n) \/ SnapshotFails(n)

AntiEntropy(n) ==
    MakeDigest(n) \/ ReplicateDelta(n) \/ \E p \in Nodes : Reconcile(n, p)

Next ==
    \/ EditBoard
    \/ \E n \in Nodes : \/ \E m \in Msgs : Post(n, m)
                        \/ Egress(n) \/ Ingest(n) \/ AntiEntropy(n)

Spec == Init /\ [][Next]_vars

\* A gossip driver calls make_digest, reconcile and replicate_message again
\* and again, and what the delta sends arrives.  replicate_message after a
\* post is best effort and has no fairness.
FairSpec ==
    /\ Spec
    /\ \A n \in Nodes :
         /\ WF_vars(MakeDigest(n))
         /\ WF_vars(ReplicateDelta(n))
         /\ \A p \in Nodes : WF_vars(Reconcile(n, p))
         /\ WF_vars(\E e \in net : IngestMessage(n, e))

-----------------------------------------------------------------------------

\* ingest, "fail closed": every stored message was posted in the group or
\* came in an envelope that verified as a whole; nothing of a snapshot with a
\* forged post stays behind.
NothingFromRejected ==
    \A n \in Nodes : Held(n) \subseteq
        posted \cup UNION {{e.msgs[i] : i \in DOMAIN e.msgs} :
                             e \in {f \in Foreign : f.sealed
                               /\ \A i \in DOMAIN f.msgs : f.msgs[i] \in Msgs}}

\* However late a peer answers a digest (make_digest, reconcile), and whatever
\* was replayed, ingested or half stored in the meantime, its node still holds
\* every message the digest lists: what reconcile leaves out is not missing.
HonestDigests == \A n \in Nodes : digest[n] \subseteq Held(n)

\* Gossip brings the nodes to the same messages once nobody posts any more
\* (every message is posted at most once at each node).
Converges == <>[](\A n, p \in Nodes : Held(n) = Held(p))
=============================================================================
