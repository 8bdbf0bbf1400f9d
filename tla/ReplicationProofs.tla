------------------------- MODULE ReplicationProofs -------------------------
(***************************************************************************)
(* Theorems about Replication, for any nodes, messages, foreign envelopes  *)
(* and limits: every message a node holds was posted in the group or came  *)
(* in an envelope that verified as a whole, digests stay honest however    *)
(* old they are, and gossip withholds nothing and forgets nothing.         *)
(***************************************************************************)
EXTENDS Replication, FiniteSetTheorems, TLAPS

\* The messages a node may hold.
Good ==
  posted \cup UNION {{e.msgs[i] : i \in DOMAIN e.msgs} :
                       e \in {f \in Foreign : f.sealed
                         /\ \A i \in DOMAIN f.msgs : f.msgs[i] \in Msgs}}

\* An envelope sealed in the group: good messages, one of them in a message.
OwnEnvelope(e) ==
  /\ e.msgs \in Seq(Good)
  /\ e.kind = "message" => Len(e.msgs) = 1

\* What lies in the stores and on its way to them is good.
Sound ==
  /\ log \in [Nodes -> Seq(Good)]
  /\ todo \in [Nodes -> Seq(Good)]
  /\ delta \in [Nodes -> Seq(Good)]
  /\ \A e \in net \ Foreign : OwnEnvelope(e)

Inv == TypeOK /\ Sound

----------------------------------------------------------------------------
(* Sequences *)

\* The parts of a nonempty sequence.
LEMMA HeadTail ==
  ASSUME NEW S, NEW s \in Seq(S), s # <<>>
  PROVE  Head(s) \in S /\ Tail(s) \in Seq(S)
  OBVIOUS

\* Sequences over a larger set.
LEMMA Wider ==
  ASSUME NEW S, NEW T, S \subseteq T
  PROVE  Seq(S) \subseteq Seq(T)
<1> SUFFICES ASSUME NEW s \in Seq(S) PROVE s \in Seq(T)
    OBVIOUS
<1>1. Len(s) \in Nat /\ s \in [1 .. Len(s) -> T]
    OBVIOUS
<1> QED
    BY <1>1

\* list_messages returns messages of the log.
LEMMA WindowType ==
  ASSUME NEW S, NEW n \in Nodes, log[n] \in Seq(S)
  PROVE  Window(n) \in Seq(S)
<1> DEFINE len == Len(log[n])
           start == IF len > Limit THEN len - Limit + 1 ELSE 1
<1>1. len \in Nat /\ Limit \in Nat
    BY ReplicationAssumption
<1>2. start \in Nat /\ start >= 1
    BY <1>1
<1>3. Window(n) = SubSeq(log[n], start, len)
    BY DEF Window
<1> HIDE DEF start
<1>4. SubSeq(log[n], start, len) \in Seq(S)
    BY <1>1, <1>2
<1> QED
    BY <1>3, <1>4

\* What a filter keeps of a sequence is a sequence over the same set.
LEMMA InOrderType ==
  ASSUME NEW S, NEW s \in Seq(S), NEW K \in SUBSET DOMAIN s, NEW q \in InOrder(K)
  PROVE  [i \in DOMAIN q |-> s[q[i]]] \in Seq(S)
<1>1. DOMAIN s = 1 .. Len(s) /\ Len(s) \in Nat
    OBVIOUS
<1>2. IsFiniteSet(1 .. Len(s))
    BY <1>1, FS_Interval
<1>3. IsFiniteSet(K)
    BY <1>1, <1>2, FS_Subset
<1>4. Cardinality(K) \in Nat
    BY <1>3, FS_CardinalityType
<1>5. q \in [1 .. Cardinality(K) -> K]
    BY DEF InOrder
<1>6. ASSUME NEW i \in 1 .. Cardinality(K)
      PROVE  s[q[i]] \in S
    BY <1>1, <1>5
<1>7. [i \in DOMAIN q |-> s[q[i]]] \in [1 .. Cardinality(K) -> S]
    BY <1>5, <1>6
<1> QED
    BY <1>4, <1>7

----------------------------------------------------------------------------
(* The store *)

\* What may be held verified.
LEMMA GoodVerified == TypeOK => Good \subseteq Msgs
  BY DEF Good, TypeOK

\* As long as nothing is posted, what is good stays the same.
LEMMA GoodStays == UNCHANGED posted => Good' = Good
  BY DEF Good

\* put_message of a good message.
LEMMA PutInv ==
  ASSUME NEW n \in Nodes, NEW G, NEW m \in G, log \in [Nodes -> Seq(G)], PutMessage(n, m)
  PROVE  log' \in [Nodes -> Seq(G)]
<1>1. CASE m \in Held(n)
    BY <1>1 DEF PutMessage
<1>2. CASE m \notin Held(n)
  <2>1. log' = [log EXCEPT ![n] = Append(log[n], m)]
      BY <1>2 DEF PutMessage
  <2>2. Append(log[n], m) \in Seq(G)
      OBVIOUS
  <2> QED
      BY <2>1, <2>2
<1> QED
    BY <1>1, <1>2

\* What an accepted envelope carries is good.
LEMMA AcceptedGood ==
  ASSUME Inv, NEW e \in net, Accepts(e)
  PROVE  e.msgs \in Seq(Good) /\ (e.kind = "message" => e.msgs[1] \in Good)
<1>1. e \in Envelopes
    BY DEF Inv, TypeOK
<1>2. CASE e \notin Foreign
  <2>1. OwnEnvelope(e)
      BY <1>2 DEF Inv, Sound
  <2>2. ASSUME e.kind = "message"
        PROVE  e.msgs[1] \in Good
      BY <2>1, <2>2 DEF OwnEnvelope
  <2> QED
      BY <2>1, <2>2 DEF OwnEnvelope
<1>3. CASE e \in Foreign
  <2>1. e.msgs \in Seq(Msgs \cup Forged)
      BY <1>1 DEF Envelopes
  <2>2. ASSUME NEW i \in DOMAIN e.msgs
        PROVE  e.msgs[i] \in Good
      BY <1>3 DEF Good, Accepts
  <2>3. e.msgs \in Seq(Good)
    <3>1. e.msgs \in [1 .. Len(e.msgs) -> Good] /\ Len(e.msgs) \in Nat
        BY <2>1, <2>2
    <3> QED
        BY <3>1
  <2>4. ASSUME e.kind = "message"
        PROVE  e.msgs[1] \in Good
      BY <1>3, <2>3, <2>4, ReplicationAssumption
  <2> QED
      BY <2>3, <2>4
<1> QED
    BY <1>2, <1>3

----------------------------------------------------------------------------
(* Steps *)

\* Empty stores and the foreign envelopes are in order.
LEMMA InvInit == Init => Inv
<1> SUFFICES ASSUME Init PROVE Inv
    OBVIOUS
<1>1. TypeOK
    BY ReplicationAssumption DEF Init, TypeOK, Metas
<1>2. Sound
    BY DEF Init, Sound
<1> QED
    BY <1>1, <1>2 DEF Inv

\* The types of the variables that no property speaks about.
OtherTypes ==
  /\ board \in [Nodes -> Metas]
  /\ snap \in [Nodes -> Metas]
  /\ digest \in [Nodes -> SUBSET Msgs]
  /\ digested \in [Nodes -> BOOLEAN]
  /\ lastRev \in 0 .. MaxRev

\* The invariant from its parts: what is good also verified.
LEMMA Assemble ==
  ASSUME posted \subseteq Msgs, OtherTypes, net \subseteq Envelopes, Sound
  PROVE  Inv
<1>1. Good \subseteq Msgs
    BY DEF Good
<1>2. Seq(Good) \subseteq Seq(Msgs)
    BY <1>1, Wider
<1>3. /\ log \in [Nodes -> Seq(Msgs)] /\ todo \in [Nodes -> Seq(Msgs)]
      /\ delta \in [Nodes -> Seq(Msgs)]
    BY <1>2 DEF Sound
<1>4. TypeOK
    BY <1>3 DEF TypeOK, OtherTypes
<1> QED
    BY <1>4 DEF Inv

\* A step that leaves the network and the posts alone.
LEMMA LocalInv ==
  ASSUME Inv, UNCHANGED <<net, posted>>, OtherTypes',
         log' \in [Nodes -> Seq(Good)], todo' \in [Nodes -> Seq(Good)],
         delta' \in [Nodes -> Seq(Good)]
  PROVE  Inv'
<1>1. Good' = Good
    BY GoodStays
<1>2. Sound'
    BY <1>1 DEF Inv, Sound, OwnEnvelope
<1>3. posted' \subseteq Msgs /\ net' \subseteq Envelopes
    BY DEF Inv, TypeOK
<1>4. (posted \subseteq Msgs /\ OtherTypes /\ net \subseteq Envelopes /\ Sound => Inv)'
    BY Assemble, PTL
<1> QED
    BY <1>2, <1>3, <1>4

\* A step that seals an envelope of the group.
LEMMA SealInv ==
  ASSUME Inv, UNCHANGED <<log, todo, posted>>, OtherTypes', delta' \in [Nodes -> Seq(Good)],
         NEW e \in Envelopes, OwnEnvelope(e), net' = net \cup {e}
  PROVE  Inv'
<1>1. Good' = Good
    BY GoodStays
<1>2. Sound'
    BY <1>1 DEF Inv, Sound, OwnEnvelope
<1>3. posted' \subseteq Msgs /\ net' \subseteq Envelopes
    BY DEF Inv, TypeOK
<1>4. (posted \subseteq Msgs /\ OtherTypes /\ net \subseteq Envelopes /\ Sound => Inv)'
    BY Assemble, PTL
<1> QED
    BY <1>2, <1>3, <1>4

\* An envelope around one good message.
LEMMA MessageEnvelope ==
  ASSUME TypeOK, NEW m \in Good
  PROVE  LET e == [sealed |-> TRUE, kind |-> "message", board |-> NoBoard, msgs |-> <<m>>]
         IN  e \in Envelopes /\ OwnEnvelope(e)
<1>1. m \in Msgs
    BY GoodVerified
<1> QED
    BY <1>1 DEF Envelopes, OwnEnvelope, Metas, NoBoard

\* Metadata that leaves a node is metadata.
LEMMA EgressType ==
  ASSUME NEW b \in Metas, b # NoBoard
  PROVE  EgressBoard(b) \in Metas
<1>1. b \in [rev : 1 .. MaxRev, desc : {"raw", "redacted"}]
    BY DEF Metas
<1> DEFINE o == [description |-> b.desc]
<1>2. StripPii(o).description \in {b.desc, "redacted"}
    BY DEF StripPii
<1> HIDE DEF o
<1>3. EgressBoard(b) \in [rev : 1 .. MaxRev, desc : {"raw", "redacted"}]
    BY <1>1, <1>2 DEF EgressBoard, o
<1> QED
    BY <1>3 DEF Metas

\* A post: what is good grows by the posted message.
LEMMA PostInv ==
  ASSUME Inv, NEW n \in Nodes, NEW m \in Msgs, Post(n, m)
  PROVE  Inv'
<1>1. /\ PutMessage(n, m) /\ posted' = posted \cup {m}
      /\ UNCHANGED <<board, net, snap, todo, gossip, lastRev>>
    BY DEF Post
<1>2. Good \subseteq Good' /\ m \in Good'
    BY <1>1 DEF Good
<1>3. Seq(Good) \subseteq Seq(Good')
    BY <1>2, Wider
<1>4. /\ log \in [Nodes -> Seq(Good')] /\ todo' \in [Nodes -> Seq(Good')]
      /\ delta' \in [Nodes -> Seq(Good')]
    BY <1>1, <1>3 DEF Inv, Sound, gossip
<1>5. log' \in [Nodes -> Seq(Good')]
    BY <1>1, <1>2, <1>4, PutInv
<1>6. \A e \in net' \ Foreign : OwnEnvelope(e)'
    BY <1>1, <1>3 DEF Inv, Sound, OwnEnvelope
<1>7. Sound'
    BY <1>4, <1>5, <1>6 DEF Sound
<1>8. posted' \subseteq Msgs /\ net' \subseteq Envelopes /\ OtherTypes'
    BY <1>1 DEF Inv, TypeOK, OtherTypes, gossip
<1>9. (posted \subseteq Msgs /\ OtherTypes /\ net \subseteq Envelopes /\ Sound => Inv)'
    BY Assemble, PTL
<1> QED
    BY <1>7, <1>8, <1>9

\* The home node writes a revision of the metadata.
LEMMA EditBoardInv ==
  ASSUME Inv, EditBoard
  PROVE  Inv'
<1> DEFINE b == [rev |-> lastRev + 1,
                 desc |-> IF board[Home] = NoBoard THEN "raw" ELSE board[Home].desc]
<1>1. /\ lastRev < MaxRev /\ lastRev' = lastRev + 1 /\ board' = [board EXCEPT ![Home] = b]
      /\ UNCHANGED <<log, net, snap, todo, gossip, posted>>
    BY DEF EditBoard, PutBoard
<1>2. lastRev \in 0 .. MaxRev /\ MaxRev \in Nat /\ Home \in Nodes /\ board[Home] \in Metas
    BY ReplicationAssumption DEF Inv, TypeOK
<1>3. lastRev + 1 \in 1 .. MaxRev /\ lastRev' \in 0 .. MaxRev
    BY <1>1, <1>2
<1>4. b.desc \in {"raw", "redacted"}
    BY <1>2 DEF Metas
<1>5. b \in Metas
    BY <1>3, <1>4 DEF Metas
<1> HIDE DEF b
<1>6. OtherTypes'
    BY <1>1, <1>3, <1>5 DEF Inv, TypeOK, OtherTypes, gossip
<1> QED
    BY <1>1, <1>6, LocalInv DEF Inv, Sound, gossip

\* replicate_message seals a message the node holds.
LEMMA ReplicateMessageInv ==
  ASSUME Inv, NEW n \in Nodes, NEW m \in Msgs, ReplicateMessage(n, m)
  PROVE  Inv'
<1> DEFINE e == [sealed |-> TRUE, kind |-> "message", board |-> NoBoard, msgs |-> <<m>>]
<1>1. /\ m \in Held(n) /\ net' = net \cup {e}
      /\ UNCHANGED <<stores, snap, todo, gossip, lastRev, posted>>
    BY DEF ReplicateMessage
<1>2. log[n] \in Seq(Good)
    BY DEF Inv, Sound
<1>3. m \in Good
    BY <1>1, <1>2 DEF Held
<1>4. e \in Envelopes /\ OwnEnvelope(e)
    BY <1>3, MessageEnvelope DEF Inv
<1> HIDE DEF e
<1>5. OtherTypes' /\ delta' \in [Nodes -> Seq(Good)]
    BY <1>1 DEF Inv, TypeOK, Sound, OtherTypes, gossip, stores
<1> QED
    BY <1>1, <1>4, <1>5, SealInv DEF stores

\* Steps that seal metadata.
LEMMA BoardEnvelope ==
  ASSUME TypeOK, NEW b \in Metas, b # NoBoard, NEW k \in {"board", "snapshot"},
         NEW s \in Seq(Good)
  PROVE  LET e == [sealed |-> TRUE, kind |-> k, board |-> EgressBoard(b), msgs |-> s]
         IN  e \in Envelopes /\ OwnEnvelope(e)
<1>1. s \in Seq(Msgs \cup Forged)
    BY GoodVerified, Wider
<1>2. EgressBoard(b) \in Metas
    BY EgressType
<1> QED
    BY <1>1, <1>2 DEF Envelopes, OwnEnvelope

\* announce_board seals the metadata.
LEMMA AnnounceBoardInv ==
  ASSUME Inv, NEW n \in Nodes, AnnounceBoard(n)
  PROVE  Inv'
<1> DEFINE e == [sealed |-> TRUE, kind |-> "board", board |-> EgressBoard(board[n]),
                 msgs |-> <<>>]
<1>1. /\ board[n] # NoBoard /\ net' = net \cup {e}
      /\ UNCHANGED <<stores, snap, todo, gossip, lastRev, posted>>
    BY DEF AnnounceBoard
<1>2. board[n] \in Metas /\ <<>> \in Seq(Good)
    BY DEF Inv, TypeOK
<1>3. e \in Envelopes /\ OwnEnvelope(e)
    BY <1>1, <1>2, BoardEnvelope DEF Inv
<1> HIDE DEF e
<1>4. OtherTypes' /\ delta' \in [Nodes -> Seq(Good)]
    BY <1>1 DEF Inv, TypeOK, Sound, OtherTypes, gossip, stores
<1> QED
    BY <1>1, <1>3, <1>4, SealInv DEF stores

\* make_snapshot reads the metadata.
LEMMA SnapshotBoardInv ==
  ASSUME Inv, NEW n \in Nodes, SnapshotBoard(n)
  PROVE  Inv'
<1>1. /\ snap' = [snap EXCEPT ![n] = board[n]]
      /\ UNCHANGED <<stores, net, todo, gossip, lastRev, posted>>
    BY DEF SnapshotBoard
<1>2. OtherTypes'
    BY <1>1 DEF Inv, TypeOK, OtherTypes, gossip, stores
<1> QED
    BY <1>1, <1>2, LocalInv DEF Inv, Sound, gossip, stores

\* make_snapshot seals it with the newest messages.
LEMMA SnapshotSealInv ==
  ASSUME Inv, NEW n \in Nodes, SnapshotSeal(n)
  PROVE  Inv'
<1> DEFINE e == [sealed |-> TRUE, kind |-> "snapshot", board |-> EgressBoard(snap[n]),
                 msgs |-> Window(n)]
<1>1. /\ snap[n] # NoBoard /\ net' = net \cup {e}
      /\ snap' = [snap EXCEPT ![n] = NoBoard]
      /\ UNCHANGED <<stores, todo, gossip, lastRev, posted>>
    BY DEF SnapshotSeal
<1>2. snap[n] \in Metas /\ log[n] \in Seq(Good)
    BY DEF Inv, TypeOK, Sound
<1>3. Window(n) \in Seq(Good)
    BY <1>2, WindowType
<1>4. e \in Envelopes /\ OwnEnvelope(e)
    BY <1>1, <1>2, <1>3, BoardEnvelope DEF Inv
<1> HIDE DEF e
<1>5. OtherTypes' /\ delta' \in [Nodes -> Seq(Good)]
    BY <1>1 DEF Inv, TypeOK, Sound, OtherTypes, gossip, stores, Metas
<1> QED
    BY <1>1, <1>4, <1>5, SealInv DEF stores

\* ingest of a message stores it only if its envelope verified.
LEMMA IngestMessageInv ==
  ASSUME Inv, NEW n \in Nodes, NEW e \in net, IngestMessage(n, e)
  PROVE  Inv'
<1>1. /\ e.kind = "message" /\ Accepts(e) /\ PutMessage(n, e.msgs[1])
      /\ UNCHANGED <<board, net, snap, todo, gossip, lastRev, posted>>
    BY DEF IngestMessage
<1>2. e.msgs[1] \in Good
    BY <1>1, AcceptedGood
<1>3. log' \in [Nodes -> Seq(Good)]
    BY <1>1, <1>2, PutInv DEF Inv, Sound
<1>4. OtherTypes'
    BY <1>1 DEF Inv, TypeOK, OtherTypes, gossip
<1> QED
    BY <1>1, <1>3, <1>4, LocalInv DEF Inv, Sound, gossip

\* ingest of an announcement overwrites the metadata.
LEMMA IngestBoardInv ==
  ASSUME Inv, NEW n \in Nodes, NEW e \in net, IngestBoard(n, e)
  PROVE  Inv'
<1>1. /\ board' = [board EXCEPT ![n] = e.board]
      /\ UNCHANGED <<log, net, snap, todo, gossip, lastRev, posted>>
    BY DEF IngestBoard, PutBoard
<1>2. e.board \in Metas
    BY DEF Inv, TypeOK, Envelopes
<1>3. OtherTypes'
    BY <1>1, <1>2 DEF Inv, TypeOK, OtherTypes, gossip
<1> QED
    BY <1>1, <1>3, LocalInv DEF Inv, Sound, gossip

\* ingest of a snapshot verifies every message before it stores one.
LEMMA IngestSnapshotInv ==
  ASSUME Inv, NEW n \in Nodes, NEW e \in net, IngestSnapshot(n, e)
  PROVE  Inv'
<1>1. /\ Accepts(e) /\ board' = [board EXCEPT ![n] = e.board]
      /\ todo' = [todo EXCEPT ![n] = e.msgs]
      /\ UNCHANGED <<log, net, snap, gossip, lastRev, posted>>
    BY DEF IngestSnapshot, PutBoard
<1>2. e.board \in Metas /\ e.msgs \in Seq(Good)
    BY <1>1, AcceptedGood DEF Inv, TypeOK, Envelopes
<1>3. OtherTypes'
    BY <1>1, <1>2 DEF Inv, TypeOK, OtherTypes, gossip
<1> QED
    BY <1>1, <1>2, <1>3, LocalInv DEF Inv, Sound, gossip

\* One message of a snapshot is stored.
LEMMA SnapshotPutInv ==
  ASSUME Inv, NEW n \in Nodes, SnapshotPut(n)
  PROVE  Inv'
<1>1. /\ todo[n] # <<>> /\ PutMessage(n, Head(todo[n]))
      /\ todo' = [todo EXCEPT ![n] = Tail(todo[n])]
      /\ UNCHANGED <<board, net, snap, gossip, lastRev, posted>>
    BY DEF SnapshotPut
<1>2. Head(todo[n]) \in Good /\ Tail(todo[n]) \in Seq(Good)
    BY <1>1, HeadTail DEF Inv, Sound
<1>3. log' \in [Nodes -> Seq(Good)]
    BY <1>1, <1>2, PutInv DEF Inv, Sound
<1>4. OtherTypes'
    BY <1>1 DEF Inv, TypeOK, OtherTypes, gossip
<1> QED
    BY <1>1, <1>2, <1>3, <1>4, LocalInv DEF Inv, Sound, gossip

\* The rest of a snapshot is given up.
LEMMA SnapshotFailsInv ==
  ASSUME Inv, NEW n \in Nodes, SnapshotFails(n)
  PROVE  Inv'
<1>1. /\ todo' = [todo EXCEPT ![n] = <<>>]
      /\ UNCHANGED <<stores, net, snap, gossip, lastRev, posted>>
    BY DEF SnapshotFails
<1>2. OtherTypes'
    BY <1>1 DEF Inv, TypeOK, OtherTypes, gossip, stores
<1> QED
    BY <1>1, <1>2, LocalInv DEF Inv, Sound, gossip, stores

\* make_digest lists ids of held messages.
LEMMA MakeDigestInv ==
  ASSUME Inv, NEW n \in Nodes, MakeDigest(n)
  PROVE  Inv'
<1> DEFINE d == {Window(n)[i] : i \in DOMAIN Window(n)}
<1>1. /\ digest' = [digest EXCEPT ![n] = d]
      /\ digested' = [digested EXCEPT ![n] = TRUE]
      /\ UNCHANGED <<stores, net, snap, todo, delta, lastRev, posted>>
    BY DEF MakeDigest
<1>2. Window(n) \in Seq(Msgs)
    BY WindowType DEF Inv, TypeOK
<1>3. d \subseteq Msgs
    BY <1>2
<1> HIDE DEF d
<1>4. OtherTypes'
    BY <1>1, <1>3 DEF Inv, TypeOK, OtherTypes, stores
<1> QED
    BY <1>1, <1>4, LocalInv DEF Inv, Sound, stores

\* reconcile returns held messages.
LEMMA ReconcileInv ==
  ASSUME Inv, NEW n \in Nodes, NEW p \in Nodes, Reconcile(n, p)
  PROVE  Inv'
<1> DEFINE K == {i \in DOMAIN Window(n) : Window(n)[i] \notin digest[p]}
<1>1. PICK q \in InOrder(K) :
         delta' = [delta EXCEPT ![n] = [i \in DOMAIN q |-> Window(n)[q[i]]]]
    BY DEF Reconcile
<1>2. UNCHANGED <<stores, net, snap, todo, digest, digested, lastRev, posted>>
    BY DEF Reconcile
<1>3. Window(n) \in Seq(Good)
    BY WindowType DEF Inv, Sound
<1>4. [i \in DOMAIN q |-> Window(n)[q[i]]] \in Seq(Good)
    BY <1>3, InOrderType
<1>5. delta' \in [Nodes -> Seq(Good)]
    BY <1>1, <1>4 DEF Inv, Sound
<1>6. OtherTypes'
    BY <1>2 DEF Inv, TypeOK, OtherTypes, stores
<1> QED
    BY <1>2, <1>5, <1>6, LocalInv DEF Inv, Sound, stores

\* What reconcile returned is replicated.
LEMMA ReplicateDeltaInv ==
  ASSUME Inv, NEW n \in Nodes, ReplicateDelta(n)
  PROVE  Inv'
<1> DEFINE e == [sealed |-> TRUE, kind |-> "message", board |-> NoBoard,
                 msgs |-> <<Head(delta[n])>>]
<1>1. /\ delta[n] # <<>> /\ net' = net \cup {e}
      /\ delta' = [delta EXCEPT ![n] = Tail(delta[n])]
      /\ UNCHANGED <<stores, snap, todo, digest, digested, lastRev, posted>>
    BY DEF ReplicateDelta
<1>2. Head(delta[n]) \in Good /\ Tail(delta[n]) \in Seq(Good)
    BY <1>1, HeadTail DEF Inv, Sound
<1>3. e \in Envelopes /\ OwnEnvelope(e)
    BY <1>2, MessageEnvelope DEF Inv
<1> HIDE DEF e
<1>4. OtherTypes' /\ delta' \in [Nodes -> Seq(Good)]
    BY <1>1, <1>2 DEF Inv, TypeOK, Sound, OtherTypes, stores
<1> QED
    BY <1>1, <1>3, <1>4, SealInv DEF stores

\* Every step keeps the invariant.
LEMMA InvStep == Inv /\ [Next]_vars => Inv'
<1> SUFFICES ASSUME Inv, [Next]_vars PROVE Inv'
    OBVIOUS
<1>1. CASE UNCHANGED vars
  <2>1. OtherTypes'
      BY <1>1 DEF Inv, TypeOK, OtherTypes, vars
  <2> QED
      BY <1>1, <2>1, LocalInv DEF Inv, Sound, vars
<1>2. CASE EditBoard
    BY <1>2, EditBoardInv
<1>3. ASSUME NEW n \in Nodes, NEW m \in Msgs, Post(n, m) PROVE Inv'
    BY <1>3, PostInv
<1>4. ASSUME NEW n \in Nodes, Egress(n) PROVE Inv'
    BY <1>4, ReplicateMessageInv, AnnounceBoardInv, SnapshotBoardInv, SnapshotSealInv DEF Egress
<1>5. ASSUME NEW n \in Nodes, Ingest(n) PROVE Inv'
    BY <1>5, IngestMessageInv, IngestBoardInv, IngestSnapshotInv, SnapshotPutInv,
       SnapshotFailsInv DEF Ingest
<1>6. ASSUME NEW n \in Nodes, AntiEntropy(n) PROVE Inv'
    BY <1>6, MakeDigestInv, ReplicateDeltaInv, ReconcileInv DEF AntiEntropy
<1> QED
    BY <1>1, <1>2, <1>3, <1>4, <1>5, <1>6 DEF Next

----------------------------------------------------------------------------
(* Theorems *)

\* The invariant holds in every reachable state.
THEOREM ReplicaInOrder == Spec => []Inv
<1> QED
    BY InvInit, InvStep, PTL DEF Spec

\* ingest fails closed: what a node stores, and what it passes on, was posted
\* in the group or came in an envelope of which every message verified.
THEOREM FailsClosed == Spec => []NothingFromRejected
<1>1. Inv => NothingFromRejected
  <2> SUFFICES ASSUME Inv, NEW n \in Nodes PROVE Held(n) \subseteq Good
      BY DEF NothingFromRejected, Good
  <2>1. log[n] \in Seq(Good)
      BY DEF Inv, Sound
  <2> QED
      BY <2>1 DEF Held
<1> QED
    BY <1>1, ReplicaInOrder, PTL

----------------------------------------------------------------------------
(* What gossip relies on to converge *)

\* A replicate_message envelope of m, which every node accepts.
Carries(e, m) == e.kind = "message" /\ Accepts(e) /\ e.msgs = <<m>>

\* No ingest, no half-stored snapshot and no gossip takes a message away from a
\* node or moves it, and no sealed envelope is taken back.
LogsOnlyGrow ==
  [][/\ \A n \in Nodes : /\ Len(log[n]) <= Len(log'[n])
                         /\ \A i \in DOMAIN log[n] : log'[n][i] = log[n][i]
     /\ net \subseteq net']_vars

\* reconcile, even against a stale digest, withholds nothing: what the node would
\* list and the peer does not hold is in the delta.  What is in a delta stays
\* there until it is sealed for the peers.
NothingWithheld ==
  [][/\ \A n, p \in Nodes : Reconcile(n, p) =>
          \A i \in DOMAIN Window(n) :
             \/ Window(n)[i] \in Held(p)
             \/ \E k \in DOMAIN delta'[n] : delta'[n][k] = Window(n)[i]
     /\ \A n \in Nodes : \A k \in DOMAIN delta[n] :
          \/ \E j \in DOMAIN delta'[n] : delta'[n][j] = delta[n][k]
          \/ \E e \in net' : Carries(e, delta[n][k])]_vars

\* put_message leaves what is stored in its place.
LEMMA PutGrows ==
  ASSUME Inv, NEW n \in Nodes, NEW m, PutMessage(n, m)
  PROVE  \A p \in Nodes : /\ Len(log[p]) <= Len(log'[p])
                          /\ \A i \in DOMAIN log[p] : log'[p][i] = log[p][i]
<1> SUFFICES ASSUME NEW p \in Nodes
             PROVE  /\ Len(log[p]) <= Len(log'[p])
                    /\ \A i \in DOMAIN log[p] : log'[p][i] = log[p][i]
    OBVIOUS
<1>0. log[p] \in Seq(Msgs)
    BY DEF Inv, TypeOK
<1>1. CASE log'[p] = log[p]
    BY <1>0, <1>1
<1>2. CASE log'[p] = Append(log[p], m)
    BY <1>0, <1>2
<1>3. log'[p] = log[p] \/ log'[p] = Append(log[p], m)
    BY DEF PutMessage, Inv, TypeOK
<1> QED
    BY <1>1, <1>2, <1>3

\* Every step leaves what is stored in its place.
LEMMA StepGrows ==
  ASSUME Inv, Next
  PROVE  /\ \A p \in Nodes : /\ Len(log[p]) <= Len(log'[p])
                             /\ \A i \in DOMAIN log[p] : log'[p][i] = log[p][i]
         /\ net \subseteq net'
<1>1. net \subseteq net'
    BY DEF Next, EditBoard, Post, Egress, Ingest, AntiEntropy, ReplicateMessage,
       AnnounceBoard, SnapshotBoard, SnapshotSeal, IngestMessage, IngestBoard,
       IngestSnapshot, SnapshotPut, SnapshotFails, MakeDigest, Reconcile, ReplicateDelta
<1>2. log' = log \/ \E n \in Nodes : \E m : PutMessage(n, m)
    BY DEF Next, EditBoard, Post, Egress, Ingest, AntiEntropy, ReplicateMessage,
       AnnounceBoard, SnapshotBoard, SnapshotSeal, IngestMessage, IngestBoard,
       IngestSnapshot, SnapshotPut, SnapshotFails, MakeDigest, Reconcile,
       ReplicateDelta, stores
<1>3. CASE log' = log
  <2>1. \A p \in Nodes : log[p] \in Seq(Msgs) /\ log'[p] = log[p]
      BY <1>3 DEF Inv, TypeOK
  <2> QED
      BY <1>1, <2>1
<1> QED
    BY <1>1, <1>2, <1>3, PutGrows

\* So a node holds what it held.
LEMMA HeldGrows ==
  ASSUME Inv, Next, NEW p \in Nodes
  PROVE  Held(p) \subseteq Held(p)'
<1>1. log[p] \in Seq(Msgs) /\ log'[p] \in Seq(Msgs)
    BY InvStep DEF Inv, TypeOK
<1>2. /\ Len(log[p]) <= Len(log'[p])
      /\ \A i \in DOMAIN log[p] : log'[p][i] = log[p][i]
    BY StepGrows
<1>3. \A i \in DOMAIN log[p] : i \in DOMAIN log'[p]
    BY <1>1, <1>2
<1> QED
    BY <1>2, <1>3 DEF Held

\* What list_messages returns is held.
LEMMA WindowHeld ==
  ASSUME Inv, NEW n \in Nodes
  PROVE  \A i \in DOMAIN Window(n) : Window(n)[i] \in Held(n)
<1> DEFINE len == Len(log[n])
           start == IF len > Limit THEN len - Limit + 1 ELSE 1
<1>0. log[n] \in Seq(Msgs)
    BY DEF Inv, TypeOK
<1>1. len \in Nat /\ Limit \in Nat
    BY <1>0, ReplicationAssumption
<1>2. start \in Nat /\ start >= 1
    BY <1>1
<1>3. Window(n) = SubSeq(log[n], start, len)
    BY DEF Window
<1> HIDE DEF start
<1>4. ASSUME NEW i \in DOMAIN SubSeq(log[n], start, len)
      PROVE  \E j \in DOMAIN log[n] : SubSeq(log[n], start, len)[i] = log[n][j]
  <2>1. i \in 1 .. (len - start + 1)
      BY <1>0, <1>1, <1>2
  <2>2. SubSeq(log[n], start, len)[i] = log[n][start + i - 1]
      BY <1>0, <1>1, <1>2, <2>1
  <2>3. start + i - 1 \in DOMAIN log[n]
      BY <1>0, <1>1, <1>2, <2>1
  <2> QED
      BY <2>2, <2>3
<1> QED
    BY <1>3, <1>4 DEF Held

\* A digest keeps being honest: its node holds ever more.
LEMMA HonestStep == Inv /\ HonestDigests /\ [Next]_vars => HonestDigests'
<1> SUFFICES ASSUME Inv, HonestDigests, [Next]_vars PROVE HonestDigests'
    OBVIOUS
<1>1. CASE UNCHANGED vars
    BY <1>1 DEF vars, HonestDigests, Held
<1>2. CASE Next
  <2>1. CASE digest' = digest
      BY <1>2, <2>1, HeldGrows DEF HonestDigests
  <2>2. ASSUME NEW n \in Nodes, MakeDigest(n) PROVE HonestDigests'
    <3> DEFINE d == {Window(n)[i] : i \in DOMAIN Window(n)}
    <3>1. digest' = [digest EXCEPT ![n] = d] /\ log' = log
        BY <2>2 DEF MakeDigest, stores
    <3>2. d \subseteq Held(n)
        BY WindowHeld
    <3> HIDE DEF d
    <3>3. \A p \in Nodes : Held(p)' = Held(p)
        BY <3>1 DEF Held
    <3>4. digest'[n] = d /\ \A p \in Nodes \ {n} : digest'[p] = digest[p]
        BY <3>1 DEF Inv, TypeOK
    <3> QED
        BY <3>2, <3>3, <3>4 DEF HonestDigests
  <2>3. digest' = digest \/ \E n \in Nodes : MakeDigest(n)
      BY <1>2 DEF Next, EditBoard, Post, Egress, Ingest, AntiEntropy, ReplicateMessage,
         AnnounceBoard, SnapshotBoard, SnapshotSeal, IngestMessage, IngestBoard,
         IngestSnapshot, SnapshotPut, SnapshotFails, Reconcile, ReplicateDelta, gossip
  <2> QED
      BY <2>1, <2>2, <2>3
<1> QED
    BY <1>1, <1>2

\* An enumeration in order leaves nothing out.
LEMMA InOrderAll ==
  ASSUME NEW k \in Nat, NEW K \in SUBSET (1 .. k), NEW q \in InOrder(K)
  PROVE  \A x \in K : \E i \in DOMAIN q : q[i] = x
<1>1. IsFiniteSet(1 .. k)
    BY FS_Interval
<1>2. IsFiniteSet(K)
    BY <1>1, FS_Subset
<1> DEFINE c == Cardinality(K)
<1>3. c \in Nat
    BY <1>2, FS_CardinalityType
<1>4. q \in [1 .. c -> K] /\ \A i, j \in 1 .. c : i < j => q[i] < q[j]
    BY DEF InOrder
<1> HIDE DEF c
<1>5. ASSUME NEW i \in 1 .. c, NEW j \in 1 .. c, q[i] = q[j]
      PROVE  i = j
  <2>0. q[i] \in 1 .. k
    <3>1. q[i] \in K
        BY <1>4
    <3>2. K \subseteq 1 .. k
        OBVIOUS
    <3> QED
        BY <3>1, <3>2, Zenon
  <2>1. q[i] \in Int
      BY <2>0
  <2>2. ~(i < j) /\ ~(j < i)
      BY <1>4, <1>5, <2>1
  <2> QED
      BY <1>3, <2>2
<1>6. q \in Injection(1 .. c, K)
    BY <1>4, <1>5 DEF Injection, IsInjective
<1>7. Cardinality(1 .. c) = c
    BY <1>3, FS_Interval
<1>8. q \in Surjection(1 .. c, K)
    BY <1>2, <1>6, <1>7, FS_Injection DEF c
<1> QED
    BY <1>4, <1>8 DEF Surjection

\* reconcile returns every message of the window that the digest lacks.
LEMMA DeltaComplete ==
  ASSUME Inv, HonestDigests, NEW n \in Nodes, NEW p \in Nodes, Reconcile(n, p)
  PROVE  \A i \in DOMAIN Window(n) :
            \/ Window(n)[i] \in Held(p)
            \/ \E k \in DOMAIN delta'[n] : delta'[n][k] = Window(n)[i]
<1> DEFINE K == {i \in DOMAIN Window(n) : Window(n)[i] \notin digest[p]}
<1>1. PICK q \in InOrder(K) :
         delta' = [delta EXCEPT ![n] = [i \in DOMAIN q |-> Window(n)[q[i]]]]
    BY DEF Reconcile
<1>2. delta'[n] = [i \in DOMAIN q |-> Window(n)[q[i]]]
    BY <1>1 DEF Inv, TypeOK
<1>3. Window(n) \in Seq(Msgs)
    BY WindowType DEF Inv, TypeOK
<1>4. DOMAIN Window(n) = 1 .. Len(Window(n)) /\ Len(Window(n)) \in Nat
    BY <1>3
<1> SUFFICES ASSUME NEW i \in DOMAIN Window(n), Window(n)[i] \notin Held(p)
             PROVE  \E k \in DOMAIN delta'[n] : delta'[n][k] = Window(n)[i]
    OBVIOUS
<1>5. i \in K
    BY DEF HonestDigests
<1> DEFINE l == Len(Window(n))
<1>6. K \in SUBSET (1 .. l) /\ l \in Nat /\ q \in InOrder(K)
    BY <1>4
<1> HIDE DEF K, l
<1>a. \A x \in K : \E k \in DOMAIN q : q[k] = x
    BY ONLY <1>6, InOrderAll
<1>7. PICK k \in DOMAIN q : q[k] = i
    BY ONLY <1>5, <1>a
<1> QED
    BY <1>2, <1>7

\* A delta loses a message only to the network.
LEMMA DeltaKept ==
  ASSUME Inv, Next, NEW n \in Nodes, NEW k \in DOMAIN delta[n]
  PROVE  \/ \E j \in DOMAIN delta'[n] : delta'[n][j] = delta[n][k]
         \/ \E e \in net' : Carries(e, delta[n][k])
<1>0. delta[n] \in Seq(Msgs) /\ delta \in [Nodes -> Seq(Msgs)]
    BY DEF Inv, TypeOK
<1>1. CASE delta'[n] = delta[n]
    BY <1>1
<1>2. CASE ReplicateDelta(n)
  <2> DEFINE e == [sealed |-> TRUE, kind |-> "message", board |-> NoBoard,
                   msgs |-> <<Head(delta[n])>>]
  <2>1. /\ e \in net' /\ delta[n] # <<>> /\ delta'[n] = Tail(delta[n])
      BY <1>0, <1>2 DEF ReplicateDelta
  <2>2. CASE k = 1
    <3>1. Head(delta[n]) = delta[n][k] /\ Head(delta[n]) \in Msgs
        BY <1>0, <2>1, <2>2
    <3>2. Carries(e, delta[n][k])
        BY <3>1 DEF Carries, Accepts
    <3> QED
        BY <2>1, <3>2
  <2>3. CASE k # 1
    <3>1. k \in 1 .. Len(delta[n]) /\ Len(delta[n]) \in Nat
        BY <1>0
    <3>2. /\ k - 1 \in DOMAIN Tail(delta[n])
          /\ Tail(delta[n])[k - 1] = delta[n][k]
        BY <1>0, <2>1, <2>3, <3>1
    <3> QED
        BY <2>1, <3>2
  <2> QED
      BY <2>2, <2>3
<1>3. delta'[n] = delta[n] \/ ReplicateDelta(n)
  <2>1. ASSUME NEW m \in Nodes, ReplicateDelta(m) PROVE delta'[n] = delta[n] \/ m = n
      BY <1>0, <2>1 DEF ReplicateDelta
  <2>2. ASSUME NEW m \in Nodes, NEW p \in Nodes, Reconcile(m, p)
        PROVE  delta'[n] = delta[n]
    <3>1. delta[m] = <<>> /\ \A x \in Nodes \ {m} : delta'[x] = delta[x]
        BY <1>0, <2>2 DEF Reconcile
    <3>2. n # m
        BY <3>1
    <3> QED
        BY <3>1, <3>2
  <2>3. \/ delta' = delta
        \/ \E m \in Nodes : ReplicateDelta(m) \/ \E p \in Nodes : Reconcile(m, p)
      BY DEF Next, EditBoard, Post, Egress, Ingest, AntiEntropy, ReplicateMessage,
         AnnounceBoard, SnapshotBoard, SnapshotSeal, IngestMessage, IngestBoard,
         IngestSnapshot, SnapshotPut, SnapshotFails, MakeDigest, gossip
  <2> QED
      BY <2>1, <2>2, <2>3
<1> QED
    BY <1>1, <1>2, <1>3

\* What a node holds it holds for good and in its place, whatever arrives, is
\* replayed or stops half-way.
THEOREM NothingForgotten == Spec => LogsOnlyGrow
<1>1. Inv /\ [Next]_vars =>
        [/\ \A n \in Nodes : /\ Len(log[n]) <= Len(log'[n])
                             /\ \A i \in DOMAIN log[n] : log'[n][i] = log[n][i]
         /\ net \subseteq net']_vars
    BY StepGrows
<1> QED
    BY <1>1, ReplicaInOrder, PTL DEF Spec, LogsOnlyGrow

\* A peer that answers an old digest is never told that a node holds what it
\* does not (make_digest): the half of Converges that digests owe.
THEOREM DigestsHonest == Spec => []HonestDigests
<1>1. Init => HonestDigests
    BY DEF Init, HonestDigests
<1> QED
    BY <1>1, ReplicaInOrder, HonestStep, PTL DEF Spec

\* And the half that reconcile owes: every message of its window that the peer
\* lacks is in the delta, and leaves the delta only as an envelope that verifies.
THEOREM GossipComplete == Spec => NothingWithheld
<1>1. Inv /\ HonestDigests /\ [Next]_vars =>
        [/\ \A n, p \in Nodes : Reconcile(n, p) =>
              \A i \in DOMAIN Window(n) :
                 \/ Window(n)[i] \in Held(p)
                 \/ \E k \in DOMAIN delta'[n] : delta'[n][k] = Window(n)[i]
         /\ \A n \in Nodes : \A k \in DOMAIN delta[n] :
              \/ \E j \in DOMAIN delta'[n] : delta'[n][j] = delta[n][k]
              \/ \E e \in net' : Carries(e, delta[n][k])]_vars
  <2> SUFFICES ASSUME Inv, HonestDigests, Next
               PROVE  /\ \A n, p \in Nodes : Reconcile(n, p) =>
                           \A i \in DOMAIN Window(n) :
                              \/ Window(n)[i] \in Held(p)
                              \/ \E k \in DOMAIN delta'[n] : delta'[n][k] = Window(n)[i]
                      /\ \A n \in Nodes : \A k \in DOMAIN delta[n] :
                           \/ \E j \in DOMAIN delta'[n] : delta'[n][j] = delta[n][k]
                           \/ \E e \in net' : Carries(e, delta[n][k])
      OBVIOUS
  <2>1. ASSUME NEW n \in Nodes, NEW p \in Nodes, Reconcile(n, p)
        PROVE  \A i \in DOMAIN Window(n) :
                  \/ Window(n)[i] \in Held(p)
                  \/ \E k \in DOMAIN delta'[n] : delta'[n][k] = Window(n)[i]
      BY <2>1, DeltaComplete
  <2>2. ASSUME NEW n \in Nodes, NEW k \in DOMAIN delta[n]
        PROVE  \/ \E j \in DOMAIN delta'[n] : delta'[n][j] = delta[n][k]
               \/ \E e \in net' : Carries(e, delta[n][k])
      BY <2>2, DeltaKept
  <2> QED
      BY <2>1, <2>2
<1> QED
    BY <1>1, ReplicaInOrder, DigestsHonest, PTL DEF Spec, NothingWithheld
============================================================================
